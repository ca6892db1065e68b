# TLA+ verification of the PPSSPP kernel emulation

PPSSPP runs PSP games by emulating the machine's CPU and GPU and by
re-implementing ("HLE") the PSP's operating system in C++. This directory holds
TLA+ models of that re-implemented system: the thread manager and the ready queue
it schedules from, emulated time, the synchronisation objects guest programs block
on, callbacks, interrupts and the graphics command lists; and of two parts of the
emulator's own: the allocator of emulated memory and the pool of host threads. TLC
checks the models on small instances; TLAPS proves the central invariants of the
thread manager, the ready queue, semaphores, event flags, mutexes, emulated time, the
graphics command lists, the block allocator and the pool of host threads for every value
of their constants.

## 1. Inventory

| Part | Source | State | Operations | What makes it correct | Model |
|---|---|---|---|---|---|
| Thread manager | `Core/HLE/sceKernelThread.cpp`, `.h` | status bits, priorities, wait record, wakeup count, joiners, current thread, dispatch flag | create, start, exit, terminate, delete, sleep, wakeup, delay, join, release, suspend, resume, change priority, rotate, dispatch on/off | status and ready queue agree; only a runnable thread runs; no joiner or wakeup is lost | `KernelThread` |
| Ready queue | `Core/HLE/ThreadQueueList.h` | one array deque per priority, a chain of the queues in use | push at both ends, pop best, remove, rotate, grow, save, load | behaves as one sequence per priority; never indexes outside its array | `ThreadQueueList`, `ReadyQueue` |
| Event timing | `Core/CoreTiming.cpp`, `Core/HLE/sceDisplay.cpp` | events sorted by time, the slice, the clock | schedule, unschedule, remove, advance, idle, set frequency | events fire in time order and never early; time moves forward; no slice sleeps past an event | `CoreTiming`, `EventCalendar` |
| Wait helpers | `Core/HLE/KernelWaitHelpers.h` | waiting lists, paused waits | timeout, verify, clean up, pause for a callback, resume after it | a waiter is in the list of what it waits for | `KernelWait`, `KernelCallback` |
| Semaphores | `Core/HLE/sceKernelSemaphore.cpp` | count, maximum, waiting list, paused waits | create, delete, signal, wait, poll, cancel, refer, timeout | no token and no waiter is lost | `KernelSema` |
| Mutexes | `Core/HLE/sceKernelMutex.cpp` | owner, level, waiting list, mutexes held by each thread | create, delete, lock, try, unlock, cancel, thread end, timeout | one live owner; nobody waits for a free mutex | `KernelMutex` |
| Event flags | `Core/HLE/sceKernelEventFlag.cpp` | bit pattern, waiting list with the bits asked for | create, delete, set, clear, wait, poll, cancel, timeout | a satisfied waiter is woken; cleared bits serve one waiter | `KernelEventFlag` |
| Callbacks and MIPS calls | `Core/HLE/sceKernelThread.cpp` | notify counts, pending and running calls, saved states | create, delete, notify, check, call, return | a wait paused for a callback is resumed; one callback at a time | `KernelCallback` |
| Interrupts | `Core/HLE/sceKernelInterrupt.cpp` | enabled flag, pending list, sub interrupt handlers | trigger, suspend, resume, run, return, register, release, enable, disable | pending interrupts run in order, not nested | `Interrupts` |
| Graphics command lists | `GPU/GPUCommon.cpp`, `Core/HLE/sceGe.cpp` | list states, queue, current list, callbacks to come, waiters | enqueue, enqueue at head, dequeue, stall, sync, break, continue, callbacks | a list completes once, and its waiters wake then | `DisplayLists` |
| Block allocator | `Core/Util/BlockAllocator.cpp` | doubly linked list of blocks | allocate (either end, aligned, at an address), free, save, load | blocks tile the range; allocation fails only if nothing fits | `BlockAllocator`, `AddressSpace` |
| Host thread pool | `Common/Thread/ThreadManager.cpp` | global and private task queues, sizes, cancel flags | enqueue, run, sleep, notify, tear down | every task runs once or is released; no worker sleeps on work | `ThreadManager` |
| System call dispatch | `Core/HLE/HLE.cpp` | actions pending after the call | call, finish, split calls | a reschedule asked for is done | in `KernelThread` |
| Message boxes | `Core/HLE/sceKernelMbx.cpp` | list of guest packets, waiting list | send, receive, poll, cancel | a message reaches one receiver | |
| Message pipes | `Core/HLE/sceKernelMsgPipe.cpp` | byte buffer, sending and receiving lists | send, receive, try, cancel | bytes are neither lost nor reordered | |
| Memory pools | `Core/HLE/sceKernelMemory.cpp` | block maps, waiting lists | allocate, free, wait, cancel | a block has one holder | its blocks: `BlockAllocator` |
| Alarms, virtual timers | `Core/HLE/sceKernelAlarm.cpp`, `sceKernelVTimer.cpp` | schedules, handlers | set, cancel, trigger | a handler runs at most once per schedule | |
| Asynchronous I/O | `Core/HW/AsyncIOManager.cpp` | pending and finished operations | schedule, process, wait | a result is delivered once | |

Interaction. Guest code runs on one host thread. A system call executes to its
end; if it asked for a reschedule (`hleReSchedule`) the dispatcher calls
`__KernelReSchedule()` when the call is done. That function runs every due timer
(`CoreTiming::Advance()`) before it picks the next thread, and timer handlers
reschedule too, so kernel code is re-entered at this one point. Objects keep
lists of waiting thread ids and do not remove an id when the wait ends by a
timeout, a release or the death of the thread: the id is left to be filtered out
later by `VerifyWait()`. The wait record of a thread is cleared only when the
thread is switched in. Most of what is hard in this code follows from these three
facts.

The hazards these facts create, with their lines and the properties aimed at them,
are listed in `PROJECT.json`.

## 2. Modules

| Module | Models | Builds on |
|---|---|---|
| `UidList` | lists of thread ids and what the kernel does to them | |
| `KernelThread` | thread manager, its ready queue as one list per priority, its waits and timers | `UidList` |
| `ReadyQueue` | abstract specification of the ready queue | `UidList` |
| `ThreadQueueList` | the ready queue as arrays and a chain; implements `ReadyQueue` | `UidList` |
| `Removal` | taking elements out of a list | |
| `EventCalendar` | abstract specification of scheduled events | `Removal` |
| `CoreTiming` | emulated time; implements `EventCalendar` | `Removal` |
| `KernelWait` | waiting lists of kernel objects | `KernelThread` |
| `KernelSema`, `KernelMutex`, `KernelEventFlag` | the objects, their waiters and timeouts, composed with the thread manager | `KernelWait` |
| `KernelCallback` | callbacks, paused waits, nested calls, composed with threads and semaphores | `KernelSema` |
| `Interrupts` | the interrupt manager, as operators on a record | `Removal` |
| `DisplayLists` | graphics command lists, their calls, interrupts and waiters | `Interrupts`, `UidList` |
| `AddressSpace` | abstract specification of an allocator | |
| `BlockAllocator` | the linked list of blocks; implements `AddressSpace` | |
| `ThreadManager` | the pool of host threads | |
| `ThreadQueueListProofs`, `ThreadManagerProofs` | theorems | the module each is named after |
| `KernelThreadProofs` | theorems on the thread manager; lemmas on `KernelWait` and on what an object may do to its waiters | `KernelThread`, `KernelWait` |
| `UidListProofs` | lemmas on lists of ids, on least elements, quotients and remainders | `UidList` |
| `KernelObjectProofs` | theorems on the semaphores, the event flags and the mutexes | `KernelSema`, `KernelEventFlag`, `KernelMutex`, `KernelThreadProofs` |
| `DisplayListProofs` | theorems on the graphics command lists | `DisplayLists`, `UidListProofs` |
| `CoreTimingProofs` | theorems on emulated time, and that its list implements `EventCalendar` | `CoreTiming`, `UidListProofs` |
| `BlockAllocatorProofs` | theorems on the allocator, and that it implements `AddressSpace` | `BlockAllocator`, `UidListProofs` |
| `MC...` | model values and small definitions for TLC | the module each is named after |

The C++ of the kernel runs on one host thread, so its models are written in one
style: the state is a record, each function of the source an operator of the same
name from records to records, and a handler reads as the composition of its calls.
There is one action per system call and per event handler. Only `ThreadManager` has
true host concurrency, and there an action is the stretch between two points where
another thread can come in.

### KernelThread

The kernel state is one record `k`.

* `k.st[t]` is `nt.status` as a set of bits; `{"DEAD"}` is an id without an object.
* `k.wait[t]` is `nt.waitType`, `nt.waitID` and `waitInfo`; it is kept when a wait
  ends and cleared by `KernelSwitchContext`, as in the code.
* `k.ret[t]` is what the last resume left in the saved `v0`. It is reset when the
  thread is switched in, which only merges states that behave the same.
* `k.timer[type][t]` counts the pending CoreTiming events of one type with the
  thread as user data. Times are abstracted: any pending event may fire whenever
  `Advance()` runs, in any order.
* `k.frames` is the part of the host's stack that matters: the calls of
  `__KernelReSchedule()` that are still inside `Advance()`. Timer handlers are
  enabled at any time, system calls only when the stack is empty, and
  `KernelReSchedule` pops one entry. This gives every nesting of handlers.
* `Guest` is the set of system calls the guest program uses. It focuses a run, and
  it lets the theorems say which programs they are about. `OnlyRunning` names the calls
  it makes only while its thread is RUNNING with dispatch enabled (none in most runs).

Simplifications, all of them visible in the guards: only successful calls are
actions (a refused call changes nothing); a destroyed id may be used again; guest
software is new enough for the checks that depend on the SDK version; interrupts
are enabled and no interrupt handler runs; thread start and exit arguments, stack
memory, thread event handlers and logging are left out.

### ThreadQueueList and ReadyQueue

`list` holds the 128 queues (`NUM_QUEUES`) with `next`, `first`, `end`,
`capacity` and the cells in use, and the head of the chain. A pointer to a queue is
its priority. `inside` records whether the last call stayed within its arrays, with
the cells that `memmove()` and `realloc()` touch included. Callers prepare a
priority before they push to it or remove from it, as the thread manager does when
it creates a thread or changes its priority. `DoState` is a save followed by a load
into a fresh list. `ReadyQueue` says what the thread manager relies on: one list
per priority, of which the best nonempty one is served. `KernelThread` works on
exactly these lists.

### CoreTiming and EventCalendar

`queue` is the list that starts at `first`; `globalTimer`, `slicelength`, `downcount`
and the clock's base are the variables of the source, and `slicelength` and `downcount`
keep the width of an `int` (`IntLimit`, scaled down), because `Advance()` cuts a
64-bit difference to an `int` before it compares it. `frames` is the host stack of
`Advance()` and of handlers inside it: a handler may schedule, unschedule, use up
cycles and advance again. The two display events are modelled with their handlers,
since they are what keeps the list from being empty and the first event near; all
other events are timers whose handlers do any of these things. `fresh` marks an event
that was scheduled after the slice was cut: scheduling does not shorten the slice, so
such an event may be late, and `NoEventSlept` excepts it. `EventCalendar` says what the rest of the emulator relies on. Save states are not
modelled, and `Idle()` is called with 0 only, as all of its callers do.

### KernelWait and the objects

`KernelWait` holds what the objects share: lists of ids in which the id of a thread
stays after a timeout or a release, the sort of a PRIORITY list, the cleanup that swaps
stale ids to the end, and the timer of a wait. A loop over waiters works on a record of
the kernel, the objects and `wokeThreads`, and is written as the code is: the retry
loop of a signal, the loop after a timeout, the clearing of a list.

* `sema[s]` is `NativeSemaphore`. `__KernelSemaTimeout()` is cut in two where it
  reschedules: `KernelSemaTimeout` pushes a frame that names the semaphore, and
  `KernelSemaTimeoutEnd` ends that reschedule and does the rest. Negative counts and an
  initial count above the maximum are left out.
* `mutex[m]` is `NativeMutex`, and `held[t][m]` counts the entries of the multimap
  `mutexHeldLocks`. The end of a thread (`__KernelMutexThreadEnd`) is part of the
  actions that end a thread, as the code calls it from there. Lightweight mutexes keep
  their state in guest memory and are not modelled.
* `flag[f]` is `NativeEventFlag` with entries of a thread and the bits and mode of its
  wait. A pattern is the set of its bits. Where the pattern is stored for the guest is
  left out.

### KernelCallback

`cb` holds what callbacks add to a thread: its list, pending and running MIPS calls,
and the pauses of its waits; and the globals `readyCallbacksCount`, `g_inCbCount`,
`currentCallbackThreadID` and `threadqueue`. A call remembers the status and the wait
of the thread it was made from and restores them when it returns
(`ActionAfterMipsCall`). The search for callbacks at the start of
`__KernelReSchedule()` is a step of its own before anything else may happen, because it
is the only place between a system call and the timers. A deadline is not a time: when
a paused wait goes on, it may have passed or not. `KernelCallback` covers the pauses of
sleeps, delays, joins and semaphore waits; those of the other objects follow the same
two helpers and are not modelled. `sceKernelCancelCallback()` and MIPS calls that are
not callbacks are not either.

### Interrupts and DisplayLists

`Interrupts` gives the interrupt manager as operators on the field `i` of a record, with
the virtual methods `run()` and `handleResult()` as operator parameters, so that
`DisplayLists` supplies those of the graphics engine. `x` holds the lists (`dls`), the
queue, the current list, the callbacks to come (`ge_pending_cb`) and the threads that
wait. A list is run at once and as far as it goes when it is queued or continued, and
its interrupts are noted for later: `RunLoop` is that run, `GeExecuteInterrupt`,
`GeExecuteSync` and `Vblank` are the events, `ReturnFromInterrupt` is the end of a
guest handler. A program is a sequence of commands: drawing, the signals SUSPEND,
CONTINUE, PAUSE and SYNC, and FINISH. Jumps and calls inside a list, contexts, the
debugger's path and drawing itself are left out. Times are abstracted: noted events may
happen in any order, and `draw` tells `drawCompleteTicks` from the present only by past,
future and never. A list stalls where its position equals the stall address, as the code
compares them: one that `sceGeBreak(0)` has moved past it is not held up. `Orderly` names
what the theorems assume of the guests and their lists.

### BlockAllocator and AddressSpace

The pointers are modelled: `a.blk` is the heap of `Block` objects with `prev` and
`next`, `a.bottom` and `a.top` the ends, and `Walk` a loop along the pointers, which
`FirstIn` leaves at the first block that fits and `Chain` runs to its end. A
deleted block reads as `NoBlock`. Tags are left out. Loading a state gives the blocks
fresh pointers. `AddressSpace` is what a client relies on: a set of held ranges that
never overlap. The two loops of `MergeFreeBlocks()` are `MergeDown` and `MergeUp`, and
`LinkBelow` and `LinkAbove` what follows each. `AllocAligned()` masks with grain - 1, which
rounds only if the grain is a power of two; `sceKernelAllocPartitionMemory()` refuses
others and the heaps use 4. `GrainAssumption` is what matters of that: a grain that is not
smaller than the allocator's is a multiple of it.

### ThreadManager

Each access to an atomic and each section under a mutex is a step; the section of a
worker that decides to sleep is two, the decision and `cond.wait()`, so that a notify
without the mutex may fall between them. A worker in `cond.wait()` goes on when it is
notified; spurious wakeups, after which it looks at its queues once more, are left out
(`CondWait`). The caller in
`EnqueueTask()` is between its scan of the workers and its push when another caller
scans. `Teardown()` cancels, drains and joins. Compute and I/O workers never share a
queue, so one kind is modelled; dedicated threads, `Promise`, `Mailbox`, `Waitable` and
parallel loops are not.

## 3. Runs

| Run | Instance | Shows |
|---|---|---|
| `threads` | 2 threads, 2 priorities, every call (two of them with `OnlyRunning`) | the inductive invariant, joiners, wakeups, timers, the choice of the best thread |
| `queue` | 2 queues, arrays of 4 cells that grow to 8, up to 3 items | free cells, no index outside, the chain, refinement of `ReadyQueue` |
| `sema` | 2 threads, a semaphore of either kind, every call | waiters, tokens, timers, and the thread manager's invariant |
| `sematimeout` | 2 threads, fair timers, suspensions and the dispatch switch | a timed semaphore wait and a delay end |
| `mutex` | 3 threads of 2 priorities, a mutex of either kind, every call of its own, timeouts, thread ends, suspensions | owners, hand over, waiters |
| `flag` | 3 threads of 2 priorities, a flag of 2 bits, three ways to wait, every call | waiters, bits that serve once |
| `callbacks` | 2 threads, a semaphore, a callback, delays, deletion of either object | paused waits go on and can end, one callback at a time, ready queue |
| `timing` | 2 kernel timers, 2 frequencies, handlers nested twice, an `int` of 5 bits | slices, display, clock, refinement of `EventCalendar` |
| `ge` | 2 lists, 2 programs, 1 thread, a sub interrupt, five guests | lists, queue, interrupts and waiters agree |
| `blocks` | 11 bytes, grain 2, up to 5 blocks, requests with two alignments | the list, completeness of the search, refinement of `AddressSpace` |
| `pool` | 2 workers, 3 tasks of 2 priorities, 2 callers, teardown | tasks, sizes, sleepers; every task is handled and the teardown ends |
| `cbtwice` | smallest that fails | the finding below |

An invariant whose name ends in `Inv` is a conjunction of named parts, each stated and
explained where it is defined.

Bounds. Two threads suffice for every race between a waiter and one other thread; three
are used where a third has to be served after another or to keep a woken one from
running. Two priorities give better, equal and worse. Dispatch is
switched off in `threads` and `sematimeout` only, to keep the other instances small; the
theorems (section 4) allow it everywhere. `MaxTimer` bounds pending events
of one type per thread: 1 already gives a stale event next to a new wait. `MaxWakeup`
bounds saved wakeups. In `timing` the delays are one that fits a slice and one that
does not fit the `int`, `Horizon` ends time after a few frames (the run has no deadlock
check for that reason), `MaxDepth` lets a handler advance inside a handler, and `Rebase`
limits the moments of a clock change. In `ge`, `MaxEvents` bounds the interrupts that are
pending when a vertical blank adds its own (a list has one to come at most, so nothing
else can fill the pending list), and the guest is one of the sets of calls in `MCGuests`:
without a bound on what one guest combines the instance is too large. Between them the
guests make every call, `sceGeBreak(1)` with and without a refused
`sceGeListEnQueueHead()`, and move stall addresses and take lists back while a callback is
to come. One program has a SUSPEND, the
other a PAUSE, a SYNC and three FINISHes, so that a list can be paused, broken off before
and after a SYNC, and go on. `OrderlyInstance` checks that the guests and programs of the
run are such as the theorems are about. The flags `RunEarly`,
`BreakPausing` and `ReleaseRunning` of a guest allow what no guest of the run does and
section 6 describes; `OldSdk` is TRUE there, and the run has no deadlock
check because a guest may wait for a list it has left stalled. In `blocks` the range is
not a multiple of the grain, as a pool may be. In `pool` every task is enqueued at most
once, and everything stops after the teardown, so there is no deadlock check either. In
`callbacks` the guests do not end, suspend, sleep or join, so that part of
`KernelCallback` (the pauses of sleeps and joins) is written and not exercised; a
callback is notified again only once it has run, is not checked for inside a callback,
and an id is used again only when nothing refers to it, as the code takes handles in
rotation.

Symmetry is used in runs without liveness properties only; the idle threads are not in
the symmetric set.

Fairness. In `sematimeout`, `KernelReSchedule`, `KernelSemaTimeoutEnd` and every timer
handler are weakly fair: emulated time advances with every slice, `Advance()` fires
whatever is due, and a handler's reschedule returns; guest threads are not fair. In
`pool`, the steps of each worker, of each caller inside `EnqueueTask()` and of the
teardown are weakly fair, as the host schedules its threads, its mutexes are granted
and a task comes to an end; that a caller enqueues or that the teardown starts is not fair.

## 4. Theorems

`KernelThreadProofs` proves `Spec => []Inv` and from it `ReadyQueueExact`,
`OnlyRunnableRuns`, `NeverOutOfThreads` and `TypeOK`, for any sets of threads and
priorities and any bounds. `ReadyQueueExact` alone is not inductive: that removing a
thread from the queue of its current priority really unqueues it needs that it is
queued nowhere else; that a resumed thread is queued once needs that READY excludes
every other bit; and that a reschedule finds a thread needs the idle threads, which
are only ever READY or RUNNING. `Inv` adds these facts, and `PhaseInv`: if the
current thread may not run, a reschedule that will leave it is under way. There is
one lemma per kernel function, then one per action.

The theorems assume `Disciplined`: a guest that switches dispatch off rotates a queue
or returns from a thread only while its thread is RUNNING and dispatch is on again.
Without it `Inv` is false: a second rotation queues the current thread twice (section 6).

From `Inv` alone follows the action property `RescheduleRunsBest`: the queue that
`KernelNextThread()` looks at is exact, so the thread it returns is READY and no READY
thread, and not the current one while it may go on, has a better priority.

The second half of `KernelThreadProofs` proves `NoLostWakeup` and `JoinsAndDelaysCanEnd`. Both are about
the wait record, which is cleared only when a thread is switched in, and so neither
is inductive. `WaitInv` is: a thread that has ended has no other status bit, a sleeper has
no wakeup saved, a joiner is in the list of a thread that has not ended, and a delayed
thread has its event. The proof goes along a relation between two kernel states:
`Quiet` (whoever waits after the step waited before it with the same record and the
same events, nobody has ended in between, no list of joiners has changed) keeps
`WaitInv`, and every function that lets threads go or switches between them is quiet.
Only the four calls that begin a wait, the creation and the end of a thread are not,
and have proofs of their own.

Its end is what the kernel objects need. The sort of a list is a permutation
of it, and the cleanup, which swaps stale ids to the end, keeps every id that is not
stale: both are proved for lists of any length by induction along the rounds of the
loop. An object may let waiters go (`Freed`: the threads that do not wait are left
alone, and nothing else changes but the waits that end), begin a wait of the current
thread (`ObjAsleep`), and be told of a timeout (`ObjTimedOut`, `ObjStale`).

`KernelObjectProofs` proves `SemaInv` and `WaitersListed` together. The inductive invariant
`SemaSound` is `Inv`, `WaitInv` and `SemaRight`: the types, no id twice in a list, every
waiter in the list of a semaphore that exists, every timed wait with its event. None
of these goes alone. A count stays a natural number because a token is taken only for
a thread that `VerifyWait()` accepts and whose request the count covers; a waiter
that is let go no longer waits when its id is erased; the timer that fires finds the
semaphore of its wait only because waiters are listed in semaphores that exist; and
the timer of a thread in a wait is not taken away by another's because an id is only
found stale when its thread does not wait here. Every step of the thread manager is
shown to begin no wait for a semaphore (`Fine`), so the thread manager's calls need no
case of their own.

From `SemaSound` follows the action property `SignalServes`. Each round of the loop of
`sceKernelSignalSema()` drops one id from the list or is the last, so as many rounds as there
are ids are enough, and in the last nobody that is left may go. What is paid is counted
along the way: the count has lost the sum of what the served asked for, each of them once,
because a thread is listed once. That the sum can be taken over the records of the state
before the call needs that the wait record stays with a waiter that is let go, so that
`VerifyWait()` gives the same answers throughout. What `SumFunctionOnSet` adds up is proved by
induction over the size of the set.

It also proves `FlagInv` and `NoSatisfiedWaiter` of the event flags. In `FlagSound` a list has
no thread twice (`Names`), whoever waits for a flag is in its list, the flag exists, no
entry of a thread that waits is met by the pattern (`FlagUnmet`), and a flag that does not
allow several waiters has one. The entry is found by thread and not by wait, so an entry that an
earlier wait left behind would answer for this one; the call that begins a wait erases it
first, and that is why the asked bits in the list are those of the wait. The loop of
`sceKernelSetEventFlag()` keeps that the entries before its index are unmet, for the bits can
only be cleared during the loop (`FlagSetInv`).

From `FlagSound` follows the action property `BitsServeOnce`. It reads off the results who
was served, so nobody may carry an old "ok": `Unspoken` says that neither a thread that
waits (`Unanswered`) nor a current thread that may go on and wait (`AtEase`) has one, and it
is an invariant because every call that begins a wait, and every switch, leaves a result of
its own. Then only a set answers "ok". Along its loop `FlagOnce(x, y, f, w, m)` holds after
`m` entries: those still to come are where they were, whoever was let go had its bits set in
the pattern the call began with, and the bits it clears are clear, so none of them is matched
again.

And it proves `MutexInv`, `WaitsOnlyIfLocked` and the action property
`OnlyOwnerGivesUp`, for an end of a thread that walks its mutexes as they were listed when
the walk began (see section 6). `MutexSound` says of every mutex (`MutexFits`) that its list names nobody
twice, that it is locked exactly when it has an owner, that the owner has not ended and is
the one thread listed in `held`, and that whoever waits is listed while another owns it;
and of every thread (`RecordRight`) that a wait record for a mutex belongs to a thread that
has not ended and names the count it will get. The last part is needed because an unlock
hands the mutex to the first id that passes `VerifyWait()`, and the record passes also after
a timeout or a release: it is cleared when the thread is switched in or ends, so at least the
new owner is alive and its level is positive. That no event is left to tell a new owner that
it has timed out needs that records, results and timers only change together (`Still`), which
every function of the thread manager keeps (`Tidy`, `Steady`). The end of a thread is heard
in the middle of `__KernelStopThread()`: the thread is DORMANT but its record is not cleared
yet. It therefore leaves the list its record names first; otherwise the loop that gives up
its mutexes could hand one of them back to it. That loop runs over the mutexes in any order
(`SetToSeqs`); `GivenUp` says what holds after each round. Its length is the number of
mutexes a thread holds, which is finite since `KernelObjectPool` has 4096 handles
(`PoolAssumption`).

`ThreadManagerProofs` proves `PoolInv` and `SleepersHaveNoWork` for any finite sets of
workers, clients, tasks and priorities. The inductive invariant `PoolIInv` says that each task
is in one place (a queue, the hands of a worker or of a caller, done or released),
that the atomic sizes count exactly what is queued, and, for a worker between its last look
at the queues and its sleep, that a client which has queued a task since then is still
in `choose` or `notify`, so a notification is owed. The worker decides to sleep under
its own mutex and the client must take that mutex to notify: that is why the notification
cannot fall between the two. The sizes are part of the invariant because the
worker reads them, not the queues.

`ThreadQueueListProofs` proves, if `realloc()` works, that every queue keeps a free
cell at both ends, that no call leaves its array, that the chain is ordered, and
that `ThreadQueueList` implements `ReadyQueue` with the items of each array as the
list. `QueueInv` says that an unused queue is all zero, a used one holds its items
in its array with a free cell at both ends, and the chain is complete; each is needed
for another (the walk along the chain only sees linked queues, so the others must be
empty; `remove()` reads one cell past the items).

`CoreTimingProofs` proves all four properties of `timing`. `CoreInv` says that the list is
sorted, that a handler only runs inside `ProcessEvents()`, that `downcount` is at most
`slicelength`, and that where the CPU is about to run every event that is not fresh is
due after the slice (`SliceFits`). The cut of a 64-bit difference to an `int` does not
hurt it: a difference that is not negative is cut to something that is no larger.
`NoEventSlept`, the two action properties on time and idling, and the refinement of
`EventCalendar` follow from `CoreInv` for any delays, slices, frequencies and width of
`int`. For the refinement the list is read as one list per time; an insertion in front of
the first later event is an append to its time, and taking out events by type and user
data commutes with that reading.

`TimingInv` and `TimeAdvances` need two hypotheses more. `WideEnough`: a slice, what a
block may overrun it by, and a frame fit an `int` together. The code's values do:
`MAX_SLICE_LENGTH` is 100 million cycles and a frame under 6 million. `NeverWraps`: no
event is ever 2^31 cycles late, more than six seconds at the highest frequency. Without it
`cyclesLate` wraps and the next vertical blank is scheduled in the past or the future.
`PaceInv` then says that there is one display event, in the list or in the hands of its
handler, that it is on its grid as long as the clock was not rebased, and that it is at most
a frame away. The last part bounds the first event of the list, so the next slice is
positive and ends at it: that is why the display is what keeps the CPU loop going.

`DisplayListProofs` proves `GeInv`, `WaitersHaveWork` and `SuspendWaitsForHandler` for any
lists, threads, sub interrupts, programs and guests that are `Orderly`: no CONTINUE in a
list, no SUSPEND under a new SDK version, and no guest that continues the first list, or
puts another before it, while its interrupt is to come, or that releases the handler that
runs. Each of these breaks an invariant by what section 6 describes. Everything else a
guest may do between a signal and its interrupt is in: `sceGeListUpdateStallAddr()`,
`sceGeListEnQueue()`, `sceGeListDeQueue()`, both modes of `sceGeBreak()`. None of the three
properties is inductive. `GeIInv` is, and its parts hold one another up:

* of the queue only the first list may run or be paused, the others wait for their turn
  (`QueueOK`), and the current list is the first (`CurOK`). So whatever runs is
  the list at the front, and `PopDLQueue()` takes off the list that ran;
* a list has one callback to come at most; while it has, it is marked and has been started,
  and it is paused in the queue, or it has run to its end and left the queue, or it was
  broken off (`PendOK`, `CallbackOK`). This is what keeps a SUSPENDed list behind its
  signal: nothing but the end of its own interrupt, which comes first in its order, makes
  a paused list go on, and `ProcessDLQueue()`, which a moved stall address calls too,
  stops at a paused list. It is also why the entry of a list is not used again too early;
* the callbacks to come, the interrupts noted for later and the pending ones are as many as
  one another, and the pending list begins with the handler that runs (`IntrOK`): the end
  of an interrupt takes the callback that belongs to it;
* a thread that waits for a list waits for one that is busy, and one that waits for drawing
  has its event or drawing that was never ended (`WaitOK`); in that case a list that was
  started is in the queue (`DrawOK`), and the end of that list sets the event, unless all
  lists were broken off;
* a list that is busy is in the queue or has its callback to come, or is one of those that
  `LeftBusy` names (`BusyOK`). The end of an interrupt takes the callback away and must
  leave the list in the queue or let its waiters go; that it does needs that the list whose
  handler runs is queued, complete or forgotten (`HandlerOK`), which the calls made by the
  handler and the other interrupts keep. `Owed` is the relation between two records in
  which nothing of this is lost, and every step but the end of an interrupt is shown to be
  one.

The proofs follow the calls: `RunLoop` is taken along its commands (`Ran`: how far a list
has come and what it leaves behind), `ProcessDLQueue()` along the queue (`QueueAt`), the
pending interrupts along their list, each by induction over a natural number; the calls and
the events are then a step each. `GeTypeOK` holds with the exception it names: a list broken
off after a SYNC may be past its stall address.

`BlockAllocatorProofs` proves all four properties of `blocks` for any range, grain, sizes,
alignments, positions and number of blocks. `BlocksInv` speaks of the list that the walk
along the pointers meets, and a step that changes three pointers says nothing about a walk;
so the inductive invariant `IInv` is local: a block lies in the range and starts at a
multiple of the grain, its neighbours touch it and point back at it, any two blocks are
apart, and of two neighbours one is taken. The grain is part of it because an offset that is
a multiple of the grain is 0 or a whole block, so nothing is lost below an aligned
allocation. A walk along such links passes every block once, by rising or falling addresses
(`WalkLists`), hence both chains and both searches are complete. Every operation is then made
of three changes, `Split`, `Join` and `Flipped`, which keep the tiling and what is held:
an allocation cuts a free block at one or two ends whose outer neighbours are taken, and a
free joins at most one block on each side, because only the freed block may have had a free
neighbour (`MergedBut`). `AddressSpace` follows, as held blocks are apart and therefore have
different ranges. The bound `MaxBlocks` is a constant like the others; the model allocates
only while two objects are unused.

Only model-checked:

- liveness (`TimedSemaWaitEnds`, `DelayEnds`, `EveryTaskHandled`, `TeardownEnds`), which is
  out of the prover's reach;
- the action property `ListSyncMeansDone` of `DisplayLists`, for which what a list has done
  when its FINISH is reached would have to be followed through every command;
- the module `KernelCallback` (`CbInv`, `WaitsCanEnd`), for which no inductive invariant has
  been worked out.

## 5. Finding

`cbtwice`: a callback that is notified again before its first call has run makes a second
call pending. That one has saved the state of a thread that no longer waits. When the
first returns, the wait is resumed and the second is entered at once, with its thread in
WAIT; its return sets the thread READY, and the wait ends without what it waited for. The
comment in `KernelWaitHelpers.h` says that waits are released inside a callback and
resumed once it returns.

## 6. Observed disagreements

What follows was seen while the models were built. The properties of the passing runs
hold in spite of it, or the guests of the runs avoid it.

Threads and waits.
* Rotating the queue of the current thread twice with dispatch suspended queues it twice,
  and the ready queue then lists a thread that is not READY, against the comment at
  `sceKernelThread.cpp:511`. A thread that falls off its end with dispatch suspended goes
  on running, and so does one that returns from a callback into its wait; the guest of
  `callbacks` leaves the dispatch switch alone.
* A released thread that has not run yet passes `VerifyWait()`, against the comment at
  `KernelWaitHelpers.h:266`; its result may be overwritten, and it may be given tokens or
  bits it will not see.
* A timer of a wait that was released or terminated stays pending and may end a later
  wait of the same thread early, an untimed one too.
* `ThreadQueueList::rebalance()` goes on after a failed `realloc()`, and the next push may
  write outside the array, against the comment at `ThreadQueueList.h:260`
  (`ReallocFails`).

Semaphores, mutexes.
* A thread whose wait has timed out still counts as a waiter in the overflow check at
  `sceKernelSemaphore.cpp:284`, so the count of a PRIORITY semaphore can pass its maximum.
* On a FIFO semaphore such a thread stops the loop after a timeout, and the thread behind
  it keeps waiting for tokens that are there, against the comment at line 318.
* `__KernelMutexThreadEnd()` walks `mutexHeldLocks` from an `equal_range()` while the
  hand-overs insert entries of the new owners (`sceKernelMutex.cpp:445-457`). If the thread
  holds several mutexes, such an entry may end up before the end of that range, and the walk
  then takes the mutex from its new owner; an insertion may also rehash the table. The model
  walks what was held when the walk began, and so do the theorems; with one mutex held, as
  in run `mutex`, the two are the same.
* The check of a lightweight mutex's owner at the end of its wait reads `lockThread`, of
  which the structure says that it is not kept up to date.

Callbacks.
* A thread that ends inside a callback leaves `g_inCbCount` and
  `currentCallbackThreadID` set, and no callback of any thread runs until it is deleted;
  `sceKernelExitDeleteThread()` then resets the count although another may be running.
* A terminated thread may still be given a MIPS call; a pause it left behind gives a wait
  of its next life the old deadline.
* A thread suspended in a wait is suspended again by the status its callback restores,
  although it was resumed meanwhile.
* A callback that returns nonzero and was notified meanwhile leaves
  `readyCallbacksCount` too high. The count is only relied on as an upper bound.
* `sceKernelCheckCallback()` is not refused inside a callback.

Display lists and interrupts.
* The draw event of earlier drawing wakes a thread that waits for a list queued since.
* `sceGeContinue()`, or a list enqueued at the head, between a PAUSE and its FINISH
  interrupt clears the signal, and the interrupt completes the list midway; the same for
  `sceGeBreak(0)` with a pause under way.
* A stall address moved while the signal interrupt of a list is pending runs the list on
  if it is not paused (after a CONTINUE, or a SUSPEND under a new SDK version), and the end
  of the first callback clears the mark of the second. A list that SUSPEND has paused stays
  where it is.
* A list that a CONTINUE signal stops is not paused, and the end of another list's interrupt
  runs it on before its own; a second signal then makes a second callback, and the end of
  the first clears the mark of both.
* After a SYNC, `sceGeBreak(0)` moves the list on by 8 bytes (`GPUCommon.cpp:598`) and so
  possibly past its stall address; the list then runs on, for it only stalls where the two
  are equal.
* With a new SDK version a SUSPEND does not pause the list, and the end of an earlier
  interrupt runs it on before its handler, against the comment at `GPUCommon.cpp:1020`.
* `sceGeBreak(1)` leaves `drawCompleteTicks` and `waitUntilTicks` of the lists as they are: a
  `sceGeDrawSync()` of drawing it broke off, and a `sceGeListSync()` of a list it has
  forgotten, begun before or after, wait until a list is run or enqueued again
  (`LeftDrawing`, `LeftBusy`).
* A refused `sceGeListEnQueueHead()` has filled in its entry already (`GPUCommon.cpp:417-441`)
  and left it busy and not queued: `sceGeListSync()` of it waits for what does not come
  (`LeftBusy`).
* After `sceGeListDeQueue()` of the first list the next one is not run. The call reads
  `dlQueue.front()` (`GPUCommon.cpp:478`) of a queue that may be empty; whatever it reads,
  neither branch changes an empty queue.
* A handler that releases itself takes its entry from the pending list, and its return
  takes the next one for it.

Host side.
* `TeardownTask()` pushes to the global queue without its mutex while workers may run; the
  model lets it do so only while the mutex is free.
* A task may wait in the global queue though a worker sleeps: the one that is notified is
  chosen in turn and may be busy.
* `Promise::Cancel()` calls a task that a worker may have released.
* `AllocAt()` accepts a size of 0 and makes an empty block; sizes in the model are
  positive.

## 7. Plan

1. Message boxes, message pipes and memory pools on `KernelWait`, the pools with
   `BlockAllocator`; lightweight mutexes; the callback hooks of all objects.
2. Alarms and virtual timers on `Interrupts` and `CoreTiming`; thread event handlers.
3. Promises, mailboxes and asynchronous I/O on `ThreadManager`.
4. Proofs: the invariants of `KernelCallback`; `ListSyncMeansDone`.

## 8. Not modelled

Message boxes and pipes, memory pools, alarms and virtual timers, and asynchronous I/O,
which the plan names; save states except those of the ready queue and of the allocator;
the order of calls inside a split or delayed system call. Instruction emulation and the
recompilers, GPU emulation and the host graphics backends, file systems, codecs,
networking, and the user interface: data transformation and host services without
protocol state of their own, or out of TLC's reach. They are by far the largest part of
the repository, with the vendored libraries and generated tables under `ext/` and
`libretro/`. `PROJECT.json` lists each part with the reason.

## 9. Running the checks

```
tlc -config threads.cfg MCKernelThread
tlc -config queue.cfg MCThreadQueueList
tlc -config sema.cfg MCKernelSema             # also sematimeout
tlc -config mutex.cfg MCKernelMutex
tlc -config flag.cfg MCKernelEventFlag
tlc -config callbacks.cfg MCKernelCallback    # also cbtwice
tlc -config timing.cfg MCCoreTiming
tlc -config ge.cfg MCDisplayLists
tlc -config blocks.cfg MCBlockAllocator
tlc -config pool.cfg MCThreadManager
tlapm KernelThreadProofs.tla
tlapm KernelObjectProofs.tla
tlapm DisplayListProofs.tla
tlapm ThreadQueueListProofs.tla                # also UidListProofs
tlapm ThreadManagerProofs.tla
tlapm CoreTimingProofs.tla
tlapm BlockAllocatorProofs.tla
```
