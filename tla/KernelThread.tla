---------------------------- MODULE KernelThread ----------------------------
(***************************************************************************)
(* The HLE thread manager of the emulated PSP kernel                       *)
(* (Core/HLE/sceKernelThread.cpp): the life cycle of guest threads, the    *)
(* ready queue, the context switch, waits and their CoreTiming timers.     *)
(*                                                                         *)
(* The emulator runs guest threads one at a time on one host thread, so a  *)
(* system call is atomic except at one place: __KernelReSchedule() calls   *)
(* CoreTiming::Advance(), which runs the handler of every due timer, and   *)
(* a handler calls __KernelReSchedule() again.  k.frames is that part of   *)
(* the host's call stack: one entry per __KernelReSchedule() that has not  *)
(* yet come back from Advance().  The entry is what its caller still has   *)
(* to do afterwards: NoObj for nothing, or the kernel object a timeout     *)
(* handler goes on to examine.                                             *)
(*                                                                         *)
(* The kernel state is one record k and every kernel function an operator  *)
(* from records to records, so a handler is written as the composition of  *)
(* the calls it makes.                                                     *)
(***************************************************************************)
EXTENDS UidList

CONSTANTS
  User,        \* UIDs available to guest threads
  Idle0,       \* threadIdleID[0]
  Idle1,       \* threadIdleID[1]
  NoThread,    \* no current thread (it has just deleted itself)
  Obj,         \* UIDs of the other kernel objects a thread can wait on
  NoObj,       \* waitID 0, and "nothing left to do" in k.frames
  UserPrio,    \* priorities of guest threads, smaller is better
  IdlePrio,    \* priority of the idle threads, worse than any other
  Guest,       \* the system calls the guest program makes
  OnlyRunning, \* those it makes only while RUNNING, with dispatch enabled
  MaxTimer,    \* bound: events of one type pending for one thread
  MaxWakeup    \* bound: wakeups saved up for one thread

Idle == {Idle0, Idle1}
Thread == User \cup Idle
Prio == UserPrio \cup {IdlePrio}

ASSUME UidAssumption ==
  /\ Idle0 # Idle1
  /\ User \cap Idle = {}
  /\ NoThread \notin Thread
  /\ NoObj \notin Thread \cup Obj
ASSUME PrioAssumption ==
  /\ UserPrio \subseteq Nat
  /\ IdlePrio \in Nat
  /\ \A p \in UserPrio : p < IdlePrio
ASSUME BoundAssumption == MaxTimer \in Nat /\ MaxWakeup \in Nat

VARIABLE k

\* ThreadStatus is a bit mask, here a set of bits.  A destroyed object is DEAD.
StatusBits == {"RUNNING", "READY", "WAIT", "SUSPEND", "DORMANT", "DEAD"}

WaitType == {"NONE", "SLEEP", "DELAY", "THREADEND", "SEMA", "MUTEX", "LWMUTEX",
             "EVENTFLAG"}
TimerType == {"DELAY", "THREADEND", "SEMA", "MUTEX", "LWMUTEX", "EVENTFLAG"}

\* What __KernelResumeThreadFromWait() leaves in v0 of the saved context.
Result == {"none", "ok", "exited", "WAIT_TIMEOUT", "RELEASE_WAIT",
           "WAIT_CANCEL", "WAIT_DELETE"}

\* nt.waitType, nt.waitID and waitInfo (timed stands for timeoutPtr # 0).
ObjWait == {"SEMA", "MUTEX", "LWMUTEX", "EVENTFLAG"}
Wait == {w \in [type : WaitType, id : Thread \cup Obj \cup {NoObj},
                value : Nat, timed : BOOLEAN] : w.type \in ObjWait => w.id \in Obj}
NoWait == [type |-> "NONE", id |-> NoObj, value |-> 0, timed |-> FALSE]

Kernel == [st      : [Thread -> SUBSET StatusBits],  \* nt.status
           prio    : [Thread -> Prio],               \* nt.currentPriority
           initp   : [Thread -> Prio],               \* nt.initialPriority
           wait    : [Thread -> Wait],
           ret     : [Thread -> Result],
           wakeup  : [Thread -> Nat],                \* nt.wakeupCount
           joiners : [Thread -> Seq(Thread)],        \* waitingThreads
           rq      : [Prio -> Seq(Thread)],          \* threadReadyQueue
           cur     : Thread \cup {NoThread},         \* currentThread
           disp    : BOOLEAN,                        \* dispatchEnabled
           timer   : [TimerType -> [Thread -> Nat]], \* CoreTiming events
           frames  : Seq(Obj \cup {NoObj})]

-----------------------------------------------------------------------------
(* threadReadyQueue, one sequence per priority (see ThreadQueueList). *)

push_front(kk, p, t) == [kk EXCEPT !.rq[p] = <<t>> \o @]
push_back(kk, p, t) == [kk EXCEPT !.rq[p] = Append(@, t)]
remove(kk, p, t) == [kk EXCEPT !.rq[p] = DropFirst(@, t)]
rotate(kk, p) ==
  IF Len(kk.rq[p]) > 1 THEN [kk EXCEPT !.rq[p] = Append(Tail(@), Head(@))]
  ELSE kk

\* p is the best priority with a thread in the queue.
IsBestQueue(kk, p) ==
  /\ p \in Prio /\ kk.rq[p] # <<>>
  /\ \A q \in Prio : q < p => kk.rq[q] = <<>>

-----------------------------------------------------------------------------
(* Thread state, the ready queue and the context switch. *)

Has(kk, t, bit) == bit \in kk.st[t]
Exists(kk, t) == ~Has(kk, t, "DEAD")
Stopped(kk, t) == Has(kk, t, "DORMANT")

\* Mutant: a RUNNING thread becomes READY without entering the queue.
KernelChangeReadyStateUnqueued(kk, t, ready) ==
  IF Has(kk, t, "READY")
  THEN IF ready THEN kk ELSE remove(kk, kk.prio[t], t)
  ELSE IF ~ready THEN kk
  ELSE [IF Has(kk, t, "RUNNING") THEN kk ELSE push_back(kk, kk.prio[t], t)
          EXCEPT !.st[t] = {"READY"}]

KernelChangeReadyState(kk, t, ready) ==
  IF Has(kk, t, "READY")
  THEN IF ready THEN kk ELSE remove(kk, kk.prio[t], t)
  ELSE IF ~ready THEN kk
  ELSE LET queued == IF Has(kk, t, "RUNNING")
                     THEN push_front(kk, kk.prio[t], t)
                     ELSE push_back(kk, kk.prio[t], t)
       IN  [queued EXCEPT !.st[t] = {"READY"}]

KernelChangeThreadState(kk, t, new) ==
  IF kk.st[t] = new \/ (~kk.disp /\ t = kk.cur /\ new # {"RUNNING"})
  THEN kk
  ELSE [KernelChangeReadyState(kk, t, "READY" \in new) EXCEPT !.st[t] = new]

\* hleReSchedule(): __KernelReSchedule() runs when the system call is done,
\* and first calls CoreTiming::Advance().
hleReSchedule(kk) == [kk EXCEPT !.frames = Append(@, NoObj)]

\* Mutant: the wait of the thread that comes in is not cleared.
KernelSwitchContextKeepsWait(kk, target) ==
  LET saved == IF kk.cur # NoThread /\ Has(kk, kk.cur, "RUNNING")
               THEN KernelChangeReadyState(kk, kk.cur, TRUE)
               ELSE kk
      taken == KernelChangeReadyState(saved, target, FALSE)
  IN  [taken EXCEPT !.cur = target, !.st[target] = (@ \cup {"RUNNING"}) \ {"READY"}]

KernelSwitchContext(kk, target) ==
  LET saved == IF kk.cur # NoThread /\ Has(kk, kk.cur, "RUNNING")
               THEN KernelChangeReadyState(kk, kk.cur, TRUE)
               ELSE kk
      taken == KernelChangeReadyState(saved, target, FALSE)
  IN  [taken EXCEPT !.cur = target,
                    !.st[target] = (@ \cup {"RUNNING"}) \ {"READY"},
                    !.wait[target] = NoWait,
                    !.ret[target] = "none"]  \* loaded into the CPU's v0

\* Pops the best thread off the queue and switches to it.
SwitchToBest(kk) ==
  LET p == CHOOSE q \in Prio : IsBestQueue(kk, q)
      best == Head(kk.rq[p])
      popped == [kk EXCEPT !.rq[p] = Tail(@)]
  IN  IF kk.cur # NoThread /\ Has(kk, kk.cur, "RUNNING")
      THEN KernelSwitchContext(KernelChangeReadyState(popped, kk.cur, TRUE),
                               best)
      ELSE KernelSwitchContext(popped, best)

\* Mutant: off by one in the priority that would preempt.
SwitchToNextOffByOne(kk) ==
  IF kk.cur # NoThread /\ Has(kk, kk.cur, "RUNNING")
  THEN IF \E q \in Prio : q + 1 < kk.prio[kk.cur] /\ kk.rq[q] # <<>>
       THEN SwitchToBest(kk)
       ELSE kk
  ELSE SwitchToBest(kk)

\* __KernelNextThread() and the switch to the thread it returns.
SwitchToNext(kk) ==
  IF kk.cur # NoThread /\ Has(kk, kk.cur, "RUNNING")
  THEN IF \E q \in Prio : q < kk.prio[kk.cur] /\ kk.rq[q] # <<>>
       THEN SwitchToBest(kk)
       ELSE kk
  ELSE IF \E q \in Prio : kk.rq[q] # <<>>
       THEN SwitchToBest(kk)
       ELSE KernelSwitchContext(kk, Idle1)

\* The rest of __KernelReSchedule(), after CoreTiming::Advance().
KernelReScheduleEnd(kk) ==
  LET popped == [kk EXCEPT !.frames = SubSeq(@, 1, Len(@) - 1)]
  IN  IF kk.disp THEN SwitchToNext(popped) ELSE popped

-----------------------------------------------------------------------------
(* Waits and their timers. *)

ScheduleEvent(kk, type, t) == [kk EXCEPT !.timer[type][t] = @ + 1]
UnscheduleEvent(kk, type, t) == [kk EXCEPT !.timer[type][t] = 0]

\* The event that has fired leaves the queue before its handler runs.
PopEvent(kk, type, t) == [kk EXCEPT !.timer[type][t] = @ - 1]

KernelGetWaitID(kk, t, type) ==
  IF Exists(kk, t) /\ kk.wait[t].type = type THEN kk.wait[t].id ELSE NoObj

isWaitingFor(kk, t, type, id) ==
  Has(kk, t, "WAIT") /\ kk.wait[t].type = type /\ kk.wait[t].id = id

VerifyWait(kk, t, type, id) == KernelGetWaitID(kk, t, type) = id

resumeFromWait(kk, t) ==
  LET left == kk.st[t] \ {"WAIT"}
      freed == [kk EXCEPT !.st[t] = left]
  IN  IF left \cap {"WAIT", "SUSPEND", "DORMANT", "DEAD"} = {}
      THEN KernelChangeReadyState(freed, t, TRUE)
      ELSE freed

KernelResumeThreadFromWait(kk, t, result) ==
  [resumeFromWait(kk, t) EXCEPT !.ret[t] = result]

\* Mutant: the thread goes to sleep but no reschedule is asked for.
KernelWaitCurThreadGoesOn(kk, type, id, value, timed) ==
  IF ~kk.disp THEN kk
  ELSE KernelChangeThreadState(
         [kk EXCEPT !.wait[kk.cur] = [type |-> type, id |-> id,
                                      value |-> value, timed |-> timed]],
         kk.cur, {"WAIT"} \cup (kk.st[kk.cur] \cap {"SUSPEND"}))

KernelWaitCurThread(kk, type, id, value, timed) ==
  IF ~kk.disp THEN kk
  ELSE LET t == kk.cur
           noted == [kk EXCEPT !.wait[t] = [type |-> type, id |-> id,
                                            value |-> value, timed |-> timed]]
       IN  hleReSchedule(KernelChangeThreadState(
             noted, t, {"WAIT"} \cup (kk.st[t] \cap {"SUSPEND"})))

\* HLEKernel::WaitExecTimeout(): the timed out thread stays in the waiting
\* list of what it waited for.  rest is what its caller does afterwards.
WaitExecTimeout(kk, t, rest) ==
  [KernelResumeThreadFromWait(kk, t, "WAIT_TIMEOUT")
     EXCEPT !.frames = Append(@, rest)]

-----------------------------------------------------------------------------
(* The end of a thread. *)

\* One joiner of the thread that ends.
ResumeJoiner(kk, t, w) ==
  IF VerifyWait(kk, w, "THREADEND", t)
  THEN KernelResumeThreadFromWait(UnscheduleEvent(kk, "THREADEND", w), w,
                                  "exited")
  ELSE kk

\* The loop over waitingThreads, in their order.
ResumeJoiners(kk, t) ==
  LET after[i \in 0..Len(kk.joiners[t])] ==
        IF i = 0 THEN kk ELSE ResumeJoiner(after[i - 1], t, kk.joiners[t][i])
  IN  after[Len(kk.joiners[t])]

\* The two listeners of thread ends that sceKernelThread.cpp registers.
KernelFireThreadEnd(kk, t) ==
  UnscheduleEvent(UnscheduleEvent(kk, "DELAY", t), "THREADEND", t)

\* __KernelStopThread() up to and including these listeners; a kernel object that
\* listens too acts between this and the rest.
KernelStopThreadBegin(kk, t) ==
  LET unready == KernelChangeReadyState(kk, t, FALSE)
  IN  KernelFireThreadEnd([unready EXCEPT !.st[t] = {"DORMANT"}], t)

KernelStopThreadEnd(fired, t) ==
  [ResumeJoiners(fired, t) EXCEPT !.joiners[t] = <<>>, !.wait[t] = NoWait]

KernelStopThread(kk, t) == KernelStopThreadEnd(KernelStopThreadBegin(kk, t), t)

\* The rest of __KernelDeleteThread(), which has stopped the thread.
KernelDeleteThread(stopped, t) ==
  LET removed == remove(stopped, stopped.prio[t], t)
  IN  [removed EXCEPT !.cur = IF @ = t THEN NoThread ELSE @,
                      !.st[t] = {"DEAD"},
                      !.wakeup[t] = 0, !.ret[t] = "none"]

\* The fields of a thread that has never run.
KernelCreateThreadObject(kk, t, p) ==
  [kk EXCEPT !.st[t] = {"DORMANT"}, !.prio[t] = p, !.initp[t] = p,
             !.wait[t] = NoWait, !.ret[t] = "none", !.wakeup[t] = 0,
             !.joiners[t] = <<>>]

\* wakeupCount is not reset: wakeups sent to a stopped thread are kept.
KernelResetThread(kk, t, lowest) ==
  [kk EXCEPT !.prio[t] = IF @ < lowest THEN kk.initp[t] ELSE @,
             !.wait[t] = NoWait, !.ret[t] = "none"]

\* Mutant: the thread stays in the queue of its old priority as well.
KernelChangeThreadPriorityNoRemove(kk, t, p) ==
  LET moved == [kk EXCEPT !.prio[t] = p]
      ready == IF Has(kk, t, "RUNNING")
               THEN [moved EXCEPT !.st[t] = (@ \ {"RUNNING"}) \cup {"READY"}]
               ELSE moved
  IN  IF Has(ready, t, "READY") THEN push_back(ready, p, t) ELSE ready

KernelChangeThreadPriority(kk, t, p) ==
  LET moved == [remove(kk, kk.prio[t], t) EXCEPT !.prio[t] = p]
      ready == IF Has(kk, t, "RUNNING")
               THEN [moved EXCEPT !.st[t] = (@ \ {"RUNNING"}) \cup {"READY"}]
               ELSE moved
  IN  IF Has(ready, t, "READY") THEN push_back(ready, p, t) ELSE ready

-----------------------------------------------------------------------------
(* System calls.  Each is one call by the thread whose code is running. *)

\* The current thread executes guest code and makes the system call named.
Calls(name) ==
  /\ k.frames = <<>>
  /\ k.cur \in User
  /\ ~Stopped(k, k.cur)
  /\ name \in Guest
  /\ name \in OnlyRunning => k.disp /\ k.st[k.cur] = {"RUNNING"}

sceKernelCreateThread(t, p) ==
  /\ Calls("CreateThread")
  /\ ~Exists(k, t)
  /\ k' = hleReSchedule([KernelCreateThreadObject(k, t, p)
                           EXCEPT !.disp = TRUE])

sceKernelStartThread(t) ==
  /\ Calls("StartThread")
  /\ k.st[t] = {"DORMANT"}
  /\ LET reset == KernelResetThread(k, t, k.prio[k.cur])
         better == reset.prio[t] < k.prio[k.cur]
         yielded == IF better
                    THEN hleReSchedule(
                           KernelChangeReadyState(reset, k.cur, TRUE))
                    ELSE [reset EXCEPT !.disp = TRUE]
     IN  k' = KernelChangeReadyState(yielded, t, TRUE)

\* The calls that end a thread t.  stopped is the kernel when t has been stopped.

\* Falling off the end of the thread function: no check that dispatch is
\* enabled, unlike sceKernelExitThread().
KernelReturnFromThread(stopped) ==
  /\ Calls("ReturnFromThread")
  /\ k' = hleReSchedule(stopped)

sceKernelExitThread(stopped) ==
  /\ Calls("ExitThread")
  /\ k.disp
  /\ k' = hleReSchedule(stopped)

sceKernelExitDeleteThread(stopped) ==
  /\ Calls("ExitDeleteThread")
  /\ k.disp
  /\ k' = hleReSchedule(KernelDeleteThread(stopped, k.cur))

sceKernelDeleteThread(t, stopped) ==
  /\ Calls("DeleteThread")
  /\ t # k.cur /\ Stopped(k, t)
  /\ k' = KernelDeleteThread(stopped, t)

sceKernelTerminateDeleteThread(t, stopped) ==
  /\ Calls("TerminateDeleteThread")
  /\ k.disp /\ t # k.cur /\ Exists(k, t)
  /\ k' = KernelDeleteThread(stopped, t)

\* Does not reschedule, although it may have woken a better joiner.
sceKernelTerminateThread(t, stopped) ==
  /\ Calls("TerminateThread")
  /\ k.disp /\ t # k.cur /\ Exists(k, t) /\ ~Stopped(k, t)
  /\ k' = [stopped EXCEPT !.prio[t] = k.initp[t]]

sceKernelSuspendDispatchThread ==
  /\ Calls("SuspendDispatchThread")
  /\ k' = [k EXCEPT !.disp = FALSE]

sceKernelResumeDispatchThread(enabled) ==
  /\ Calls("ResumeDispatchThread")
  /\ k' = hleReSchedule([k EXCEPT !.disp = enabled])

KernelRotateThreadReadyQueue(kk, p) ==
  IF kk.rq[p] = <<>> THEN kk
  ELSE IF kk.prio[kk.cur] = p
       THEN [push_back(kk, p, kk.cur)
               EXCEPT !.st[kk.cur] = (@ \ {"RUNNING"}) \cup {"READY"}]
       ELSE rotate(kk, p)

sceKernelRotateThreadReadyQueue(p) ==
  /\ Calls("RotateThreadReadyQueue")
  /\ k' = hleReSchedule(KernelRotateThreadReadyQueue(k, p))

sceKernelChangeThreadPriority(t, p) ==
  /\ Calls("ChangeThreadPriority")
  /\ Exists(k, t) /\ ~Stopped(k, t)
  /\ k' = hleReSchedule(KernelChangeThreadPriority(k, t, p))

\* HLE_NOT_DISPATCH_SUSPENDED: the dispatcher refuses the call.
sceKernelDelayThread ==
  /\ Calls("DelayThread")
  /\ k.disp
  /\ k.timer["DELAY"][k.cur] < MaxTimer
  /\ k' = KernelWaitCurThread(ScheduleEvent(k, "DELAY", k.cur),
                              "DELAY", k.cur, 0, FALSE)

\* Mutant: a sleeper that is also suspended does not count as sleeping.
sceKernelWakeupThreadIgnoresSuspended(t) ==
  /\ Calls("WakeupThread")
  /\ t # k.cur /\ Exists(k, t)
  /\ IF isWaitingFor(k, t, "SLEEP", NoObj) /\ ~Has(k, t, "SUSPEND")
     THEN k' = hleReSchedule(KernelResumeThreadFromWait(k, t, "ok"))
     ELSE /\ k.wakeup[t] < MaxWakeup
          /\ k' = [k EXCEPT !.wakeup[t] = @ + 1]

sceKernelWakeupThread(t) ==
  /\ Calls("WakeupThread")
  /\ t # k.cur /\ Exists(k, t)
  /\ IF isWaitingFor(k, t, "SLEEP", NoObj)
     THEN k' = hleReSchedule(KernelResumeThreadFromWait(k, t, "ok"))
     ELSE /\ k.wakeup[t] < MaxWakeup
          /\ k' = [k EXCEPT !.wakeup[t] = @ + 1]

sceKernelCancelWakeupThread(t) ==
  /\ Calls("CancelWakeupThread")
  /\ Exists(k, t)
  /\ k' = [k EXCEPT !.wakeup[t] = 0]

sceKernelSleepThread ==
  /\ Calls("SleepThread")
  /\ k.disp
  /\ k' = IF k.wakeup[k.cur] > 0
          THEN [k EXCEPT !.wakeup[k.cur] = @ - 1]
          ELSE KernelWaitCurThread(k, "SLEEP", NoObj, 0, FALSE)

\* Mutant: waits for a thread that has ended already.
sceKernelWaitThreadEndUnchecked(t, timed) ==
  /\ Calls("WaitThreadEnd")
  /\ t # k.cur /\ k.disp /\ Exists(k, t)
  /\ timed => k.timer["THREADEND"][k.cur] < MaxTimer
  /\ LET armed == IF timed THEN ScheduleEvent(k, "THREADEND", k.cur) ELSE k
         listed == IF Holds(k.joiners[t], k.cur)
                   THEN armed
                   ELSE [armed EXCEPT !.joiners[t] = Append(@, k.cur)]
     IN  k' = KernelWaitCurThread(listed, "THREADEND", t, 0, timed)

sceKernelWaitThreadEnd(t, timed) ==
  /\ Calls("WaitThreadEnd")
  /\ t # k.cur /\ k.disp /\ Exists(k, t)
  /\ k.st[t] # {"DORMANT"}
  /\ timed => k.timer["THREADEND"][k.cur] < MaxTimer
  /\ LET armed == IF timed THEN ScheduleEvent(k, "THREADEND", k.cur) ELSE k
         listed == IF Holds(k.joiners[t], k.cur)
                   THEN armed
                   ELSE [armed EXCEPT !.joiners[t] = Append(@, k.cur)]
     IN  k' = KernelWaitCurThread(listed, "THREADEND", t, 0, timed)

\* Neither the timer of the wait nor the waiting list is touched.
sceKernelReleaseWaitThread(t) ==
  /\ Calls("ReleaseWaitThread")
  /\ t # k.cur /\ Has(k, t, "WAIT")
  /\ k' = hleReSchedule(KernelResumeThreadFromWait(k, t, "RELEASE_WAIT"))

sceKernelSuspendThread(t) ==
  /\ Calls("SuspendThread")
  /\ t # k.cur /\ Exists(k, t) /\ ~Stopped(k, t) /\ ~Has(k, t, "SUSPEND")
  /\ k' = [KernelChangeReadyState(k, t, FALSE)
             EXCEPT !.st[t] = (@ \ {"READY"}) \cup {"SUSPEND"}]

sceKernelResumeThread(t) ==
  /\ Calls("ResumeThread")
  /\ t # k.cur /\ Has(k, t, "SUSPEND")
  /\ LET resumed == [k EXCEPT !.st[t] = @ \ {"SUSPEND"}]
     IN  k' = hleReSchedule(IF resumed.st[t] = {}
                            THEN KernelChangeReadyState(resumed, t, TRUE)
                            ELSE resumed)

-----------------------------------------------------------------------------
(* CoreTiming handlers, the idle loop and the end of a reschedule.         *)
(* Advance() runs between two guest instructions (k.frames empty) and from *)
(* inside every reschedule (k.frames not empty).                           *)

\* Mutant: a suspended thread misses the end of its delay.
hleScheduledWakeupMissesSuspended(t) ==
  /\ k.timer["DELAY"][t] > 0
  /\ LET fired == PopEvent(k, "DELAY", t)
     IN  k' = IF KernelGetWaitID(fired, t, "DELAY") = t /\ ~Has(k, t, "SUSPEND")
              THEN hleReSchedule(KernelResumeThreadFromWait(fired, t, "ok"))
              ELSE fired

hleScheduledWakeup(t) ==
  /\ k.timer["DELAY"][t] > 0
  /\ LET fired == PopEvent(k, "DELAY", t)
     IN  k' = IF KernelGetWaitID(fired, t, "DELAY") = t
              THEN hleReSchedule(KernelResumeThreadFromWait(fired, t, "ok"))
              ELSE fired

hleThreadEndTimeout(t) ==
  /\ k.timer["THREADEND"][t] > 0
  /\ LET fired == PopEvent(k, "THREADEND", t)
         uid == KernelGetWaitID(fired, t, "THREADEND")
     IN  k' = IF uid # NoObj /\ Exists(fired, uid)
              THEN WaitExecTimeout(fired, t, NoObj)
              ELSE fired

KernelIdle ==
  /\ k.frames = <<>> /\ k.cur \in Idle
  /\ k' = hleReSchedule(k)

KernelReSchedule ==
  /\ k.frames # <<>> /\ k.frames[Len(k.frames)] = NoObj
  /\ k' = KernelReScheduleEnd(k)

-----------------------------------------------------------------------------
\* The root thread runs, both idle threads are queued, nothing else exists.
InitKernel(root, p) ==
  [st      |-> [t \in Thread |-> IF t = root THEN {"RUNNING"}
                                 ELSE IF t \in Idle THEN {"READY"}
                                 ELSE {"DEAD"}],
   prio    |-> [t \in Thread |-> IF t \in Idle THEN IdlePrio ELSE p],
   initp   |-> [t \in Thread |-> IF t \in Idle THEN IdlePrio ELSE p],
   wait    |-> [t \in Thread |-> NoWait],
   ret     |-> [t \in Thread |-> "none"],
   wakeup  |-> [t \in Thread |-> 0],
   joiners |-> [t \in Thread |-> <<>>],
   rq      |-> [q \in Prio |-> IF q = IdlePrio THEN <<Idle0, Idle1>> ELSE <<>>],
   cur     |-> root,
   disp    |-> TRUE,
   timer   |-> [y \in TimerType |-> [t \in Thread |-> 0]],
   frames  |-> <<>>]

Init == \E root \in User, p \in UserPrio : k = InitKernel(root, p)

\* t ends; stopped is the kernel after __KernelStopThread() of t.
ThreadEnds(t, stopped) ==
  \/ /\ t = k.cur
     /\ \/ KernelReturnFromThread(stopped)
        \/ sceKernelExitThread(stopped)
        \/ sceKernelExitDeleteThread(stopped)
  \/ sceKernelDeleteThread(t, stopped)
  \/ sceKernelTerminateDeleteThread(t, stopped)
  \/ sceKernelTerminateThread(t, stopped)

ThreadEnd == \E t \in User : ThreadEnds(t, KernelStopThread(k, t))

SystemCall ==
  \/ \E t \in User, p \in UserPrio :
       sceKernelCreateThread(t, p) \/ sceKernelChangeThreadPriority(t, p)
  \/ \E t \in User :
       \/ sceKernelStartThread(t)
       \/ sceKernelWakeupThread(t)
       \/ sceKernelCancelWakeupThread(t)
       \/ sceKernelReleaseWaitThread(t)
       \/ sceKernelSuspendThread(t)
       \/ sceKernelResumeThread(t)
       \/ \E timed \in BOOLEAN : sceKernelWaitThreadEnd(t, timed)
  \/ sceKernelSuspendDispatchThread
  \/ \E enabled \in BOOLEAN : sceKernelResumeDispatchThread(enabled)
  \/ \E p \in UserPrio : sceKernelRotateThreadReadyQueue(p)
  \/ sceKernelDelayThread
  \/ sceKernelSleepThread

Timer == \E t \in User : hleScheduledWakeup(t) \/ hleThreadEndTimeout(t)

\* Everything but the ends of threads, for the objects that listen to those.
Undisturbed == SystemCall \/ Timer \/ KernelIdle \/ KernelReSchedule

Next == Undisturbed \/ ThreadEnd

Spec == Init /\ [][Next]_k

\* CoreTiming fires every event in the end, and a reschedule completes.
Fairness ==
  /\ WF_k(KernelReSchedule)
  /\ \A t \in User : WF_k(hleScheduledWakeup(t)) /\ WF_k(hleThreadEndTimeout(t))
FairSpec == Spec /\ Fairness
-----------------------------------------------------------------------------
(* Properties. *)

\* Every field of the kernel state has the type its declaration gives it.
TypeOK == k \in Kernel

\* "Lists only ready thread ids" (the comment on threadReadyQueue), and all of
\* them: the queue of a priority holds exactly the READY threads that have it,
\* each once.  Status, priority and queue are updated at different places.
ReadyQueueExact ==
  \A p \in Prio :
    /\ Distinct(k.rq[p])
    /\ \A t \in Thread : Holds(k.rq[p], t) <=> Has(k, t, "READY") /\ k.prio[t] = p

\* The inductive invariant behind ReadyQueueExact, OnlyRunnableRuns and
\* NeverOutOfThreads.  READY and RUNNING exclude every other status bit, only
\* the current thread is RUNNING, the idle threads never do anything but run
\* and queue, and each thread is in the queue of its priority iff it is READY.
StatusShape(kk, t) ==
  /\ Has(kk, t, "READY") => kk.st[t] = {"READY"}
  /\ Has(kk, t, "RUNNING") =>
       kk.st[t] = {"RUNNING"} /\ t = kk.cur /\ kk.wait[t].type = "NONE"
IdleShape(kk, t) ==
  t \in Idle => kk.st[t] \in {{"READY"}, {"RUNNING"}} /\ kk.prio[t] = IdlePrio
QueuedRight(kk, t) ==
  \A p \in Prio : Holds(kk.rq[p], t) <=> Has(kk, t, "READY") /\ kk.prio[t] = p
QueuesDistinct(kk) == \A p \in Prio : Distinct(kk.rq[p])
ThreadInv(kk, t) == StatusShape(kk, t) /\ IdleShape(kk, t) /\ QueuedRight(kk, t)
KernelInv(kk) ==
  kk \in Kernel /\ QueuesDistinct(kk) /\ \A t \in Thread : ThreadInv(kk, t)

\* A guest that switches dispatch off neither rotates a queue while its thread is
\* queued itself, nor falls off the end of a thread before it switches it on again.
DispatchOps == {"SuspendDispatchThread", "ResumeDispatchThread"}
Disciplined ==
  DispatchOps \cap Guest # {} =>
    Guest \cap {"RotateThreadReadyQueue", "ReturnFromThread"} \subseteq OnlyRunning

\* The current thread may run guest code; if it may not, a reschedule that will
\* switch away from it is under way.
CurRunnable(kk) == kk.cur # NoThread /\ kk.st[kk.cur] \in {{"RUNNING"}, {"READY"}}
PhaseInv(kk) ==
  /\ CurRunnable(kk) \/ (kk.disp /\ kk.frames # <<>>)
  /\ DispatchOps \cap Guest = {} =>
       kk.disp /\ (kk.frames # <<>> \/ kk.st[kk.cur] = {"RUNNING"})
Inv == KernelInv(k) /\ PhaseInv(k)

\* Guest code is only ever executed by a thread that may run: when no reschedule
\* is under way the current thread is RUNNING, or READY while dispatch is
\* suspended or was just re-enabled, and never waiting, suspended or stopped;
\* no other thread is RUNNING.
OnlyRunnableRuns ==
  /\ k.frames = <<>> => k.cur # NoThread /\ k.st[k.cur] \in {{"RUNNING"}, {"READY"}}
  /\ \A t \in Thread : Has(k, t, "RUNNING") => t = k.cur

\* __KernelNextThread() never finds the ready queue empty (its "Zoinks.  No
\* thread?" branch is dead code), because an idle thread is always queued.
NeverOutOfThreads ==
  k.cur = NoThread \/ ~Has(k, k.cur, "RUNNING") => \E p \in Prio : k.rq[p] # <<>>

\* No joiner is forgotten: a thread in WAIT for the end of t is in t's waiting
\* list, once, and t has not ended (KernelStopThread clears the list).
JoinersRegistered ==
  \A w, t \in Thread :
    isWaitingFor(k, w, "THREADEND", t) =>
      /\ Exists(k, t) /\ ~Stopped(k, t)
      /\ Holds(k.joiners[t], w)

\* A sleeping thread has no wakeup saved up: sceKernelWakeupThread() never counts
\* a wakeup that the sleeper, suspended or not, should have been woken by.
NoLostWakeup ==
  \A t \in Thread : isWaitingFor(k, t, "SLEEP", NoObj) => k.wakeup[t] = 0

\* A thread in a timed wait still has the event that ends the wait, whatever
\* stale events earlier waits of it have left behind.
TimedWaitHasTimer ==
  \A t \in Thread :
    /\ isWaitingFor(k, t, "DELAY", t) => k.timer["DELAY"][t] > 0
    /\ Has(k, t, "WAIT") /\ k.wait[t].type = "THREADEND" /\ k.wait[t].timed
         => k.timer["THREADEND"][t] > 0

\* Every join and every delay can end: the joiner is known to the thread it waits
\* for, which has not ended, and a timed wait has its own event.
JoinsAndDelaysCanEnd == JoinersRegistered /\ TimedWaitHasTimer

\* After a reschedule with dispatch enabled nobody who is READY is better than
\* the thread that runs.
RescheduleRunsBest ==
  [][KernelReSchedule /\ k.disp =>
       \A t \in Thread : Has(k', t, "READY") => k'.prio[k'.cur] <= k'.prio[t]]_k

\* sceKernelDelayThread() comes to an end.
DelayEnds ==
  \A t \in User : isWaitingFor(k, t, "DELAY", t) ~> ~isWaitingFor(k, t, "DELAY", t)

=============================================================================
