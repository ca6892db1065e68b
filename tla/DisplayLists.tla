----------------------------- MODULE DisplayLists -----------------------------
(***************************************************************************)
(* The display lists of the graphics engine: their states and queue        *)
(* (GPU/GPUCommon.cpp), the system calls, waiters and interrupts around    *)
(* them (Core/HLE/sceGe.cpp), on top of the interrupt manager.             *)
(*                                                                         *)
(* The emulator runs a list at once and for as long as it can, when it is  *)
(* queued or continued, and lets the guest see the effects later: at a     *)
(* signal or at the end of a list it notes an interrupt for the time the   *)
(* real engine would have got there.  A list that has run to its end is    *)
(* therefore COMPLETED only when its interrupt starts, and its waiters are *)
(* let go when the handler returns.  Meanwhile the guest goes on calling.  *)
(*                                                                         *)
(* Commands that only draw are one "draw"; jumps and calls inside a list   *)
(* are left out, as are contexts and the debugger's slow path.  Times are  *)
(* abstracted: noted events may happen in any order.  A thread may call    *)
(* whenever it does not wait and no interrupt handler runs; calls that do  *)
(* not block may be made by a handler too.                                 *)
(***************************************************************************)
EXTENDS Interrupts, UidList, FiniteSets

CONSTANTS
  List,       \* indexes of dls
  NoList,     \* currentList is nullptr
  Thread,
  Programs,   \* the lists the guest has: sequences of commands, one per address
  SubOrder,   \* the sub interrupts in the order of their numbers
  OldSdk,     \* sceKernelGetCompiledSdkVersion() <= 0x02000010
  Guests,     \* the guests looked at: sets of the calls they make
  MaxEvents   \* bound: the interrupts pending when a vertical blank adds its own

Command == {"draw", "SUSPEND", "CONTINUE", "PAUSE", "SYNC", "FINISH"}
DlState == {"NONE", "QUEUED", "RUNNING", "COMPLETED", "PAUSED"}
Signal == {"NONE", "SUSPEND", "CONTINUE", "PAUSE", "SYNC"}

ASSUME GeAssumption ==
  /\ NoList \notin List /\ List \cap {"none", "draw"} = {}
  /\ OtherIntr = {"GE"} /\ SubOrder \in Seq(SubIntr)
  /\ Programs \subseteq Seq(Command) /\ OldSdk \in BOOLEAN /\ MaxEvents \in Nat

VARIABLE x   \* all of it: the functions below take and return such records

\* pos is pc and stall the position at which the list stalls, at its end for none;
\* busy stands for waitUntilTicks = -1, with 0 otherwise.
DisplayList ==
  [state : DlState, prog : Programs \cup {<<>>}, pos : Nat, stall : Nat,
   signal : Signal, callback : BOOLEAN, pendingInterrupt : BOOLEAN,
   started : BOOLEAN, busy : BOOLEAN]
UnusedList == [state |-> "NONE", prog |-> <<>>, pos |-> 0, stall |-> 0, signal |-> "NONE",
               callback |-> FALSE, pendingInterrupt |-> FALSE, started |-> FALSE,
               busy |-> FALSE]
PendingCallback == [list : List, cmd : {"SIGNAL", "FINISH"}, pc : Nat]

\* draw is drawCompleteTicks against the clock: -1 is "never".
Engine ==
  [guest : Guests, i : InterruptState,
   dls : [List -> DisplayList], queue : Seq(List), cur : List \cup {NoList},
   isbreak : BOOLEAN, draw : {"past", "future", "never"},
   pend : Seq(PendingCallback),         \* ge_pending_cb
   intrEvents : Nat,                    \* geInterruptEvents on their way
   drawEvent : BOOLEAN,                 \* a geSyncEvent for GPU_SYNC_DRAW is
   callbacks : BOOLEAN,                 \* sceGeSetCallback() has registered handlers
   wait : [Thread -> {"none", "draw"} \cup List]]

-----------------------------------------------------------------------------
(* Running lists. *)

\* __GeTriggerInterrupt(), and the mark of the list.
TriggerInterrupt(y, l, cmd) ==
  [y EXCEPT !.pend = Append(@, [list |-> l, cmd |-> cmd, pc |-> y.dls[l].pos]), !.intrEvents = @ + 1,
            !.dls[l].pendingInterrupt = TRUE]

\* Mutant: the list is not paused.
SuspendRuns(y, l) == y

\* "Before sdkver 0x02000010, listsync should return paused."
Suspend(y, l) == IF OldSdk THEN [y EXCEPT !.dls[l].state = "PAUSED"] ELSE y

\* One command; the result says how the run loop goes on.
Execute(y, l) ==
  LET d == y.dls[l]
      z == [y EXCEPT !.dls[l].pos = @ + 1]
      cmd == d.prog[d.pos + 1]
      signalled == [z EXCEPT !.dls[l].signal = cmd]
  IN  CASE cmd = "draw" -> [x |-> z, gpu |-> "RUNNING"]
        [] cmd \in {"PAUSE", "SYNC"} -> [x |-> signalled, gpu |-> "RUNNING"]
        [] cmd \in {"SUSPEND", "CONTINUE"} ->
             [x |-> TriggerInterrupt(
                      IF cmd = "SUSPEND" THEN Suspend(signalled, l) ELSE signalled,
                      l, "SIGNAL"),
              gpu |-> "INTERRUPT"]
        [] cmd = "FINISH" /\ d.signal = "PAUSE" ->
             [x |-> TriggerInterrupt([z EXCEPT !.dls[l].state = "PAUSED"], l, "FINISH"),
              gpu |-> "INTERRUPT"]
        [] cmd = "FINISH" /\ d.signal = "SYNC" ->
             [x |-> [z EXCEPT !.dls[l].signal = "NONE"], gpu |-> "RUNNING"]
        [] OTHER -> [x |-> TriggerInterrupt(z, l, "FINISH"), gpu |-> "DONE"]

\* Equality: a list that sceGeBreak() has moved past its stall address is not held up.
AtStall(d) == d.pos \in {d.stall, Len(d.prog)}

RunLoop(y, l) ==
  LET d == y.dls[l]
      after[n \in 0..(Len(d.prog) + 1)] ==
        IF n = 0 THEN [x |-> y, gpu |-> "RUNNING"]
        ELSE LET r == after[n - 1]
             IN  IF r.gpu # "RUNNING" THEN r
                 ELSE IF AtStall(r.x.dls[l]) THEN [r EXCEPT !.gpu = "STALL"]
                 ELSE Execute(r.x, l)
  IN  after[Len(d.prog) + 1]

LeaveQueue(y, l) == [y EXCEPT !.queue = Without(@, {l})]

\* Mutant: nobody is told.
DrawingDoneSilent(y, ran) ==
  [y EXCEPT !.cur = NoList, !.draw = IF ran THEN "future" ELSE "past"]

\* The queue is empty: drawing will be complete when the time it took is over.
DrawingDone(y, ran) ==
  [y EXCEPT !.cur = NoList, !.draw = IF ran THEN "future" ELSE "past", !.drawEvent = TRUE]

\* ProcessDLQueue(): the lists of the queue, from its front, until one stalls, is
\* paused or waits for an interrupt.
ProcessDLQueue(y) ==
  LET after[n \in 0..(Len(y.queue) + 1)] ==
        IF n = 0 THEN [x |-> y, ran |-> FALSE, stop |-> FALSE]
        ELSE LET r == after[n - 1]
                 l == Head(r.x.queue)
                 state == r.x.dls[l].state
                 run == RunLoop([r.x EXCEPT !.cur = l, !.dls[l].started = TRUE,
                                            !.dls[l].state = "RUNNING"], l)
             IN  IF r.stop THEN r
                 ELSE IF r.x.queue = <<>>
                 THEN [r EXCEPT !.x = DrawingDone(@, r.ran), !.stop = TRUE]
                 ELSE IF state = "PAUSED" THEN [r EXCEPT !.stop = TRUE]
                 ELSE IF state = "NONE"
                 THEN [r EXCEPT !.x = LeaveQueue(@, l), !.stop = TRUE]
                 ELSE IF run.gpu # "DONE" THEN [x |-> run.x, ran |-> TRUE, stop |-> TRUE]
                 ELSE [x |-> LeaveQueue(run.x, l), ran |-> TRUE, stop |-> FALSE]
  IN  after[Len(y.queue) + 1].x

PopDLQueue(y) ==
  LET left == Tail(y.queue)
      running == y.dls[y.cur].state = "RUNNING"
  IN  IF left = <<>> THEN [y EXCEPT !.queue = left, !.cur = NoList]
      ELSE [y EXCEPT !.queue = left, !.cur = Head(left),
                     !.dls[Head(left)].state = IF running THEN "RUNNING" ELSE @]

-----------------------------------------------------------------------------
(* Waiters and interrupts. *)

\* __GeTriggerWait().
GeTriggerWait(y, what) ==
  [y EXCEPT !.wait = [t \in Thread |-> IF @[t] = what THEN "none" ELSE @[t]]]

\* Mutant: any interrupt of a list ends the waits for it.
InterruptEndEarly(y, l) ==
  LET left == [y EXCEPT !.isbreak = FALSE, !.dls[l].pendingInterrupt = FALSE]
  IN  GeTriggerWait(left, l)

\* Mutant: any interrupt of a list takes it from the queue, its waiters stay.
InterruptEndLeaves(y, l) ==
  LET left == [y EXCEPT !.isbreak = FALSE, !.dls[l].pendingInterrupt = FALSE]
  IN  IF left.queue # <<>> /\ Head(left.queue) = l THEN PopDLQueue(left)
      ELSE LeaveQueue(left, l)

\* A list that is complete lets its waiters go and leaves the queue.
InterruptEnd(y, l) ==
  LET left == [y EXCEPT !.isbreak = FALSE, !.dls[l].pendingInterrupt = FALSE]
      freed == GeTriggerWait([left EXCEPT !.dls[l].busy = FALSE], l)
  IN  IF left.dls[l].state \notin {"COMPLETED", "NONE"} THEN left
      ELSE IF freed.queue # <<>> /\ Head(freed.queue) = l THEN PopDLQueue(freed)
      ELSE LeaveQueue(freed, l)

\* Before a SUSPENDed list goes on, on old firmware, it is queued again.
Requeue(y, l) ==
  IF OldSdk /\ y.dls[l].signal = "SUSPEND" /\ y.dls[l].state \notin {"NONE", "COMPLETED"}
  THEN [y EXCEPT !.dls[l].state = "QUEUED"] ELSE y

\* Mutant: the interrupt without a handler is over, but its entry stays.
GeIntrEndStays(y) ==
  LET l == Head(y.pend).list
  IN  ProcessDLQueue(InterruptEnd(Requeue(y, l), l))

\* The end of an interrupt: handleResult(), or run() without a handler.
GeIntrEnd(y) ==
  LET l == Head(y.pend).list
  IN  ProcessDLQueue(InterruptEnd(Requeue([y EXCEPT !.pend = Tail(@)], l), l))

\* The sub interrupt of the callback, if the list has one.
CallsHandler(y, c) ==
  /\ y.callbacks /\ y.dls[c.list].callback
  /\ y.dls[c.list].signal # "SYNC"
  /\ y.dls[c.list].signal = "PAUSE" => c.cmd = "FINISH"

\* GeIntrHandler::run().
GeIntrRun(y) ==
  LET c == Head(y.pend)
      seen == IF y.dls[c.list].signal # "PAUSE" /\ c.cmd = "FINISH"
              THEN [y EXCEPT !.dls[c.list].state = "COMPLETED"] ELSE y
  IN  IF y.pend = <<>> THEN [x |-> y, entered |-> FALSE]
      ELSE IF CallsHandler(y, c) THEN [x |-> seen, entered |-> TRUE]
      ELSE [x |-> GeIntrEnd(seen), entered |-> FALSE]

Run(y, p) == IF p = "GE" THEN GeIntrRun(y) ELSE IntrHandlerRun(y, p)
HandleResult(y, p) == IF p = "GE" THEN GeIntrEnd(y) ELSE y
RunPending(y) == RunOnePendingInterrupt(y, Run)

-----------------------------------------------------------------------------
(* System calls. *)

Calls(op) == op \in x.guest
MayWait(t) == ~x.i.inside /\ x.wait[t] = "none"
\* The guest runs: an interrupt handler, or a thread.
GuestRuns == x.i.inside \/ \E t \in Thread : x.wait[t] = "none"

\* sceGeContinue(), or a list enqueued at the head and then continued, makes the first
\* list go on although the interrupt it stopped for is to come: what RunEarly guests do.
InTime == x.queue # <<>> /\ x.dls[Head(x.queue)].pendingInterrupt => Calls("RunEarly")

\* EnqueueList() takes an unused list, else a completed one.
Free(l) ==
  /\ ~x.dls[l].pendingInterrupt
  /\ \/ x.dls[l].state = "NONE"
     \/ /\ x.dls[l].state = "COMPLETED" /\ ~x.dls[l].busy
        /\ \A m \in List : x.dls[m].state = "NONE" => x.dls[m].pendingInterrupt

AddressUsed(prog) ==
  /\ ~OldSdk
  /\ \E m \in List : /\ x.dls[m].state \notin {"NONE", "COMPLETED"}
                     /\ x.dls[m].prog = prog /\ x.dls[m].pos = 0
                     /\ ~x.dls[m].pendingInterrupt

NewList(prog, stall, callback, state) ==
  [UnusedList EXCEPT !.prog = prog, !.stall = stall, !.callback = callback,
                     !.state = state, !.busy = TRUE]

sceGeListEnQueue(l, prog, stall, callback) ==
  /\ Calls("ListEnQueue") /\ GuestRuns /\ Free(l) /\ ~AddressUsed(prog)
  /\ x' = IF x.cur # NoList
          THEN [x EXCEPT !.dls[l] = NewList(prog, stall, callback, "QUEUED"),
                         !.queue = Append(@, l)]
          ELSE ProcessDLQueue(
                 [x EXCEPT !.dls[l] = NewList(prog, stall, callback, "RUNNING"),
                           !.queue = <<l>> \o @, !.cur = l, !.draw = "never"])

\* The list that was paused is queued behind the new one, which waits to be continued.
sceGeListEnQueueHead(l, prog, stall, callback) ==
  /\ Calls("ListEnQueueHead") /\ GuestRuns /\ Free(l) /\ ~AddressUsed(prog)
  /\ x.cur # NoList => l # x.cur /\ x.dls[x.cur].state = "PAUSED" /\ InTime
  /\ LET behind == IF x.cur = NoList THEN x
                   ELSE [x EXCEPT !.dls[x.cur].state = "QUEUED", !.dls[x.cur].signal = "NONE"]
     IN  x' = [behind EXCEPT !.dls[l] = NewList(prog, stall, callback, "PAUSED"),
                             !.queue = <<l>> \o @, !.cur = l]

\* It is refused when the current list is not paused, but the entry is filled in.
sceGeListEnQueueHeadRefused(l, prog, stall, callback) ==
  /\ Calls("ListEnQueueHeadRefused") /\ GuestRuns /\ Free(l) /\ ~AddressUsed(prog)
  /\ x.cur # NoList /\ x.dls[x.cur].state # "PAUSED"
  /\ x' = [x EXCEPT !.dls[l] = NewList(prog, stall, callback, @.state)]

\* Only a list that has not run yet.  Whatever front() reads of an empty queue, neither
\* pop nor removal does anything to it.
sceGeListDeQueue(l) ==
  /\ Calls("ListDeQueue") /\ GuestRuns
  /\ x.dls[l].state # "NONE" /\ ~x.dls[l].started
  /\ LET none == [x EXCEPT !.dls[l].state = "NONE"]
         out == IF x.queue # <<>> /\ Head(x.queue) = l THEN PopDLQueue(none)
                ELSE LeaveQueue(none, l)
         freed == GeTriggerWait([out EXCEPT !.dls[l].busy = FALSE], l)
     IN  x' = IF freed.queue # <<>> THEN freed
              ELSE [freed EXCEPT !.dls = [m \in List |-> [@[m] EXCEPT !.state = "NONE"]]]

\* The queue is looked at again, whether or not an interrupt is to come.
sceGeListUpdateStallAddr(l, stall) ==
  /\ Calls("ListUpdateStallAddr") /\ GuestRuns
  /\ x.dls[l].state \notin {"NONE", "COMPLETED"}
  /\ x' = ProcessDLQueue([x EXCEPT !.dls[l].stall = stall])

sceGeListSync(t, l) ==
  /\ Calls("ListSync") /\ MayWait(t)
  /\ x.dls[l].busy
  /\ x' = [x EXCEPT !.wait[t] = l]

sceGeDrawSync(t) ==
  /\ Calls("DrawSync") /\ MayWait(t)
  /\ x' = IF x.draw # "past" THEN [x EXCEPT !.wait[t] = "draw"]
          ELSE [x EXCEPT !.dls = [l \in List |->
                  IF @[l].state = "COMPLETED" THEN [@[l] EXCEPT !.state = "NONE"]
                  ELSE @[l]]]

\* After a break the list is queued again, else it runs again.
sceGeContinue ==
  /\ Calls("Continue") /\ GuestRuns
  /\ x.cur # NoList /\ x.dls[x.cur].state = "PAUSED" /\ InTime
  /\ LET again == [x EXCEPT !.dls[x.cur].signal = "NONE"]
     IN  x' = ProcessDLQueue(
                IF x.isbreak THEN [again EXCEPT !.dls[x.cur].state = "QUEUED"]
                ELSE [again EXCEPT !.dls[x.cur].state = "RUNNING", !.draw = "never"])

\* sceGeBreak(0): the list that runs or would run next is paused.
sceGeBreak ==
  /\ Calls("Break") /\ GuestRuns
  /\ x.cur # NoList
  /\ LET d == x.dls[x.cur]
     IN  \/ /\ d.state = "QUEUED"
            /\ x' = [x EXCEPT !.dls[x.cur].state = "PAUSED"]
         \/ /\ d.state = "RUNNING"
            /\ d.signal = "PAUSE" => Calls("BreakPausing")
            /\ x' = [x EXCEPT
                 !.dls[x.cur].pos = IF d.signal = "SYNC" /\ @ < Len(d.prog) THEN @ + 1 ELSE @,
                 !.dls[x.cur].state = "PAUSED", !.dls[x.cur].signal = "SUSPEND",
                 !.isbreak = TRUE]

\* sceGeBreak(1): all lists are forgotten; interrupts on their way, threads that wait and
\* drawCompleteTicks are not touched.
sceGeBreakAll ==
  /\ Calls("BreakAll") /\ GuestRuns /\ x.cur # NoList
  /\ x' = [x EXCEPT !.queue = <<>>, !.cur = NoList,
                    !.dls = [l \in List |-> [@[l] EXCEPT !.state = "NONE", !.signal = "NONE"]]]

sceGeSetCallback == /\ Calls("SetCallback") /\ GuestRuns /\ ~x.callbacks
                    /\ x' = [x EXCEPT !.callbacks = TRUE]
sceGeUnsetCallback == /\ Calls("UnsetCallback") /\ GuestRuns /\ x.callbacks
                      /\ x' = [x EXCEPT !.callbacks = FALSE]

sceKernelCpuSuspendIntr ==
  /\ Calls("CpuSuspendIntr") /\ GuestRuns /\ x.i.enabled
  /\ x' = [x EXCEPT !.i.enabled = FALSE]
sceKernelCpuResumeIntr ==
  /\ Calls("CpuSuspendIntr") /\ GuestRuns /\ ~x.i.enabled
  /\ x' = RunPending([x EXCEPT !.i.enabled = TRUE])

sceKernelRegisterSubIntrHandler(s) ==
  /\ Calls("RegisterSubIntrHandler") /\ GuestRuns /\ CanRegister(x.i, s)
  /\ x' = [x EXCEPT !.i = RegisterSubIntrHandler(@, s)]
sceKernelReleaseSubIntrHandler(s) ==
  /\ Calls("ReleaseSubIntrHandler") /\ GuestRuns /\ CanRelease(x.i, s)
  /\ x.i.ran = s => Calls("ReleaseRunning")
  /\ x' = [x EXCEPT !.i = ReleaseSubIntrHandler(@, s)]
sceKernelEnableSubIntr(s) ==
  /\ Calls("RegisterSubIntrHandler") /\ GuestRuns
  /\ x' = [x EXCEPT !.i = EnableSubIntr(@, s)]
sceKernelDisableSubIntr(s) ==
  /\ Calls("DisableSubIntr") /\ GuestRuns /\ x.i.handler[s].has
  /\ x' = [x EXCEPT !.i = DisableSubIntr(@, s)]

-----------------------------------------------------------------------------
(* CoreTiming events, the return of a handler, and time. *)

GeExecuteInterrupt ==
  /\ x.intrEvents > 0
  /\ x' = RunPending([x EXCEPT !.intrEvents = @ - 1, !.i.pending = Append(@, "GE")])

\* The draw sync event: threads in sceGeDrawSync() go on.
GeExecuteSync ==
  /\ x.drawEvent
  /\ LET woke == \E t \in Thread : x.wait[t] = "draw"
         gone == GeTriggerWait([x EXCEPT !.drawEvent = FALSE,
                                         !.draw = IF @ = "future" THEN "past" ELSE @], "draw")
     IN  x' = IF ~woke THEN gone
              ELSE [gone EXCEPT !.dls = [l \in List |->
                      IF @[l].state = "COMPLETED" THEN [@[l] EXCEPT !.state = "NONE"]
                      ELSE @[l]]]

\* The clock passes drawCompleteTicks before the event is looked at.
DrawTicksPass == x.draw = "future" /\ x' = [x EXCEPT !.draw = "past"]

\* PSP_INTR_ONLY_IF_ENABLED: a vertical blank that is not wanted is lost.  Only it can
\* fill the pending list: a list has one interrupt to come at most.
Vblank ==
  /\ x.i.enabled /\ QueueUpAll(x.i, SubOrder) # x.i
  /\ Len(x.i.pending) < MaxEvents
  /\ x' = RunPending([x EXCEPT !.i = QueueUpAll(@, SubOrder)])

ReturnFromInterrupt ==
  /\ x.i.inside /\ x.i.pending # <<>>
  /\ x' = KernelReturnFromInterrupt(x, Run, HandleResult)

-----------------------------------------------------------------------------
GeInit ==
  \E g \in Guests :
  x = [guest |-> g, i |-> InterruptsInit, dls |-> [l \in List |-> UnusedList], queue |-> <<>>,
       cur |-> NoList, isbreak |-> FALSE, draw |-> "past", pend |-> <<>>,
       intrEvents |-> 0, drawEvent |-> FALSE, callbacks |-> FALSE,
       wait |-> [t \in Thread |-> "none"]]

GeCall ==
  \/ \E l \in List :
       \/ \E prog \in Programs : \E stall \in 0..Len(prog), callback \in BOOLEAN :
            \/ sceGeListEnQueue(l, prog, stall, callback)
            \/ sceGeListEnQueueHead(l, prog, stall, callback)
            \/ sceGeListEnQueueHeadRefused(l, prog, stall, callback)
       \/ sceGeListDeQueue(l)
       \/ \E stall \in x.dls[l].pos..Len(x.dls[l].prog) : sceGeListUpdateStallAddr(l, stall)
       \/ \E t \in Thread : sceGeListSync(t, l)
  \/ \E t \in Thread : sceGeDrawSync(t)
  \/ sceGeContinue \/ sceGeBreak \/ sceGeBreakAll
  \/ sceGeSetCallback \/ sceGeUnsetCallback

IntrCall ==
  \/ sceKernelCpuSuspendIntr \/ sceKernelCpuResumeIntr
  \/ \E s \in SubIntr :
       \/ sceKernelRegisterSubIntrHandler(s) \/ sceKernelReleaseSubIntrHandler(s)
       \/ sceKernelEnableSubIntr(s) \/ sceKernelDisableSubIntr(s)

GeEvent == GeExecuteInterrupt \/ GeExecuteSync \/ DrawTicksPass \/ Vblank

GeNext == GeCall \/ IntrCall \/ GeEvent \/ ReturnFromInterrupt

GeSpec == GeInit /\ [][GeNext]_x

\* No list goes on by itself after a signal that calls a handler, and no guest does what
\* breaks the queue: section 6 of the README describes it.  Neither holds of every
\* program; the theorems about lists assume both.
Orderly ==
  /\ \A prog \in Programs : \A n \in 1..Len(prog) :
       prog[n] # "CONTINUE" /\ (prog[n] = "SUSPEND" => OldSdk)
  /\ \A g \in Guests : g \cap {"RunEarly", "ReleaseRunning"} = {}

-----------------------------------------------------------------------------
(* Properties. *)

\* Lists, queue and interrupts have their types, and no list is past its end or, unless
\* it was broken off after a SYNC, past its stall address.
SyncSeen(d) == \E n \in 1..d.pos : d.prog[n] = "SYNC"
InBounds(d) == /\ d.pos <= Len(d.prog) /\ d.stall <= Len(d.prog)
               /\ d.pos > d.stall => SyncSeen(d)
GeTypeOK == x \in Engine /\ \A l \in List : InBounds(x.dls[l])

\* The current list is the front of the queue, which holds each list once: the code
\* follows currentList without a test whenever the queue is not empty.
CurrentIsFront ==
  /\ Distinct(x.queue)
  /\ x.cur = IF x.queue = <<>> THEN NoList ELSE Head(x.queue)

\* Each callback of a list has its interrupt, on its way, pending or running.
CallbacksHaveInterrupts ==
  Len(x.pend) = x.intrEvents + Len(Without(x.i.pending, SubIntr))

\* "This is what we just ran": the entry of the handler that runs is the first.
RanIsFront == x.i.inside => x.i.pending # <<>> /\ Head(x.i.pending) = x.i.ran

\* A list with a callback to come is marked, so its entry is not used for another.
PendingListsMarked ==
  \A n \in 1..Len(x.pend) : x.dls[x.pend[n].list].pendingInterrupt

\* The queue holds lists that have something left to do.
QueueHoldsLive ==
  \A n \in 1..Len(x.queue) : x.dls[x.queue[n]].state \in {"QUEUED", "RUNNING", "PAUSED"}

\* The calls that leave somebody without an end, section 6 of the README: the entry of a
\* refused sceGeListEnQueueHead(), a list forgotten by sceGeBreak(1), and the drawing that
\* it broke off.
LeftBusy(l) ==
  \/ /\ Calls("ListEnQueueHeadRefused") /\ ~x.dls[l].started
     /\ x.dls[l].state \in {"NONE", "COMPLETED"}
  \/ Calls("BreakAll") /\ x.dls[l].state = "NONE"
LeftDrawing == Calls("BreakAll") /\ x.draw = "never"

Queued(l) == \E n \in 1..Len(x.queue) : x.queue[n] = l
CallbackToCome(l) == \E n \in 1..Len(x.pend) : x.pend[n].list = l

\* A thread waits for a list that is not complete, and that is in the queue or has the
\* interrupt to come that ends the wait.
ListWaitersHaveWork ==
  \A t \in Thread : x.wait[t] \in List =>
    /\ x.dls[x.wait[t]].busy
    /\ Queued(x.wait[t]) \/ CallbackToCome(x.wait[t]) \/ LeftBusy(x.wait[t])

\* A thread waits for drawing only while there is something that will end the wait.
DrawWaitersHaveWork ==
  \A t \in Thread : x.wait[t] = "draw" =>
    x.drawEvent \/ x.queue # <<>> \/ x.pend # <<>> \/ LeftDrawing

\* What every call, command and interrupt keeps: queue, current list, the states of
\* the lists, their callbacks and the pending interrupts agree.
GeInv ==
  /\ GeTypeOK
  /\ CurrentIsFront
  /\ CallbacksHaveInterrupts
  /\ RanIsFront
  /\ PendingListsMarked
  /\ QueueHoldsLive

\* A thread in sceGeListSync() or sceGeDrawSync() has something that will end its wait: a
\* list in the queue (which the guest may have to move on), an interrupt of its list or
\* the draw event, with the exceptions named.
WaitersHaveWork == ListWaitersHaveWork /\ DrawWaitersHaveWork

\* A wait for a list ends when the list has run to its end, was taken back, or was broken
\* off by sceGeBreak(1).
ListSyncMeansDone ==
  [][\A t \in Thread : x.wait[t] \in List /\ x'.wait[t] = "none" =>
       LET l == x.wait[t]
           d == x.dls[l]
       IN  \/ d.pos = Len(d.prog) \/ ~d.started
           \/ Calls("BreakAll") /\ ~Queued(l)]_x

\* "Suspend the list, and call the signal handler. When it's done, resume.": under an old
\* SDK version the list stays behind its SUSPEND as long as the callback is to come,
\* although stalls are moved, lists queued, taken back and broken off, and other
\* interrupts end meanwhile.  A guest that itself continues the list, or puts another
\* before it, in that time is excepted (InTime).
SuspendWaitsForHandler ==
  \A n \in 1..Len(x.pend) :
    LET c == x.pend[n]
        d == x.dls[c.list]
    IN  c.cmd = "SIGNAL" /\ c.pc \in DOMAIN d.prog /\ d.prog[c.pc] = "SUSPEND"
          => d.pos = c.pc
=============================================================================
