--------------------------- MODULE KernelCallback ---------------------------
(***************************************************************************)
(* Callbacks (the second half of Core/HLE/sceKernelThread.cpp and the      *)
(* Begin/End pairs of KernelWaitHelpers.h) on top of the thread manager    *)
(* and the semaphores.                                                     *)
(*                                                                         *)
(* A callback belongs to the thread that creates it.  Once notified it is  *)
(* turned into a "MIPS call" of that thread when the thread waits in a     *)
(* call whose name ends in CB: the wait is paused, the thread becomes      *)
(* READY, the call runs when the thread is switched in, and on its return  *)
(* the wait goes on or is completed.                                       *)
(*                                                                         *)
(* __KernelReSchedule() looks for callbacks before it does anything else.  *)
(* That is a step of its own here, KernelCheckCallbacks; cb.frames has one *)
(* entry for each entry of k.frames for which it is done, and nothing else *)
(* happens before it.                                                      *)
(*                                                                         *)
(* currentCallbackId is 0 for ever in the code, so a paused wait is always *)
(* filed under the id of its thread.                                       *)
(***************************************************************************)
EXTENDS KernelSema, SequencesExt

CONSTANT Cb       \* ids of callbacks

ASSUME CbAssumption == NoObj \notin Cb

VARIABLE cb

cbvars == <<k, sema, cb>>

\* A paused wait with no deadline, or with one (pausedTimeout); time itself is not
\* modelled, a deadline has passed or not when the callback returns.
Paused == {"no", "forever", "deadline"}

\* MipsCall with its ActionAfterMipsCall: what the call was made from.
MipsCall == [id : Cb, st : SUBSET StatusBits, wait : Wait, processing : BOOLEAN]

Callbacks ==
  [owner      : [Cb -> Thread \cup {NoThread}],   \* nc.threadId, NoThread: none such
   notified   : [Cb -> BOOLEAN],                  \* nc.notifyCount # 0
   list       : [Thread -> Seq(Cb)],              \* t->callbacks
   processing : [Thread -> BOOLEAN],              \* isProcessingCallbacks
   pending    : [Thread -> Seq(MipsCall)],        \* pendingMipsCalls
   running    : [Thread -> Seq([call : MipsCall, resched : BOOLEAN])],
   ready      : Nat,                              \* readyCallbacksCount
   inCb       : Nat,                              \* g_inCbCount
   thread     : Thread \cup {NoThread},           \* currentCallbackThreadID
   delays     : [Thread -> BOOLEAN],              \* pausedDelays
   paused     : [Thread \cup Obj -> [Thread -> Paused]],  \* pausedWaits
   queue      : Seq(Thread),                      \* threadqueue
   asks       : Thread \cup {NoThread},           \* doCallbacks of the next reschedule
   frames     : Seq(Thread \cup {NoThread})]      \* doCallbacks of those under way

NoPause == [t \in Thread |-> "no"]

-----------------------------------------------------------------------------
(* Pausing and resuming a wait.  The functions below work on a record x of *)
(* kernel, semaphores and callbacks.                                       *)

State == [k |-> k, sema |-> sema, cb |-> cb]
Becomes(x) == k' = x.k /\ sema' = x.sema /\ cb' = x.cb

\* A result of the current thread goes to the CPU and not to its saved context.
\* Non-waiting threads do not process callbacks.
ResumeCurrent(x) ==
  LET resumed == resumeFromWait(x.k, x.k.cur)
  IN  [x EXCEPT !.k = resumed, !.cb.processing[x.k.cur] = FALSE]

\* WaitBeginCallback() of the wait for id.  A pause that is there already is kept.
PauseWait(x, t, id, type) ==
  LET timed == x.k.wait[t].timed
      kk == IF timed THEN UnscheduleEvent(x.k, type, t) ELSE x.k
  IN  IF x.cb.paused[id][t] # "no" THEN x
      ELSE [x EXCEPT
        !.cb.paused[id][t] = IF timed THEN "deadline" ELSE "forever",
        !.sema = IF type = "SEMA"
                 THEN [@ EXCEPT ![id].waiting = RemoveWaitingThread(@, t)] ELSE @,
        !.k = IF type = "THREADEND"
              THEN [kk EXCEPT !.joiners[id] = RemoveWaitingThread(@, t)] ELSE kk]

\* The beginFunc of the wait type.  A sleep needs nothing.
BeginCallback(x, t) ==
  LET w == x.k.wait[t]
  IN  CASE w.type = "DELAY" ->
             IF w.id # t \/ x.cb.delays[t] THEN x
             ELSE [x EXCEPT !.cb.delays[t] = TRUE,
                            !.k = UnscheduleEvent(@, "DELAY", t)]
        [] w.type = "SEMA" ->
             IF x.sema[w.id].exists THEN PauseWait(x, t, w.id, "SEMA") ELSE x
        [] w.type = "THREADEND" ->
             IF Exists(x.k, w.id) THEN PauseWait(x, t, w.id, "THREADEND") ELSE x
        [] OTHER -> x

\* Mutant: the thread does not go back to the list.
GoOnWaitingUnlisted(x, id, type, late) ==
  LET t == x.k.cur
      left == [x EXCEPT !.cb.paused[id][t] = "no"]
  IN  IF late /\ x.cb.paused[id][t] = "deadline" THEN ResumeCurrent(left)
      ELSE [left EXCEPT !.k = IF x.k.wait[t].timed
                              THEN ScheduleEvent(@, type, t) ELSE @]

\* WaitEndCallback() could not complete the wait: it times out or goes on, at the
\* end of the line.
GoOnWaiting(x, id, type, late) ==
  LET t == x.k.cur
      left == [x EXCEPT !.cb.paused[id][t] = "no"]
      armed == IF x.k.wait[t].timed THEN ScheduleEvent(x.k, type, t) ELSE x.k
  IN  IF late /\ x.cb.paused[id][t] = "deadline" THEN ResumeCurrent(left)
      ELSE [left EXCEPT
        !.sema = IF type = "SEMA"
                 THEN [@ EXCEPT ![id].waiting = Append(@, t)] ELSE @,
        !.k = IF type = "THREADEND"
              THEN [armed EXCEPT !.joiners[id] = Append(@, t)] ELSE armed]

\* The endFunc of the wait type, for the current thread.  late: the deadline of
\* the wait has passed while the callback ran.
EndSleep(x) ==
  LET t == x.k.cur
  IN  IF x.k.wakeup[t] > 0
      THEN ResumeCurrent([x EXCEPT !.k.wakeup[t] = @ - 1]) ELSE x

EndDelay(x, late) ==
  LET t == x.k.cur
      left == [x EXCEPT !.cb.delays[t] = FALSE]
  IN  IF ~x.cb.delays[t] \/ late THEN ResumeCurrent(left)
      ELSE [left EXCEPT !.k = ScheduleEvent(@, "DELAY", t)]

EndSemaWait(x, late) ==
  LET t == x.k.cur
      s == x.k.wait[t].id
      n == x.k.wait[t].value
      left == [x EXCEPT !.cb.paused[s][t] = "no"]
  IN  IF ~x.sema[s].exists \/ x.cb.paused[s][t] = "no" THEN ResumeCurrent(x)
      ELSE IF n <= x.sema[s].count
           THEN ResumeCurrent([left EXCEPT
                  !.sema[s].count = @ - n, !.k = StopWaitTimer(@, "SEMA", t)])
           ELSE GoOnWaiting(x, s, "SEMA", late)

EndThreadEndWait(x, late) ==
  LET t == x.k.cur
      u == x.k.wait[t].id
      left == [x EXCEPT !.cb.paused[u][t] = "no"]
  IN  IF ~Exists(x.k, u) \/ x.cb.paused[u][t] = "no" THEN ResumeCurrent(x)
      ELSE IF x.k.st[u] = {"DORMANT"}
           THEN ResumeCurrent([left EXCEPT
                  !.k = UnscheduleEvent(@, "THREADEND", t)])
           ELSE GoOnWaiting(x, u, "THREADEND", late)

EndCallback(x, late) ==
  LET type == x.k.wait[x.k.cur].type
  IN  CASE type = "SLEEP" -> EndSleep(x)
        [] type = "DELAY" -> EndDelay(x, late)
        [] type = "SEMA" -> EndSemaWait(x, late)
        [] type = "THREADEND" -> EndThreadEndWait(x, late)
        [] OTHER -> x

-----------------------------------------------------------------------------
(* MIPS calls. *)

CanExecuteCallbackNow(c) == c.thread = NoThread /\ c.inCb = 0

\* __KernelExecuteMipsCallOnCurrentThread()
ExecuteMipsCall(c, t, call, resched) ==
  [c EXCEPT !.running[t] = Append(@, [call |-> call, resched |-> resched]),
            !.inCb = @ + 1, !.thread = t]

\* __KernelExecutePendingMipsCalls() returns true, and what it does then.
HasPendingNow(c, t) == c.pending[t] # <<>> /\ CanExecuteCallbackNow(c)
KernelExecutePendingMipsCalls(c, t, resched) ==
  IF HasPendingNow(c, t)
  THEN ExecuteMipsCall([c EXCEPT !.pending[t] = Tail(@)], t, Head(c.pending[t]), resched)
  ELSE c

\* The call remembers the state that is restored when it returns; meanwhile the
\* thread does not wait.
KernelCallAddress(x, t, id, resched) ==
  LET call == [id |-> id, st |-> x.k.st[t], wait |-> x.k.wait[t],
               processing |-> x.cb.processing[t]]
      begun == BeginCallback(x, t)
      freed == [begun EXCEPT
                  !.k = KernelChangeThreadState([@ EXCEPT !.wait[t].type = "NONE"],
                                                t, {"READY"})]
  IN  IF t = x.k.cur /\ CanExecuteCallbackNow(x.cb)
      THEN [freed EXCEPT !.k = KernelChangeThreadState(@, t, {"RUNNING"}),
                         !.cb = ExecuteMipsCall(@, t, call, resched)]
      ELSE [freed EXCEPT !.cb.pending[t] = Append(@, call)]

-----------------------------------------------------------------------------
(* Finding the callbacks to run. *)

Alive(c, id) == c.owner[id] # NoThread
IsReady(c, id) == Alive(c, id) /\ c.notified[id]
HasReadyCallbacks(c, t) == \E i \in 1..Len(c.list[t]) : IsReady(c, c.list[t][i])

\* __KernelCheckThreadCallbacks(): the first ready callback of t.
FindsCallback(c, t, force) == (c.processing[t] \/ force) /\ HasReadyCallbacks(c, t)
KernelCheckThreadCallbacks(x, t, force) ==
  IF ~FindsCallback(x.cb, t, force) THEN x
  ELSE LET i == Min({j \in 1..Len(x.cb.list[t]) : IsReady(x.cb, x.cb.list[t][j])})
           id == x.cb.list[t][i]
       IN  [KernelCallAddress([x EXCEPT !.cb.notified[id] = FALSE], t, id, ~force)
              EXCEPT !.cb.ready = @ - 1]

\* __KernelCheckCallbacks(): all threads, in the order of their creation.
CheckAllCallbacks(x) ==
  LET queue == x.cb.queue
      found == \E i \in 1..Len(queue) : FindsCallback(x.cb, queue[i], FALSE)
      after[n \in 0..Len(queue)] ==
        IF n = 0 THEN x
        ELSE KernelCheckThreadCallbacks(after[n - 1], queue[n], FALSE)
      done == after[Len(queue)]
  IN  IF x.cb.ready = 0 \/ ~x.k.disp \/ x.cb.inCb # 0 \/ ~found THEN x
      ELSE IF x.k.cur = NoThread THEN done
      ELSE [done EXCEPT !.cb = KernelExecutePendingMipsCalls(@, x.k.cur, TRUE)]

\* __KernelForceCallbacks(): those of the current thread, waiting or not.
ForceCallbacks(x) ==
  IF x.cb.ready = 0 \/ ~FindsCallback(x.cb, x.k.cur, TRUE) THEN x
  ELSE [KernelCheckThreadCallbacks(x, x.k.cur, TRUE)
          EXCEPT !.cb = KernelExecutePendingMipsCalls(@, x.k.cur, FALSE)]

-----------------------------------------------------------------------------
(* What the calls and handlers of the other modules do to callbacks. *)

\* No reschedule is about to begin.
Settled == Len(cb.frames) = Len(k.frames)

Deleted(t) == Exists(k, t) /\ ~Exists(k', t)
Created(t) == ~Exists(k, t) /\ Exists(k', t)
Started(t) == k.st[t] = {"DORMANT"} /\ Has(k', t, "READY")
StoppedWaiting(t) == Has(k, t, "WAIT") /\ k'.st[t] \cap {"WAIT", "DORMANT"} = {}
BeganToWait(t) == t = k.cur /\ ~Has(k, t, "WAIT") /\ Has(k', t, "WAIT")

\* __KernelDeleteThread() and, for the thread itself, sceKernelExitDeleteThread().
\* Records of the id that others keep are not read again: a handle is reused only
\* after 4096 others.
Bury(c, t) ==
  LET mine == {id \in Cb : Holds(c.list[t], id) /\ Alive(c, id)}
      blocks == c.thread = t
  IN  [c EXCEPT
        !.owner = [id \in Cb |-> IF id \in mine THEN NoThread ELSE @[id]],
        !.notified = [id \in Cb |-> @[id] /\ id \notin mine],
        !.ready = @ - Cardinality({id \in mine : c.notified[id]}),
        !.thread = IF blocks THEN NoThread ELSE @,
        !.inCb = IF blocks \/ t = k.cur THEN 0 ELSE @,
        !.list[t] = <<>>, !.processing[t] = FALSE,
        !.pending[t] = <<>>, !.running[t] = <<>>,
        !.delays[t] = FALSE,
        !.paused = [u \in Thread \cup Obj |->
                      IF u = t THEN NoPause ELSE [@[u] EXCEPT ![t] = "no"]],
        !.queue = DropFirst(@, t)]

\* __KernelResetThread()
Reset(c, t) ==
  [c EXCEPT !.processing[t] = FALSE, !.pending[t] = <<>>, !.running[t] = <<>>]

Follow(doCallbacks) ==
  LET gone == {t \in Thread : Deleted(t)}
      buried == IF gone = {} THEN cb ELSE Bury(cb, CHOOSE t \in gone : TRUE)
      begun == IF \E t \in Thread : Started(t)
               THEN Reset(buried, CHOOSE t \in Thread : Started(t)) ELSE buried
      born == {t \in Thread : Created(t)}
      waits == doCallbacks /\ BeganToWait(k.cur)
  IN  cb' = [begun EXCEPT
        !.queue = @ \o SetToSeq(born),
        !.processing = [t \in Thread |->
                          (@[t] /\ ~StoppedWaiting(t)) \/ (waits /\ t = k.cur)],
        !.paused = [u \in Thread \cup Obj |->
                      IF u \in Obj /\ ~sema'[u].exists THEN NoPause ELSE @[u]],
        !.asks = IF waits THEN k.cur ELSE @]

\* The end of a reschedule: a thread that is switched in starts its first pending
\* call; the thread that asked for callbacks and runs again processes no more.
Switches ==
  k.disp /\ ~(/\ k.cur # NoThread /\ Has(k, k.cur, "RUNNING")
              /\ \A p \in Prio : p < k.prio[k.cur] => k.rq[p] = <<>>)

EndReschedule ==
  LET popped == [cb EXCEPT !.frames = Front(@)]
      asked == Last(cb.frames)
      runs(t) == t = asked /\ t = k'.cur /\ Has(k', t, "RUNNING")
      switched == IF Switches
                  THEN KernelExecutePendingMipsCalls(popped, k'.cur, TRUE) ELSE popped
  IN  cb' = [switched EXCEPT
        !.processing = [t \in Thread |-> @[t] /\ ~StoppedWaiting(t) /\ ~runs(t)]]

-----------------------------------------------------------------------------
(* Actions. *)

KernelCheckCallbacks ==
  /\ ~Settled
  /\ LET x == CheckAllCallbacks(State)
     IN  Becomes([x EXCEPT !.cb.frames = Append(@, cb.asks), !.cb.asks = NoThread])

InGuestCode == Settled /\ k.frames = <<>> /\ k.cur \in User /\ ~Stopped(k, k.cur)

\* A handle is reused only after 4096 others: not while something refers to it.
Unused(id) ==
  /\ ~Alive(cb, id)
  /\ \A t \in Thread :
       /\ ~Holds(cb.list[t], id)
       /\ \A i \in 1..Len(cb.pending[t]) : cb.pending[t][i].id # id
       /\ \A i \in 1..Len(cb.running[t]) : cb.running[t][i].call.id # id

sceKernelCreateCallback(id) ==
  /\ Calls("CreateCallback") /\ Settled
  /\ Unused(id)
  /\ cb' = [cb EXCEPT !.owner[id] = k.cur, !.list[k.cur] = Append(@, id)]
  /\ UNCHANGED <<k, sema>>

sceKernelDeleteCallback(id) ==
  /\ Calls("DeleteCallback") /\ Settled
  /\ Alive(cb, id)
  /\ cb' = [cb EXCEPT
       !.list[cb.owner[id]] = RemoveWaitingThread(@, id),
       !.ready = IF cb.notified[id] THEN @ - 1 ELSE @,
       !.owner[id] = NoThread, !.notified[id] = FALSE]
  /\ UNCHANGED <<k, sema>>

\* __KernelNotifyCallback(): by a call of the guest or by a device, from an event
\* of CoreTiming.  Further notifications only raise the count that is passed.
\* "NotifyAgain" allows it while the thread has yet to run a callback.
KernelNotifyCallback(id) ==
  /\ "NotifyCallback" \in Guest /\ Settled
  /\ Alive(cb, id) /\ ~cb.notified[id]
  /\ cb.pending[cb.owner[id]] = <<>> \/ "NotifyAgain" \in Guest
  /\ cb' = [cb EXCEPT !.notified[id] = TRUE, !.ready = @ + 1]
  /\ UNCHANGED <<k, sema>>

\* Also what sceKernelWaitThreadEndCB() does for a thread that has ended.
sceKernelCheckCallback ==
  /\ Calls("CheckCallback") /\ Settled
  /\ cb.running[k.cur] = <<>>
  /\ Becomes(ForceCallbacks(State))

\* ActionAfterMipsCall::run()
RestoreThread(x, call) ==
  LET t == x.k.cur
      queued == KernelChangeReadyState(x.k, t, "READY" \in call.st)
  IN  [x EXCEPT !.k = [queued EXCEPT !.st[t] = call.st, !.wait[t] = call.wait],
                !.cb.processing[t] = call.processing]

\* ActionAfterCallback::run(): other callbacks of its thread are next.  One that
\* returns nonzero is deleted, but stays in the list and in readyCallbacksCount.
AfterCallback(x, id, nonzero) ==
  LET next == IF Alive(x.cb, id)
              THEN KernelCheckThreadCallbacks(x, x.cb.owner[id], TRUE) ELSE x
  IN  IF Alive(x.cb, id) /\ nonzero
      THEN [next EXCEPT !.cb.owner[id] = NoThread, !.cb.notified[id] = FALSE]
      ELSE next

\* Mutant: the blocking thread is not cleared.
LeaveCallbackBlocked(x) ==
  [x EXCEPT !.cb.inCb = IF @ > 0 THEN @ - 1 ELSE 0]

\* The callback may have called sceKernelExitDeleteThread() of another thread.
LeaveCallback(x) ==
  [x EXCEPT !.cb.inCb = IF @ > 0 THEN @ - 1 ELSE 0, !.cb.thread = NoThread]

\* No reschedule after the return.
StaysOn(x, t, resched) == ~resched /\ x.k.st[t] \cap {"READY", "RUNNING"} # {}

KernelReturnFromMipsCall(nonzero, late) ==
  /\ InGuestCode
  /\ cb.running[k.cur] # <<>>
  /\ LET t == k.cur
         top == Last(cb.running[t])
         popped == [State EXCEPT !.cb.running[t] = Front(@)]
         after == AfterCallback(RestoreThread(popped, top.call), top.call.id, nonzero)
         x == EndCallback(LeaveCallback(after), late)
     IN  IF HasPendingNow(x.cb, t)
         THEN Becomes([x EXCEPT !.cb = KernelExecutePendingMipsCalls(@, t, top.resched)])
         ELSE Becomes(IF StaysOn(x, t, top.resched) THEN x
                      ELSE [x EXCEPT !.k = hleReSchedule(@)])

\* The calls with a CB in their name and those without, and the timers.  A thread
\* that has no callback needs only the latter: it has none before it stops waiting.
KernelCall ==
  /\ Settled
  /\ \E doCallbacks \in BOOLEAN :
     /\ doCallbacks => k.cur \in User /\ cb.list[k.cur] # <<>>
     /\ \/ (SystemCall \/ ThreadEnd) /\ UNCHANGED sema
        \/ SemaCall
     /\ Follow(doCallbacks)

\* A thread with callbacks to run always waits, and wakes after them.
WaitSemaWithCallbacks ==
  /\ Settled
  /\ k.cur \in User /\ HasReadyCallbacks(cb, k.cur)
  /\ \E s \in Obj, want \in Counts, timed \in BOOLEAN :
       KernelWaitSema(s, want, timed, TRUE) /\ Follow(TRUE)

TimerFires ==
  /\ Settled
  /\ \/ (Timer \/ KernelIdle) /\ UNCHANGED sema
     \/ \E t \in User : KernelSemaTimeout(t)
  /\ Follow(FALSE)

KernelReScheduleEnds ==
  /\ Settled
  /\ \/ KernelReSchedule /\ UNCHANGED sema
     \/ \E s \in Obj : KernelSemaTimeoutEnd(s)
  /\ EndReschedule

CbInit ==
  /\ SemaInit
  /\ cb = [owner |-> [id \in Cb |-> NoThread], notified |-> [id \in Cb |-> FALSE],
           list |-> [t \in Thread |-> <<>>], processing |-> [t \in Thread |-> FALSE],
           pending |-> [t \in Thread |-> <<>>], running |-> [t \in Thread |-> <<>>],
           ready |-> 0, inCb |-> 0, thread |-> NoThread,
           delays |-> [t \in Thread |-> FALSE],
           paused |-> [u \in Thread \cup Obj |-> NoPause],
           queue |-> <<Idle0, Idle1, k.cur>>, asks |-> NoThread, frames |-> <<>>]

CbNext ==
  \/ KernelCheckCallbacks
  \/ KernelCall
  \/ WaitSemaWithCallbacks
  \/ TimerFires
  \/ KernelReScheduleEnds
  \/ \E id \in Cb :
       \/ sceKernelCreateCallback(id)
       \/ sceKernelDeleteCallback(id)
       \/ KernelNotifyCallback(id)
  \/ sceKernelCheckCallback
  \/ \E nonzero, late \in BOOLEAN : KernelReturnFromMipsCall(nonzero, late)

CbSpec == CbInit /\ [][CbNext]_cbvars
-----------------------------------------------------------------------------
(* Properties. *)

\* The variables keep their types; readyCallbacksCount, which is counted down in
\* three places, never becomes negative (the code reports it when it does).
CbTypeOK == cb \in Callbacks

\* readyCallbacksCount is at least the number of callbacks that are ready, so the
\* early returns it guards never hide one.
ReadyCountCovers == Cardinality({id \in Cb : IsReady(cb, id)}) <= cb.ready

\* At most one callback runs in the whole system, never one inside another, and
\* currentCallbackThreadID, which holds back all the others, names its thread and is
\* cleared with it: a thread in a callback may wait, time out and be switched out.
OneCallbackAtATime ==
  \A t \in Thread :
    /\ cb.running[t] # <<>> => cb.thread = t /\ Len(cb.running[t]) = 1
    /\ cb.thread = t => cb.running[t] # <<>>

\* A wait stays paused only as long as the callback it is paused for is still to
\* run or to return, whatever became of the object and the deadline meanwhile.
Calling(t) == cb.pending[t] # <<>> \/ cb.running[t] # <<>>
PausedOnlyInCallback ==
  \A t \in Thread : Exists(k, t) =>
    /\ cb.delays[t] => Calling(t)
    /\ \A u \in Thread \cup Obj : cb.paused[u][t] # "no" => Calling(t)

\* What every call, reschedule and return from a callback keeps, with the parts of
\* the thread manager's invariant that hold while threads run callbacks in a wait.
CbInv ==
  /\ CbTypeOK
  /\ ReadyCountCovers
  /\ OneCallbackAtATime
  /\ PausedOnlyInCallback
  /\ ReadyQueueExact
  /\ OnlyRunnableRuns

\* A wait that goes on after a callback can be ended as before: its thread is in
\* the list of the object it waits for, its timer runs again if it had one, and a
\* wakeup that came while it was in the callback is not lost.
WaitsCanEnd ==
  /\ WaitersListed
  /\ TimedSemaWaitHasTimer
  /\ JoinersRegistered
  /\ TimedWaitHasTimer
  /\ NoLostWakeup

\* "While inside a callback, waits are released": a thread that executes the code
\* of a callback is not in the wait the callback has paused.
CallbackReleasesWait ==
  k.frames = <<>> /\ k.cur \in User /\ cb.running[k.cur] # <<>>
    => ~Has(k, k.cur, "WAIT")
=============================================================================
