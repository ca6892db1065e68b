----------------------------- MODULE KernelSema -----------------------------
(***************************************************************************)
(* Semaphores (Core/HLE/sceKernelSemaphore.cpp) on top of the thread       *)
(* manager and the wait helpers.                                           *)
(*                                                                         *)
(* Callbacks are not modelled: a WaitSemaCB without a pending callback is  *)
(* a WaitSema.                                                             *)
(***************************************************************************)
EXTENDS KernelWait

CONSTANTS
  MaxCounts,   \* maxCount of the semaphores the guest creates
  Attrs,       \* their attributes: TRUE for PSP_SEMA_ATTR_PRIORITY, FALSE for FIFO
  Counts       \* the amounts the guest signals and waits for

ASSUME SemaAssumption ==
  MaxCounts \subseteq Nat /\ Attrs \subseteq BOOLEAN /\ Counts \subseteq Nat \ {0}

VARIABLE sema

semavars == <<k, sema>>

\* NativeSemaphore and the list of waiters.
Semaphore == [exists : BOOLEAN, priority : BOOLEAN, init : Nat, count : Nat,
              max : Nat, numWait : Nat, waiting : Seq(Thread)]
NoSema == [exists |-> FALSE, priority |-> FALSE, init |-> 0, count |-> 0,
           max |-> 0, numWait |-> 0, waiting |-> <<>>]

-----------------------------------------------------------------------------
(* Letting waiters go.  A loop over waiters works on a record x of the     *)
(* kernel, the semaphore and the flag wokeThreads.                         *)

Begin(s) == [k |-> k, q |-> sema[s], woke |-> FALSE]

\* Mutant: a waiter is let go whatever the count.
CanUnlockUnchecked(x, s, t) == TRUE

\* __KernelUnlockSemaForThread() with result 0 would return true.
CanUnlock(x, s, t) ==
  VerifyWait(x.k, t, "SEMA", s) => x.k.wait[t].value <= x.q.count

\* Mutant: the tokens are not taken.
KernelUnlockSemaForThreadFree(x, s, t, result) ==
  IF ~VerifyWait(x.k, t, "SEMA", s) THEN x
  ELSE LET stopped == StopWaitTimer(x.k, "SEMA", t)
       IN  [x EXCEPT !.k = KernelResumeThreadFromWait(stopped, t, result),
                     !.woke = TRUE]

\* The whole function, when it returns true.
KernelUnlockSemaForThread(x, s, t, result) ==
  IF ~VerifyWait(x.k, t, "SEMA", s) THEN x
  ELSE LET stopped == StopWaitTimer(x.k, "SEMA", t)
       IN  [k    |-> KernelResumeThreadFromWait(stopped, t, result),
            q    |-> IF result = "ok" THEN [x.q EXCEPT !.count = @ - x.k.wait[t].value]
                     ELSE x.q,
            woke |-> TRUE]

\* Lets the waiter at i go and erases it from the list.
UnlockAt(x, s, i) ==
  LET y == KernelUnlockSemaForThread(x, s, x.q.waiting[i], "ok")
  IN  [y EXCEPT !.q.waiting = DropAt(@, i)]

\* The places of the waiters that may go now; with headOnly no other may go before
\* the first one does.
Free(x, s, headOnly) ==
  {i \in 1..Len(x.q.waiting) : /\ CanUnlock(x, s, x.q.waiting[i])
                               /\ headOnly => i = 1}

\* Lets one more waiter go, the first that may.
UnlockRound(x, s, headOnly) ==
  IF Free(x, s, headOnly) = {} THEN x ELSE UnlockAt(x, s, Min(Free(x, s, headOnly)))

\* Lets one waiter after the other go, from the front again after each one.  The set
\* has one element: as a bound variable, y is evaluated once in a round.
UnlockWaiters(x, s, headOnly) ==
  LET after[n \in 0..Len(x.q.waiting)] ==
        IF n = 0 THEN x
        ELSE CHOOSE z \in {UnlockRound(y, s, headOnly) : y \in {after[n - 1]}} : TRUE
  IN  after[Len(x.q.waiting)]

\* The retry loop of sceKernelSignalSema(), and the loop of __KernelSemaTimeout(),
\* which stops at the first that must still wait.
UnlockAll(x, s) == UnlockWaiters(x, s, FALSE)
UnlockPrefix(x, s) == UnlockWaiters(x, s, TRUE)

KernelClearSemaThreads(x, s, result) ==
  LET after[n \in 0..Len(x.q.waiting)] ==
        IF n = 0 THEN x
        ELSE KernelUnlockSemaForThread(after[n - 1], s, x.q.waiting[n], result)
  IN  [after[Len(x.q.waiting)] EXCEPT !.q.waiting = <<>>]

-----------------------------------------------------------------------------
(* System calls. *)

\* The end of a call: x is stored, and a reschedule follows if a thread woke.
Finish(x, s) ==
  /\ k' = IF x.woke THEN hleReSchedule(x.k) ELSE x.k
  /\ sema' = [sema EXCEPT ![s] = x.q]

\* initVal is not compared with maxVal by the code; the guest keeps to it here.
sceKernelCreateSema(s, priority, init, max) ==
  /\ Calls("CreateSema")
  /\ ~sema[s].exists /\ init <= max
  /\ sema' = [sema EXCEPT ![s] =
                [exists |-> TRUE, priority |-> priority, init |-> init,
                 count |-> init, max |-> max, numWait |-> 0, waiting |-> <<>>]]
  /\ UNCHANGED k

sceKernelDeleteSema(s) ==
  /\ Calls("DeleteSema")
  /\ sema[s].exists
  /\ LET x == KernelClearSemaThreads(Begin(s), s, "WAIT_DELETE")
     IN  Finish([x EXCEPT !.q = NoSema], s)

\* newCount < 0 stands for the initial count.
sceKernelCancelSema(s, newCount) ==
  /\ Calls("CancelSema")
  /\ sema[s].exists /\ newCount <= sema[s].max
  /\ LET q == [sema[s] EXCEPT
                 !.numWait = Len(sema[s].waiting),
                 !.count = IF newCount < 0 THEN sema[s].init ELSE newCount]
         set == [Begin(s) EXCEPT !.q = q]
     IN  Finish(KernelClearSemaThreads(set, s, "WAIT_CANCEL"), s)

sceKernelReferSemaStatus(s) ==
  /\ Calls("ReferSemaStatus")
  /\ sema[s].exists
  /\ LET w == CleanupWaitingThreads(k, "SEMA", s, sema[s].waiting)
     IN  sema' = [sema EXCEPT ![s].waiting = w, ![s].numWait = Len(w)]
  /\ UNCHANGED k

\* The overflow check counts the ids in the list, stale or not.
sceKernelSignalSema(s, signal) ==
  /\ Calls("SignalSema")
  /\ sema[s].exists
  /\ sema[s].count + signal - Len(sema[s].waiting) <= sema[s].max
  /\ LET q == [sema[s] EXCEPT
                 !.count = @ + signal,
                 !.waiting = IF sema[s].priority THEN SortPriority(k, @) ELSE @]
         added == [Begin(s) EXCEPT !.q = q]
     IN  Finish(UnlockAll(added, s), s)

\* HLE_NOT_DISPATCH_SUSPENDED.  The caller queues behind stale ids too, and waits
\* whatever the count if it has callbacks to run first.
KernelWaitSema(s, want, timed, hasCallbacks) ==
  /\ Calls("WaitSema")
  /\ k.disp /\ sema[s].exists /\ want <= sema[s].max
  /\ IF sema[s].count >= want /\ sema[s].waiting = <<>> /\ ~hasCallbacks
     THEN sema' = [sema EXCEPT ![s].count = @ - want] /\ UNCHANGED k
     ELSE /\ TimerFree(k, "SEMA", timed)
          /\ sema' = [sema EXCEPT ![s].waiting = ListOnce(@, k.cur)]
          /\ k' = KernelWaitCurThread(SetWaitTimer(k, "SEMA", timed),
                                      "SEMA", s, want, timed)

sceKernelWaitSema(s, want, timed) == KernelWaitSema(s, want, timed, FALSE)

sceKernelPollSema(s, want) ==
  /\ Calls("PollSema")
  /\ sema[s].exists
  /\ sema[s].count >= want /\ sema[s].waiting = <<>>
  /\ sema' = [sema EXCEPT ![s].count = @ - want]
  /\ UNCHANGED k

-----------------------------------------------------------------------------
(* The timeout. *)

\* Mutant: the handler forgets about a thread that is suspended.
KernelSemaTimeoutMissesSuspended(t) ==
  /\ k.timer["SEMA"][t] > 0
  /\ LET fired == PopEvent(k, "SEMA", t)
         uid == KernelGetWaitID(fired, t, "SEMA")
     IN  k' = IF uid # NoObj /\ sema[uid].exists /\ ~Has(k, t, "SUSPEND")
              THEN WaitExecTimeout(fired, t, uid)
              ELSE fired
  /\ UNCHANGED sema

\* __KernelSemaTimeout() up to the reschedule that WaitExecTimeout() does.
KernelSemaTimeout(t) ==
  /\ k.timer["SEMA"][t] > 0
  /\ LET fired == PopEvent(k, "SEMA", t)
         uid == KernelGetWaitID(fired, t, "SEMA")
     IN  k' = IF uid # NoObj /\ sema[uid].exists
              THEN WaitExecTimeout(fired, t, uid)
              ELSE fired
  /\ UNCHANGED sema

\* The end of that reschedule and the rest of the handler.  Threads that it wakes
\* are not scheduled before the next reschedule: wokeThreads is not looked at.
KernelSemaTimeoutEnd(s) ==
  /\ k.frames # <<>> /\ k.frames[Len(k.frames)] = s
  /\ LET x == [k |-> KernelReScheduleEnd(k), q |-> sema[s], woke |-> FALSE]
         y == IF sema[s].exists /\ ~sema[s].priority THEN UnlockPrefix(x, s) ELSE x
     IN  k' = y.k /\ sema' = [sema EXCEPT ![s] = y.q]

-----------------------------------------------------------------------------
SemaInit == Init /\ sema = [s \in Obj |-> NoSema]

SemaCall ==
  \E s \in Obj :
    \/ \E priority \in Attrs, max \in MaxCounts : \E init \in 0..max :
         sceKernelCreateSema(s, priority, init, max)
    \/ sceKernelDeleteSema(s)
    \/ \E newCount \in {-1, 0} \cup Counts : sceKernelCancelSema(s, newCount)
    \/ sceKernelReferSemaStatus(s)
    \/ \E n \in Counts : sceKernelSignalSema(s, n) \/ sceKernelPollSema(s, n)
    \/ \E want \in Counts, timed \in BOOLEAN : sceKernelWaitSema(s, want, timed)

SemaNext ==
  \/ SemaCall
  \/ \E t \in User : KernelSemaTimeout(t)
  \/ \E s \in Obj : KernelSemaTimeoutEnd(s)
  \/ Next /\ UNCHANGED sema

SemaSpec == SemaInit /\ [][SemaNext]_semavars

\* As for the other timers: every event fires, and every reschedule completes.
SemaFairSpec ==
  /\ SemaSpec
  /\ WF_semavars(KernelReSchedule /\ UNCHANGED sema)
  /\ \A s \in Obj : WF_semavars(KernelSemaTimeoutEnd(s))
  /\ \A t \in User :
       /\ WF_semavars(KernelSemaTimeout(t))
       /\ WF_semavars(hleScheduledWakeup(t) /\ UNCHANGED sema)
-----------------------------------------------------------------------------
(* Properties. *)

\* Every semaphore has the type its declaration gives it; in particular its count
\* never goes below zero, whoever is let go by a signal or by another's timeout.
SemaTypeOK == sema \in [Obj -> Semaphore]

\* No waiter is forgotten: a thread in WAIT for a semaphore is in its list, and
\* the semaphore exists.  Signals, cancels, deletions, timeouts and the cleanup of
\* stale ids all remove ids from the list.
WaitersListed ==
  \A t \in Thread, s \in Obj :
    isWaitingFor(k, t, "SEMA", s) => sema[s].exists /\ Holds(sema[s].waiting, t)

\* An id is in a list at most once, although it stays there after a timeout and
\* the thread comes back ("don't want to add duplicates", __KernelWaitSema()).
WaitersDistinct == \A s \in Obj : Distinct(sema[s].waiting)

\* A thread in a timed wait for a semaphore still has the event that ends it.
TimedSemaWaitHasTimer ==
  \A t \in Thread :
    WaitsFor(t, "SEMA") /\ k.wait[t].timed =>
      k.timer["SEMA"][t] > 0

\* What every semaphore call and timeout keeps: the types, the invariant of the
\* thread manager it calls, no double entry and no timed wait without its event.
SemaInv == SemaTypeOK /\ Inv /\ WaitersDistinct /\ TimedSemaWaitHasTimer

\* A signal hands out what it can: no thread whose request the count covers is left
\* waiting, and the count drops by exactly what the threads let go had asked for.
SignalServes ==
  [][\A s \in Obj, n \in Counts :
       sceKernelSignalSema(s, n) =>
         LET served == {t \in Thread : /\ VerifyWait(k, t, "SEMA", s)
                                       /\ Holds(sema[s].waiting, t)
                                       /\ ~Holds(sema'[s].waiting, t)}
         IN  /\ \A t \in Thread : isWaitingFor(k', t, "SEMA", s) =>
                                    k'.wait[t].value > sema'[s].count
             /\ sema'[s].count = sema[s].count + n
                  - SumFunctionOnSet([t \in Thread |-> k.wait[t].value], served)
    ]_semavars

\* A timed wait for a semaphore comes to an end.
TimedSemaWaitEnds ==
  \A t \in User :
    (WaitsFor(t, "SEMA") /\ k.wait[t].timed)
      ~> ~(WaitsFor(t, "SEMA") /\ k.wait[t].timed)

=============================================================================
