----------------------------- MODULE KernelWait -----------------------------
(***************************************************************************)
(* What the kernel objects with waiters share (KernelWaitHelpers.h).       *)
(*                                                                         *)
(* Each object keeps the ids of its waiters in a list.  An id may stay     *)
(* there when the wait ends by a timeout, a release or the end of the      *)
(* thread; VerifyWait() filters such stale ids out when the list is used.  *)
(***************************************************************************)
EXTENDS KernelThread, Removal, FiniteSetsExt

\* std::find() and push_back(): a thread that comes back after a timeout is
\* listed still.
ListOnce(w, t) == IF Holds(w, t) THEN w ELSE Append(w, t)

RemoveWaitingThread(w, t) == Without(w, {t})

\* std::stable_sort() by priority; a thread that is gone counts as priority 0.
SortPriority(kk, w) ==
  LET key(i) == IF Exists(kk, w[i]) THEN kk.prio[w[i]] ELSE 0
      place(i) == Cardinality({j \in 1..Len(w) :
                                 key(j) < key(i) \/ (key(j) = key(i) /\ j <= i)})
  IN  [n \in 1..Len(w) |-> w[CHOOSE i \in 1..Len(w) : place(i) = n]]

\* Mutant: shrinks the list without swapping the stale ids to its end.
CleanupOrderSkips(kk, type, id, threads) ==
  LET valid == {i \in 1..Len(threads) : VerifyWait(kk, threads[i], type, id)}
  IN  [n \in 1..Cardinality(valid) |-> n]

\* The places of the list that are left and their order: each stale id is swapped
\* with the last one that is left, which is then examined.
CleanupOrder(kk, type, id, threads) ==
  LET after[n \in 0..Len(threads)] ==
        IF n = 0 THEN [order |-> [i \in 1..Len(threads) |-> i], i |-> 1]
        ELSE LET y == after[n - 1]
                 size == Len(y.order)
             IN  IF y.i > size THEN y
                 ELSE IF VerifyWait(kk, threads[y.order[y.i]], type, id)
                      THEN [y EXCEPT !.i = @ + 1]
                      ELSE [y EXCEPT !.order =
                              [j \in 1..(size - 1) |-> @[IF j = y.i THEN size ELSE j]]]
  IN  after[Len(threads)].order

CleanupWaitingThreads(kk, type, id, w) ==
  LET order == CleanupOrder(kk, type, id, w)
  IN  [n \in 1..Len(order) |-> w[order[n]]]

\* The event of a timed wait is removed when the wait ends before it.
StopWaitTimer(kk, type, t) ==
  IF kk.wait[t].timed THEN UnscheduleEvent(kk, type, t) ELSE kk

\* The timer of a wait that is about to begin.
SetWaitTimer(kk, type, timed) == IF timed THEN ScheduleEvent(kk, type, kk.cur) ELSE kk
TimerFree(kk, type, timed) == timed => kk.timer[type][kk.cur] < MaxTimer

\* t is in a wait of this type.
WaitsFor(t, type) == Has(k, t, "WAIT") /\ k.wait[t].type = type
=============================================================================
