--------------------------- MODULE KernelEventFlag ---------------------------
(***************************************************************************)
(* Event flags (Core/HLE/sceKernelEventFlag.cpp) on top of the thread      *)
(* manager and the wait helpers.                                           *)
(*                                                                         *)
(* A flag is a pattern of bits.  A thread waits until all the bits it asks *)
(* for are set (or any of them), and may clear them, or the whole pattern, *)
(* as it is let go: the pattern changes while the list is walked.  Each    *)
(* entry of the list keeps the bits and the mode of its wait, so an entry  *)
(* that an earlier wait left behind is wrong for the next one.             *)
(*                                                                         *)
(* A pattern is the set of its bits.  Where the pattern is reported        *)
(* (outAddr) is left out, and so are callbacks: a WaitEventFlagCB without  *)
(* a pending callback is a WaitEventFlag.                                  *)
(***************************************************************************)
EXTENDS KernelWait

CONSTANTS
  Bits,       \* the bits of a pattern
  Asks,       \* what the guest waits for
  Multiples   \* values of PSP_EVENT_WAITMULTIPLE the guest creates flags with

\* bits and wait: or is PSP_EVENT_WAITOR, clear and all say what a match clears.
Ask == [bits : (SUBSET Bits) \ {{}}, or : BOOLEAN, clear : BOOLEAN, all : BOOLEAN]

ASSUME FlagAssumption == Asks \subseteq Ask /\ Multiples \subseteq BOOLEAN

VARIABLE flag

flagvars == <<k, flag>>

\* NativeEventFlag and waitingThreads, a list of EventFlagTh.
Entry == [thread : Thread, ask : Ask]
EventFlag == [exists : BOOLEAN, multiple : BOOLEAN, pattern : SUBSET Bits,
              waiting : Seq(Entry)]
NoFlag == [exists |-> FALSE, multiple |-> FALSE, pattern |-> {}, waiting |-> <<>>]

-----------------------------------------------------------------------------
(* Matching, and letting a waiter go.  x is a record of the kernel, the    *)
(* flags and the flag wokeThreads.                                         *)

BeginFlag == [k |-> k, f |-> flag, woke |-> FALSE]

KernelCheckEventFlagMatches(pattern, ask) ==
  IF ask.or THEN ask.bits \cap pattern # {} ELSE ask.bits \subseteq pattern

\* Mutant: a match with PSP_EVENT_WAITCLEAR leaves the pattern as it is.
KernelApplyEventFlagMatchKeeps(pattern, ask) == IF ask.all THEN {} ELSE pattern

\* The pattern that a match leaves.
KernelApplyEventFlagMatch(pattern, ask) ==
  IF ask.all THEN {} ELSE IF ask.clear THEN pattern \ ask.bits ELSE pattern

\* Whether the entry leaves the list: it is stale, let go or satisfied.
Unlocks(x, f, e, result) ==
  \/ ~VerifyWait(x.k, e.thread, "EVENTFLAG", f)
  \/ result # "ok"
  \/ KernelCheckEventFlagMatches(x.f[f].pattern, e.ask)

KernelUnlockEventFlagForThread(x, f, e, result) ==
  IF ~VerifyWait(x.k, e.thread, "EVENTFLAG", f) \/ ~Unlocks(x, f, e, result) THEN x
  ELSE [x EXCEPT
          !.f[f].pattern = IF result = "ok" THEN KernelApplyEventFlagMatch(@, e.ask) ELSE @,
          !.k = KernelResumeThreadFromWait(StopWaitTimer(@, "EVENTFLAG", e.thread),
                                           e.thread, result),
          !.woke = TRUE]

\* Every waiter is let go with an error.
KernelClearEventFlagThreads(x, f, result) ==
  LET w == x.f[f].waiting
      after[n \in 0..Len(w)] ==
        IF n = 0 THEN x ELSE KernelUnlockEventFlagForThread(after[n - 1], f, w[n], result)
  IN  [after[Len(w)] EXCEPT !.f[f].waiting = <<>>]

\* Mutant: erasing an entry skips the next one.
UnlockSatisfiedSkips(x, f) ==
  LET after[n \in 0..Len(x.f[f].waiting)] ==
        IF n = 0 THEN [x |-> x, i |-> 1]
        ELSE LET y == after[n - 1].x
                 i == after[n - 1].i
                 w == y.f[f].waiting
             IN  IF i > Len(w) THEN after[n - 1]
                 ELSE [x |-> IF ~Unlocks(y, f, w[i], "ok") THEN y
                             ELSE [KernelUnlockEventFlagForThread(y, f, w[i], "ok")
                                     EXCEPT !.f[f].waiting =
                                       SubSeq(@, 1, i - 1) \o SubSeq(@, i + 1, Len(@))],
                       i |-> i + 1]
  IN  after[Len(x.f[f].waiting)].x

\* The loop of sceKernelSetEventFlag(): what is unlocked is erased, and the entry
\* that takes its place is next.
UnlockSatisfied(x, f) ==
  LET after[n \in 0..Len(x.f[f].waiting)] ==
        IF n = 0 THEN [x |-> x, i |-> 1]
        ELSE LET y == after[n - 1].x
                 i == after[n - 1].i
                 w == y.f[f].waiting
             IN  IF Unlocks(y, f, w[i], "ok")
                 THEN [x |-> [KernelUnlockEventFlagForThread(y, f, w[i], "ok")
                                EXCEPT !.f[f].waiting =
                                  SubSeq(@, 1, i - 1) \o SubSeq(@, i + 1, Len(@))],
                       i |-> i]
                 ELSE [x |-> y, i |-> i + 1]
  IN  after[Len(x.f[f].waiting)].x

CleanupEntries(kk, f, w) ==
  LET order == CleanupOrder(kk, "EVENTFLAG", f, [i \in 1..Len(w) |-> w[i].thread])
  IN  [n \in 1..Len(order) |-> w[order[n]]]

-----------------------------------------------------------------------------
(* System calls. *)

StoreFlag(x) ==
  /\ k' = IF x.woke THEN hleReSchedule(x.k) ELSE x.k
  /\ flag' = x.f

sceKernelCreateEventFlag(f, multiple, pattern) ==
  /\ Calls("CreateEventFlag")
  /\ ~flag[f].exists
  /\ flag' = [flag EXCEPT ![f] = [exists |-> TRUE, multiple |-> multiple,
                                  pattern |-> pattern, waiting |-> <<>>]]
  /\ UNCHANGED k

sceKernelCancelEventFlag(f, pattern) ==
  /\ Calls("CancelEventFlag")
  /\ flag[f].exists
  /\ StoreFlag(KernelClearEventFlagThreads([BeginFlag EXCEPT !.f[f].pattern = pattern],
                                           f, "WAIT_CANCEL"))

sceKernelClearEventFlag(f, bits) ==
  /\ Calls("ClearEventFlag")
  /\ flag[f].exists
  /\ flag' = [flag EXCEPT ![f].pattern = @ \cap bits]
  /\ UNCHANGED k

sceKernelDeleteEventFlag(f) ==
  /\ Calls("DeleteEventFlag")
  /\ flag[f].exists
  /\ StoreFlag([KernelClearEventFlagThreads(BeginFlag, f, "WAIT_DELETE")
                  EXCEPT !.f[f] = NoFlag])

sceKernelSetEventFlag(f, bits) ==
  /\ Calls("SetEventFlag")
  /\ flag[f].exists
  /\ StoreFlag(UnlockSatisfied([BeginFlag EXCEPT !.f[f].pattern = @ \cup bits], f))

\* Mutant: off by one in the test for another waiter.
sceKernelWaitEventFlagOneMore(f, ask, timed) ==
  /\ Calls("WaitEventFlag")
  /\ k.disp /\ flag[f].exists
  /\ LET others == Without(flag[f].waiting, [thread : {k.cur}, ask : Ask])
     IN  IF KernelCheckEventFlagMatches(flag[f].pattern, ask)
         THEN /\ flag' = [flag EXCEPT ![f].pattern = KernelApplyEventFlagMatch(@, ask)]
              /\ UNCHANGED k
         ELSE /\ Len(others) <= 1 \/ flag[f].multiple
              /\ TimerFree(k, "EVENTFLAG", timed)
              /\ flag' = [flag EXCEPT
                   ![f].waiting = Append(others, [thread |-> k.cur, ask |-> ask])]
              /\ k' = KernelWaitCurThread(SetWaitTimer(k, "EVENTFLAG", timed),
                                          "EVENTFLAG", f, 0, timed)

\* A caller that finds the flag taken (SCE_KERNEL_ERROR_EVF_MULTI) has already lost
\* the entry of its earlier wait.
sceKernelWaitEventFlag(f, ask, timed) ==
  /\ Calls("WaitEventFlag")
  /\ k.disp /\ flag[f].exists
  /\ LET others == Without(flag[f].waiting, [thread : {k.cur}, ask : Ask])
     IN  IF KernelCheckEventFlagMatches(flag[f].pattern, ask)
         THEN /\ flag' = [flag EXCEPT ![f].pattern = KernelApplyEventFlagMatch(@, ask)]
              /\ UNCHANGED k
         ELSE IF others # <<>> /\ ~flag[f].multiple
         THEN flag' = [flag EXCEPT ![f].waiting = others] /\ UNCHANGED k
         ELSE /\ TimerFree(k, "EVENTFLAG", timed)
              /\ flag' = [flag EXCEPT
                   ![f].waiting = Append(others, [thread |-> k.cur, ask |-> ask])]
              /\ k' = KernelWaitCurThread(SetWaitTimer(k, "EVENTFLAG", timed),
                                          "EVENTFLAG", f, 0, timed)

\* CLEAR and CLEARALL together are an illegal mode for a poll only.
sceKernelPollEventFlag(f, ask) ==
  /\ Calls("PollEventFlag")
  /\ ~(ask.clear /\ ask.all) /\ flag[f].exists
  /\ KernelCheckEventFlagMatches(flag[f].pattern, ask)
  /\ flag' = [flag EXCEPT ![f].pattern = KernelApplyEventFlagMatch(@, ask)]
  /\ UNCHANGED k

sceKernelReferEventFlagStatus(f) ==
  /\ Calls("ReferEventFlagStatus")
  /\ flag[f].exists
  /\ flag' = [flag EXCEPT ![f].waiting = CleanupEntries(k, f, @)]
  /\ UNCHANGED k

\* The waiter is let go if it is listed, stays in the list, and nobody reschedules.
KernelEventFlagTimeout(t) ==
  /\ k.timer["EVENTFLAG"][t] > 0
  /\ LET fired == PopEvent(k, "EVENTFLAG", t)
         f == KernelGetWaitID(fired, t, "EVENTFLAG")
         w == IF f \in Obj THEN flag[f].waiting ELSE <<>>
         mine == {i \in 1..Len(w) : w[i].thread = t}
     IN  k' = IF mine # {}
              THEN KernelUnlockEventFlagForThread([BeginFlag EXCEPT !.k = fired],
                                                  f, w[Min(mine)], "WAIT_TIMEOUT").k
              ELSE fired
  /\ UNCHANGED flag

-----------------------------------------------------------------------------
FlagInit == Init /\ flag = [f \in Obj |-> NoFlag]

FlagCall ==
  \E f \in Obj :
    \/ \E multiple \in Multiples, pattern \in SUBSET Bits :
         sceKernelCreateEventFlag(f, multiple, pattern)
    \/ \E bits \in SUBSET Bits :
         \/ sceKernelCancelEventFlag(f, bits)
         \/ sceKernelClearEventFlag(f, bits)
         \/ sceKernelSetEventFlag(f, bits)
    \/ sceKernelDeleteEventFlag(f)
    \/ \E ask \in Asks :
         \/ sceKernelPollEventFlag(f, ask)
         \/ \E timed \in BOOLEAN : sceKernelWaitEventFlag(f, ask, timed)
    \/ sceKernelReferEventFlagStatus(f)

FlagNext ==
  \/ FlagCall
  \/ \E t \in User : KernelEventFlagTimeout(t)
  \/ Next /\ UNCHANGED flag

FlagSpec == FlagInit /\ [][FlagNext]_flagvars
-----------------------------------------------------------------------------
(* Properties. *)

\* Patterns and waiting lists have their types, and no thread is listed twice.
FlagTypeOK ==
  /\ flag \in [Obj -> EventFlag]
  /\ \A f \in Obj : LET w == flag[f].waiting
                    IN  \A i, j \in 1..Len(w) : w[i].thread = w[j].thread => i = j

\* A thread that waits for a flag has exactly one entry in its list, so it is woken
\* for the bits of this wait and not of an earlier one, and the flag exists.
WaitsWithOneEntry ==
  \A t \in Thread, f \in Obj :
    isWaitingFor(k, t, "EVENTFLAG", f) =>
      /\ flag[f].exists
      /\ Cardinality({i \in 1..Len(flag[f].waiting) : flag[f].waiting[i].thread = t}) = 1

\* Nobody waits for bits that are set, however many waiters a set lets go and
\* whatever they clear on the way.
NoSatisfiedWaiter ==
  \A f \in Obj : \A i \in 1..Len(flag[f].waiting) :
    isWaitingFor(k, flag[f].waiting[i].thread, "EVENTFLAG", f) =>
      ~KernelCheckEventFlagMatches(flag[f].pattern, flag[f].waiting[i].ask)

\* Unless it was created for several waiters a flag has one at most.
OneWaiterUnlessMultiple ==
  \A f \in Obj : ~flag[f].multiple =>
    Cardinality({t \in Thread : isWaitingFor(k, t, "EVENTFLAG", f)}) <= 1

\* A timed wait still has the event that ends it.
TimedFlagWaitHasTimer ==
  \A t \in Thread : WaitsFor(t, "EVENTFLAG") /\ k.wait[t].timed =>
                      k.timer["EVENTFLAG"][t] > 0

\* What every event flag call and timeout keeps, together with the invariant of the
\* thread manager they call.
FlagInv ==
  /\ FlagTypeOK
  /\ Inv
  /\ WaitsWithOneEntry
  /\ OneWaiterUnlessMultiple
  /\ TimedFlagWaitHasTimer

\* The places in the list whose waits a step answers with "ok".
Served(f) ==
  {i \in 1..Len(flag[f].waiting) :
     LET t == flag[f].waiting[i].thread
     IN  isWaitingFor(k, t, "EVENTFLAG", f) /\ ~Has(k', t, "WAIT") /\ k'.ret[t] = "ok"}

\* Only a set lets threads go with "ok": those whose bits are set then, and never two
\* of them for one bit that the first of them clears.
BitsServeOnce ==
  [][\A f \in Obj :
       LET ask(i) == flag[f].waiting[i].ask
       IN  Served(f) # {} => \E bits \in SUBSET Bits :
             /\ sceKernelSetEventFlag(f, bits)
             /\ \A i \in Served(f) :
                  /\ KernelCheckEventFlagMatches(flag[f].pattern \cup bits, ask(i))
                  /\ \A j \in Served(f) : i < j /\ ~ask(j).or =>
                       ~ask(i).all /\ (ask(i).clear => ask(i).bits \cap ask(j).bits = {})]_flagvars
=============================================================================
