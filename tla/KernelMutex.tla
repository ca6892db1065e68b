----------------------------- MODULE KernelMutex -----------------------------
(***************************************************************************)
(* Mutexes (Core/HLE/sceKernelMutex.cpp) on top of the thread manager and  *)
(* the wait helpers.                                                       *)
(*                                                                         *)
(* The owner and the lock level of a mutex are kept twice: in the mutex,   *)
(* and in mutexHeldLocks, which tells what a thread that ends must give    *)
(* up.  An unlock hands the mutex to a waiter, who owns it before it runs. *)
(* The end of a thread is heard in the middle of __KernelStopThread().     *)
(*                                                                         *)
(* Callbacks are not modelled: a LockMutexCB without a pending callback is *)
(* a LockMutex.                                                            *)
(***************************************************************************)
EXTENDS KernelWait, SequencesExt

CONSTANTS
  Priorities,   \* values of PSP_MUTEX_ATTR_PRIORITY the guest creates mutexes with
  Recursives,   \* and of PSP_MUTEX_ATTR_ALLOW_RECURSIVE
  LockCounts,   \* the counts the guest locks and unlocks by
  MaxLevel      \* the largest lock level, INT_MAX in the code

ASSUME MutexAssumption ==
  /\ Priorities \subseteq BOOLEAN /\ Recursives \subseteq BOOLEAN
  /\ LockCounts \subseteq Nat \ {0} /\ MaxLevel \in Nat

\* KernelObjectPool has maxCount handles.
ASSUME PoolAssumption == IsFiniteSet(Obj)

VARIABLES mutex,   \* the mutexes
          held     \* mutexHeldLocks: how often a thread is listed with a mutex

mutexvars == <<k, mutex, held>>

\* NativeMutex and the list of waiters; owner is lockThread.
Mutex == [exists : BOOLEAN, priority : BOOLEAN, recursive : BOOLEAN, level : Nat,
          owner : Thread \cup {NoThread}, waiting : Seq(Thread)]
NoMutex == [exists |-> FALSE, priority |-> FALSE, recursive |-> FALSE, level |-> 0,
            owner |-> NoThread, waiting |-> <<>>]

-----------------------------------------------------------------------------
(* Handing a mutex over.  x is a record of the kernel, the mutexes, the    *)
(* held locks and the flag wokeThreads.                                    *)

BeginMutex == [k |-> k, m |-> mutex, held |-> held, woke |-> FALSE]

KernelMutexAcquireLock(x, m, count, t) ==
  [x EXCEPT !.held[t][m] = @ + 1, !.m[m].level = count, !.m[m].owner = t]

KernelMutexEraseLock(x, m) ==
  LET owner == x.m[m].owner
      erased == IF owner # NoThread /\ x.held[owner][m] > 0
                THEN [x EXCEPT !.held[owner][m] = @ - 1] ELSE x
  IN  [erased EXCEPT !.m[m].owner = NoThread]

\* Mutant: the new owner is noted in the mutex only.
KernelUnlockMutexForThreadUnlisted(x, m, t, result) ==
  IF ~VerifyWait(x.k, t, "MUTEX", m) THEN x
  ELSE LET given == IF result = "ok"
                    THEN [x EXCEPT !.m[m].level = x.k.wait[t].value, !.m[m].owner = t] ELSE x
       IN  [given EXCEPT
              !.k = KernelResumeThreadFromWait(StopWaitTimer(@, "MUTEX", t), t, result),
              !.woke = TRUE]

KernelUnlockMutexForThread(x, m, t, result) ==
  IF ~VerifyWait(x.k, t, "MUTEX", m) THEN x
  ELSE LET given == IF result = "ok"
                    THEN KernelMutexAcquireLock(x, m, x.k.wait[t].value, t) ELSE x
       IN  [given EXCEPT
              !.k = KernelResumeThreadFromWait(StopWaitTimer(@, "MUTEX", t), t, result),
              !.woke = TRUE]

\* The place of the best waiter; a thread that is gone counts as priority 0.
KernelMutexFindPriority(kk, w) ==
  LET prio(i) == IF Exists(kk, w[i]) THEN kk.prio[w[i]] ELSE 0
  IN  CHOOSE i \in 1..Len(w) :
        \A j \in 1..Len(w) : prio(i) < prio(j) \/ (prio(i) = prio(j) /\ i <= j)

\* Mutant: only one id is tried, and it may be a stale one.
KernelUnlockMutexOnce(x, m) ==
  LET y == KernelMutexEraseLock(x, m)
      w == y.m[m].waiting
  IN  IF w = <<>> THEN y
      ELSE LET i == IF y.m[m].priority THEN KernelMutexFindPriority(y.k, w) ELSE 1
           IN  [KernelUnlockMutexForThread(y, m, w[i], "ok")
                  EXCEPT !.m[m].waiting = DropAt(@, i)]

\* Waiters leave the list until one of them is woken.
KernelUnlockMutex(x, m) ==
  LET start == [KernelMutexEraseLock(x, m) EXCEPT !.woke = FALSE]
      after[n \in 0..Len(x.m[m].waiting)] ==
        IF n = 0 THEN start
        ELSE LET y == after[n - 1]
                 w == y.m[m].waiting
                 i == IF y.m[m].priority THEN KernelMutexFindPriority(y.k, w) ELSE 1
             IN  IF y.woke \/ w = <<>> THEN y
                 ELSE [KernelUnlockMutexForThread(y, m, w[i], "ok")
                         EXCEPT !.m[m].waiting = DropAt(@, i)]
  IN  after[Len(x.m[m].waiting)]

\* Every waiter is let go with an error, and nobody owns the mutex.
ClearMutexThreads(x, m, result) ==
  LET after[n \in 0..Len(x.m[m].waiting)] ==
        IF n = 0 THEN x
        ELSE KernelUnlockMutexForThread(after[n - 1], m, x.m[m].waiting[n], result)
  IN  [KernelMutexEraseLock(after[Len(x.m[m].waiting)], m) EXCEPT !.m[m].waiting = <<>>]

\* t leaves the list it waits in and gives up what it holds, in the order in which
\* the hash table enumerates it.  The walk is over what was listed when it began: an entry
\* that a hand-over inserts into the range still to be walked is left out.
KernelMutexThreadEnd(x, t, order) ==
  LET uid == KernelGetWaitID(x.k, t, "MUTEX")
      left == IF uid # NoObj /\ x.m[uid].exists
              THEN [x EXCEPT !.m[uid].waiting = RemoveWaitingThread(@, t)] ELSE x
      after[n \in 0..Len(order)] ==
        IF n = 0 THEN left
        ELSE KernelUnlockMutex([after[n - 1] EXCEPT !.m[order[n]].level = 0], order[n])
  IN  after[Len(order)]

-----------------------------------------------------------------------------
(* System calls. *)

Store(x) ==
  /\ k' = IF x.woke THEN hleReSchedule(x.k) ELSE x.k
  /\ mutex' = x.m /\ held' = x.held

LegalCount(m, count) == mutex[m].recursive \/ count = 1

sceKernelCreateMutex(m, priority, recursive, count) ==
  /\ Calls("CreateMutex")
  /\ ~mutex[m].exists /\ (recursive \/ count <= 1)
  /\ LET made == [BeginMutex EXCEPT !.m[m] = [NoMutex EXCEPT !.exists = TRUE,
                                              !.priority = priority,
                                              !.recursive = recursive]]
     IN  Store(IF count = 0 THEN made ELSE KernelMutexAcquireLock(made, m, count, k.cur))

sceKernelDeleteMutex(m) ==
  /\ Calls("DeleteMutex")
  /\ mutex[m].exists
  /\ Store([ClearMutexThreads(BeginMutex, m, "WAIT_DELETE") EXCEPT !.m[m] = NoMutex])

\* __KernelLockMutexCheck(): the call fails with an error, ...
LockError(m, count) ==
  \/ ~LegalCount(m, count)
  \/ count + mutex[m].level > MaxLevel
  \/ mutex[m].owner = k.cur /\ ~mutex[m].recursive
\* ... or the caller gets the mutex at once, or it has to wait.
Lockable(m) == mutex[m].owner = k.cur \/ mutex[m].level = 0

KernelLockMutex(m, count) ==
  Store(IF mutex[m].level = 0 THEN KernelMutexAcquireLock(BeginMutex, m, count, k.cur)
        ELSE [BeginMutex EXCEPT !.m[m].level = @ + count])

\* HLE_NOT_DISPATCH_SUSPENDED.
sceKernelLockMutex(m, count, timed) ==
  /\ Calls("LockMutex")
  /\ k.disp /\ mutex[m].exists /\ ~LockError(m, count)
  /\ IF Lockable(m) THEN KernelLockMutex(m, count)
     ELSE /\ TimerFree(k, "MUTEX", timed)
          /\ mutex' = [mutex EXCEPT ![m].waiting = ListOnce(@, k.cur)]
          /\ k' = KernelWaitCurThread(SetWaitTimer(k, "MUTEX", timed),
                                      "MUTEX", m, count, timed)
          /\ UNCHANGED held

sceKernelTryLockMutex(m, count) ==
  /\ Calls("TryLockMutex")
  /\ mutex[m].exists /\ ~LockError(m, count) /\ Lockable(m)
  /\ KernelLockMutex(m, count)

\* Mutant: whoever calls it, the mutex is unlocked.
sceKernelUnlockMutexAnyone(m, count) ==
  /\ Calls("UnlockMutex")
  /\ mutex[m].exists /\ LegalCount(m, count)
  /\ mutex[m].level >= count
  /\ LET lower == [BeginMutex EXCEPT !.m[m].level = @ - count]
     IN  Store(IF lower.m[m].level = 0 THEN KernelUnlockMutex(lower, m) ELSE lower)

sceKernelUnlockMutex(m, count) ==
  /\ Calls("UnlockMutex")
  /\ mutex[m].exists /\ LegalCount(m, count)
  /\ mutex[m].owner = k.cur /\ mutex[m].level >= count
  /\ LET lower == [BeginMutex EXCEPT !.m[m].level = @ - count]
     IN  Store(IF lower.m[m].level = 0 THEN KernelUnlockMutex(lower, m) ELSE lower)

\* A count of 0 frees the mutex, another one locks it for the caller.  That the
\* mutex is locked already, or would overflow, is no error here.
sceKernelCancelMutex(m, count) ==
  /\ Calls("CancelMutex")
  /\ mutex[m].exists /\ (count = 0 \/ LegalCount(m, count))
  /\ LET clean == [BeginMutex EXCEPT
                     !.m[m].waiting = CleanupWaitingThreads(k, "MUTEX", m, @)]
         free == ClearMutexThreads(clean, m, "WAIT_CANCEL")
     IN  Store(IF count = 0 THEN [free EXCEPT !.m[m].level = 0]
               ELSE KernelMutexAcquireLock(free, m, count, k.cur))

sceKernelReferMutexStatus(m) ==
  /\ Calls("ReferMutexStatus")
  /\ mutex[m].exists
  /\ mutex' = [mutex EXCEPT ![m].waiting = CleanupWaitingThreads(k, "MUTEX", m, @)]
  /\ UNCHANGED <<k, held>>

KernelMutexTimeout(t) ==
  /\ k.timer["MUTEX"][t] > 0
  /\ LET fired == PopEvent(k, "MUTEX", t)
         uid == KernelGetWaitID(fired, t, "MUTEX")
     IN  k' = IF uid # NoObj /\ mutex[uid].exists THEN WaitExecTimeout(fired, t, NoObj)
              ELSE fired
  /\ UNCHANGED <<mutex, held>>

\* A thread ends, and gives up its mutexes before its joiners are resumed.
MutexThreadEnd ==
  \E t \in User : \E order \in SetToSeqs({m \in Obj : held[t][m] > 0}) :
    LET x == KernelMutexThreadEnd([BeginMutex EXCEPT !.k = KernelStopThreadBegin(k, t)],
                                  t, order)
    IN  ThreadEnds(t, KernelStopThreadEnd(x.k, t)) /\ mutex' = x.m /\ held' = x.held

-----------------------------------------------------------------------------
MutexInit ==
  /\ Init
  /\ mutex = [m \in Obj |-> NoMutex]
  /\ held = [t \in Thread |-> [m \in Obj |-> 0]]

MutexCall ==
  \E m \in Obj :
    \/ \E priority \in Priorities, recursive \in Recursives, count \in {0} \cup LockCounts :
         sceKernelCreateMutex(m, priority, recursive, count)
    \/ sceKernelDeleteMutex(m)
    \/ \E count \in LockCounts :
         \/ \E timed \in BOOLEAN : sceKernelLockMutex(m, count, timed)
         \/ sceKernelTryLockMutex(m, count)
         \/ sceKernelUnlockMutex(m, count)
    \/ \E count \in {0} \cup LockCounts : sceKernelCancelMutex(m, count)
    \/ sceKernelReferMutexStatus(m)

MutexNext ==
  \/ MutexCall
  \/ \E t \in User : KernelMutexTimeout(t)
  \/ MutexThreadEnd
  \/ Undisturbed /\ UNCHANGED <<mutex, held>>

MutexSpec == MutexInit /\ [][MutexNext]_mutexvars
-----------------------------------------------------------------------------
(* Properties. *)

\* Levels and owners have their types, and no thread is listed twice with a mutex.
MutexTypeOK == mutex \in [Obj -> Mutex] /\ held \in [Thread -> [Obj -> 0..1]]

\* A mutex is locked exactly when it has an owner, and mutexHeldLocks, from which
\* the end of a thread learns what to give up, lists exactly the owners.
OwnersExact ==
  \A m \in Obj :
    /\ mutex[m].level > 0 <=> mutex[m].owner # NoThread
    /\ \A t \in Thread : held[t][m] > 0 <=> mutex[m].owner = t

\* A dead or dormant thread owns nothing: a mutex never stays locked for ever
\* because its owner, or the waiter it was just handed to, has ended.
OwnerAlive ==
  \A m \in Obj : mutex[m].owner # NoThread =>
    Exists(k, mutex[m].owner) /\ ~Stopped(k, mutex[m].owner)

\* Nobody waits for a free mutex, nor for one that he owns.  (A thread that was
\* released or has timed out does not wait any more.)
WaitsOnlyIfLocked ==
  \A t \in Thread, m \in Obj :
    isWaitingFor(k, t, "MUTEX", m) =>
      mutex[m].exists /\ mutex[m].owner \notin {NoThread, t} /\ Holds(mutex[m].waiting, t)

\* A timed wait still has its event, and once the wait is over by a hand-over no
\* event is left that would tell the new owner that it has timed out.
HandOverStopsTimer ==
  \A t \in Thread, m \in Obj :
    VerifyWait(k, t, "MUTEX", m) /\ k.wait[t].timed =>
      IF Has(k, t, "WAIT") THEN k.timer["MUTEX"][t] > 0
      ELSE mutex[m].owner = t => k.timer["MUTEX"][t] = 0 /\ k.ret[t] # "WAIT_TIMEOUT"

\* What every mutex call, timeout and end of a thread keeps, together with the
\* invariant of the thread manager they call.
MutexInv == MutexTypeOK /\ Inv /\ OwnersExact /\ OwnerAlive /\ HandOverStopsTimer

\* No call takes a mutex from its owner but that of the owner itself, a cancel or a
\* delete, or the end of the owner.
OnlyOwnerGivesUp ==
  [][\A m \in Obj :
       LET owner == mutex[m].owner
       IN  owner # NoThread /\ mutex'[m].owner # owner =>
             \/ k.cur = owner /\ k.frames = <<>>
             \/ sceKernelDeleteMutex(m) \/ \E n \in {0} \cup LockCounts : sceKernelCancelMutex(m, n)
             \/ k'.st[owner] \in {{"DORMANT"}, {"DEAD"}}]_mutexvars
=============================================================================
