------------------------- MODULE KernelThreadProofs -------------------------
(***************************************************************************)
(* The thread manager keeps its ready queue exact, for any number of       *)
(* threads and priorities.  Each kernel function gets a lemma of its own.  *)
(***************************************************************************)
EXTENDS KernelWait, UidListProofs, FiniteSetTheorems

USE DEF Has

\* KernelInv, except that the threads of X are in no queue and may have any
\* status: the states in the middle of a queue or status change.
InvBut(kk, X) ==
  /\ kk \in Kernel /\ QueuesDistinct(kk)
  /\ \A t \in Thread : IF t \in X THEN \A p \in Prio : ~Holds(kk.rq[p], t)
                       ELSE ThreadInv(kk, t)

\* A status t may be given once it is off the queue.
OffStatus(kk, t, s) ==
  /\ s \in SUBSET StatusBits
  /\ "READY" \notin s
  /\ "RUNNING" \in s => s = {"RUNNING"} /\ t = kk.cur /\ kk.wait[t].type = "NONE"
  /\ t \in Idle => s = {"RUNNING"} /\ kk.prio[t] = IdlePrio

\* Every thread but t has the status, priority and wait it had.
OthersSame(kk, k2, t) ==
  \A u \in Thread \ {t} :
    k2.st[u] = kk.st[u] /\ k2.prio[u] = kk.prio[u] /\ k2.wait[u] = kk.wait[u]

LEMMA InvButNone == ASSUME NEW kk PROVE KernelInv(kk) <=> InvBut(kk, {})
BY DEF KernelInv, InvBut

\* remove() takes the thread off its queue.
LEMMA RemoveOff ==
  ASSUME NEW kk, KernelInv(kk), NEW t \in Thread
  PROVE  InvBut(remove(kk, kk.prio[t], t), {t})
<1> DEFINE p == kk.prio[t]
           k2 == [kk EXCEPT !.rq[p] = DropFirst(@, t)]
<1>1. /\ kk \in Kernel /\ QueuesDistinct(kk) /\ p \in Prio
      /\ kk.rq \in [Prio -> Seq(Thread)]
  BY DEF KernelInv, Kernel
<1>2. /\ DropFirst(kk.rq[p], t) \in Seq(Thread) /\ Distinct(DropFirst(kk.rq[p], t))
      /\ \A x : Holds(DropFirst(kk.rq[p], t), x) <=> Holds(kk.rq[p], x) /\ x # t
  BY <1>1, DropFirstHolds DEF QueuesDistinct
<1>3. /\ k2 \in Kernel
      /\ k2.rq = [kk.rq EXCEPT ![p] = DropFirst(kk.rq[p], t)]
      /\ k2.st = kk.st /\ k2.prio = kk.prio /\ k2.cur = kk.cur /\ k2.wait = kk.wait
  BY <1>1, <1>2 DEF Kernel
<1>4. k2 = remove(kk, p, t)
  BY DEF remove
<1> HIDE DEF k2
<1>5. QueuesDistinct(k2)
  BY <1>1, <1>2, <1>3 DEF QueuesDistinct
<1>6. \A q \in Prio : ~Holds(k2.rq[q], t)
  BY <1>1, <1>2, <1>3 DEF KernelInv, ThreadInv, QueuedRight
<1>7. ASSUME NEW u \in Thread, u # t PROVE ThreadInv(k2, u)
  <2>1. ThreadInv(kk, u)
    BY DEF KernelInv
  <2>2. StatusShape(k2, u) /\ IdleShape(k2, u)
    BY <1>3, <2>1 DEF ThreadInv, StatusShape, IdleShape
  <2>3. QueuedRight(k2, u)
    BY <1>1, <1>2, <1>3, <1>7, <2>1 DEF ThreadInv, QueuedRight
  <2> QED BY <2>2, <2>3 DEF ThreadInv
<1> QED BY <1>3, <1>4, <1>5, <1>6, <1>7 DEF InvBut

\* A thread that is not READY is off the queue already.
LEMMA NotReadyOff ==
  ASSUME NEW kk, NEW X, InvBut(kk, X), NEW t \in Thread,
         t \in X \/ "READY" \notin kk.st[t]
  PROVE  InvBut(kk, X \cup {t})
BY DEF InvBut, ThreadInv, QueuedRight

LEMMA UnreadyOff ==
  ASSUME NEW kk, KernelInv(kk), NEW t \in Thread
  PROVE  /\ InvBut(KernelChangeReadyState(kk, t, FALSE), {t})
         /\ KernelChangeReadyState(kk, t, FALSE) =
              [kk EXCEPT !.rq = KernelChangeReadyState(kk, t, FALSE).rq]
<1>1. kk \in Kernel
  BY DEF KernelInv
<1>2. CASE "READY" \in kk.st[t]
  <2>1. KernelChangeReadyState(kk, t, FALSE) = remove(kk, kk.prio[t], t)
    BY <1>2 DEF KernelChangeReadyState
  <2>2. remove(kk, kk.prio[t], t) = [kk EXCEPT !.rq = remove(kk, kk.prio[t], t).rq]
    BY <1>1 DEF remove, Kernel
  <2> QED BY <2>1, <2>2, RemoveOff
<1>3. CASE "READY" \notin kk.st[t]
  <2>1. KernelChangeReadyState(kk, t, FALSE) = kk
    BY <1>3 DEF KernelChangeReadyState
  <2>2. kk = [kk EXCEPT !.rq = kk.rq]
    BY <1>1 DEF Kernel
  <2>3. InvBut(kk, {t})
    BY <1>3 DEF KernelInv, InvBut, ThreadInv, QueuedRight
  <2> QED BY <2>1, <2>2, <2>3
<1> QED BY <1>2, <1>3

\* The fields that the ready queue does not depend on.
LEMMA SameQueueFields ==
  ASSUME NEW kk, NEW X, InvBut(kk, X), NEW k2 \in Kernel,
         k2.st = kk.st, k2.prio = kk.prio, k2.rq = kk.rq, k2.cur = kk.cur,
         k2.wait = kk.wait
  PROVE  InvBut(k2, X)
BY DEF InvBut, QueuesDistinct, ThreadInv, StatusShape, IdleShape, QueuedRight

\* A thread off the queue gets a status other than READY, and may become the
\* current thread if nobody else is RUNNING.
LEMMA OffToStatus ==
  ASSUME NEW kk, NEW t \in Thread, InvBut(kk, {t}), NEW k2 \in Kernel,
         k2.rq = kk.rq, OthersSame(kk, k2, t),
         k2.cur = kk.cur \/ \A u \in Thread \ {t} : "RUNNING" \notin kk.st[u],
         OffStatus(k2, t, k2.st[t])
  PROVE  KernelInv(k2)
<1>1. QueuesDistinct(k2)
  BY DEF InvBut, QueuesDistinct
<1>2. ThreadInv(k2, t)
  BY DEF InvBut, OffStatus, ThreadInv, StatusShape, IdleShape, QueuedRight
<1>3. ASSUME NEW u \in Thread, u # t PROVE ThreadInv(k2, u)
  BY <1>3 DEF InvBut, OthersSame, ThreadInv, StatusShape, IdleShape, QueuedRight
<1> QED BY <1>1, <1>2, <1>3 DEF KernelInv

\* Queueing at either end adds the thread and keeps the elements distinct.
Queued(s, s2, t) ==
  s2 \in Seq(Thread) /\ Distinct(s2) /\ \A x : Holds(s2, x) <=> Holds(s, x) \/ x = t

LEMMA PushQueued ==
  ASSUME NEW s \in Seq(Thread), NEW t \in Thread, Distinct(s), ~Holds(s, t)
  PROVE  Queued(s, <<t>> \o s, t) /\ Queued(s, Append(s, t), t)
<1>1. Queued(s, <<t>> \o s, t)
  BY FrontHolds, Zenon DEF Queued
<1>2. Queued(s, Append(s, t), t)
  BY AppendHolds, Zenon DEF Queued
<1> QED BY <1>1, <1>2, Zenon

\* A thread off the queue is queued with priority p.
LEMMA OffToReady ==
  ASSUME NEW kk, NEW t \in Thread, NEW X, t \notin X, InvBut(kk, X \cup {t}),
         NEW k2 \in Kernel, NEW p \in Prio,
         t \in Idle => p = IdlePrio,
         \A q \in Prio \ {p} : k2.rq[q] = kk.rq[q],
         Queued(kk.rq[p], k2.rq[p], t), OthersSame(kk, k2, t),
         k2.st[t] = {"READY"}, k2.prio[t] = p, k2.cur = kk.cur
  PROVE  InvBut(k2, X)
<1>1. kk.rq \in [Prio -> Seq(Thread)] /\ Distinct(kk.rq[p]) /\ ~Holds(kk.rq[p], t)
  BY DEF InvBut, Kernel, QueuesDistinct
<1>2. /\ Distinct(k2.rq[p])
      /\ \A x : Holds(k2.rq[p], x) <=> Holds(kk.rq[p], x) \/ x = t
  BY DEF Queued
<1>3. \A q \in Prio \ {p} : k2.rq[q] = kk.rq[q]
  OBVIOUS
<1>4. QueuesDistinct(k2)
  BY <1>2, <1>3 DEF InvBut, QueuesDistinct
<1>5. ThreadInv(k2, t)
  <2>1. StatusShape(k2, t) /\ IdleShape(k2, t)
    BY DEF StatusShape, IdleShape
  <2>2. \A q \in Prio : ~Holds(kk.rq[q], t)
    BY DEF InvBut
  <2>3. QueuedRight(k2, t)
    BY <1>2, <1>3, <2>2 DEF QueuedRight
  <2> QED BY <2>1, <2>3 DEF ThreadInv
<1>6. ASSUME NEW u \in Thread, u # t, u \notin X PROVE ThreadInv(k2, u)
  <2>1. ThreadInv(kk, u)
    BY <1>6 DEF InvBut
  <2>2. StatusShape(k2, u) /\ IdleShape(k2, u)
    BY <1>6, <2>1 DEF ThreadInv, StatusShape, IdleShape, OthersSame
  <2>3. QueuedRight(k2, u)
    BY <1>2, <1>3, <1>6, <2>1 DEF ThreadInv, QueuedRight, OthersSame
  <2> QED BY <2>2, <2>3 DEF ThreadInv
<1>7. ASSUME NEW u \in X \cap Thread, NEW q \in Prio PROVE ~Holds(k2.rq[q], u)
  <2>1. u # t /\ ~Holds(kk.rq[q], u)
    BY <1>7 DEF InvBut
  <2> QED BY <1>2, <1>3, <2>1
<1> QED BY <1>4, <1>5, <1>6, <1>7 DEF InvBut

\* Making a thread READY keeps the invariant, and only st[t] and rq change.
Readied(kk, k2, t) ==
  /\ k2.st = [kk.st EXCEPT ![t] = {"READY"}]
  /\ k2 = [kk EXCEPT !.st = k2.st, !.rq = k2.rq]

LEMMA ReadyInv ==
  ASSUME NEW kk, NEW X, InvBut(kk, X), NEW t \in Thread, t \notin X
  PROVE  /\ InvBut(KernelChangeReadyState(kk, t, TRUE), X)
         /\ Readied(kk, KernelChangeReadyState(kk, t, TRUE), t)
<1> DEFINE k2 == KernelChangeReadyState(kk, t, TRUE)
           p == kk.prio[t]
<1>1. kk \in Kernel /\ p \in Prio /\ kk.rq \in [Prio -> Seq(Thread)]
  BY DEF InvBut, Kernel
<1>0. ThreadInv(kk, t)
  BY DEF InvBut
<1>2. CASE "READY" \in kk.st[t]
  <2>1. k2 = kk
    BY <1>2 DEF KernelChangeReadyState
  <2>2. kk.st[t] = {"READY"}
    BY <1>0, <1>2 DEF ThreadInv, StatusShape
  <2> QED BY <1>1, <2>1, <2>2 DEF Kernel, Readied
<1>3. CASE "READY" \notin kk.st[t]
  <2>1. kk.rq[p] \in Seq(Thread) /\ Distinct(kk.rq[p]) /\ ~Holds(kk.rq[p], t)
    BY <1>0, <1>1, <1>3 DEF InvBut, QueuesDistinct, ThreadInv, QueuedRight
  <2>2. PICK q : /\ Queued(kk.rq[p], q, t)
                 /\ k2 = [[kk EXCEPT !.rq[p] = q] EXCEPT !.st[t] = {"READY"}]
    <3>1. CASE "RUNNING" \in kk.st[t]
      <4>1. k2 = [[kk EXCEPT !.rq[p] = <<t>> \o kk.rq[p]] EXCEPT !.st[t] = {"READY"}]
        BY <1>1, <1>3, <3>1 DEF KernelChangeReadyState, push_front, Kernel
      <4> QED BY <2>1, <4>1, PushQueued, Zenon
    <3>2. CASE "RUNNING" \notin kk.st[t]
      <4>1. k2 = [[kk EXCEPT !.rq[p] = Append(kk.rq[p], t)] EXCEPT !.st[t] = {"READY"}]
        BY <1>1, <1>3, <3>2 DEF KernelChangeReadyState, push_back, Kernel
      <4> QED BY <2>1, <4>1, PushQueued, Zenon
    <3> QED BY <3>1, <3>2
  <2> HIDE DEF k2
  <2>3. /\ k2 \in Kernel /\ k2.st = [kk.st EXCEPT ![t] = {"READY"}]
        /\ k2.rq = [kk.rq EXCEPT ![p] = q] /\ k2.prio = kk.prio /\ k2.cur = kk.cur
        /\ k2.wait = kk.wait
        /\ k2 = [kk EXCEPT !.st = k2.st, !.rq = k2.rq]
    <3>1. kk.st \in [Thread -> SUBSET StatusBits] /\ q \in Seq(Thread)
      BY <1>1, <2>2 DEF Kernel, Queued
    <3>2. /\ [kk.st EXCEPT ![t] = {"READY"}] \in [Thread -> SUBSET StatusBits]
          /\ [kk.rq EXCEPT ![p] = q] \in [Prio -> Seq(Thread)]
      BY <1>1, <3>1 DEF StatusBits
    <3>3. k2 = [kk EXCEPT !.rq = [kk.rq EXCEPT ![p] = q],
                          !.st = [kk.st EXCEPT ![t] = {"READY"}]]
      BY <1>1, <2>2 DEF Kernel
    <3> QED BY <1>1, <3>2, <3>3 DEF Kernel
  <2>4. InvBut(kk, X \cup {t}) /\ (t \in Idle => p = IdlePrio)
    BY <1>0, <1>3, NotReadyOff DEF ThreadInv, IdleShape
  <2>5. /\ k2.rq[p] = q /\ \A r \in Prio \ {p} : k2.rq[r] = kk.rq[r]
        /\ OthersSame(kk, k2, t)
        /\ k2.st[t] = {"READY"} /\ k2.prio[t] = p
    BY <1>1, <2>3 DEF Kernel, OthersSame
  <2>6. InvBut(k2, X)
    <3>1. Queued(kk.rq[p], k2.rq[p], t)
      BY <2>2, <2>5
    <3>2. p \in Prio /\ k2 \in Kernel /\ k2.cur = kk.cur
      BY <1>1, <2>3
    <3> HIDE DEF p
    <3> QED BY <2>4, <2>5, <3>1, <3>2, OffToReady
  <2> QED BY <2>3, <2>6 DEF k2, Readied
<1> QED BY <1>2, <1>3

LEMMA ReadyKernel ==
  ASSUME NEW kk, KernelInv(kk), NEW t \in Thread
  PROVE  /\ KernelInv(KernelChangeReadyState(kk, t, TRUE))
         /\ Readied(kk, KernelChangeReadyState(kk, t, TRUE), t)
<1> DEFINE none == {}
<1>1. InvBut(kk, none) /\ t \notin none
  BY InvButNone
<1> HIDE DEF none
<1>2. InvBut(KernelChangeReadyState(kk, t, TRUE), none)
  BY <1>1, ReadyInv
<1>3. Readied(kk, KernelChangeReadyState(kk, t, TRUE), t)
  BY <1>1, ReadyInv
<1> QED BY <1>2, <1>3, InvButNone DEF none

-----------------------------------------------------------------------------
(* Waking threads. *)

\* k2 differs from kk only as waking, timing and queueing may make it differ:
\* nobody who is running, queued, stopped or destroyed notices.
Calm(kk, k2) ==
  /\ k2.cur = kk.cur /\ k2.prio = kk.prio /\ k2.initp = kk.initp
  /\ k2.disp = kk.disp /\ k2.frames = kk.frames
  /\ \A u \in Thread : kk.st[u] \in {{"RUNNING"}, {"READY"}, {"DORMANT"}, {"DEAD"}}
                         => k2.st[u] = kk.st[u]

LEMMA CalmTransitive ==
  ASSUME NEW k1, NEW k2, NEW k3, Calm(k1, k2), Calm(k2, k3)
  PROVE  Calm(k1, k3)
BY DEF Calm

\* resumeFromWait() for any thread.
LEMMA ResumeInv ==
  ASSUME NEW kk, KernelInv(kk), NEW t \in Thread
  PROVE  LET k2 == resumeFromWait(kk, t)
         IN  /\ KernelInv(k2)
             /\ k2.st \in [Thread -> SUBSET StatusBits]
             /\ \A u \in Thread \ {t} : k2.st[u] = kk.st[u]
             /\ kk.st[t] \in {{"READY"}, {"DORMANT"}, {"DEAD"}} => k2.st[t] = kk.st[t]
             /\ k2 = [kk EXCEPT !.st = k2.st, !.rq = k2.rq]
<1> DEFINE k2 == resumeFromWait(kk, t)
           left == kk.st[t] \ {"WAIT"}
           freed == [kk EXCEPT !.st[t] = left]
<1>1. kk \in Kernel /\ ThreadInv(kk, t) /\ kk.st \in [Thread -> SUBSET StatusBits]
  BY DEF KernelInv, Kernel
<1>2. /\ freed = [kk EXCEPT !.st = [kk.st EXCEPT ![t] = left]]
      /\ [kk.st EXCEPT ![t] = left] \in [Thread -> SUBSET StatusBits]
  BY <1>1 DEF Kernel
<1>3. /\ freed \in Kernel /\ freed.st = [kk.st EXCEPT ![t] = left]
      /\ freed.rq = kk.rq /\ freed.prio = kk.prio
      /\ freed.cur = kk.cur /\ freed.wait = kk.wait
  <2> HIDE DEF left
  <2> QED BY <1>1, <1>2 DEF Kernel
<1>4. KernelInv(freed)
  <2>1. CASE left = kk.st[t]
    <3>1. freed.st = kk.st
      BY <1>1, <1>3, <2>1
    <3>2. InvBut(freed, {})
      <4> HIDE DEF freed
      <4> QED BY <1>3, <3>1, SameQueueFields, InvButNone
    <3> QED BY <3>2, InvButNone
  <2>2. CASE left # kk.st[t]
    <3>1. "WAIT" \in kk.st[t]
      BY <2>2
    <3>2. t \notin Idle /\ "READY" \notin kk.st[t] /\ "RUNNING" \notin kk.st[t]
      BY <1>1, <3>1 DEF ThreadInv, StatusShape, IdleShape
    <3>3. InvBut(kk, {t})
      BY <3>2 DEF KernelInv, InvBut, ThreadInv, QueuedRight
    <3>4. OffStatus(freed, t, freed.st[t]) /\ OthersSame(kk, freed, t)
      BY <1>1, <1>3, <3>2 DEF OffStatus, OthersSame
    <3> HIDE DEF freed
    <3> QED BY <1>3, <3>3, <3>4, OffToStatus
  <2> QED BY <2>1, <2>2
<1>5. CASE left \cap {"WAIT", "SUSPEND", "DORMANT", "DEAD"} = {}
  <2>1. k2 = KernelChangeReadyState(freed, t, TRUE)
    BY <1>5 DEF resumeFromWait
  <2> HIDE DEF freed
  <2> HIDE DEF k2
  <2>3. InvBut(k2, {}) /\ k2.st = [freed.st EXCEPT ![t] = {"READY"}]
        /\ k2 = [freed EXCEPT !.st = k2.st, !.rq = k2.rq]
    <3>1. InvBut(k2, {}) /\ Readied(freed, k2, t)
      BY <1>4, <2>1, ReadyKernel, InvButNone
    <3> QED BY <3>1 DEF Readied
  <2>4. k2 = [kk EXCEPT !.st = k2.st, !.rq = k2.rq]
    BY <1>1, <1>2, <2>3 DEF Kernel
  <2>5. kk.st[t] # {"DORMANT"} /\ kk.st[t] # {"DEAD"}
    BY <1>5
  <2>6. /\ k2.st \in [Thread -> SUBSET StatusBits] /\ k2.st[t] = {"READY"}
        /\ \A u \in Thread \ {t} : k2.st[u] = kk.st[u]
    BY <1>1, <1>2, <1>3, <2>3 DEF StatusBits
  <2>7. kk.st[t] \in {{"READY"}, {"DORMANT"}, {"DEAD"}} => k2.st[t] = kk.st[t]
    BY <2>5, <2>6
  <2>8. KernelInv(k2)
    BY <2>3, InvButNone
  <2> QED BY <2>4, <2>6, <2>7, <2>8 DEF k2
<1>6. CASE left \cap {"WAIT", "SUSPEND", "DORMANT", "DEAD"} # {}
  <2>1. k2 = freed
    BY <1>6 DEF resumeFromWait
  <2>2. /\ freed.st \in [Thread -> SUBSET StatusBits]
        /\ \A u \in Thread \ {t} : freed.st[u] = kk.st[u]
        /\ kk.st[t] \in {{"READY"}, {"DORMANT"}, {"DEAD"}} => freed.st[t] = kk.st[t]
    BY <1>1, <1>2, <1>3
  <2>3. freed = [kk EXCEPT !.st = freed.st, !.rq = freed.rq]
    BY <1>1, <1>2 DEF Kernel
  <2> QED BY <1>4, <2>1, <2>2, <2>3
<1> QED BY <1>5, <1>6

\* __KernelResumeThreadFromWait() on a thread that is not RUNNING.
LEMMA ResumeThreadInv ==
  ASSUME NEW kk, KernelInv(kk), NEW t \in Thread, NEW r \in Result,
         "RUNNING" \notin kk.st[t]
  PROVE  /\ KernelInv(KernelResumeThreadFromWait(kk, t, r))
         /\ Calm(kk, KernelResumeThreadFromWait(kk, t, r))
         /\ KernelResumeThreadFromWait(kk, t, r).joiners = kk.joiners
<1> DEFINE k1 == resumeFromWait(kk, t)
           k2 == [k1 EXCEPT !.ret[t] = r]
<1>1. /\ KernelInv(k1) /\ k1.st \in [Thread -> SUBSET StatusBits]
      /\ \A u \in Thread \ {t} : k1.st[u] = kk.st[u]
      /\ kk.st[t] \in {{"READY"}, {"DORMANT"}, {"DEAD"}} => k1.st[t] = kk.st[t]
      /\ k1 = [kk EXCEPT !.st = k1.st, !.rq = k1.rq]
  BY ResumeInv
<1> HIDE DEF k1
<1>2. kk \in Kernel /\ k1 \in Kernel
  BY <1>1 DEF KernelInv
<1>3. /\ k1.cur = kk.cur /\ k1.prio = kk.prio /\ k1.initp = kk.initp
      /\ k1.disp = kk.disp /\ k1.frames = kk.frames /\ k1.joiners = kk.joiners
  BY <1>1, <1>2 DEF Kernel
<1>4. /\ k2 \in Kernel /\ k2.st = k1.st /\ k2.prio = k1.prio /\ k2.rq = k1.rq
      /\ k2.cur = k1.cur /\ k2.wait = k1.wait /\ k2.joiners = k1.joiners
      /\ k2.initp = k1.initp /\ k2.disp = k1.disp /\ k2.frames = k1.frames
  BY <1>2 DEF Kernel
<1>5. k2 = KernelResumeThreadFromWait(kk, t, r)
  BY DEF KernelResumeThreadFromWait, k1
<1> HIDE DEF k2
<1>6. KernelInv(k2)
  BY <1>1, <1>4, SameQueueFields, InvButNone
<1>7. Calm(kk, k2)
  BY <1>1, <1>3, <1>4 DEF Calm
<1> QED BY <1>3, <1>4, <1>5, <1>6, <1>7

\* A change of the timers alone, such as the three timer operations make.
OnlyTimer(kk, k2) ==
  \E tm \in [TimerType -> [Thread -> Nat]] : k2 = [kk EXCEPT !.timer = tm]

LEMMA TimerInv ==
  ASSUME NEW kk, KernelInv(kk), NEW k2, OnlyTimer(kk, k2)
  PROVE  KernelInv(k2) /\ Calm(kk, k2) /\ k2.joiners = kk.joiners
           /\ k2.st = kk.st /\ k2.wait = kk.wait /\ k2.rq = kk.rq
<1>1. kk \in Kernel
  BY DEF KernelInv
<1>2. PICK tm \in [TimerType -> [Thread -> Nat]] : k2 = [kk EXCEPT !.timer = tm]
  BY DEF OnlyTimer
<1>3. /\ k2 \in Kernel /\ k2.st = kk.st /\ k2.prio = kk.prio /\ k2.rq = kk.rq
      /\ k2.cur = kk.cur /\ k2.wait = kk.wait /\ k2.joiners = kk.joiners
      /\ k2.initp = kk.initp /\ k2.disp = kk.disp /\ k2.frames = kk.frames
  BY <1>1, <1>2 DEF Kernel
<1>4. KernelInv(k2)
  BY <1>3, SameQueueFields, InvButNone
<1>5. Calm(kk, k2)
  BY <1>3 DEF Calm
<1> QED BY <1>3, <1>4, <1>5

LEMMA TimerOps ==
  ASSUME NEW kk \in Kernel, NEW y \in TimerType, NEW t \in Thread
  PROVE  /\ OnlyTimer(kk, ScheduleEvent(kk, y, t))
         /\ OnlyTimer(kk, UnscheduleEvent(kk, y, t))
         /\ kk.timer[y][t] > 0 => OnlyTimer(kk, PopEvent(kk, y, t))
<1>1. kk.timer \in [TimerType -> [Thread -> Nat]] /\ kk.timer[y][t] \in Nat
  BY DEF Kernel
<1>2. ASSUME NEW v \in Nat
      PROVE  [kk.timer EXCEPT ![y][t] = v] \in [TimerType -> [Thread -> Nat]]
  BY <1>1
<1>3. /\ ScheduleEvent(kk, y, t) =
           [kk EXCEPT !.timer = [kk.timer EXCEPT ![y][t] = kk.timer[y][t] + 1]]
      /\ UnscheduleEvent(kk, y, t) =
           [kk EXCEPT !.timer = [kk.timer EXCEPT ![y][t] = 0]]
      /\ PopEvent(kk, y, t) =
           [kk EXCEPT !.timer = [kk.timer EXCEPT ![y][t] = kk.timer[y][t] - 1]]
  BY <1>1 DEF Kernel, ScheduleEvent, UnscheduleEvent, PopEvent
<1>4. kk.timer[y][t] + 1 \in Nat /\ (kk.timer[y][t] > 0 => kk.timer[y][t] - 1 \in Nat)
  BY <1>1
<1> QED BY <1>2, <1>3, <1>4 DEF OnlyTimer

-----------------------------------------------------------------------------
(* The end of a thread. *)

\* Unscheduling is calm and changes nothing the queue depends on.
LEMMA UnscheduleInv ==
  ASSUME NEW kk, KernelInv(kk), NEW y \in TimerType, NEW t \in Thread
  PROVE  LET k2 == UnscheduleEvent(kk, y, t)
         IN  KernelInv(k2) /\ Calm(kk, k2) /\ k2.joiners = kk.joiners
               /\ k2.st = kk.st /\ k2.wait = kk.wait
<1>1. kk \in Kernel
  BY DEF KernelInv
<1>2. OnlyTimer(kk, UnscheduleEvent(kk, y, t))
  BY <1>1, TimerOps
<1> QED BY <1>2, TimerInv

\* Waking one joiner disturbs nobody but the joiner.
LEMMA JoinerInv ==
  ASSUME NEW kk, KernelInv(kk), NEW t \in Thread, NEW w \in Thread
  PROVE  KernelInv(ResumeJoiner(kk, t, w)) /\ Calm(kk, ResumeJoiner(kk, t, w))
<1>1. CASE VerifyWait(kk, w, "THREADEND", t)
  <2> DEFINE k1 == UnscheduleEvent(kk, "THREADEND", w)
  <2>1. "THREADEND" \in TimerType /\ "exited" \in Result
    BY DEF TimerType, Result
  <2>2. KernelInv(k1) /\ Calm(kk, k1) /\ k1.st = kk.st
    BY <2>1, UnscheduleInv
  <2>3. kk.wait[w].type = "THREADEND"
    BY <1>1, UidAssumption DEF VerifyWait, KernelGetWaitID
  <2>4. "RUNNING" \notin k1.st[w]
    BY <2>2, <2>3 DEF KernelInv, ThreadInv, StatusShape
  <2>5. ResumeJoiner(kk, t, w) = KernelResumeThreadFromWait(k1, w, "exited")
    BY <1>1 DEF ResumeJoiner
  <2> HIDE DEF k1
  <2>6. /\ KernelInv(KernelResumeThreadFromWait(k1, w, "exited"))
        /\ Calm(k1, KernelResumeThreadFromWait(k1, w, "exited"))
    BY <2>1, <2>2, <2>4, ResumeThreadInv
  <2> QED BY <2>2, <2>5, <2>6, CalmTransitive
<1>2. CASE ~VerifyWait(kk, w, "THREADEND", t)
  BY <1>2 DEF ResumeJoiner, Calm
<1> QED BY <1>1, <1>2

\* The loop over the joiners is well defined: after[i] is the kernel when the first
\* i of them have been looked at.
JoinersLoop(kk, t, after) ==
  /\ after[0] = kk
  /\ \A i \in 1..Len(kk.joiners[t]) :
       after[i] = ResumeJoiner(after[i - 1], t, kk.joiners[t][i])
  /\ ResumeJoiners(kk, t) = after[Len(kk.joiners[t])]

LEMMA JoinersLoopExists ==
  ASSUME NEW kk, NEW t, Len(kk.joiners[t]) \in Nat
  PROVE  \E after : JoinersLoop(kk, t, after)
<1> DEFINE s == kk.joiners[t]
           n == Len(s)
           Round(x, i) == ResumeJoiner(x, t, s[i])
           IsLoop(f, m) == f = [i \in 0..m |-> IF i = 0 THEN kk ELSE Round(f[i - 1], i)]
           after == CHOOSE f : IsLoop(f, n)
<1>2. ResumeJoiners(kk, t) = after[n] /\ n \in Nat
  BY DEF ResumeJoiners
<1>3. after[0] = kk /\ \A i \in 1..n : after[i] = Round(after[i - 1], i)
  <2> HIDE DEF s, n, Round
  <2>1. IsLoop(after, n)
    <3> DEFINE G == {m \in 0..n : \E f : IsLoop(f, m)}
    <3>1. 0 \in G
      <4>1. IsLoop([i \in 0..0 |-> kk], 0)
        OBVIOUS
      <4> HIDE DEF IsLoop
      <4> QED BY <1>2, <4>1
    <3>2. ASSUME NEW m \in 1..n, m - 1 \in G PROVE m \in G
      <4>1. PICK f : IsLoop(f, m - 1)
        BY <3>2
      <4> DEFINE g == [i \in 0..m |-> IF i < m THEN f[i] ELSE Round(f[m - 1], m)]
      <4>2. ASSUME NEW i \in 0..m
            PROVE  g[i] = IF i = 0 THEN kk ELSE Round(g[i - 1], i)
        <5>1. CASE i = 0
          BY <4>1, <5>1
        <5>2. CASE i # 0 /\ i < m
          BY <4>1, <5>2
        <5>3. CASE i = m
          BY <5>3
        <5> QED BY <5>1, <5>2, <5>3
      <4>3. IsLoop(g, m)
        BY <4>2
      <4> HIDE DEF IsLoop, g
      <4> QED BY <4>3
    <3> HIDE DEF G
    <3>3. n \in G
      <4>1. \A m \in 1..n : m - 1 \in G => m \in G
        BY <3>2
      <4>2. \A m \in 0..n : m \in G
        BY <1>2, <3>1, <4>1, SetInduction
      <4> QED BY <1>2, <4>2
    <3> QED BY <3>3 DEF G
  <2> HIDE DEF after
  <2> QED BY <1>2, <2>1
<1> HIDE DEF after
<1> QED BY <1>2, <1>3 DEF JoinersLoop

\* Each round is calm, and so is the loop up to any of them.
LEMMA JoinersRounds ==
  ASSUME NEW kk, KernelInv(kk), NEW t \in Thread, NEW after, JoinersLoop(kk, t, after)
  PROVE  \A i \in 0..Len(kk.joiners[t]) : KernelInv(after[i]) /\ Calm(kk, after[i])
<1> DEFINE s == kk.joiners[t]
           n == Len(s)
<1>1. n \in Nat /\ \A i \in 1..n : s[i] \in Thread
  BY DEF KernelInv, Kernel
<1>2. /\ after[0] = kk
      /\ \A i \in 1..n : after[i] = ResumeJoiner(after[i - 1], t, s[i])
  BY DEF JoinersLoop
<1> HIDE DEF s, n
<1> DEFINE G == {m \in 0..n : KernelInv(after[m]) /\ Calm(kk, after[m])}
<1>3. 0 \in G
  BY <1>1, <1>2 DEF Calm
<1>4. ASSUME NEW m \in 1..n, m - 1 \in G PROVE m \in G
  BY <1>1, <1>2, <1>4, JoinerInv, CalmTransitive
<1> HIDE DEF G
<1>5. \A m \in 1..n : m - 1 \in G => m \in G
  BY <1>4
<1>6. \A m \in 0..n : m \in G
  BY <1>1, <1>3, <1>5, SetInduction
<1> QED BY <1>6 DEF G, n, s

LEMMA JoinersInv ==
  ASSUME NEW kk, KernelInv(kk), NEW t \in Thread
  PROVE  KernelInv(ResumeJoiners(kk, t)) /\ Calm(kk, ResumeJoiners(kk, t))
<1>1. Len(kk.joiners[t]) \in Nat
  BY DEF KernelInv, Kernel
<1>2. PICK after : JoinersLoop(kk, t, after)
  BY <1>1, JoinersLoopExists
<1> QED BY <1>1, <1>2, JoinersRounds DEF JoinersLoop

\* What stopping t does to everybody else: like Calm, but t itself may change.
CalmBut(kk, k2, t) ==
  /\ k2.disp = kk.disp /\ k2.frames = kk.frames
  /\ \A u \in Thread \ {t} :
       kk.st[u] \in {{"RUNNING"}, {"READY"}, {"DORMANT"}, {"DEAD"}}
         => k2.st[u] = kk.st[u]

LEMMA StopBeginInv ==
  ASSUME NEW kk, KernelInv(kk), NEW t \in User
  PROVE  LET k2 == KernelStopThreadBegin(kk, t)
         IN  /\ KernelInv(k2) /\ CalmBut(kk, k2, t) /\ k2.cur = kk.cur
             /\ k2.st[t] = {"DORMANT"} /\ k2.initp = kk.initp
<1> DEFINE unready == KernelChangeReadyState(kk, t, FALSE)
           dormant == [unready EXCEPT !.st[t] = {"DORMANT"}]
           timed == UnscheduleEvent(dormant, "DELAY", t)
           fired == UnscheduleEvent(timed, "THREADEND", t)
<1>1. /\ t \in Thread /\ t \notin Idle /\ kk \in Kernel
      /\ "DELAY" \in TimerType /\ "THREADEND" \in TimerType
  BY UidAssumption DEF Thread, Idle, KernelInv, TimerType
<1>2. InvBut(unready, {t}) /\ unready = [kk EXCEPT !.rq = unready.rq]
  BY <1>1, UnreadyOff
<1>3. fired = KernelStopThreadBegin(kk, t)
  BY DEF KernelStopThreadBegin, KernelFireThreadEnd
<1> HIDE DEF unready
<1>4. KernelInv(dormant) /\ CalmBut(kk, dormant, t)
      /\ dormant.cur = kk.cur /\ dormant.initp = kk.initp /\ dormant.st[t] = {"DORMANT"}
  <2>1. unready \in Kernel
    BY <1>2 DEF InvBut
  <2>2. /\ dormant \in Kernel /\ dormant.rq = unready.rq /\ dormant.cur = unready.cur
        /\ dormant.st = [unready.st EXCEPT ![t] = {"DORMANT"}]
        /\ dormant.prio = unready.prio /\ dormant.wait = unready.wait
        /\ dormant.disp = unready.disp /\ dormant.frames = unready.frames
        /\ dormant.initp = unready.initp
    <3>1. [unready.st EXCEPT ![t] = {"DORMANT"}] \in [Thread -> SUBSET StatusBits]
      BY <1>1, <2>1 DEF Kernel, StatusBits
    <3>2. dormant = [unready EXCEPT !.st = [unready.st EXCEPT ![t] = {"DORMANT"}]]
      BY <2>1 DEF Kernel
    <3> QED BY <2>1, <3>1, <3>2 DEF Kernel
  <2>3. /\ unready.st = kk.st /\ unready.cur = kk.cur /\ unready.disp = kk.disp
        /\ unready.frames = kk.frames /\ unready.initp = kk.initp
    BY <1>1, <1>2 DEF Kernel
  <2> HIDE DEF dormant
  <2>4. dormant.st[t] = {"DORMANT"} /\ \A u \in Thread \ {t} : dormant.st[u] = unready.st[u]
    BY <1>1, <2>1, <2>2 DEF Kernel
  <2>5. OthersSame(unready, dormant, t) /\ OffStatus(dormant, t, dormant.st[t])
    BY <1>1, <2>2, <2>4 DEF OthersSame, OffStatus, StatusBits
  <2>6. KernelInv(dormant)
    BY <1>1, <1>2, <2>2, <2>5, OffToStatus
  <2> QED BY <2>2, <2>3, <2>4, <2>6 DEF CalmBut
<1> HIDE DEF dormant
<1>5. KernelInv(timed) /\ Calm(dormant, timed)
  BY <1>1, <1>4, UnscheduleInv
<1> HIDE DEF timed
<1>6. KernelInv(fired) /\ Calm(timed, fired)
  BY <1>1, <1>5, UnscheduleInv
<1> HIDE DEF fired
<1>7. Calm(dormant, fired)
  BY <1>5, <1>6, CalmTransitive
<1> QED BY <1>1, <1>3, <1>4, <1>6, <1>7 DEF Calm, CalmBut

LEMMA StopEndInv ==
  ASSUME NEW kk, KernelInv(kk), NEW t \in User, kk.st[t] = {"DORMANT"}
  PROVE  LET k2 == KernelStopThreadEnd(kk, t)
         IN  KernelInv(k2) /\ Calm(kk, k2)
<1> DEFINE resumed == ResumeJoiners(kk, t)
           k2 == [resumed EXCEPT !.joiners[t] = <<>>, !.wait[t] = NoWait]
<1>1. t \in Thread /\ t \notin Idle
  BY UidAssumption DEF Thread, Idle
<1>3. k2 = KernelStopThreadEnd(kk, t)
  BY DEF KernelStopThreadEnd
<1>7. KernelInv(resumed) /\ Calm(kk, resumed)
  BY <1>1, JoinersInv
<1>8. resumed.st[t] = {"DORMANT"}
  BY <1>1, <1>7 DEF Calm
<1> HIDE DEF resumed
<1>9. /\ k2 \in Kernel /\ k2.rq = resumed.rq /\ k2.cur = resumed.cur
      /\ k2.st = resumed.st /\ k2.prio = resumed.prio
      /\ k2.wait = [resumed.wait EXCEPT ![t] = NoWait]
      /\ k2.disp = resumed.disp /\ k2.frames = resumed.frames
      /\ k2.initp = resumed.initp
  <2>1. resumed \in Kernel
    BY <1>7 DEF KernelInv
  <2>2. NoWait \in Wait /\ <<>> \in Seq(Thread)
    BY DEF NoWait, Wait, WaitType, ObjWait
  <2>3. /\ [resumed.wait EXCEPT ![t] = NoWait] \in [Thread -> Wait]
        /\ [resumed.joiners EXCEPT ![t] = <<>>] \in [Thread -> Seq(Thread)]
    BY <1>1, <2>1, <2>2 DEF Kernel
  <2>4. k2 = [resumed EXCEPT !.joiners = [resumed.joiners EXCEPT ![t] = <<>>],
                             !.wait = [resumed.wait EXCEPT ![t] = NoWait]]
    BY <2>1 DEF Kernel
  <2> HIDE DEF k2
  <2> QED BY <2>1, <2>3, <2>4 DEF Kernel
<1> HIDE DEF k2
<1>10. Calm(kk, k2)
  BY <1>7, <1>9 DEF Calm
<1>11. KernelInv(k2)
  <2>1. InvBut(resumed, {t})
    BY <1>7, <1>8 DEF KernelInv, InvBut, ThreadInv, QueuedRight
  <2>2. OthersSame(resumed, k2, t)
    BY <1>7, <1>9 DEF OthersSame, KernelInv, Kernel
  <2>3. OffStatus(k2, t, k2.st[t])
    BY <1>1, <1>8, <1>9 DEF OffStatus, StatusBits
  <2> QED BY <1>1, <1>9, <2>1, <2>2, <2>3, OffToStatus
<1> QED BY <1>3, <1>10, <1>11

\* stopped is kk after its thread t has been stopped.
Stops(kk, stopped, t) ==
  /\ KernelInv(stopped) /\ CalmBut(kk, stopped, t) /\ stopped.cur = kk.cur
  /\ stopped.st[t] = {"DORMANT"}

\* k1 is the kernel when the objects that listen to the end of t have acted.
LEMMA HeardInv ==
  ASSUME NEW kk, KernelInv(kk), NEW t \in User, NEW k1, KernelInv(k1),
         Calm(KernelStopThreadBegin(kk, t), k1)
  PROVE  Stops(kk, KernelStopThreadEnd(k1, t), t)
<1> DEFINE fired == KernelStopThreadBegin(kk, t)
           k2 == KernelStopThreadEnd(k1, t)
<1>1. t \in Thread
  BY DEF Thread
<1>2. /\ CalmBut(kk, fired, t) /\ fired.cur = kk.cur /\ fired.st[t] = {"DORMANT"}
  BY StopBeginInv
<1> HIDE DEF fired
<1>3. k1.st[t] = {"DORMANT"} /\ Calm(fired, k1)
  BY <1>1, <1>2 DEF Calm, fired
<1>4. KernelInv(k2) /\ Calm(k1, k2)
  BY <1>3, StopEndInv
<1> HIDE DEF k2
<1>5. Calm(fired, k2)
  BY <1>3, <1>4, CalmTransitive
<1>6. CalmBut(kk, k2, t)
  BY <1>2, <1>5 DEF Calm, CalmBut
<1>7. k2.cur = kk.cur /\ k2.st[t] = {"DORMANT"}
  BY <1>1, <1>2, <1>5 DEF Calm
<1> QED BY <1>4, <1>6, <1>7 DEF Stops, k2

LEMMA StopInv ==
  ASSUME NEW kk, KernelInv(kk), NEW t \in User
  PROVE  Stops(kk, KernelStopThread(kk, t), t)
<1> DEFINE fired == KernelStopThreadBegin(kk, t)
<1>1. KernelInv(fired)
  BY StopBeginInv
<1>2. Calm(fired, fired)
  BY DEF Calm
<1> QED BY <1>1, <1>2, HeardInv DEF KernelStopThread

\* __KernelDeleteThread() after the thread has been stopped.
LEMMA DeletedInv ==
  ASSUME NEW stopped, KernelInv(stopped), NEW t \in User, stopped.st[t] = {"DORMANT"}
  PROVE  LET k2 == KernelDeleteThread(stopped, t)
         IN  /\ KernelInv(k2) /\ CalmBut(stopped, k2, t)
             /\ k2.cur = IF stopped.cur = t THEN NoThread ELSE stopped.cur
<1> DEFINE removed == remove(stopped, stopped.prio[t], t)
           k2 == [removed EXCEPT !.cur = IF @ = t THEN NoThread ELSE @,
                                 !.st[t] = {"DEAD"},
                                 !.wakeup[t] = 0, !.ret[t] = "none"]
<1>1. t \in Thread /\ t \notin Idle
  BY UidAssumption DEF Thread, Idle
<1>2. k2 = KernelDeleteThread(stopped, t)
  BY DEF KernelDeleteThread
<1>4. InvBut(removed, {t})
  BY <1>1, RemoveOff
<1>5. /\ removed \in Kernel /\ removed.st = stopped.st /\ removed.cur = stopped.cur
      /\ removed.disp = stopped.disp /\ removed.frames = stopped.frames
  BY <1>4 DEF InvBut, KernelInv, remove, Kernel
<1> HIDE DEF removed
<1>6. /\ k2 \in Kernel /\ k2.rq = removed.rq
      /\ k2.cur = (IF removed.cur = t THEN NoThread ELSE removed.cur)
      /\ k2.st = [removed.st EXCEPT ![t] = {"DEAD"}]
      /\ k2.prio = removed.prio /\ k2.wait = removed.wait
      /\ k2.disp = removed.disp /\ k2.frames = removed.frames
  <2>1. /\ [removed.st EXCEPT ![t] = {"DEAD"}] \in [Thread -> SUBSET StatusBits]
        /\ [removed.wakeup EXCEPT ![t] = 0] \in [Thread -> Nat]
        /\ [removed.ret EXCEPT ![t] = "none"] \in [Thread -> Result]
        /\ (IF removed.cur = t THEN NoThread ELSE removed.cur) \in Thread \cup {NoThread}
    BY <1>5 DEF Kernel, StatusBits, Result
  <2>2. k2 = [removed EXCEPT !.cur = IF removed.cur = t THEN NoThread ELSE removed.cur,
                             !.st = [removed.st EXCEPT ![t] = {"DEAD"}],
                             !.wakeup = [removed.wakeup EXCEPT ![t] = 0],
                             !.ret = [removed.ret EXCEPT ![t] = "none"]]
    BY <1>5 DEF Kernel
  <2> HIDE DEF k2
  <2> QED BY <1>5, <2>1, <2>2 DEF Kernel
<1> HIDE DEF k2
<1>7. k2.st[t] = {"DEAD"} /\ \A u \in Thread \ {t} : k2.st[u] = removed.st[u]
  BY <1>1, <1>5, <1>6 DEF Kernel
<1>8. CalmBut(stopped, k2, t)
  BY <1>5, <1>6, <1>7 DEF CalmBut
<1>9. OthersSame(removed, k2, t) /\ OffStatus(k2, t, k2.st[t])
  BY <1>1, <1>6, <1>7 DEF OthersSame, OffStatus, StatusBits
<1>10. k2.cur = removed.cur \/ \A u \in Thread \ {t} : "RUNNING" \notin removed.st[u]
  BY <1>5, <1>6 DEF KernelInv, ThreadInv, StatusShape
<1>11. KernelInv(k2)
  BY <1>1, <1>4, <1>6, <1>9, <1>10, OffToStatus
<1> QED BY <1>2, <1>5, <1>6, <1>8, <1>11

LEMMA DeleteInv ==
  ASSUME NEW kk, NEW t \in User, NEW stopped, Stops(kk, stopped, t)
  PROVE  LET k2 == KernelDeleteThread(stopped, t)
         IN  /\ KernelInv(k2) /\ CalmBut(kk, k2, t)
             /\ k2.cur = IF kk.cur = t THEN NoThread ELSE kk.cur
<1> DEFINE k2 == KernelDeleteThread(stopped, t)
<1>1. /\ KernelInv(k2) /\ CalmBut(stopped, k2, t)
      /\ k2.cur = IF stopped.cur = t THEN NoThread ELSE stopped.cur
  BY DeletedInv DEF Stops
<1> HIDE DEF k2
<1>2. CalmBut(kk, k2, t)
  BY <1>1 DEF CalmBut, Stops
<1> QED BY <1>1, <1>2 DEF Stops, k2

-----------------------------------------------------------------------------
(* The context switch. *)

\* The wait of a thread is cleared when its result is loaded, or not at all.
Loaded(kk, k2) ==
  \A u \in Thread :
    k2.wait[u] = NoWait \/ (k2.wait[u] = kk.wait[u] /\ k2.ret[u] = kk.ret[u])

\* A reschedule ends with a RUNNING thread.  The thread it was taken from is READY,
\* and no waiting thread notices.
Switched(kk, k2) ==
  /\ k2.cur \in Thread /\ k2.st[k2.cur] = {"RUNNING"}
  /\ k2.disp = kk.disp /\ k2.frames = kk.frames /\ k2.prio = kk.prio
  /\ k2.joiners = kk.joiners /\ k2.wakeup = kk.wakeup /\ k2.timer = kk.timer
  /\ \A u \in Thread :
       /\ \/ k2.st[u] \in {{"RUNNING"}, {"READY"}}
          \/ k2.st[u] = kk.st[u] /\ k2.wait[u] = kk.wait[u]
       /\ k2.st[u] = {"READY"} =>
            kk.st[u] = {"READY"} \/ (u = kk.cur /\ kk.st[u] = {"RUNNING"})
  /\ Loaded(kk, k2)

\* The thread that runs is at least as good as every queue that was in use.
RunsBest(kk, k2) == \A q \in Prio : kk.rq[q] # <<>> => k2.prio[k2.cur] <= q

\* __KernelSwitchContext() to a thread that was popped off the queue, when
\* nobody is RUNNING.
LEMMA SwitchContextInv ==
  ASSUME NEW kk, NEW t \in Thread, InvBut(kk, {t}), kk.st[t] = {"READY"},
         t \in Idle => kk.prio[t] = IdlePrio,
         kk.cur = NoThread \/ "RUNNING" \notin kk.st[kk.cur]
  PROVE  KernelInv(KernelSwitchContext(kk, t)) /\ Switched(kk, KernelSwitchContext(kk, t))
<1> DEFINE p == kk.prio[t]
           k2 == [kk EXCEPT !.cur = t,
                            !.st[t] = (@ \cup {"RUNNING"}) \ {"READY"},
                            !.wait[t] = NoWait, !.ret[t] = "none"]
<1>1. /\ kk \in Kernel /\ p \in Prio /\ kk.rq[p] \in Seq(Thread)
      /\ Distinct(kk.rq[p]) /\ ~Holds(kk.rq[p], t)
  BY DEF InvBut, Kernel, QueuesDistinct
<1>2. KernelChangeReadyState(kk, t, FALSE) = kk
  <2>1. KernelChangeReadyState(kk, t, FALSE) = [kk EXCEPT !.rq[p] = DropFirst(kk.rq[p], t)]
    BY <1>1 DEF KernelChangeReadyState, remove, Kernel
  <2>2. DropFirst(kk.rq[p], t) = kk.rq[p]
    BY <1>1 DEF DropFirst
  <2>3. [kk EXCEPT !.rq[p] = kk.rq[p]] = kk
    BY <1>1 DEF Kernel
  <2> QED BY <2>1, <2>2, <2>3
<1>3. KernelSwitchContext(kk, t) = k2
  BY <1>2 DEF KernelSwitchContext
<1>4. /\ k2 \in Kernel /\ k2.rq = kk.rq /\ k2.cur = t
      /\ k2.st = [kk.st EXCEPT ![t] = {"RUNNING"}]
      /\ k2.prio = kk.prio /\ k2.wait = [kk.wait EXCEPT ![t] = NoWait]
      /\ k2.ret = [kk.ret EXCEPT ![t] = "none"]
      /\ k2.disp = kk.disp /\ k2.frames = kk.frames
      /\ k2.joiners = kk.joiners /\ k2.wakeup = kk.wakeup /\ k2.timer = kk.timer
  <2>1. /\ [kk.st EXCEPT ![t] = {"RUNNING"}] \in [Thread -> SUBSET StatusBits]
        /\ [kk.wait EXCEPT ![t] = NoWait] \in [Thread -> Wait]
        /\ [kk.ret EXCEPT ![t] = "none"] \in [Thread -> Result]
    BY <1>1 DEF Kernel, StatusBits, Result, NoWait, Wait, WaitType, ObjWait
  <2>2. (kk.st[t] \cup {"RUNNING"}) \ {"READY"} = {"RUNNING"}
    OBVIOUS
  <2>3. k2 = [kk EXCEPT !.cur = t, !.st = [kk.st EXCEPT ![t] = {"RUNNING"}],
                        !.wait = [kk.wait EXCEPT ![t] = NoWait],
                        !.ret = [kk.ret EXCEPT ![t] = "none"]]
    BY <1>1, <2>2 DEF Kernel
  <2> HIDE DEF k2
  <2> QED BY <1>1, <2>1, <2>3 DEF Kernel
<1> HIDE DEF k2
<1>5. /\ k2.st[t] = {"RUNNING"} /\ k2.wait[t].type = "NONE"
      /\ OthersSame(kk, k2, t)
  BY <1>1, <1>4 DEF Kernel, OthersSame, NoWait
<1>6. OffStatus(k2, t, k2.st[t])
  BY <1>4, <1>5 DEF OffStatus, StatusBits
<1>7. \A u \in Thread \ {t} : "RUNNING" \notin kk.st[u]
  BY UidAssumption DEF InvBut, ThreadInv, StatusShape
<1>8. KernelInv(k2)
  BY <1>4, <1>5, <1>6, <1>7, OffToStatus
<1>9. Loaded(kk, k2)
  BY <1>1, <1>4 DEF Loaded, Kernel
<1>10. Switched(kk, k2)
  BY <1>4, <1>5, <1>9 DEF Switched, OthersSame
<1> QED BY <1>3, <1>8, <1>10

\* Popping the best thread and switching to it.
LEMMA SwitchToBestInv ==
  ASSUME NEW kk, KernelInv(kk), \E q \in Prio : kk.rq[q] # <<>>
  PROVE  /\ KernelInv(SwitchToBest(kk)) /\ Switched(kk, SwitchToBest(kk))
         /\ RunsBest(kk, SwitchToBest(kk))
<1> DEFINE p == CHOOSE q \in Prio : IsBestQueue(kk, q)
           best == Head(kk.rq[p])
           popped == [kk EXCEPT !.rq[p] = Tail(@)]
<1>1. p \in Prio /\ kk.rq[p] # <<>> /\ \A q \in Prio : q < p => kk.rq[q] = <<>>
  <2> DEFINE Used == {q \in Prio : kk.rq[q] # <<>>}
  <2>1. Used \subseteq Nat /\ Used # {}
    BY PrioAssumption DEF Prio
  <2>2. PICK m \in Used : \A q \in Used : m <= q
    <3> HIDE DEF Used
    <3> QED BY <2>1, LeastElement
  <2>3. IsBestQueue(kk, m)
    BY <2>1, <2>2, PrioAssumption DEF IsBestQueue, Prio
  <2>4. IsBestQueue(kk, p)
    BY <2>2, <2>3
  <2> QED BY <2>4 DEF IsBestQueue
<1> HIDE DEF p
<1>2. /\ kk \in Kernel /\ kk.rq \in [Prio -> Seq(Thread)]
      /\ kk.rq[p] \in Seq(Thread) /\ Distinct(kk.rq[p])
  BY <1>1 DEF KernelInv, Kernel, QueuesDistinct
<1>3. /\ Tail(kk.rq[p]) \in Seq(Thread) /\ Distinct(Tail(kk.rq[p]))
      /\ best \in Thread /\ Holds(kk.rq[p], best)
      /\ \A x : Holds(Tail(kk.rq[p]), x) <=> Holds(kk.rq[p], x) /\ x # best
  BY <1>1, <1>2, TailHolds
<1>4. /\ popped \in Kernel /\ popped.rq = [kk.rq EXCEPT ![p] = Tail(kk.rq[p])]
      /\ popped.st = kk.st /\ popped.prio = kk.prio /\ popped.cur = kk.cur
      /\ popped.wait = kk.wait /\ popped.disp = kk.disp /\ popped.frames = kk.frames
      /\ popped.joiners = kk.joiners /\ popped.wakeup = kk.wakeup
      /\ popped.timer = kk.timer /\ popped.ret = kk.ret
  BY <1>1, <1>2, <1>3 DEF Kernel
<1>5. /\ SwitchToBest(kk) =
           IF kk.cur # NoThread /\ Has(kk, kk.cur, "RUNNING")
           THEN KernelSwitchContext(KernelChangeReadyState(popped, kk.cur, TRUE), best)
           ELSE KernelSwitchContext(popped, best)
  BY DEF SwitchToBest, p
<1> HIDE DEF best, popped
<1>6. kk.st[best] = {"READY"} /\ kk.prio[best] = p
      /\ (best \in Idle => kk.prio[best] = IdlePrio)
  BY <1>1, <1>3 DEF KernelInv, ThreadInv, QueuedRight, StatusShape, IdleShape
<1>7. InvBut(popped, {best})
  <2>1. QueuesDistinct(popped)
    BY <1>1, <1>2, <1>3, <1>4 DEF KernelInv, QueuesDistinct
  <2>2. ASSUME NEW q \in Prio PROVE ~Holds(popped.rq[q], best)
    <3>1. q # p => ~Holds(kk.rq[q], best)
      BY <1>3, <1>6 DEF KernelInv, ThreadInv, QueuedRight
    <3> QED BY <1>1, <1>2, <1>3, <1>4, <3>1
  <2>3. ASSUME NEW u \in Thread, u # best PROVE ThreadInv(popped, u)
    <3>1. ThreadInv(kk, u)
      BY DEF KernelInv
    <3>2. StatusShape(popped, u) /\ IdleShape(popped, u)
      BY <1>4, <3>1 DEF ThreadInv, StatusShape, IdleShape
    <3>3. QueuedRight(popped, u)
      BY <1>1, <1>2, <1>3, <1>4, <2>3, <3>1 DEF ThreadInv, QueuedRight
    <3> QED BY <3>2, <3>3 DEF ThreadInv
  <2> QED BY <1>4, <2>1, <2>2, <2>3 DEF InvBut
<1>8. ASSUME kk.cur # NoThread, "RUNNING" \in kk.st[kk.cur]
      PROVE  KernelInv(SwitchToBest(kk)) /\ Switched(kk, SwitchToBest(kk))
  <2> DEFINE c == kk.cur
             X == {best}
             yielded == KernelChangeReadyState(popped, c, TRUE)
  <2>1. c \in Thread /\ c \notin X
    BY <1>2, <1>6, <1>8 DEF Kernel
  <2>2. InvBut(popped, X)
    BY <1>7
  <2> HIDE DEF c, X
  <2>3. InvBut(yielded, X) /\ Readied(popped, yielded, c)
    BY <2>1, <2>2, ReadyInv
  <2> HIDE DEF yielded
  <2>4. /\ yielded.st = [popped.st EXCEPT ![c] = {"READY"}]
        /\ yielded.cur = popped.cur /\ yielded.prio = popped.prio
        /\ yielded.disp = popped.disp /\ yielded.frames = popped.frames
        /\ yielded.joiners = popped.joiners /\ yielded.wakeup = popped.wakeup
        /\ yielded.timer = popped.timer /\ yielded.wait = popped.wait
        /\ yielded.ret = popped.ret
    BY <1>4, <2>3 DEF Readied, Kernel
  <2>5. InvBut(yielded, {best})
    BY <2>3 DEF X
  <2>6. yielded.st[best] = {"READY"} /\ "RUNNING" \notin yielded.st[yielded.cur]
    <3>1. kk.st \in [Thread -> SUBSET StatusBits] /\ yielded.cur = c /\ best # c
      BY <1>2, <1>4, <2>1, <2>4 DEF Kernel, c, X
    <3>2. yielded.st[best] = kk.st[best] /\ yielded.st[c] = {"READY"}
      BY <1>3, <1>4, <2>1, <2>4, <3>1
    <3> QED BY <1>6, <3>1, <3>2
  <2>7. /\ KernelInv(KernelSwitchContext(yielded, best))
        /\ Switched(yielded, KernelSwitchContext(yielded, best))
    <3>1. /\ yielded.cur = kk.cur
          /\ best \in Idle => yielded.prio[best] = IdlePrio
      BY <1>4, <1>6, <2>4
    <3> QED BY <1>3, <2>5, <2>6, <3>1, SwitchContextInv
  <2>8. SwitchToBest(kk) = KernelSwitchContext(yielded, best)
    BY <1>5, <1>8 DEF yielded, c
  <2> DEFINE k2 == KernelSwitchContext(yielded, best)
  <2> HIDE DEF k2
  <2>9. kk.st \in [Thread -> SUBSET StatusBits]
    BY <1>2 DEF Kernel
  <2>10. \A u \in Thread \ {c} : yielded.st[u] = kk.st[u] /\ yielded.wait[u] = kk.wait[u]
    BY <1>4, <2>4, <2>9
  <2>11. yielded.st[c] = {"READY"} /\ c = kk.cur /\ kk.st[c] = {"RUNNING"}
    BY <1>4, <1>8, <2>1, <2>4, <2>9 DEF c, KernelInv, ThreadInv, StatusShape
  <2>12. k2.st[c] \in {{"RUNNING"}, {"READY"}}
    BY <2>1, <2>7, <2>11 DEF Switched, k2
  <2>14. Loaded(kk, k2)
    BY <1>4, <2>4, <2>7 DEF Switched, Loaded, k2
  <2>13. Switched(kk, k2)
    BY <1>4, <2>4, <2>7, <2>10, <2>11, <2>12, <2>14 DEF Switched, k2
  <2> QED BY <2>7, <2>8, <2>13 DEF k2
<1>9. ASSUME kk.cur = NoThread \/ "RUNNING" \notin kk.st[kk.cur]
      PROVE  KernelInv(SwitchToBest(kk)) /\ Switched(kk, SwitchToBest(kk))
  <2>1. /\ KernelInv(KernelSwitchContext(popped, best))
        /\ Switched(popped, KernelSwitchContext(popped, best))
    BY <1>3, <1>4, <1>6, <1>7, <1>9, SwitchContextInv
  <2>2. SwitchToBest(kk) = KernelSwitchContext(popped, best)
    BY <1>5, <1>9
  <2> QED BY <1>4, <2>1, <2>2 DEF Switched, Loaded
<1>10. SwitchToBest(kk).cur = best
  BY <1>5 DEF KernelSwitchContext
<1>11. KernelInv(SwitchToBest(kk)) /\ Switched(kk, SwitchToBest(kk))
  BY <1>8, <1>9
<1>12. RunsBest(kk, SwitchToBest(kk))
  <2>1. SwitchToBest(kk).prio[best] = p
    BY <1>6, <1>11 DEF Switched
  <2>2. \A q \in Prio : q \in Nat
    BY PrioAssumption DEF Prio
  <2> QED BY <1>1, <1>10, <2>1, <2>2 DEF RunsBest
<1> QED BY <1>11, <1>12

\* Whenever the current thread is not RUNNING an idle thread is queued.
LEMMA IdleQueued ==
  ASSUME NEW kk, KernelInv(kk), kk.cur = NoThread \/ "RUNNING" \notin kk.st[kk.cur]
  PROVE  \E q \in Prio : kk.rq[q] # <<>>
<1>1. Idle0 \in Thread /\ Idle0 \in Idle /\ IdlePrio \in Prio
  BY DEF Thread, Idle, Prio
<1>2. ThreadInv(kk, Idle0)
  BY <1>1 DEF KernelInv
<1>3. "RUNNING" \notin kk.st[Idle0]
  BY <1>1, <1>2, UidAssumption DEF ThreadInv, StatusShape
<1>4. "READY" \in kk.st[Idle0] /\ kk.prio[Idle0] = IdlePrio
  BY <1>1, <1>2, <1>3 DEF ThreadInv, IdleShape
<1>5. Holds(kk.rq[IdlePrio], Idle0)
  BY <1>1, <1>2, <1>4 DEF ThreadInv, QueuedRight
<1>6. kk.rq[IdlePrio] # <<>>
  BY <1>5 DEF Holds
<1> QED BY <1>1, <1>6

LEMMA SwitchToNextInv ==
  ASSUME NEW kk, KernelInv(kk)
  PROVE  /\ KernelInv(SwitchToNext(kk)) /\ Switched(kk, SwitchToNext(kk))
         /\ RunsBest(kk, SwitchToNext(kk))
<1>1. CASE kk.cur # NoThread /\ "RUNNING" \in kk.st[kk.cur]
  <2>1. CASE \E q \in Prio : q < kk.prio[kk.cur] /\ kk.rq[q] # <<>>
    BY <1>1, <2>1, SwitchToBestInv DEF SwitchToNext
  <2>2. CASE ~ \E q \in Prio : q < kk.prio[kk.cur] /\ kk.rq[q] # <<>>
    <3>1. SwitchToNext(kk) = kk
      BY <1>1, <2>2 DEF SwitchToNext
    <3>2. kk.cur \in Thread /\ kk.st[kk.cur] = {"RUNNING"}
      BY <1>1 DEF KernelInv, Kernel, ThreadInv, StatusShape
    <3>3. \A q \in Prio : q \in Nat
      BY PrioAssumption DEF Prio
    <3>4. kk.prio[kk.cur] \in Prio
      BY <3>2 DEF KernelInv, Kernel
    <3> QED BY <2>2, <3>1, <3>2, <3>3, <3>4 DEF Switched, RunsBest, Loaded
  <2> QED BY <2>1, <2>2
<1>2. CASE ~(kk.cur # NoThread /\ "RUNNING" \in kk.st[kk.cur])
  <2>1. \E q \in Prio : kk.rq[q] # <<>>
    BY <1>2, IdleQueued
  <2>2. SwitchToNext(kk) = SwitchToBest(kk)
    BY <1>2, <2>1 DEF SwitchToNext
  <2> QED BY <2>1, <2>2, SwitchToBestInv
<1> QED BY <1>1, <1>2

\* A thread that was RUNNING only makes way for one that is as good.
LEMMA SwitchNotWorse ==
  ASSUME NEW kk, KernelInv(kk), kk.cur # NoThread, "RUNNING" \in kk.st[kk.cur]
  PROVE  LET k2 == SwitchToNext(kk) IN k2.prio[k2.cur] <= kk.prio[kk.cur]
<1> DEFINE k2 == SwitchToNext(kk)
<1> SUFFICES k2.prio[k2.cur] <= kk.prio[kk.cur]
  OBVIOUS
<1>1. Switched(kk, k2) /\ RunsBest(kk, k2) /\ kk \in Kernel
  BY SwitchToNextInv DEF KernelInv
<1>2. \A q \in Prio : q \in Nat
  BY PrioAssumption DEF Prio
<1>3. kk.cur \in Thread /\ k2.cur \in Thread /\ k2.prio = kk.prio
  BY <1>1 DEF Kernel, Switched
<1>4. k2.prio[k2.cur] \in Nat /\ kk.prio[kk.cur] \in Nat
  BY <1>1, <1>2, <1>3 DEF Kernel
<1>5. CASE \E q \in Prio : q < kk.prio[kk.cur] /\ kk.rq[q] # <<>>
  <2> HIDE DEF k2
  <2> QED BY <1>1, <1>2, <1>4, <1>5 DEF RunsBest
<1>6. CASE ~ \E q \in Prio : q < kk.prio[kk.cur] /\ kk.rq[q] # <<>>
  <2>1. k2 = kk
    BY <1>6 DEF SwitchToNext
  <2> HIDE DEF k2
  <2> QED BY <1>4, <2>1
<1> QED BY <1>5, <1>6

-----------------------------------------------------------------------------
(* Rescheduling, waiting and priorities. *)

\* Waits, their timers and results, saved wakeups and joiners are the same.
WaitsSame(kk, k2) ==
  /\ k2.wait = kk.wait /\ k2.timer = kk.timer /\ k2.wakeup = kk.wakeup
  /\ k2.joiners = kk.joiners /\ k2.ret = kk.ret

\* k2 is kk with a reschedule under way.
Pending(kk, k2) ==
  /\ k2.frames # <<>> /\ k2.cur = kk.cur /\ k2.disp = kk.disp
  /\ k2.st = kk.st /\ k2.prio = kk.prio /\ WaitsSame(kk, k2)

LEMMA PushFrameInv ==
  ASSUME NEW kk, KernelInv(kk), NEW r \in Obj \cup {NoObj}
  PROVE  LET k2 == [kk EXCEPT !.frames = Append(@, r)]
         IN  KernelInv(k2) /\ Pending(kk, k2)
<1> DEFINE f == Append(kk.frames, r)
           k2 == [kk EXCEPT !.frames = f]
<1>1. kk \in Kernel /\ kk.frames \in Seq(Obj \cup {NoObj})
  BY DEF KernelInv, Kernel
<1>2. f \in Seq(Obj \cup {NoObj}) /\ f # <<>>
  BY <1>1
<1>3. [kk EXCEPT !.frames = Append(@, r)] = k2
  OBVIOUS
<1> HIDE DEF f
<1>4. /\ k2 \in Kernel /\ k2.st = kk.st /\ k2.prio = kk.prio /\ k2.rq = kk.rq
      /\ k2.cur = kk.cur /\ k2.wait = kk.wait /\ k2.disp = kk.disp /\ k2.frames = f
      /\ WaitsSame(kk, k2)
  BY <1>1, <1>2 DEF Kernel, WaitsSame
<1> HIDE DEF k2
<1>5. KernelInv(k2)
  BY <1>4, SameQueueFields, InvButNone
<1> QED BY <1>2, <1>3, <1>4, <1>5 DEF Pending

LEMMA hleReScheduleInv ==
  ASSUME NEW kk, KernelInv(kk)
  PROVE  KernelInv(hleReSchedule(kk)) /\ Pending(kk, hleReSchedule(kk))
BY PushFrameInv DEF hleReSchedule

\* The current thread has begun the wait w, and a reschedule is under way.
Asleep(kk, k2, w) ==
  /\ KernelInv(k2) /\ k2.frames # <<>> /\ k2.disp /\ k2.cur = kk.cur
  /\ k2.st = [kk.st EXCEPT ![kk.cur] = {"WAIT"}]
  /\ k2.wait = [kk.wait EXCEPT ![kk.cur] = w]
  /\ k2.timer = kk.timer /\ k2.wakeup = kk.wakeup /\ k2.joiners = kk.joiners
  /\ k2.ret = kk.ret

\* The current thread goes to sleep.
LEMMA WaitCurInv ==
  ASSUME NEW kk, KernelInv(kk), kk.disp, kk.cur \in User,
         kk.st[kk.cur] \in {{"RUNNING"}, {"READY"}},
         NEW y \in WaitType, NEW id \in Thread \cup Obj \cup {NoObj},
         NEW v \in Nat, NEW timed \in BOOLEAN, y \in ObjWait => id \in Obj
  PROVE  Asleep(kk, KernelWaitCurThread(kk, y, id, v, timed),
                [type |-> y, id |-> id, value |-> v, timed |-> timed])
<1> DEFINE t == kk.cur
           w == [type |-> y, id |-> id, value |-> v, timed |-> timed]
           noted == [kk EXCEPT !.wait[t] = w]
           unready == KernelChangeReadyState(kk, t, FALSE)
           k2 == [kk EXCEPT !.wait[t] = w, !.rq = unready.rq, !.st[t] = {"WAIT"}]
<1>1. /\ t \in Thread /\ t \notin Idle /\ kk \in Kernel /\ w \in Wait
      /\ kk.st \in [Thread -> SUBSET StatusBits] /\ kk.wait \in [Thread -> Wait]
  BY UidAssumption DEF Thread, Idle, KernelInv, Kernel, Wait
<1>2. InvBut(unready, {t}) /\ unready = [kk EXCEPT !.rq = unready.rq]
  BY <1>1, UnreadyOff
<1>3. KernelWaitCurThread(kk, y, id, v, timed) = hleReSchedule(k2)
  <2>1. {"WAIT"} \cup (kk.st[t] \cap {"SUSPEND"}) = {"WAIT"}
    OBVIOUS
  <2>2. KernelWaitCurThread(kk, y, id, v, timed) =
          hleReSchedule(KernelChangeThreadState(noted, t, {"WAIT"}))
    BY <2>1 DEF KernelWaitCurThread
  <2>3. noted.st[t] # {"WAIT"} /\ noted.disp /\ noted.st = kk.st /\ noted.prio = kk.prio
        /\ noted.rq = kk.rq
    BY <1>1 DEF Kernel
  <2>4. unready.rq = IF "READY" \in kk.st[t]
                     THEN [kk.rq EXCEPT ![kk.prio[t]] = DropFirst(kk.rq[kk.prio[t]], t)]
                     ELSE kk.rq
    BY <1>1 DEF KernelChangeReadyState, remove, Kernel
  <2>5. KernelChangeThreadState(noted, t, {"WAIT"}) =
          [[noted EXCEPT !.rq = unready.rq] EXCEPT !.st[t] = {"WAIT"}]
    <3> HIDE DEF unready
    <3>1. CASE "READY" \in kk.st[t]
      BY <1>1, <2>3, <2>4, <3>1
         DEF KernelChangeThreadState, KernelChangeReadyState, remove, Kernel
    <3>2. CASE "READY" \notin kk.st[t]
      BY <1>1, <2>3, <2>4, <3>2
         DEF KernelChangeThreadState, KernelChangeReadyState, Kernel
    <3> QED BY <3>1, <3>2
  <2>6. [[noted EXCEPT !.rq = unready.rq] EXCEPT !.st[t] = {"WAIT"}] = k2
    BY <1>1 DEF Kernel
  <2> QED BY <2>2, <2>5, <2>6
<1> HIDE DEF unready, w
<1>4. /\ k2 \in Kernel /\ k2.rq = unready.rq /\ k2.cur = kk.cur
      /\ k2.st = [kk.st EXCEPT ![t] = {"WAIT"}]
      /\ k2.prio = kk.prio /\ k2.wait = [kk.wait EXCEPT ![t] = w] /\ k2.disp = kk.disp
      /\ k2.timer = kk.timer /\ k2.wakeup = kk.wakeup /\ k2.joiners = kk.joiners
      /\ k2.ret = kk.ret
  <2>1. /\ [kk.st EXCEPT ![t] = {"WAIT"}] \in [Thread -> SUBSET StatusBits]
        /\ [kk.wait EXCEPT ![t] = w] \in [Thread -> Wait]
    BY <1>1 DEF StatusBits
  <2>2. k2 = [kk EXCEPT !.wait = [kk.wait EXCEPT ![t] = w], !.rq = unready.rq,
                        !.st = [kk.st EXCEPT ![t] = {"WAIT"}]]
    BY <1>1 DEF Kernel
  <2>3. unready.rq \in [Prio -> Seq(Thread)]
    BY <1>2 DEF InvBut, Kernel
  <2> HIDE DEF k2
  <2> QED BY <1>1, <2>1, <2>2, <2>3 DEF Kernel
<1> HIDE DEF k2
<1>5. unready.st = kk.st /\ unready.prio = kk.prio /\ unready.wait = kk.wait
      /\ unready.cur = kk.cur
  BY <1>1, <1>2 DEF Kernel
<1>6. OthersSame(unready, k2, t) /\ OffStatus(k2, t, k2.st[t])
  BY <1>1, <1>4, <1>5 DEF OthersSame, OffStatus, StatusBits
<1>7. KernelInv(k2)
  <2> HIDE DEF t
  <2> QED BY <1>1, <1>2, <1>4, <1>5, <1>6, OffToStatus
<1>8. KernelInv(hleReSchedule(k2)) /\ Pending(k2, hleReSchedule(k2))
  BY <1>7, hleReScheduleInv
<1>9. Asleep(kk, hleReSchedule(k2), w)
  BY <1>4, <1>8 DEF Pending, WaitsSame, Asleep
<1> QED BY <1>3, <1>9 DEF w

\* __KernelChangeThreadPriority() moves the thread to its new queue.
LEMMA PriorityInv ==
  ASSUME NEW kk, KernelInv(kk), NEW t \in User, NEW p \in UserPrio
  PROVE  LET k2 == KernelChangeThreadPriority(kk, t, p)
         IN  /\ KernelInv(k2) /\ k2.cur = kk.cur /\ k2.disp = kk.disp
             /\ \A u \in Thread \ {t} : k2.st[u] = kk.st[u]
             /\ kk.st[t] \in {{"RUNNING"}, {"READY"}} => k2.st[t] = {"READY"}
<1> DEFINE removed == remove(kk, kk.prio[t], t)
           moved == [removed EXCEPT !.prio[t] = p]
           k2 == KernelChangeThreadPriority(kk, t, p)
<1>1. /\ t \in Thread /\ t \notin Idle /\ kk \in Kernel /\ p \in Prio
      /\ kk.st \in [Thread -> SUBSET StatusBits]
  BY UidAssumption DEF Thread, Idle, Prio, KernelInv, Kernel
<1>2. InvBut(removed, {t})
  BY <1>1, RemoveOff
<1>3. /\ removed \in Kernel /\ removed.st = kk.st /\ removed.cur = kk.cur
      /\ removed.disp = kk.disp /\ removed.prio = kk.prio
  BY <1>1, <1>2 DEF InvBut, remove, Kernel
<1>4. removed.rq[p] \in Seq(Thread) /\ Distinct(removed.rq[p]) /\ ~Holds(removed.rq[p], t)
  BY <1>1, <1>2, <1>3 DEF InvBut, QueuesDistinct, Kernel
<1>5. k2 = LET ready == IF "RUNNING" \in kk.st[t]
                        THEN [moved EXCEPT !.st[t] = (@ \ {"RUNNING"}) \cup {"READY"}]
                        ELSE moved
           IN  IF "READY" \in ready.st[t] THEN push_back(ready, p, t) ELSE ready
  BY DEF KernelChangeThreadPriority
<1> HIDE DEF removed, k2
<1>6. CASE "RUNNING" \in kk.st[t] \/ "READY" \in kk.st[t]
  <2> DEFINE q == Append(removed.rq[p], t)
             r2 == [removed EXCEPT !.prio = [removed.prio EXCEPT ![t] = p],
                                   !.st = [removed.st EXCEPT ![t] = {"READY"}],
                                   !.rq = [removed.rq EXCEPT ![p] = q]]
  <2>1. kk.st[t] = {"RUNNING"} \/ kk.st[t] = {"READY"}
    BY <1>1, <1>6 DEF KernelInv, ThreadInv, StatusShape
  <2>2. k2 = r2
    <3>1. CASE kk.st[t] = {"RUNNING"}
      <4>1. (kk.st[t] \ {"RUNNING"}) \cup {"READY"} = {"READY"}
        BY <3>1
      <4> QED BY <1>1, <1>3, <1>5, <3>1, <4>1 DEF push_back, Kernel
    <3>2. CASE kk.st[t] = {"READY"}
      <4>1. removed.st = [removed.st EXCEPT ![t] = {"READY"}]
        BY <1>1, <1>3, <3>2
      <4>2. k2 = push_back(moved, p, t)
        BY <1>3, <1>5, <3>2 DEF Kernel
      <4> QED BY <1>1, <1>3, <4>1, <4>2 DEF push_back, Kernel
    <3> QED BY <2>1, <3>1, <3>2
  <2>3. Queued(removed.rq[p], q, t)
    BY <1>1, <1>4, PushQueued
  <2> HIDE DEF q
  <2>4. /\ r2 \in Kernel /\ r2.st = [kk.st EXCEPT ![t] = {"READY"}]
        /\ r2.prio = [kk.prio EXCEPT ![t] = p] /\ r2.cur = kk.cur /\ r2.disp = kk.disp
        /\ r2.rq = [removed.rq EXCEPT ![p] = q] /\ r2.wait = removed.wait
    <3>1. /\ [removed.st EXCEPT ![t] = {"READY"}] \in [Thread -> SUBSET StatusBits]
          /\ [removed.prio EXCEPT ![t] = p] \in [Thread -> Prio]
          /\ [removed.rq EXCEPT ![p] = q] \in [Prio -> Seq(Thread)]
      BY <1>1, <1>3, <2>3 DEF Kernel, StatusBits, Queued
    <3> QED BY <1>3, <3>1 DEF Kernel
  <2> HIDE DEF r2
  <2>5. /\ r2.st[t] = {"READY"} /\ r2.prio[t] = p /\ OthersSame(removed, r2, t)
        /\ r2.rq[p] = q /\ \A x \in Prio \ {p} : r2.rq[x] = removed.rq[x]
    <3>1. r2.st[t] = {"READY"} /\ r2.prio[t] = p
      BY <1>1, <2>4 DEF Kernel
    <3>2. OthersSame(removed, r2, t)
      BY <1>1, <1>3, <2>4 DEF Kernel, OthersSame
    <3>3. r2.rq[p] = q /\ \A x \in Prio \ {p} : r2.rq[x] = removed.rq[x]
      BY <1>1, <1>3, <2>4 DEF Kernel
    <3> QED BY <3>1, <3>2, <3>3
  <2> DEFINE none == {}
  <2>6. InvBut(removed, none \cup {t}) /\ t \notin none
    BY <1>2
  <2> HIDE DEF none
  <2>7. InvBut(r2, none)
    <3>1. Queued(removed.rq[p], r2.rq[p], t)
      BY <2>3, <2>5
    <3> QED BY <1>1, <1>3, <2>4, <2>5, <2>6, <3>1, OffToReady
  <2>8. KernelInv(r2)
    BY <2>7, InvButNone DEF none
  <2>9. \A u \in Thread \ {t} : r2.st[u] = kk.st[u]
    BY <1>1, <2>4
  <2> QED BY <2>2, <2>4, <2>5, <2>8, <2>9 DEF k2
<1>7. CASE ~("RUNNING" \in kk.st[t] \/ "READY" \in kk.st[t])
  <2>1. /\ moved \in Kernel /\ moved.rq = removed.rq /\ moved.cur = kk.cur
        /\ moved.st = kk.st /\ moved.prio = [kk.prio EXCEPT ![t] = p]
        /\ moved.wait = removed.wait /\ moved.disp = kk.disp
    <3>1. [removed.prio EXCEPT ![t] = p] \in [Thread -> Prio]
      BY <1>1, <1>3 DEF Kernel
    <3> QED BY <1>3, <3>1 DEF Kernel
  <2>2. k2 = moved
    BY <1>5, <1>7, <2>1
  <2> HIDE DEF moved
  <2>3. OthersSame(removed, moved, t) /\ OffStatus(moved, t, moved.st[t])
    BY <1>1, <1>3, <1>7, <2>1 DEF OthersSame, OffStatus, Kernel
  <2>4. KernelInv(moved)
    BY <1>1, <1>2, <1>3, <2>1, <2>3, OffToStatus
  <2> QED BY <1>7, <2>1, <2>2, <2>4 DEF k2
<1> QED BY <1>6, <1>7

\* Rotating a queue; the current thread, if it is moved, was RUNNING.
LEMMA RotateInv ==
  ASSUME NEW kk, KernelInv(kk), NEW p \in UserPrio, kk.cur \in User,
         kk.st[kk.cur] = {"RUNNING"}
  PROVE  LET k2 == KernelRotateThreadReadyQueue(kk, p)
         IN  /\ KernelInv(k2) /\ k2.cur = kk.cur /\ k2.disp = kk.disp
             /\ k2.st[kk.cur] \in {{"RUNNING"}, {"READY"}}
<1> DEFINE t == kk.cur
           k2 == KernelRotateThreadReadyQueue(kk, p)
<1>1. /\ t \in Thread /\ t \notin Idle /\ kk \in Kernel /\ p \in Prio
      /\ kk.st \in [Thread -> SUBSET StatusBits]
      /\ kk.rq[p] \in Seq(Thread) /\ Distinct(kk.rq[p])
  BY UidAssumption DEF Thread, Idle, Prio, KernelInv, Kernel, QueuesDistinct
<1>2. CASE kk.rq[p] = <<>>
  BY <1>2 DEF KernelRotateThreadReadyQueue
<1>3. CASE kk.rq[p] # <<>> /\ kk.prio[t] = p
  <2> DEFINE q == Append(kk.rq[p], t)
             r2 == [kk EXCEPT !.st = [kk.st EXCEPT ![t] = {"READY"}],
                              !.rq = [kk.rq EXCEPT ![p] = q]]
  <2>1. k2 = r2
    <3>1. (kk.st[t] \ {"RUNNING"}) \cup {"READY"} = {"READY"}
      OBVIOUS
    <3> QED BY <1>1, <1>3, <3>1 DEF KernelRotateThreadReadyQueue, push_back, Kernel
  <2>2. ~Holds(kk.rq[p], t)
    BY <1>1 DEF KernelInv, ThreadInv, QueuedRight
  <2>3. Queued(kk.rq[p], q, t)
    BY <1>1, <2>2, PushQueued
  <2> HIDE DEF q
  <2>4. /\ r2 \in Kernel /\ r2.st = [kk.st EXCEPT ![t] = {"READY"}]
        /\ r2.prio = kk.prio /\ r2.cur = kk.cur /\ r2.disp = kk.disp
        /\ r2.rq = [kk.rq EXCEPT ![p] = q] /\ r2.wait = kk.wait
    <3>1. /\ [kk.st EXCEPT ![t] = {"READY"}] \in [Thread -> SUBSET StatusBits]
          /\ [kk.rq EXCEPT ![p] = q] \in [Prio -> Seq(Thread)]
      BY <1>1, <2>3 DEF Kernel, StatusBits, Queued
    <3> QED BY <1>1, <3>1 DEF Kernel
  <2> HIDE DEF r2
  <2>5. r2.st[t] = {"READY"} /\ OthersSame(kk, r2, t)
    BY <1>1, <2>4 DEF OthersSame
  <2>6. r2.rq[p] = q /\ \A x \in Prio \ {p} : r2.rq[x] = kk.rq[x]
    BY <1>1, <2>4 DEF Kernel
  <2> DEFINE none == {}
  <2>7. InvBut(kk, none \cup {t}) /\ t \notin none
    BY <1>1 DEF KernelInv, InvBut, ThreadInv, QueuedRight
  <2> HIDE DEF none, t
  <2>8. InvBut(r2, none)
    <3>1. Queued(kk.rq[p], r2.rq[p], t)
      BY <2>3, <2>6
    <3> QED BY <1>1, <1>3, <2>4, <2>5, <2>6, <2>7, <3>1, OffToReady
  <2>9. KernelInv(r2)
    BY <2>8, InvButNone DEF none
  <2> QED BY <2>1, <2>4, <2>5, <2>9 DEF k2, t
<1>4. CASE kk.rq[p] # <<>> /\ kk.prio[t] # p /\ ~(Len(kk.rq[p]) > 1)
  BY <1>4 DEF KernelRotateThreadReadyQueue, rotate
<1>5. CASE kk.rq[p] # <<>> /\ kk.prio[t] # p /\ Len(kk.rq[p]) > 1
  <2> DEFINE q == Append(Tail(kk.rq[p]), Head(kk.rq[p]))
             r2 == [kk EXCEPT !.rq = [kk.rq EXCEPT ![p] = q]]
  <2>1. k2 = r2
    BY <1>1, <1>5 DEF KernelRotateThreadReadyQueue, rotate, Kernel
  <2>2. q \in Seq(Thread) /\ Distinct(q) /\ \A x : Holds(q, x) <=> Holds(kk.rq[p], x)
    BY <1>1, <1>5, RotateHolds
  <2> HIDE DEF q
  <2>3. /\ r2 \in Kernel /\ r2.rq = [kk.rq EXCEPT ![p] = q]
        /\ r2.st = kk.st /\ r2.prio = kk.prio /\ r2.cur = kk.cur
        /\ r2.disp = kk.disp /\ r2.wait = kk.wait
    BY <1>1, <2>2 DEF Kernel
  <2>4. r2.rq[p] = q /\ \A x \in Prio \ {p} : r2.rq[x] = kk.rq[x]
    BY <1>1, <2>3 DEF Kernel
  <2> HIDE DEF r2
  <2>5. QueuesDistinct(r2)
    BY <2>2, <2>4 DEF KernelInv, QueuesDistinct
  <2>6. ASSUME NEW u \in Thread PROVE ThreadInv(r2, u)
    <3>1. ThreadInv(kk, u)
      BY DEF KernelInv
    <3>2. StatusShape(r2, u) /\ IdleShape(r2, u)
      BY <2>3, <3>1 DEF ThreadInv, StatusShape, IdleShape
    <3>3. QueuedRight(r2, u)
      BY <2>2, <2>3, <2>4, <3>1 DEF ThreadInv, QueuedRight
    <3> QED BY <3>2, <3>3 DEF ThreadInv
  <2>7. KernelInv(r2)
    BY <2>3, <2>5, <2>6 DEF KernelInv
  <2> QED BY <2>1, <2>3, <2>7
<1> QED BY <1>2, <1>3, <1>4, <1>5

-----------------------------------------------------------------------------
(* The phase of the kernel, and the steps. *)

\* A calm change keeps the phase, whether or not a reschedule is added.
LEMMA CalmPhase ==
  ASSUME NEW kk \in Kernel, PhaseInv(kk), NEW k2,
         k2.cur = kk.cur, k2.disp = kk.disp,
         k2.frames = kk.frames \/ k2.frames # <<>>,
         \A u \in Thread : kk.st[u] \in {{"RUNNING"}, {"READY"}} => k2.st[u] = kk.st[u]
  PROVE  PhaseInv(k2)
<1>1. kk.cur # NoThread => kk.cur \in Thread
  BY DEF Kernel
<1>2. CurRunnable(kk) => CurRunnable(k2)
  BY <1>1 DEF CurRunnable
<1>3. kk.frames = <<>> => kk.cur \in Thread /\ kk.st[kk.cur] \in {{"RUNNING"}, {"READY"}}
  BY <1>1 DEF PhaseInv, CurRunnable
<1>4. CASE k2.frames # <<>>
  BY <1>2, <1>4 DEF PhaseInv
<1>5. CASE k2.frames = <<>>
  <2>1. kk.frames = <<>> /\ k2.st[kk.cur] = kk.st[kk.cur]
    BY <1>3, <1>5
  <2> QED BY <1>2, <2>1 DEF PhaseInv
<1> QED BY <1>4, <1>5

\* What holds when guest code makes a system call.
LEMMA InCall ==
  ASSUME Inv, NEW name, Calls(name)
  PROVE  /\ KernelInv(k) /\ PhaseInv(k) /\ k \in Kernel /\ k.frames = <<>>
         /\ k.cur \in User /\ k.cur \in Thread
         /\ k.st[k.cur] \in {{"RUNNING"}, {"READY"}}
         /\ DispatchOps \cap Guest = {} => k.disp /\ k.st[k.cur] = {"RUNNING"}
         /\ name \in Guest
         /\ name \in OnlyRunning => k.disp /\ k.st[k.cur] = {"RUNNING"}
BY DEF Inv, KernelInv, PhaseInv, CurRunnable, Calls, Thread

\* Leaving a system call with a reschedule under way.
LEMMA PendingPhase ==
  ASSUME NEW kk, kk.frames # <<>>, DispatchOps \cap Guest = {} => kk.disp,
         kk.disp \/ (kk.cur # NoThread /\ kk.st[kk.cur] \in {{"RUNNING"}, {"READY"}})
  PROVE  PhaseInv(kk)
BY DEF PhaseInv, CurRunnable

\* The state after a step satisfies the inductive invariant.
Good == KernelInv(k') /\ PhaseInv(k')

LEMMA CreateStep ==
  ASSUME Inv, NEW t \in User, NEW p \in UserPrio, sceKernelCreateThread(t, p)
  PROVE  Good
<1> DEFINE k1 == [KernelCreateThreadObject(k, t, p) EXCEPT !.disp = TRUE]
<1>1. /\ KernelInv(k) /\ k \in Kernel /\ k.cur \in User
      /\ k.st[k.cur] \in {{"RUNNING"}, {"READY"}}
      /\ "DEAD" \in k.st[t] /\ k' = hleReSchedule(k1)
  BY InCall DEF sceKernelCreateThread, Exists
<1>2. t \in Thread /\ t \notin Idle /\ p \in Prio /\ t # k.cur
  BY <1>1, UidAssumption DEF Thread, Idle, Prio
<1>3. /\ k1 \in Kernel /\ k1.rq = k.rq /\ k1.cur = k.cur /\ k1.disp
      /\ k1.st = [k.st EXCEPT ![t] = {"DORMANT"}]
      /\ k1.prio = [k.prio EXCEPT ![t] = p] /\ k1.wait = [k.wait EXCEPT ![t] = NoWait]
  <2>1. /\ [k.st EXCEPT ![t] = {"DORMANT"}] \in [Thread -> SUBSET StatusBits]
        /\ [k.prio EXCEPT ![t] = p] \in [Thread -> Prio]
        /\ [k.initp EXCEPT ![t] = p] \in [Thread -> Prio]
        /\ [k.wait EXCEPT ![t] = NoWait] \in [Thread -> Wait]
    BY <1>1, <1>2 DEF Kernel, StatusBits, NoWait, Wait, WaitType, ObjWait
  <2>2. /\ [k.ret EXCEPT ![t] = "none"] \in [Thread -> Result]
        /\ [k.wakeup EXCEPT ![t] = 0] \in [Thread -> Nat]
        /\ [k.joiners EXCEPT ![t] = <<>>] \in [Thread -> Seq(Thread)]
    BY <1>1, <1>2 DEF Kernel, Result
  <2>3. k1 = [k EXCEPT !.st = [k.st EXCEPT ![t] = {"DORMANT"}],
                       !.prio = [k.prio EXCEPT ![t] = p],
                       !.initp = [k.initp EXCEPT ![t] = p],
                       !.wait = [k.wait EXCEPT ![t] = NoWait],
                       !.ret = [k.ret EXCEPT ![t] = "none"],
                       !.wakeup = [k.wakeup EXCEPT ![t] = 0],
                       !.joiners = [k.joiners EXCEPT ![t] = <<>>],
                       !.disp = TRUE]
    BY <1>1 DEF KernelCreateThreadObject, Kernel
  <2> HIDE DEF k1
  <2> QED BY <1>1, <2>1, <2>2, <2>3 DEF Kernel
<1> HIDE DEF k1
<1>4. InvBut(k, {t})
  BY <1>1, <1>2 DEF KernelInv, InvBut, ThreadInv, StatusShape, QueuedRight
<1>5. OthersSame(k, k1, t) /\ OffStatus(k1, t, k1.st[t])
  BY <1>1, <1>2, <1>3 DEF OthersSame, OffStatus, StatusBits, Kernel
<1>6. KernelInv(k1)
  BY <1>2, <1>3, <1>4, <1>5, OffToStatus
<1>7. KernelInv(k') /\ Pending(k1, k')
  BY <1>1, <1>6, hleReScheduleInv
<1>8. PhaseInv(k')
  BY <1>3, <1>7, PendingPhase DEF Pending
<1> QED BY <1>7, <1>8 DEF Good

LEMMA StartStep ==
  ASSUME Inv, NEW t \in User, sceKernelStartThread(t)
  PROVE  Good
<1> DEFINE c == k.cur
           reset == KernelResetThread(k, t, k.prio[c])
           yielded == IF reset.prio[t] < k.prio[c]
                      THEN hleReSchedule(KernelChangeReadyState(reset, c, TRUE))
                      ELSE [reset EXCEPT !.disp = TRUE]
<1>1. /\ KernelInv(k) /\ PhaseInv(k) /\ k \in Kernel /\ c \in User /\ c \in Thread
      /\ k.st[c] \in {{"RUNNING"}, {"READY"}} /\ k.frames = <<>>
      /\ DispatchOps \cap Guest = {} => k.disp /\ k.st[c] = {"RUNNING"}
      /\ k.st[t] = {"DORMANT"}
      /\ k' = KernelChangeReadyState(yielded, t, TRUE)
  BY InCall DEF sceKernelStartThread
<1>2. t \in Thread /\ t \notin Idle /\ t # c
  BY <1>1, UidAssumption DEF Thread, Idle
<1>3. /\ reset \in Kernel /\ reset.rq = k.rq /\ reset.cur = k.cur
      /\ reset.st = k.st /\ reset.wait = [k.wait EXCEPT ![t] = NoWait]
      /\ \A u \in Thread \ {t} : reset.prio[u] = k.prio[u]
      /\ reset.disp = k.disp /\ reset.frames = k.frames
  <2> DEFINE q == IF k.prio[t] < k.prio[c] THEN k.initp[t] ELSE k.prio[t]
  <2>1. q \in Prio
    BY <1>1, <1>2 DEF Kernel
  <2>2. reset = [k EXCEPT !.prio = [k.prio EXCEPT ![t] = q],
                          !.wait = [k.wait EXCEPT ![t] = NoWait],
                          !.ret = [k.ret EXCEPT ![t] = "none"]]
    BY <1>1 DEF KernelResetThread, Kernel
  <2> HIDE DEF q, reset
  <2>3. /\ [k.prio EXCEPT ![t] = q] \in [Thread -> Prio]
        /\ [k.wait EXCEPT ![t] = NoWait] \in [Thread -> Wait]
        /\ [k.ret EXCEPT ![t] = "none"] \in [Thread -> Result]
    BY <1>1, <1>2, <2>1 DEF Kernel, NoWait, Wait, WaitType, ObjWait, Result
  <2>4. \A u \in Thread \ {t} : [k.prio EXCEPT ![t] = q][u] = k.prio[u]
    BY <1>1 DEF Kernel
  <2> QED BY <1>1, <2>2, <2>3, <2>4 DEF Kernel
<1>4. KernelInv(reset)
  <2> HIDE DEF reset
  <2>1. InvBut(k, {t})
    BY <1>1, <1>2 DEF KernelInv, InvBut, ThreadInv, QueuedRight
  <2>2. OthersSame(k, reset, t) /\ OffStatus(reset, t, reset.st[t])
    BY <1>1, <1>2, <1>3, SMTT(20) DEF OthersSame, OffStatus, StatusBits, Kernel
  <2> QED BY <1>2, <1>3, <2>1, <2>2, OffToStatus
<1>5. /\ KernelInv(yielded) /\ yielded.cur = c /\ yielded.st[c] \in {{"RUNNING"}, {"READY"}}
      /\ yielded.disp = k.disp \/ yielded.disp
      /\ yielded.frames # <<>> \/ yielded.st[c] = k.st[c]
  <2>1. CASE reset.prio[t] < k.prio[c]
    <3> DEFINE r1 == KernelChangeReadyState(reset, c, TRUE)
    <3> HIDE DEF reset
    <3>1. KernelInv(r1) /\ Readied(reset, r1, c)
      BY <1>1, <1>4, ReadyKernel
    <3> HIDE DEF r1
    <3>2. /\ r1.st = [reset.st EXCEPT ![c] = {"READY"}]
          /\ r1.cur = reset.cur /\ r1.disp = reset.disp
      BY <1>3, <3>1 DEF Readied, Kernel
    <3>3. r1.st[c] = {"READY"}
      BY <1>1, <1>3, <3>2 DEF Kernel
    <3>4. KernelInv(hleReSchedule(r1)) /\ Pending(r1, hleReSchedule(r1))
      BY <3>1, hleReScheduleInv
    <3>5. yielded = hleReSchedule(r1)
      BY <2>1 DEF r1
    <3> HIDE DEF yielded
    <3> QED BY <1>3, <3>2, <3>3, <3>4, <3>5 DEF Pending
  <2>2. CASE ~(reset.prio[t] < k.prio[c])
    <3> DEFINE r1 == [reset EXCEPT !.disp = TRUE]
    <3>1. yielded = r1
      BY <2>2
    <3> HIDE DEF reset, yielded
    <3>2. /\ r1 \in Kernel /\ r1.st = reset.st /\ r1.prio = reset.prio
          /\ r1.rq = reset.rq /\ r1.cur = reset.cur /\ r1.wait = reset.wait /\ r1.disp
      BY <1>3 DEF Kernel
    <3> HIDE DEF r1
    <3>3. KernelInv(r1)
      BY <1>4, <3>2, SameQueueFields, InvButNone
    <3> QED BY <1>1, <1>3, <3>1, <3>2, <3>3
  <2> QED BY <2>1, <2>2
<1> HIDE DEF yielded
<1>6. KernelInv(k') /\ Readied(yielded, k', t)
  BY <1>1, <1>2, <1>5, ReadyKernel
<1>7. /\ k'.cur = c /\ k'.st = [yielded.st EXCEPT ![t] = {"READY"}]
      /\ k'.disp = yielded.disp /\ k'.frames = yielded.frames
  BY <1>5, <1>6 DEF Readied, KernelInv, Kernel
<1>8. k'.st[c] = yielded.st[c]
  BY <1>1, <1>2, <1>5, <1>7 DEF KernelInv, Kernel
<1>9. PhaseInv(k')
  BY <1>1, <1>2, <1>5, <1>7, <1>8, UidAssumption DEF PhaseInv, CurRunnable, Thread
<1> QED BY <1>6, <1>9 DEF Good

\* The current thread stops: it has to be allowed to switch away.
LEMMA ExitStep ==
  ASSUME Disciplined, Inv, NEW stopped, Stops(k, stopped, k.cur),
         KernelReturnFromThread(stopped) \/ sceKernelExitThread(stopped)
  PROVE  Good
<1>1. k.disp /\ k' = hleReSchedule(stopped)
  BY InCall DEF KernelReturnFromThread, sceKernelExitThread, Disciplined
<1>2. KernelInv(stopped) /\ stopped.disp
  BY <1>1 DEF Stops, CalmBut
<1>3. KernelInv(k') /\ Pending(stopped, k')
  BY <1>1, <1>2, hleReScheduleInv
<1> QED BY <1>2, <1>3, PendingPhase DEF Pending, Good

LEMMA ExitDeleteStep ==
  ASSUME Inv, NEW stopped, Stops(k, stopped, k.cur), sceKernelExitDeleteThread(stopped)
  PROVE  Good
<1> DEFINE k1 == KernelDeleteThread(stopped, k.cur)
<1>1. k.cur \in User /\ k.disp /\ k' = hleReSchedule(k1)
  BY InCall DEF sceKernelExitDeleteThread
<1>2. KernelInv(k1) /\ k1.disp
  BY <1>1, DeleteInv DEF CalmBut
<1> HIDE DEF k1
<1>3. KernelInv(k') /\ Pending(k1, k')
  BY <1>1, <1>2, hleReScheduleInv
<1> QED BY <1>2, <1>3, PendingPhase DEF Pending, Good

\* Another thread is deleted: the caller goes on running.
LEMMA DeleteStep ==
  ASSUME Inv, NEW t \in User, NEW stopped, Stops(k, stopped, t),
         sceKernelDeleteThread(t, stopped) \/ sceKernelTerminateDeleteThread(t, stopped)
  PROVE  Good
<1>1. /\ KernelInv(k) /\ PhaseInv(k) /\ k \in Kernel /\ k.cur \in User /\ k.frames = <<>>
      /\ k.cur \in Thread /\ k.st[k.cur] \in {{"RUNNING"}, {"READY"}}
      /\ t # k.cur /\ k' = KernelDeleteThread(stopped, t)
  BY InCall DEF sceKernelDeleteThread, sceKernelTerminateDeleteThread
<1>2. KernelInv(k') /\ CalmBut(k, k', t) /\ k'.cur = k.cur
  BY <1>1, DeleteInv
<1>3. k'.st[k.cur] = k.st[k.cur] /\ k'.disp = k.disp /\ k'.frames = k.frames
  BY <1>1, <1>2 DEF CalmBut
<1>4. PhaseInv(k')
  BY <1>1, <1>2, <1>3 DEF PhaseInv, CurRunnable
<1> QED BY <1>2, <1>4 DEF Good

LEMMA TerminateStep ==
  ASSUME Inv, NEW t \in User, NEW stopped, Stops(k, stopped, t),
         sceKernelTerminateThread(t, stopped)
  PROVE  Good
<1> DEFINE k2 == [stopped EXCEPT !.prio[t] = k.initp[t]]
<1>1. /\ KernelInv(k) /\ PhaseInv(k) /\ k \in Kernel /\ k.cur \in User /\ k.frames = <<>>
      /\ k.cur \in Thread /\ k.st[k.cur] \in {{"RUNNING"}, {"READY"}}
      /\ t # k.cur /\ k' = k2
  BY InCall DEF sceKernelTerminateThread
<1>2. /\ KernelInv(stopped) /\ CalmBut(k, stopped, t) /\ stopped.cur = k.cur
      /\ stopped.st[t] = {"DORMANT"}
  BY DEF Stops
<1>3. t \in Thread /\ t \notin Idle /\ k.initp[t] \in Prio /\ stopped \in Kernel
  BY <1>1, <1>2, UidAssumption DEF Thread, Idle, Kernel, KernelInv
<1>4. /\ k2 \in Kernel /\ k2.rq = stopped.rq /\ k2.st = stopped.st /\ k2.cur = stopped.cur
      /\ k2.wait = stopped.wait /\ k2.disp = stopped.disp /\ k2.frames = stopped.frames
      /\ k2.prio = [stopped.prio EXCEPT ![t] = k.initp[t]]
  <2>1. [stopped.prio EXCEPT ![t] = k.initp[t]] \in [Thread -> Prio]
    BY <1>3 DEF Kernel
  <2> QED BY <1>3, <2>1 DEF Kernel
<1> HIDE DEF k2
<1>5. InvBut(stopped, {t})
  BY <1>2 DEF KernelInv, InvBut, ThreadInv, QueuedRight
<1>6. OthersSame(stopped, k2, t)
  BY <1>3, <1>4 DEF OthersSame, Kernel
<1>10. OffStatus(k2, t, k2.st[t])
  BY <1>2, <1>3, <1>4 DEF OffStatus, StatusBits
<1>7. KernelInv(k2)
  BY <1>3, <1>4, <1>5, <1>6, <1>10, OffToStatus
<1>8. k2.st[k.cur] = k.st[k.cur] /\ k2.disp = k.disp /\ k2.frames = k.frames
  BY <1>1, <1>2, <1>4 DEF CalmBut
<1>9. PhaseInv(k2)
  BY <1>1, <1>2, <1>4, <1>8 DEF PhaseInv, CurRunnable
<1> QED BY <1>1, <1>7, <1>9 DEF Good

\* The five calls that end a thread.
LEMMA EndStep ==
  ASSUME Disciplined, Inv, NEW t \in User, NEW stopped, Stops(k, stopped, t),
         ThreadEnds(t, stopped)
  PROVE  Good
BY ExitStep, ExitDeleteStep, DeleteStep, TerminateStep DEF ThreadEnds

\* The two calls that switch dispatching off and on.
LEMMA DispatchStep ==
  ASSUME Inv, sceKernelSuspendDispatchThread
              \/ \E enabled \in BOOLEAN : sceKernelResumeDispatchThread(enabled)
  PROVE  Good
<1>1. ASSUME NEW b \in BOOLEAN
      PROVE  LET k1 == [k EXCEPT !.disp = b]
             IN  KernelInv(k1) /\ k1.disp = b /\ k1.cur = k.cur /\ k1.st = k.st
                   /\ k1.frames = k.frames
  <2> DEFINE k1 == [k EXCEPT !.disp = b]
  <2>1. k \in Kernel /\ KernelInv(k)
    BY DEF Inv, KernelInv
  <2>2. /\ k1 \in Kernel /\ k1.st = k.st /\ k1.prio = k.prio /\ k1.rq = k.rq
        /\ k1.cur = k.cur /\ k1.wait = k.wait /\ k1.disp = b /\ k1.frames = k.frames
    BY <2>1 DEF Kernel
  <2> HIDE DEF k1
  <2>3. KernelInv(k1)
    BY <2>1, <2>2, SameQueueFields, InvButNone
  <2> QED BY <2>2, <2>3 DEF k1
<1>2. CASE sceKernelSuspendDispatchThread
  <2>1. /\ k.frames = <<>> /\ k.cur \in User /\ k.cur \in Thread
        /\ k.st[k.cur] \in {{"RUNNING"}, {"READY"}} /\ "SuspendDispatchThread" \in Guest
        /\ k' = [k EXCEPT !.disp = FALSE]
    BY <1>2, InCall DEF sceKernelSuspendDispatchThread
  <2>2. KernelInv(k') /\ k'.cur = k.cur /\ k'.st = k.st
    BY <1>1, <2>1
  <2>3. DispatchOps \cap Guest # {}
    BY <2>1 DEF DispatchOps
  <2> QED BY <2>1, <2>2, <2>3, UidAssumption DEF Good, PhaseInv, CurRunnable
<1>3. ASSUME NEW b \in BOOLEAN, sceKernelResumeDispatchThread(b) PROVE Good
  <2> DEFINE k1 == [k EXCEPT !.disp = b]
  <2>1. /\ k.cur \in User /\ k.cur \in Thread
        /\ k.st[k.cur] \in {{"RUNNING"}, {"READY"}} /\ "ResumeDispatchThread" \in Guest
        /\ k' = hleReSchedule(k1)
    BY <1>3, InCall DEF sceKernelResumeDispatchThread
  <2>2. KernelInv(k1) /\ k1.cur = k.cur /\ k1.st = k.st
    BY <1>1
  <2> HIDE DEF k1
  <2>3. KernelInv(k') /\ Pending(k1, k')
    BY <2>1, <2>2, hleReScheduleInv
  <2>4. DispatchOps \cap Guest # {}
    BY <2>1 DEF DispatchOps
  <2> QED BY <2>1, <2>2, <2>3, <2>4, UidAssumption
          DEF Good, Pending, PhaseInv, CurRunnable
<1> QED BY <1>2, <1>3

\* Rotating: with dispatch calls about, Disciplined keeps it for a RUNNING
\* caller; without them the current thread is always RUNNING.
LEMMA RotateStep ==
  ASSUME Disciplined, Inv, NEW p \in UserPrio, sceKernelRotateThreadReadyQueue(p)
  PROVE  Good
<1> DEFINE k1 == KernelRotateThreadReadyQueue(k, p)
<1>1. /\ KernelInv(k) /\ k.cur \in User /\ k.disp /\ k.st[k.cur] = {"RUNNING"}
      /\ k' = hleReSchedule(k1)
  BY InCall DEF sceKernelRotateThreadReadyQueue, Disciplined
<1>2. KernelInv(k1) /\ k1.disp
  BY <1>1, RotateInv
<1> HIDE DEF k1
<1>3. KernelInv(k') /\ Pending(k1, k')
  BY <1>1, <1>2, hleReScheduleInv
<1> QED BY <1>2, <1>3, PendingPhase DEF Pending, Good

LEMMA PriorityStep ==
  ASSUME Inv, NEW t \in User, NEW p \in UserPrio, sceKernelChangeThreadPriority(t, p)
  PROVE  Good
<1> DEFINE k1 == KernelChangeThreadPriority(k, t, p)
<1>1. /\ KernelInv(k) /\ k.cur \in User /\ k.cur \in Thread
      /\ k.st[k.cur] \in {{"RUNNING"}, {"READY"}}
      /\ DispatchOps \cap Guest = {} => k.disp
      /\ k' = hleReSchedule(k1)
  BY InCall DEF sceKernelChangeThreadPriority
<1>2. /\ KernelInv(k1) /\ k1.cur = k.cur /\ k1.disp = k.disp
      /\ \A u \in Thread \ {t} : k1.st[u] = k.st[u]
      /\ k.st[t] \in {{"RUNNING"}, {"READY"}} => k1.st[t] = {"READY"}
  BY <1>1, PriorityInv
<1> HIDE DEF k1
<1>3. k1.st[k1.cur] \in {{"RUNNING"}, {"READY"}} /\ k1.cur # NoThread
  BY <1>1, <1>2, UidAssumption
<1>4. KernelInv(k') /\ Pending(k1, k')
  BY <1>1, <1>2, hleReScheduleInv
<1> QED BY <1>1, <1>2, <1>3, <1>4, PendingPhase DEF Pending, Good

\* A change that leaves alone everything the invariant speaks of.
LEMMA QuietStep ==
  ASSUME Inv, NEW k2 \in Kernel, k2.st = k.st, k2.prio = k.prio, k2.rq = k.rq,
         k2.cur = k.cur, k2.wait = k.wait, k2.disp = k.disp, k2.frames = k.frames
  PROVE  KernelInv(k2) /\ PhaseInv(k2)
<1>1. KernelInv(k) /\ PhaseInv(k) /\ k \in Kernel
  BY DEF Inv, KernelInv
<1>2. KernelInv(k2)
  BY <1>1, SameQueueFields, InvButNone
<1>3. PhaseInv(k2)
  BY <1>1 DEF PhaseInv, CurRunnable
<1> QED BY <1>2, <1>3

\* A thread that is not RUNNING is woken and a reschedule is asked for.
LEMMA WakeStep ==
  ASSUME NEW kk, KernelInv(kk), PhaseInv(kk), NEW t \in Thread, NEW r \in Result,
         NEW o \in Obj \cup {NoObj}, "RUNNING" \notin kk.st[t]
  PROVE  LET k2 == [KernelResumeThreadFromWait(kk, t, r) EXCEPT !.frames = Append(@, o)]
         IN  KernelInv(k2) /\ PhaseInv(k2)
<1> DEFINE k1 == KernelResumeThreadFromWait(kk, t, r)
           k2 == [k1 EXCEPT !.frames = Append(@, o)]
<1>1. KernelInv(k1) /\ Calm(kk, k1)
  BY ResumeThreadInv
<1> HIDE DEF k1
<1>2. KernelInv(k2) /\ Pending(k1, k2)
  BY <1>1, PushFrameInv
<1> HIDE DEF k2
<1>3. kk \in Kernel
  BY DEF KernelInv
<1>4. /\ k2.cur = kk.cur /\ k2.disp = kk.disp /\ k2.frames # <<>>
      /\ \A u \in Thread : kk.st[u] \in {{"RUNNING"}, {"READY"}} => k2.st[u] = kk.st[u]
  BY <1>1, <1>2 DEF Calm, Pending
<1>5. PhaseInv(k2)
  BY <1>3, <1>4, CalmPhase
<1> QED BY <1>2, <1>5 DEF k1, k2

LEMMA DelayStep ==
  ASSUME Inv, sceKernelDelayThread
  PROVE  Good
<1> DEFINE k1 == ScheduleEvent(k, "DELAY", k.cur)
<1>1. /\ KernelInv(k) /\ k \in Kernel /\ k.cur \in User /\ k.cur \in Thread /\ k.disp
      /\ k.st[k.cur] \in {{"RUNNING"}, {"READY"}}
      /\ k' = KernelWaitCurThread(k1, "DELAY", k.cur, 0, FALSE)
  BY InCall DEF sceKernelDelayThread
<1>2. KernelInv(k1) /\ Calm(k, k1) /\ k1.st = k.st
  BY <1>1, TimerOps, TimerInv DEF TimerType
<1> HIDE DEF k1
<1>3. k1.cur = k.cur /\ k1.disp
  BY <1>1, <1>2 DEF Calm
<1>4. "DELAY" \in WaitType /\ 0 \in Nat /\ FALSE \in BOOLEAN
  BY DEF WaitType
<1>5. KernelInv(k') /\ k'.frames # <<>> /\ k'.disp
  BY <1>1, <1>2, <1>3, <1>4, WaitCurInv DEF Asleep, ObjWait
<1> QED BY <1>5, PendingPhase DEF Good

LEMMA SleepStep ==
  ASSUME Inv, sceKernelSleepThread
  PROVE  Good
<1>1. /\ KernelInv(k) /\ k \in Kernel /\ k.cur \in User /\ k.cur \in Thread /\ k.disp
      /\ k.st[k.cur] \in {{"RUNNING"}, {"READY"}}
      /\ k' = IF k.wakeup[k.cur] > 0 THEN [k EXCEPT !.wakeup[k.cur] = @ - 1]
              ELSE KernelWaitCurThread(k, "SLEEP", NoObj, 0, FALSE)
  BY InCall DEF sceKernelSleepThread
<1>2. CASE k.wakeup[k.cur] > 0
  <2> DEFINE n == k.wakeup[k.cur] - 1
             k1 == [k EXCEPT !.wakeup[k.cur] = n]
  <2>1. n \in Nat /\ k' = k1
    <3>1. k.wakeup[k.cur] \in Nat
      BY <1>1 DEF Kernel
    <3>2. n \in Nat
      BY <1>2, <3>1
    <3>3. k' = k1
      BY <1>1, <1>2
    <3> QED BY <3>2, <3>3
  <2> HIDE DEF n
  <2>2. /\ k1 \in Kernel /\ k1.st = k.st /\ k1.prio = k.prio /\ k1.rq = k.rq
        /\ k1.cur = k.cur /\ k1.wait = k.wait /\ k1.disp = k.disp /\ k1.frames = k.frames
    BY <1>1, <2>1 DEF Kernel
  <2> HIDE DEF k1
  <2> QED BY <2>1, <2>2, QuietStep DEF Good
<1>3. CASE ~(k.wakeup[k.cur] > 0)
  <2>1. "SLEEP" \in WaitType /\ 0 \in Nat /\ FALSE \in BOOLEAN
    BY DEF WaitType
  <2>2. KernelInv(k') /\ k'.frames # <<>> /\ k'.disp
    BY <1>1, <1>3, <2>1, WaitCurInv DEF Asleep, ObjWait
  <2> QED BY <2>2, PendingPhase DEF Good
<1> QED BY <1>2, <1>3

LEMMA WakeupStep ==
  ASSUME Inv, NEW t \in User, sceKernelWakeupThread(t)
  PROVE  Good
<1>1. /\ KernelInv(k) /\ PhaseInv(k) /\ k \in Kernel /\ t \in Thread
  BY DEF Inv, KernelInv, Thread
<1>2. CASE isWaitingFor(k, t, "SLEEP", NoObj)
  <2>1. k' = [KernelResumeThreadFromWait(k, t, "ok") EXCEPT !.frames = Append(@, NoObj)]
    BY <1>2 DEF sceKernelWakeupThread, hleReSchedule
  <2>2. "RUNNING" \notin k.st[t] /\ "ok" \in Result
    BY <1>1, <1>2 DEF isWaitingFor, KernelInv, ThreadInv, StatusShape, Result
  <2> QED BY <1>1, <2>1, <2>2, WakeStep DEF Good
<1>3. CASE ~isWaitingFor(k, t, "SLEEP", NoObj)
  <2> DEFINE n == k.wakeup[t] + 1
             k1 == [k EXCEPT !.wakeup[t] = n]
  <2>1. n \in Nat /\ k' = k1
    <3>1. n \in Nat
      BY <1>1 DEF Kernel
    <3>2. k' = k1
      BY <1>3 DEF sceKernelWakeupThread
    <3> QED BY <3>1, <3>2
  <2> HIDE DEF n
  <2>2. /\ k1 \in Kernel /\ k1.st = k.st /\ k1.prio = k.prio /\ k1.rq = k.rq
        /\ k1.cur = k.cur /\ k1.wait = k.wait /\ k1.disp = k.disp /\ k1.frames = k.frames
    BY <1>1, <2>1 DEF Kernel
  <2> HIDE DEF k1
  <2> QED BY <2>1, <2>2, QuietStep DEF Good
<1> QED BY <1>2, <1>3

LEMMA CancelWakeupStep ==
  ASSUME Inv, NEW t \in User, sceKernelCancelWakeupThread(t)
  PROVE  Good
<1> DEFINE k1 == [k EXCEPT !.wakeup[t] = 0]
<1>1. k \in Kernel /\ k' = k1
  BY DEF Inv, KernelInv, sceKernelCancelWakeupThread
<1>2. /\ k1 \in Kernel /\ k1.st = k.st /\ k1.prio = k.prio /\ k1.rq = k.rq
      /\ k1.cur = k.cur /\ k1.wait = k.wait /\ k1.disp = k.disp /\ k1.frames = k.frames
  BY <1>1 DEF Kernel
<1> HIDE DEF k1
<1> QED BY <1>1, <1>2, QuietStep DEF Good

LEMMA ReleaseStep ==
  ASSUME Inv, NEW t \in User, sceKernelReleaseWaitThread(t)
  PROVE  Good
<1>1. KernelInv(k) /\ PhaseInv(k) /\ t \in Thread /\ "RELEASE_WAIT" \in Result
  BY DEF Inv, Thread, Result
<1>2. /\ "RUNNING" \notin k.st[t]
      /\ k' = [KernelResumeThreadFromWait(k, t, "RELEASE_WAIT")
                 EXCEPT !.frames = Append(@, NoObj)]
  BY <1>1 DEF sceKernelReleaseWaitThread, hleReSchedule, KernelInv, ThreadInv, StatusShape
<1> QED BY <1>1, <1>2, WakeStep DEF Good

\* The caller arms its timer, joins the list of t and goes to sleep.
LEMMA JoinInv ==
  ASSUME Inv, NEW t \in User, NEW timed \in BOOLEAN, sceKernelWaitThreadEnd(t, timed)
  PROVE  LET armed == IF timed THEN ScheduleEvent(k, "THREADEND", k.cur) ELSE k
             listed == IF Holds(k.joiners[t], k.cur) THEN armed
                       ELSE [armed EXCEPT !.joiners[t] = Append(@, k.cur)]
         IN  /\ KernelInv(armed) /\ armed.st = k.st
             /\ KernelInv(listed) /\ listed.st = k.st /\ listed.cur = k.cur
             /\ Asleep(listed, k', [type |-> "THREADEND", id |-> t, value |-> 0,
                                   timed |-> timed])
<1> DEFINE c == k.cur
           armed == IF timed THEN ScheduleEvent(k, "THREADEND", c) ELSE k
           listed == IF Holds(k.joiners[t], c) THEN armed
                     ELSE [armed EXCEPT !.joiners[t] = Append(@, c)]
<1>1. /\ KernelInv(k) /\ k \in Kernel /\ c \in User /\ c \in Thread /\ k.disp
      /\ k.st[c] \in {{"RUNNING"}, {"READY"}}
      /\ k' = KernelWaitCurThread(listed, "THREADEND", t, 0, timed)
  BY InCall DEF sceKernelWaitThreadEnd
<1>2. t \in Thread /\ "THREADEND" \in TimerType /\ "THREADEND" \in WaitType
  BY DEF Thread, TimerType, WaitType
<1>3. KernelInv(armed) /\ armed.st = k.st /\ armed.cur = c /\ armed.disp
  <2>1. CASE timed
    <3> DEFINE a == ScheduleEvent(k, "THREADEND", c)
    <3>1. OnlyTimer(k, a)
      BY <1>1, <1>2, TimerOps
    <3> HIDE DEF a
    <3>2. KernelInv(a) /\ Calm(k, a) /\ a.st = k.st
      BY <1>1, <3>1, TimerInv
    <3>3. armed = a
      BY <2>1 DEF a
    <3> QED BY <1>1, <3>2, <3>3 DEF Calm
  <2>2. CASE ~timed
    BY <1>1, <2>2
  <2> QED BY <2>1, <2>2
<1> HIDE DEF armed
<1>4. KernelInv(listed) /\ listed.st = k.st /\ listed.cur = c /\ listed.disp
  <2>1. CASE Holds(k.joiners[t], c)
    BY <1>3, <2>1
  <2>2. CASE ~Holds(k.joiners[t], c)
    <3> DEFINE q == Append(armed.joiners[t], c)
               a == [armed EXCEPT !.joiners = [armed.joiners EXCEPT ![t] = q]]
    <3>1. armed \in Kernel
      BY <1>3 DEF KernelInv
    <3>2. armed.joiners \in [Thread -> Seq(Thread)] /\ q \in Seq(Thread)
      BY <1>1, <1>2, <3>1 DEF Kernel
    <3>3. listed = a
      BY <2>2, <3>1 DEF Kernel
    <3> HIDE DEF q, listed
    <3>4. /\ a \in Kernel /\ a.st = armed.st /\ a.prio = armed.prio /\ a.rq = armed.rq
          /\ a.cur = armed.cur /\ a.wait = armed.wait /\ a.disp = armed.disp
      BY <3>1, <3>2 DEF Kernel
    <3> HIDE DEF a
    <3>5. KernelInv(a)
      BY <1>3, <3>4, SameQueueFields, InvButNone
    <3> QED BY <1>3, <3>3, <3>4, <3>5
  <2> QED BY <2>1, <2>2
<1> HIDE DEF listed
<1>5. /\ KernelInv(listed) /\ listed.disp /\ listed.cur \in User
      /\ listed.st[listed.cur] \in {{"RUNNING"}, {"READY"}}
  BY <1>1, <1>4
<1>6. /\ "THREADEND" \in WaitType /\ t \in Thread \cup Obj \cup {NoObj}
      /\ 0 \in Nat /\ timed \in BOOLEAN
  BY <1>2
<1>7. Asleep(listed, KernelWaitCurThread(listed, "THREADEND", t, 0, timed),
             [type |-> "THREADEND", id |-> t, value |-> 0, timed |-> timed])
  BY <1>5, <1>6, WaitCurInv, Zenon DEF ObjWait
<1> QED BY <1>1, <1>3, <1>4, <1>7, Zenon DEF armed, listed

LEMMA WaitThreadEndStep ==
  ASSUME Inv, NEW t \in User, NEW timed \in BOOLEAN, sceKernelWaitThreadEnd(t, timed)
  PROVE  Good
<1>1. KernelInv(k') /\ k'.frames # <<>> /\ k'.disp
  BY JoinInv DEF Asleep
<1> QED BY <1>1, PendingPhase DEF Good

LEMMA SuspendStep ==
  ASSUME Inv, NEW t \in User, sceKernelSuspendThread(t)
  PROVE  Good
<1> DEFINE k1 == KernelChangeReadyState(k, t, FALSE)
           s == (k.st[t] \ {"READY"}) \cup {"SUSPEND"}
           k2 == [k1 EXCEPT !.st[t] = s]
<1>1. /\ KernelInv(k) /\ PhaseInv(k) /\ k \in Kernel /\ t # k.cur
      /\ k' = [k1 EXCEPT !.st[t] = (@ \ {"READY"}) \cup {"SUSPEND"}]
  BY InCall DEF sceKernelSuspendThread
<1>2. t \in Thread /\ t \notin Idle
  BY UidAssumption DEF Thread, Idle
<1>3. InvBut(k1, {t}) /\ k1 = [k EXCEPT !.rq = k1.rq]
  BY <1>1, <1>2, UnreadyOff
<1> HIDE DEF k1
<1>4. /\ k1 \in Kernel /\ k1.st = k.st /\ k1.cur = k.cur /\ k1.disp = k.disp
      /\ k1.frames = k.frames
  BY <1>1, <1>3 DEF InvBut, Kernel
<1>5. /\ s \in SUBSET StatusBits /\ "READY" \notin s /\ "RUNNING" \notin s
  BY <1>1, <1>2 DEF KernelInv, ThreadInv, StatusShape, Kernel, StatusBits
<1>6. k' = k2
  BY <1>1, <1>4
<1> HIDE DEF s
<1>7. /\ k2 \in Kernel /\ k2.rq = k1.rq /\ k2.st = [k1.st EXCEPT ![t] = s]
      /\ k2.prio = k1.prio /\ k2.cur = k1.cur /\ k2.wait = k1.wait
      /\ k2.disp = k1.disp /\ k2.frames = k1.frames
  <2>1. [k1.st EXCEPT ![t] = s] \in [Thread -> SUBSET StatusBits]
    BY <1>2, <1>4, <1>5 DEF Kernel
  <2> QED BY <1>4, <2>1 DEF Kernel
<1> HIDE DEF k2
<1>8. /\ k2.st[t] = s /\ \A u \in Thread \ {t} : k2.st[u] = k.st[u]
  BY <1>2, <1>4, <1>7, SMTT(20) DEF Kernel
<1>9. OthersSame(k1, k2, t) /\ OffStatus(k2, t, k2.st[t])
  BY <1>2, <1>4, <1>5, <1>7, <1>8 DEF OthersSame, OffStatus
<1>10. KernelInv(k2)
  BY <1>2, <1>3, <1>7, <1>9, OffToStatus
<1>11. k.cur # NoThread => k2.st[k.cur] = k.st[k.cur]
  BY <1>1, <1>8 DEF Kernel
<1>12. PhaseInv(k2)
  BY <1>1, <1>4, <1>7, <1>11 DEF PhaseInv, CurRunnable
<1> QED BY <1>6, <1>10, <1>12 DEF Good

LEMMA ResumeStep ==
  ASSUME Inv, NEW t \in User, sceKernelResumeThread(t)
  PROVE  Good
<1> DEFINE k1 == [k EXCEPT !.st[t] = @ \ {"SUSPEND"}]
           k2 == IF k1.st[t] = {} THEN KernelChangeReadyState(k1, t, TRUE) ELSE k1
<1>1. /\ KernelInv(k) /\ PhaseInv(k) /\ k \in Kernel /\ t # k.cur
      /\ k.cur \in Thread /\ k.st[k.cur] \in {{"RUNNING"}, {"READY"}}
      /\ DispatchOps \cap Guest = {} => k.disp
      /\ "SUSPEND" \in k.st[t] /\ k' = hleReSchedule(k2)
  BY InCall DEF sceKernelResumeThread
<1>2. t \in Thread /\ t \notin Idle
  BY UidAssumption DEF Thread, Idle
<1>3. "READY" \notin k.st[t] /\ "RUNNING" \notin k.st[t]
  BY <1>1, <1>2 DEF KernelInv, ThreadInv, StatusShape
<1>4. /\ k1 \in Kernel /\ k1.st = [k.st EXCEPT ![t] = k.st[t] \ {"SUSPEND"}]
      /\ k1.rq = k.rq /\ k1.prio = k.prio /\ k1.cur = k.cur /\ k1.wait = k.wait
      /\ k1.disp = k.disp
  <2>1. [k.st EXCEPT ![t] = k.st[t] \ {"SUSPEND"}] \in [Thread -> SUBSET StatusBits]
    BY <1>1, <1>2 DEF Kernel
  <2>2. k1 = [k EXCEPT !.st = [k.st EXCEPT ![t] = k.st[t] \ {"SUSPEND"}]]
    BY <1>1 DEF Kernel
  <2> HIDE DEF k1
  <2> QED BY <1>1, <2>1, <2>2 DEF Kernel
<1> HIDE DEF k1
<1>5. /\ k1.st[t] = k.st[t] \ {"SUSPEND"} /\ OthersSame(k, k1, t)
      /\ k1.st[k.cur] = k.st[k.cur]
  BY <1>1, <1>2, <1>4 DEF OthersSame, Kernel
<1>6. KernelInv(k1)
  <2>1. InvBut(k, {t})
    BY <1>1, <1>3 DEF KernelInv, InvBut, ThreadInv, QueuedRight
  <2>2. OffStatus(k1, t, k1.st[t])
    BY <1>2, <1>3, <1>4, <1>5 DEF OffStatus, Kernel
  <2> QED BY <1>2, <1>4, <1>5, <2>1, <2>2, OffToStatus
<1>7. KernelInv(k2) /\ k2.cur = k.cur /\ k2.disp = k.disp /\ k2.st[k.cur] = k.st[k.cur]
  <2>1. CASE k1.st[t] = {}
    <3> DEFINE r == KernelChangeReadyState(k1, t, TRUE)
    <3>1. KernelInv(r) /\ Readied(k1, r, t) /\ k2 = r
      BY <1>2, <1>6, <2>1, ReadyKernel
    <3> HIDE DEF r
    <3>2. r.st = [k1.st EXCEPT ![t] = {"READY"}] /\ r.cur = k1.cur /\ r.disp = k1.disp
      BY <1>4, <3>1 DEF Readied, Kernel
    <3>3. r.st[k.cur] = k1.st[k.cur]
      BY <1>1, <1>4, <3>2 DEF Kernel
    <3> HIDE DEF k2
    <3> QED BY <1>4, <1>5, <3>1, <3>2, <3>3
  <2>2. CASE k1.st[t] # {}
    BY <1>4, <1>5, <1>6, <2>2
  <2> QED BY <2>1, <2>2
<1> HIDE DEF k2
<1>8. KernelInv(k') /\ Pending(k2, k')
  BY <1>1, <1>7, hleReScheduleInv
<1> QED BY <1>1, <1>7, <1>8, PendingPhase, UidAssumption DEF Pending, Good

\* The two timer handlers.
LEMMA TimerStep ==
  ASSUME Inv, NEW t \in User, hleScheduledWakeup(t) \/ hleThreadEndTimeout(t)
  PROVE  Good
<1>1. KernelInv(k) /\ PhaseInv(k) /\ k \in Kernel /\ t \in Thread
  BY DEF Inv, KernelInv, Thread
<1>2. ASSUME NEW y \in {"DELAY", "THREADEND"}, k.timer[y][t] > 0
      PROVE  LET f == PopEvent(k, y, t)
             IN  /\ KernelInv(f) /\ PhaseInv(f) /\ f.st = k.st /\ f.wait = k.wait
                 /\ f.wait[t].type = y => "RUNNING" \notin f.st[t]
  <2> DEFINE f == PopEvent(k, y, t)
  <2>1. OnlyTimer(k, f)
    BY <1>1, <1>2, TimerOps DEF TimerType
  <2> HIDE DEF f
  <2>2. KernelInv(f) /\ Calm(k, f) /\ f.st = k.st /\ f.wait = k.wait
    BY <1>1, <2>1, TimerInv
  <2>3. PhaseInv(f)
    BY <1>1, <2>2 DEF Calm, PhaseInv, CurRunnable
  <2>4. f.wait[t].type = y => "RUNNING" \notin f.st[t]
    BY <1>1, <2>2 DEF KernelInv, ThreadInv, StatusShape
  <2> QED BY <2>2, <2>3, <2>4 DEF f
<1>3. CASE hleScheduledWakeup(t)
  <2> DEFINE f == PopEvent(k, "DELAY", t)
  <2>1. /\ KernelInv(f) /\ PhaseInv(f)
        /\ f.wait[t].type = "DELAY" => "RUNNING" \notin f.st[t]
    BY <1>2, <1>3 DEF hleScheduledWakeup
  <2>2. k' = IF KernelGetWaitID(f, t, "DELAY") = t
             THEN [KernelResumeThreadFromWait(f, t, "ok") EXCEPT !.frames = Append(@, NoObj)]
             ELSE f
    BY <1>3 DEF hleScheduledWakeup, hleReSchedule
  <2> HIDE DEF f
  <2>3. CASE KernelGetWaitID(f, t, "DELAY") = t
    <3>1. "RUNNING" \notin f.st[t] /\ "ok" \in Result
      BY <1>1, <2>1, <2>3, UidAssumption DEF KernelGetWaitID, Result
    <3> QED BY <1>1, <2>1, <2>2, <2>3, <3>1, WakeStep DEF Good
  <2>4. CASE KernelGetWaitID(f, t, "DELAY") # t
    BY <2>1, <2>2, <2>4 DEF Good
  <2> QED BY <2>3, <2>4
<1>4. CASE hleThreadEndTimeout(t)
  <2> DEFINE f == PopEvent(k, "THREADEND", t)
             uid == KernelGetWaitID(f, t, "THREADEND")
  <2>1. /\ KernelInv(f) /\ PhaseInv(f)
        /\ f.wait[t].type = "THREADEND" => "RUNNING" \notin f.st[t]
    BY <1>2, <1>4 DEF hleThreadEndTimeout
  <2>2. k' = IF uid # NoObj /\ Exists(f, uid)
             THEN [KernelResumeThreadFromWait(f, t, "WAIT_TIMEOUT")
                     EXCEPT !.frames = Append(@, NoObj)]
             ELSE f
    BY <1>4 DEF hleThreadEndTimeout, WaitExecTimeout
  <2> HIDE DEF f
  <2>3. CASE uid # NoObj /\ Exists(f, uid)
    <3>1. "RUNNING" \notin f.st[t] /\ "WAIT_TIMEOUT" \in Result
      BY <1>1, <2>1, <2>3 DEF KernelGetWaitID, Result
    <3> QED BY <1>1, <2>1, <2>2, <2>3, <3>1, WakeStep DEF Good
  <2>4. CASE ~(uid # NoObj /\ Exists(f, uid))
    BY <2>1, <2>2, <2>4 DEF Good
  <2> QED BY <2>3, <2>4
<1> QED BY <1>3, <1>4

\* The idle loop, and the end of a reschedule.
LEMMA IdleStep ==
  ASSUME Inv, KernelIdle
  PROVE  Good
<1>1. KernelInv(k) /\ PhaseInv(k) /\ k \in Kernel /\ k' = hleReSchedule(k)
  BY DEF Inv, KernelInv, KernelIdle
<1>2. KernelInv(k') /\ Pending(k, k')
  BY <1>1, hleReScheduleInv
<1>3. PhaseInv(k')
  BY <1>1, <1>2, CalmPhase DEF Pending
<1> QED BY <1>2, <1>3 DEF Good

\* __KernelReSchedule() after Advance(): its frame is popped and, with dispatch
\* enabled, the best thread runs.
LEMMA ReScheduleEndInv ==
  ASSUME NEW kk, KernelInv(kk), PhaseInv(kk), kk.frames # <<>>
  PROVE  LET popped == [kk EXCEPT !.frames = SubSeq(@, 1, Len(@) - 1)]
             k2 == KernelReScheduleEnd(kk)
         IN  /\ KernelInv(k2) /\ PhaseInv(k2)
             /\ KernelInv(popped) /\ popped.st = kk.st /\ popped.prio = kk.prio
             /\ popped.rq = kk.rq /\ popped.cur = kk.cur /\ WaitsSame(kk, popped)
             /\ k2 = IF kk.disp THEN SwitchToNext(popped) ELSE popped
<1> DEFINE f == SubSeq(kk.frames, 1, Len(kk.frames) - 1)
           k1 == [kk EXCEPT !.frames = f]
           k2 == KernelReScheduleEnd(kk)
<1>1. /\ kk \in Kernel /\ kk.frames \in Seq(Obj \cup {NoObj})
      /\ k1 = [kk EXCEPT !.frames = SubSeq(@, 1, Len(@) - 1)]
  BY DEF KernelInv, Kernel
<1>2. f \in Seq(Obj \cup {NoObj})
  BY <1>1
<1>3. k2 = IF kk.disp THEN SwitchToNext(k1) ELSE k1
  BY <1>1 DEF KernelReScheduleEnd, Kernel
<1> HIDE DEF f, k2
<1>4. /\ k1 \in Kernel /\ k1.st = kk.st /\ k1.prio = kk.prio /\ k1.rq = kk.rq
      /\ k1.cur = kk.cur /\ k1.wait = kk.wait /\ k1.disp = kk.disp
      /\ WaitsSame(kk, k1)
  BY <1>1, <1>2 DEF Kernel, WaitsSame
<1> HIDE DEF k1
<1>5. KernelInv(k1)
  BY <1>1, <1>4, SameQueueFields, InvButNone
<1>6. KernelInv(k2) /\ PhaseInv(k2)
  <2>1. CASE kk.disp
    <3>1. KernelInv(k2) /\ Switched(k1, k2)
      BY <1>3, <1>5, <2>1, SwitchToNextInv
    <3>2. PhaseInv(k2)
      BY <1>4, <2>1, <3>1, UidAssumption DEF Switched, PhaseInv, CurRunnable
    <3> QED BY <3>1, <3>2
  <2>2. CASE ~kk.disp
    <3>1. PhaseInv(k1)
      BY <1>1, <1>4, <2>2 DEF PhaseInv, CurRunnable
    <3> QED BY <1>3, <1>5, <2>2, <3>1
  <2> QED BY <2>1, <2>2
<1> QED BY <1>1, <1>3, <1>4, <1>5, <1>6 DEF k2

LEMMA ReScheduleStep ==
  ASSUME Inv, KernelReSchedule
  PROVE  Good
BY ReScheduleEndInv DEF Inv, KernelReSchedule, Good

LEMMA InitInv ==
  ASSUME Init
  PROVE  Inv
<1>1. PICK root \in User, p \in UserPrio : k = InitKernel(root, p)
  BY DEF Init
<1>2. /\ root \in Thread /\ root \notin Idle /\ p \in Prio /\ IdlePrio \in Prio
      /\ p # IdlePrio /\ Idle0 \in Thread /\ Idle1 \in Thread /\ root # NoThread
  BY UidAssumption, PrioAssumption DEF Thread, Idle, Prio
<1>3. /\ k.st = [t \in Thread |-> IF t = root THEN {"RUNNING"}
                                   ELSE IF t \in Idle THEN {"READY"} ELSE {"DEAD"}]
      /\ k.prio = [t \in Thread |-> IF t \in Idle THEN IdlePrio ELSE p]
      /\ k.wait = [t \in Thread |-> NoWait]
      /\ k.rq = [q \in Prio |-> IF q = IdlePrio THEN <<Idle0, Idle1>> ELSE <<>>]
      /\ k.cur = root /\ k.disp /\ k.frames = <<>>
  BY <1>1 DEF InitKernel
<1>4. k \in Kernel
  <2>1. k.st \in [Thread -> SUBSET StatusBits] /\ k.prio \in [Thread -> Prio]
    BY <1>2, <1>3 DEF StatusBits
  <2>2. k.wait \in [Thread -> Wait]
    BY <1>3 DEF NoWait, Wait, WaitType, ObjWait
  <2>3. k.rq \in [Prio -> Seq(Thread)]
    <3>1. <<Idle0, Idle1>> \in Seq(Thread) /\ <<>> \in Seq(Thread)
      BY <1>2
    <3> QED BY <1>3, <3>1
  <2>4. /\ [t \in Thread |-> IF t \in Idle THEN IdlePrio ELSE p] \in [Thread -> Prio]
        /\ [t \in Thread |-> "none"] \in [Thread -> Result]
        /\ [t \in Thread |-> 0] \in [Thread -> Nat]
        /\ [t \in Thread |-> <<>>] \in [Thread -> Seq(Thread)]
        /\ [y \in TimerType |-> [t \in Thread |-> 0]] \in [TimerType -> [Thread -> Nat]]
        /\ <<>> \in Seq(Obj \cup {NoObj})
    BY <1>2 DEF Result
  <2> QED BY <1>1, <1>2, <2>1, <2>2, <2>3, <2>4 DEF InitKernel, Kernel
<1>5. /\ \A t : Holds(<<Idle0, Idle1>>, t) <=> t \in Idle
      /\ \A t : ~Holds(<<>>, t)
      /\ Distinct(<<Idle0, Idle1>>) /\ Distinct(<<>>)
  BY UidAssumption DEF Holds, Distinct, Idle
<1>6. QueuesDistinct(k)
  BY <1>3, <1>5 DEF QueuesDistinct
<1>7. ASSUME NEW t \in Thread PROVE ThreadInv(k, t)
  <2>1. StatusShape(k, t) /\ IdleShape(k, t)
    BY <1>2, <1>3 DEF StatusShape, IdleShape, NoWait
  <2>2. QueuedRight(k, t)
    BY <1>2, <1>3, <1>5, PrioAssumption DEF QueuedRight
  <2> QED BY <2>1, <2>2 DEF ThreadInv
<1>8. PhaseInv(k)
  BY <1>2, <1>3 DEF PhaseInv, CurRunnable
<1> QED BY <1>4, <1>6, <1>7, <1>8 DEF Inv, KernelInv

-----------------------------------------------------------------------------
\* The invariant is inductive: every step of a disciplined guest, of a timer, of
\* the idle loop and of the scheduler keeps it.
THEOREM InvHolds ==
  ASSUME Disciplined
  PROVE  Spec => []Inv
<1>1. Init => Inv
  BY InitInv
<1>2. Inv /\ [Next]_k => Inv'
  <2> SUFFICES ASSUME Inv, Next PROVE Good
    BY DEF Inv, Good, KernelInv, QueuesDistinct, ThreadInv, StatusShape, IdleShape,
           QueuedRight, PhaseInv, CurRunnable
  <2>1. CASE SystemCall
    BY <2>1, CreateStep, PriorityStep, StartStep, WakeupStep, CancelWakeupStep, ReleaseStep,
       SuspendStep, ResumeStep, WaitThreadEndStep, DispatchStep, RotateStep, DelayStep,
       SleepStep
       DEF SystemCall
  <2>2. CASE Timer
    BY <2>2, TimerStep DEF Timer
  <2>3. CASE ThreadEnd
    <3>1. PICK t \in User : ThreadEnds(t, KernelStopThread(k, t))
      BY <2>3 DEF ThreadEnd
    <3> QED BY <3>1, StopInv, EndStep DEF Inv
  <2> QED BY <2>1, <2>2, <2>3, IdleStep, ReScheduleStep DEF Next, Undisturbed
<1> QED BY <1>1, <1>2, PTL DEF Spec

\* The ready queue is exact: the comment "Lists only ready thread ids" holds of it,
\* and no READY thread is missing from it or in it twice.
THEOREM ReadyQueueExactHolds ==
  ASSUME Disciplined
  PROVE  Spec => []ReadyQueueExact
<1>1. Inv => ReadyQueueExact
  BY DEF Inv, KernelInv, QueuesDistinct, ThreadInv, QueuedRight, ReadyQueueExact
<1> QED BY <1>1, InvHolds, PTL

\* Guest code is executed only by a thread that may run.
THEOREM OnlyRunnableRunsHolds ==
  ASSUME Disciplined
  PROVE  Spec => []OnlyRunnableRuns
<1>1. Inv => OnlyRunnableRuns
  BY DEF Inv, KernelInv, ThreadInv, StatusShape, PhaseInv, CurRunnable, OnlyRunnableRuns
<1> QED BY <1>1, InvHolds, PTL

\* The scheduler always finds a thread to run.
THEOREM NeverOutOfThreadsHolds ==
  ASSUME Disciplined
  PROVE  Spec => []NeverOutOfThreads
<1>1. Inv => NeverOutOfThreads
  BY IdleQueued DEF Inv, NeverOutOfThreads
<1> QED BY <1>1, InvHolds, PTL

\* Every field keeps the type of its declaration.
THEOREM TypeOKHolds ==
  ASSUME Disciplined
  PROVE  Spec => []TypeOK
<1>1. Inv => TypeOK
  BY DEF Inv, KernelInv, TypeOK
<1> QED BY <1>1, InvHolds, PTL

\* After a reschedule with dispatch enabled nobody who is READY is better than the
\* thread that runs: __KernelNextThread() takes the head of the best queue in use,
\* and keeps the current thread only when no queue is better.
THEOREM RescheduleRunsBestHolds ==
  ASSUME Disciplined
  PROVE  Spec => RescheduleRunsBest
<1> DEFINE Best(t) == Has(k', t, "READY") => k'.prio[k'.cur] <= k'.prio[t]
<1>1. ASSUME Inv, KernelReSchedule, k.disp, NEW t \in Thread PROVE Best(t)
  <2> DEFINE k1 == [k EXCEPT !.frames = SubSeq(@, 1, Len(@) - 1)]
  <2>1. /\ KernelInv(k1) /\ k1.cur = k.cur /\ k' = SwitchToNext(k1) /\ KernelInv(k')
    BY <1>1, ReScheduleEndInv DEF Inv, KernelReSchedule
  <2> HIDE DEF k1
  <2>2. Switched(k1, k') /\ RunsBest(k1, k')
    BY <2>1, SwitchToNextInv
  <2> SUFFICES ASSUME "READY" \in k'.st[t] PROVE k'.prio[k'.cur] <= k'.prio[t]
    OBVIOUS
  <2>3. k'.st[t] = {"READY"}
    BY <2>1 DEF KernelInv, ThreadInv, StatusShape
  <2>4. k'.prio = k1.prio /\ k1.prio[t] \in Prio
    BY <2>1, <2>2 DEF Switched, KernelInv, Kernel
  <2>5. CASE k1.st[t] = {"READY"}
    <3>1. Holds(k1.rq[k1.prio[t]], t)
      BY <2>1, <2>4, <2>5 DEF KernelInv, ThreadInv, QueuedRight
    <3>2. k1.rq[k1.prio[t]] # <<>>
      BY <3>1 DEF Holds
    <3> QED BY <2>2, <2>4, <3>2 DEF RunsBest
  <2>6. CASE t = k1.cur /\ k1.st[t] = {"RUNNING"}
    <3>1. k1.cur # NoThread /\ "RUNNING" \in k1.st[k1.cur]
      BY <2>6, UidAssumption
    <3> QED BY <2>1, <2>4, <2>6, <3>1, SwitchNotWorse
  <2> QED BY <2>2, <2>3, <2>5, <2>6 DEF Switched
<1>2. Inv /\ [Next]_k => [KernelReSchedule /\ k.disp => \A t \in Thread : Best(t)]_k
  BY <1>1
<1>3. Spec => []Inv
  BY InvHolds
<1> QED BY <1>2, <1>3, PTL DEF Spec, RescheduleRunsBest

-----------------------------------------------------------------------------
(***************************************************************************)
(* Nobody who waits is forgotten by the thread manager, for any number of  *)
(* threads and priorities: a sleeper has no wakeup saved up, a joiner is   *)
(* known to the thread it waits for, and a timed wait has its event.       *)
(*                                                                         *)
(* Most kernel functions are quiet: whoever is in a wait after them was in *)
(* the same wait before.  The proof is about the few that are not.         *)
(***************************************************************************)


Waits(kk, u) == "WAIT" \in kk.st[u]
Gone(kk, u) == kk.st[u] \cap {"DORMANT", "DEAD"} # {}

\* What u itself needs for its wait to end.  A thread that has ended has no other
\* status bit.
OwnWait(kk, u) ==
  /\ Gone(kk, u) => kk.st[u] \in {{"DORMANT"}, {"DEAD"}}
  /\ isWaitingFor(kk, u, "SLEEP", NoObj) => kk.wakeup[u] = 0
  /\ isWaitingFor(kk, u, "DELAY", u) => kk.timer["DELAY"][u] > 0
  /\ Waits(kk, u) /\ kk.wait[u].type = "THREADEND" /\ kk.wait[u].timed
       => kk.timer["THREADEND"][u] > 0

\* A joiner is listed by a thread that has not ended.
JoinRight(kk, u) ==
  Waits(kk, u) /\ kk.wait[u].type = "THREADEND" =>
    /\ kk.wait[u].id \in Thread /\ ~Gone(kk, kk.wait[u].id)
    /\ Holds(kk.joiners[kk.wait[u].id], u)

\* The inductive invariant, on top of Inv.
WaitInv(kk) == \A u \in Thread : OwnWait(kk, u) /\ JoinRight(kk, u)

\* If u waits in k2 it does so as in kk, and it has not ended in between.
Kept(kk, k2, u) ==
  /\ Waits(k2, u) =>
       /\ Waits(kk, u) /\ k2.wait[u] = kk.wait[u]
       /\ \A y \in TimerType : k2.timer[y][u] = kk.timer[y][u]
  /\ isWaitingFor(k2, u, "SLEEP", NoObj) => k2.wakeup[u] <= kk.wakeup[u]
  /\ Gone(k2, u) => k2.st[u] = kk.st[u]

Quiet(kk, k2) == k2.joiners = kk.joiners /\ \A u \in Thread : Kept(kk, k2, u)

-----------------------------------------------------------------------------
(* Quiet changes. *)

LEMMA KeptOwn ==
  ASSUME NEW kk \in Kernel, NEW k2 \in Kernel, NEW u \in Thread,
         OwnWait(kk, u), Kept(kk, k2, u)
  PROVE  OwnWait(k2, u)
<1>1. kk.wakeup[u] \in Nat /\ k2.wakeup[u] \in Nat
  BY DEF Kernel
<1>2. Gone(k2, u) => k2.st[u] \in {{"DORMANT"}, {"DEAD"}}
  BY DEF OwnWait, Kept, Gone
<1>3. isWaitingFor(k2, u, "SLEEP", NoObj) => k2.wakeup[u] = 0
  BY <1>1 DEF OwnWait, Kept, isWaitingFor, Waits
<1>4. /\ isWaitingFor(k2, u, "DELAY", u) => k2.timer["DELAY"][u] > 0
      /\ Waits(k2, u) /\ k2.wait[u].type = "THREADEND" /\ k2.wait[u].timed
           => k2.timer["THREADEND"][u] > 0
  BY DEF OwnWait, Kept, isWaitingFor, Waits, TimerType
<1> QED BY <1>2, <1>3, <1>4 DEF OwnWait

LEMMA QuietInv ==
  ASSUME NEW kk \in Kernel, NEW k2 \in Kernel, WaitInv(kk), Quiet(kk, k2)
  PROVE  WaitInv(k2)
<1> SUFFICES ASSUME NEW u \in Thread PROVE OwnWait(k2, u) /\ JoinRight(k2, u)
  BY DEF WaitInv
<1>1. Kept(kk, k2, u) /\ OwnWait(kk, u) /\ JoinRight(kk, u)
  BY DEF Quiet, WaitInv
<1>2. OwnWait(k2, u)
  BY <1>1, KeptOwn
<1>3. JoinRight(k2, u)
  <2> SUFFICES ASSUME Waits(k2, u), k2.wait[u].type = "THREADEND"
               PROVE  /\ k2.wait[u].id \in Thread /\ ~Gone(k2, k2.wait[u].id)
                      /\ Holds(k2.joiners[k2.wait[u].id], u)
    BY DEF JoinRight
  <2> DEFINE t == k2.wait[u].id
  <2>1. t \in Thread /\ ~Gone(kk, t) /\ Holds(kk.joiners[t], u)
    BY <1>1 DEF Kept, JoinRight
  <2>2. Kept(kk, k2, t)
    BY <2>1 DEF Quiet
  <2> QED BY <2>1, <2>2 DEF Kept, Gone, Quiet
<1> QED BY <1>2, <1>3

LEMMA KeptTransitive ==
  ASSUME NEW k1 \in Kernel, NEW k2 \in Kernel, NEW k3 \in Kernel, NEW u \in Thread,
         Kept(k1, k2, u), Kept(k2, k3, u)
  PROVE  Kept(k1, k3, u)
<1>1. k1.wakeup[u] \in Nat /\ k2.wakeup[u] \in Nat /\ k3.wakeup[u] \in Nat
  BY DEF Kernel
<1>2. isWaitingFor(k3, u, "SLEEP", NoObj) => isWaitingFor(k2, u, "SLEEP", NoObj)
  BY DEF Kept, isWaitingFor, Waits
<1>3. isWaitingFor(k3, u, "SLEEP", NoObj) => k3.wakeup[u] <= k1.wakeup[u]
  BY <1>1, <1>2 DEF Kept
<1>4. Waits(k3, u) => /\ Waits(k1, u) /\ k3.wait[u] = k1.wait[u]
                      /\ \A y \in TimerType : k3.timer[y][u] = k1.timer[y][u]
  BY DEF Kept
<1>5. Gone(k3, u) => k3.st[u] = k1.st[u]
  BY DEF Kept, Gone
<1> QED BY <1>3, <1>4, <1>5 DEF Kept

LEMMA QuietTransitive ==
  ASSUME NEW k1 \in Kernel, NEW k2 \in Kernel, NEW k3 \in Kernel,
         Quiet(k1, k2), Quiet(k2, k3)
  PROVE  Quiet(k1, k3)
BY KeptTransitive DEF Quiet

\* A thread that waits for nothing and has not ended, and one of which nothing
\* that matters has changed.
LEMMA KeptActive ==
  ASSUME NEW kk, NEW k2, NEW u, ~Waits(k2, u), ~Gone(k2, u)
  PROVE  Kept(kk, k2, u)
BY DEF Kept, isWaitingFor, Waits

LEMMA KeptSame ==
  ASSUME NEW kk \in Kernel, NEW k2, NEW u \in Thread,
         k2.st[u] = kk.st[u], k2.wait[u] = kk.wait[u],
         \A y \in TimerType : k2.timer[y][u] = kk.timer[y][u],
         k2.wakeup[u] = kk.wakeup[u]
  PROVE  Kept(kk, k2, u)
<1>1. kk.wakeup[u] \in Nat
  BY DEF Kernel
<1> QED BY <1>1 DEF Kept, Waits

LEMMA SameQuiet ==
  ASSUME NEW kk \in Kernel, NEW k2, k2.st = kk.st, k2.wait = kk.wait,
         k2.timer = kk.timer, k2.wakeup = kk.wakeup, k2.joiners = kk.joiners
  PROVE  Quiet(kk, k2)
BY KeptSame DEF Quiet

\* KernelChangeReadyState(), both ways.
LEMMA ReadyQuiet ==
  ASSUME NEW kk \in Kernel, NEW t \in Thread
  PROVE  LET k2 == KernelChangeReadyState(kk, t, TRUE)
         IN  k2 \in Kernel /\ Quiet(kk, k2)
<1> DEFINE k2 == KernelChangeReadyState(kk, t, TRUE)
           queued == IF Has(kk, t, "RUNNING") THEN push_front(kk, kk.prio[t], t)
                     ELSE push_back(kk, kk.prio[t], t)
<1>1. CASE "READY" \in kk.st[t]
  <2>1. k2 = kk
    BY <1>1 DEF KernelChangeReadyState
  <2>2. Quiet(kk, kk)
    BY SameQuiet
  <2> HIDE DEF k2
  <2> QED BY <2>1, <2>2 DEF k2
<1>2. CASE "READY" \notin kk.st[t]
  <2>1. k2 = [queued EXCEPT !.st[t] = {"READY"}]
    BY <1>2 DEF KernelChangeReadyState
  <2>2. /\ queued = [kk EXCEPT !.rq = queued.rq]
        /\ queued.rq \in [Prio -> Seq(Thread)]
    <3> DEFINE p == kk.prio[t]
               front == [kk.rq EXCEPT ![p] = <<t>> \o kk.rq[p]]
               back == [kk.rq EXCEPT ![p] = Append(kk.rq[p], t)]
    <3>1. p \in Prio /\ kk.rq \in [Prio -> Seq(Thread)] /\ kk.rq[p] \in Seq(Thread)
      BY DEF Kernel
    <3>2. /\ push_front(kk, p, t) = [kk EXCEPT !.rq = front]
          /\ push_back(kk, p, t) = [kk EXCEPT !.rq = back]
      BY DEF push_front, push_back, Kernel
    <3>3. <<t>> \o kk.rq[p] \in Seq(Thread) /\ Append(kk.rq[p], t) \in Seq(Thread)
      BY <3>1
    <3>4. front \in [Prio -> Seq(Thread)] /\ back \in [Prio -> Seq(Thread)]
      BY <3>1, <3>3
    <3>5. queued = [kk EXCEPT !.rq = front] \/ queued = [kk EXCEPT !.rq = back]
      BY <3>2
    <3> HIDE DEF front, back, queued
    <3> QED BY <3>4, <3>5 DEF Kernel
  <2> HIDE DEF queued, k2
  <2>3. /\ k2.st = [kk.st EXCEPT ![t] = {"READY"}] /\ k2.wait = kk.wait
        /\ k2.timer = kk.timer /\ k2.wakeup = kk.wakeup /\ k2.joiners = kk.joiners
        /\ k2 \in Kernel
    BY <2>1, <2>2 DEF Kernel, StatusBits
  <2>4. k2.st[t] = {"READY"} /\ \A u \in Thread \ {t} : k2.st[u] = kk.st[u]
    BY <2>3 DEF Kernel
  <2>5. Kept(kk, k2, t)
    BY <2>4, KeptActive DEF Waits, Gone
  <2>6. ASSUME NEW u \in Thread, u # t PROVE Kept(kk, k2, u)
    BY <2>3, <2>4, <2>6, KeptSame
  <2> QED BY <2>3, <2>5, <2>6 DEF Quiet, k2
<1> QED BY <1>1, <1>2

LEMMA UnreadyQuiet ==
  ASSUME NEW kk, KernelInv(kk), NEW t \in Thread
  PROVE  Quiet(kk, KernelChangeReadyState(kk, t, FALSE))
<1> DEFINE k2 == KernelChangeReadyState(kk, t, FALSE)
<1>1. k2 = [kk EXCEPT !.rq = k2.rq] /\ kk \in Kernel
  BY UnreadyOff DEF KernelInv
<1> HIDE DEF k2
<1>2. /\ k2.st = kk.st /\ k2.wait = kk.wait /\ k2.timer = kk.timer
      /\ k2.wakeup = kk.wakeup /\ k2.joiners = kk.joiners
  BY <1>1 DEF Kernel
<1> QED BY <1>1, <1>2, SameQuiet DEF k2

\* A reschedule is asked for.
LEMMA FramesQuiet ==
  ASSUME NEW kk \in Kernel, NEW f
  PROVE  Quiet(kk, [kk EXCEPT !.frames = f])
<1> DEFINE k2 == [kk EXCEPT !.frames = f]
<1>1. /\ k2.st = kk.st /\ k2.wait = kk.wait /\ k2.timer = kk.timer
      /\ k2.wakeup = kk.wakeup /\ k2.joiners = kk.joiners
  BY DEF Kernel
<1> HIDE DEF k2
<1> QED BY <1>1, SameQuiet DEF k2

LEMMA hleReScheduleQuiet ==
  ASSUME NEW kk \in Kernel
  PROVE  hleReSchedule(kk) \in Kernel /\ Quiet(kk, hleReSchedule(kk))
<1> DEFINE f == Append(kk.frames, NoObj)
<1>1. hleReSchedule(kk) = [kk EXCEPT !.frames = f] /\ kk.frames \in Seq(Obj \cup {NoObj})
  BY DEF hleReSchedule, Kernel
<1>2. f \in Seq(Obj \cup {NoObj})
  BY <1>1
<1> HIDE DEF f
<1>3. [kk EXCEPT !.frames = f] \in Kernel
  BY <1>2 DEF Kernel
<1> QED BY <1>1, <1>3, FramesQuiet

\* The context switch.
LEMMA SwitchedQuiet ==
  ASSUME NEW kk \in Kernel, NEW k2, Switched(kk, k2)
  PROVE  Quiet(kk, k2)
<1>1. ASSUME NEW u \in Thread PROVE Kept(kk, k2, u)
  <2>1. CASE k2.st[u] \in {{"RUNNING"}, {"READY"}}
    BY <2>1, KeptActive DEF Waits, Gone
  <2>2. CASE k2.st[u] = kk.st[u] /\ k2.wait[u] = kk.wait[u]
    BY <2>2, KeptSame DEF Switched
  <2> QED BY <2>1, <2>2 DEF Switched
<1> QED BY <1>1 DEF Switched, Quiet

\* __KernelResumeThreadFromWait(): t is not waiting any more.
LEMMA ResumeThreadQuiet ==
  ASSUME NEW kk, KernelInv(kk), NEW t \in Thread, NEW r \in Result,
         Gone(kk, t) => kk.st[t] \in {{"DORMANT"}, {"DEAD"}}
  PROVE  LET k2 == KernelResumeThreadFromWait(kk, t, r)
         IN  Quiet(kk, k2) /\ ~Waits(k2, t) /\ k2.timer = kk.timer
<1> DEFINE k1 == resumeFromWait(kk, t)
           k2 == [k1 EXCEPT !.ret[t] = r]
           left == kk.st[t] \ {"WAIT"}
           freed == [kk EXCEPT !.st[t] = left]
<1>1. /\ KernelInv(k1) /\ k1 \in Kernel /\ kk \in Kernel
      /\ \A u \in Thread \ {t} : k1.st[u] = kk.st[u]
      /\ k1 = [kk EXCEPT !.st = k1.st, !.rq = k1.rq]
  BY ResumeInv DEF KernelInv
<1>2. k1.st[t] = left \/ (k1.st[t] = {"READY"} /\ left \cap {"DORMANT", "DEAD"} = {})
  <2>1. kk.st \in [Thread -> SUBSET StatusBits] /\ freed.st[t] = left
    BY <1>1 DEF Kernel
  <2>2. CASE left \cap {"WAIT", "SUSPEND", "DORMANT", "DEAD"} = {}
    <3>1. k1 = KernelChangeReadyState(freed, t, TRUE)
      BY <2>2 DEF resumeFromWait
    <3>2. CASE "READY" \in left
      <4>1. k1 = freed
        BY <2>1, <3>1, <3>2 DEF KernelChangeReadyState
      <4> HIDE DEF k1, freed
      <4> QED BY <2>1, <4>1
    <3>3. CASE "READY" \notin left
      <4> DEFINE queued == IF Has(freed, t, "RUNNING")
                           THEN push_front(freed, freed.prio[t], t)
                           ELSE push_back(freed, freed.prio[t], t)
      <4>1. k1 = [queued EXCEPT !.st[t] = {"READY"}]
        BY <2>1, <3>1, <3>3 DEF KernelChangeReadyState
      <4>2. queued.st = freed.st
        BY <1>1 DEF push_front, push_back, Kernel
      <4>3. freed.st \in [Thread -> SUBSET StatusBits]
        BY <1>1 DEF Kernel
      <4>4. queued = [freed EXCEPT !.rq = queued.rq]
        BY <1>1 DEF push_front, push_back, Kernel
      <4> HIDE DEF k1, freed, queued
      <4>5. k1.st[t] = {"READY"}
        BY <1>1, <4>1, <4>2, <4>3, <4>4, ZenonT(40) DEF Kernel
      <4> QED BY <2>2, <4>5
    <3> QED BY <3>2, <3>3
  <2>3. CASE left \cap {"WAIT", "SUSPEND", "DORMANT", "DEAD"} # {}
    <3>1. k1 = freed
      BY <2>3 DEF resumeFromWait
    <3> HIDE DEF k1, freed
    <3> QED BY <2>1, <3>1
  <2> QED BY <2>2, <2>3
<1>3. k2 = KernelResumeThreadFromWait(kk, t, r)
  BY DEF KernelResumeThreadFromWait
<1> HIDE DEF k1
<1>4. /\ k1.wait = kk.wait /\ k1.timer = kk.timer /\ k1.wakeup = kk.wakeup
      /\ k1.joiners = kk.joiners
  BY <1>1 DEF Kernel
<1>5. /\ k2.st = k1.st /\ k2.wait = kk.wait /\ k2.timer = kk.timer
      /\ k2.wakeup = kk.wakeup /\ k2.joiners = kk.joiners
  BY <1>1, <1>4 DEF Kernel
<1> HIDE DEF k2
<1>6. ~Waits(k2, t)
  BY <1>2, <1>5 DEF Waits
<1>7. Gone(k2, t) => k2.st[t] = kk.st[t]
  <2>1. CASE Gone(kk, t)
    BY <1>2, <1>5, <2>1 DEF Gone
  <2>2. CASE ~Gone(kk, t)
    BY <1>2, <1>5, <2>2 DEF Gone
  <2> QED BY <2>1, <2>2
<1>8. Kept(kk, k2, t)
  BY <1>6, <1>7 DEF Kept, isWaitingFor, Waits
<1>9. ASSUME NEW u \in Thread, u # t PROVE Kept(kk, k2, u)
  BY <1>1, <1>5, <1>9, KeptSame
<1>10. Quiet(kk, k2)
  BY <1>5, <1>8, <1>9 DEF Quiet
<1> QED BY <1>3, <1>5, <1>6, <1>10

-----------------------------------------------------------------------------
(* Changes that concern one thread t: it is created, stopped or deleted, or it  *)
(* begins a wait.                                                              *)

\* t ends or is created: nobody may be waiting for its end afterwards.
LEMMA EndedInv ==
  ASSUME NEW kk \in Kernel, NEW k2 \in Kernel, WaitInv(kk), NEW t \in Thread,
         k2.st[t] \in {{"DORMANT"}, {"DEAD"}},
         \A u \in Thread \ {t} : Kept(kk, k2, u) /\ k2.joiners[u] = kk.joiners[u],
         \A u \in Thread \ {t} :
           ~(Waits(k2, u) /\ k2.wait[u].type = "THREADEND" /\ k2.wait[u].id = t)
  PROVE  WaitInv(k2)
<1>1. OwnWait(k2, t) /\ JoinRight(k2, t)
  BY DEF OwnWait, JoinRight, isWaitingFor, Waits
<1>2. ASSUME NEW u \in Thread, u # t PROVE OwnWait(k2, u) /\ JoinRight(k2, u)
  <2>1. Kept(kk, k2, u) /\ OwnWait(kk, u) /\ JoinRight(kk, u)
    BY <1>2 DEF WaitInv
  <2>2. OwnWait(k2, u)
    BY <2>1, KeptOwn
  <2>3. ASSUME Waits(k2, u), k2.wait[u].type = "THREADEND"
        PROVE  /\ k2.wait[u].id \in Thread /\ ~Gone(k2, k2.wait[u].id)
               /\ Holds(k2.joiners[k2.wait[u].id], u)
    <3> DEFINE v == k2.wait[u].id
    <3>1. v \in Thread /\ ~Gone(kk, v) /\ Holds(kk.joiners[v], u) /\ v # t
      BY <1>2, <2>1, <2>3 DEF Kept, JoinRight
    <3> HIDE DEF v
    <3>2. Kept(kk, k2, v) /\ k2.joiners[v] = kk.joiners[v]
      BY <3>1
    <3>3. ~Gone(k2, v) /\ Holds(k2.joiners[v], u)
      BY <3>1, <3>2 DEF Kept, Gone
    <3> QED BY <3>1, <3>3 DEF v
  <2> QED BY <2>2, <2>3 DEF JoinRight
<1> QED BY <1>1, <1>2 DEF WaitInv

\* t, which is in no wait, begins the wait w.
LEMMA AsleepInv ==
  ASSUME NEW kk \in Kernel, NEW k2, NEW w, WaitInv(kk), Asleep(kk, k2, w),
         kk.cur \in Thread,
         w.type = "SLEEP" => kk.wakeup[kk.cur] = 0,
         w.type = "DELAY" => kk.timer["DELAY"][kk.cur] > 0,
         w.type = "THREADEND" =>
           /\ w.id \in Thread /\ w.id # kk.cur /\ ~Gone(kk, w.id)
           /\ Holds(kk.joiners[w.id], kk.cur)
           /\ w.timed => kk.timer["THREADEND"][kk.cur] > 0
  PROVE  WaitInv(k2)
<1> DEFINE t == kk.cur
<1>1. k2 \in Kernel
  BY DEF Asleep, KernelInv
<1>2. /\ k2.st[t] = {"WAIT"} /\ k2.wait[t] = w
      /\ \A u \in Thread \ {t} : k2.st[u] = kk.st[u] /\ k2.wait[u] = kk.wait[u]
      /\ k2.timer = kk.timer /\ k2.wakeup = kk.wakeup /\ k2.joiners = kk.joiners
  BY DEF Asleep, Kernel
<1> HIDE DEF t
<1>3. \A u \in Thread \ {t} : Kept(kk, k2, u)
  BY <1>2, KeptSame
<1>4. \A u \in Thread : ~Gone(kk, u) => ~Gone(k2, u)
  BY <1>2 DEF Gone
<1>5. OwnWait(k2, t)
  BY <1>2 DEF OwnWait, Gone, isWaitingFor, Waits, t
<1>6. JoinRight(k2, t)
  BY <1>2, <1>4 DEF JoinRight, t
<1>7. ASSUME NEW u \in Thread, u # t PROVE OwnWait(k2, u) /\ JoinRight(k2, u)
  <2>1. Kept(kk, k2, u) /\ OwnWait(kk, u) /\ JoinRight(kk, u)
    BY <1>3, <1>7 DEF WaitInv
  <2>2. OwnWait(k2, u)
    BY <1>1, <2>1, KeptOwn
  <2>3. JoinRight(k2, u)
    BY <1>2, <1>4, <1>7, <2>1 DEF JoinRight, Waits
  <2> QED BY <2>2, <2>3
<1> QED BY <1>5, <1>6, <1>7 DEF WaitInv

-----------------------------------------------------------------------------
(* The end of a thread. *)

\* A thread that has ended has no other status bit.
EndShapes(kk) == \A u \in Thread : Gone(kk, u) => kk.st[u] \in {{"DORMANT"}, {"DEAD"}}

LEMMA EndShapesKept ==
  ASSUME NEW kk, NEW k2, EndShapes(kk), \A u \in Thread : Kept(kk, k2, u)
  PROVE  EndShapes(k2)
BY DEF EndShapes, Kept, Gone

\* Only the number of events of one type pending for t may change.
OneTimer(kk, k2, y, t) ==
  /\ k2 \in Kernel
  /\ k2.st = kk.st /\ k2.wait = kk.wait /\ k2.wakeup = kk.wakeup
  /\ k2.joiners = kk.joiners /\ k2.ret = kk.ret
  /\ \A u \in Thread \ {t} : \A z \in TimerType : k2.timer[z][u] = kk.timer[z][u]
  /\ \A z \in TimerType \ {y} : k2.timer[z] = kk.timer[z]

LEMMA OneTimerOps ==
  ASSUME NEW kk \in Kernel, NEW y \in TimerType, NEW t \in Thread
  PROVE  /\ OneTimer(kk, UnscheduleEvent(kk, y, t), y, t)
         /\ OneTimer(kk, ScheduleEvent(kk, y, t), y, t)
         /\ ScheduleEvent(kk, y, t).timer[y][t] > 0
         /\ kk.timer[y][t] > 0 => OneTimer(kk, PopEvent(kk, y, t), y, t)
<1>1. kk.timer \in [TimerType -> [Thread -> Nat]] /\ kk.timer[y][t] \in Nat
  BY DEF Kernel
<1>2. ASSUME NEW n \in Nat
      PROVE  LET k2 == [kk EXCEPT !.timer = [kk.timer EXCEPT ![y][t] = n]]
             IN  OneTimer(kk, k2, y, t) /\ k2.timer[y][t] = n
  <2> DEFINE tm == [kk.timer EXCEPT ![y][t] = n]
             k2 == [kk EXCEPT !.timer = tm]
  <2>1. /\ tm \in [TimerType -> [Thread -> Nat]] /\ tm[y][t] = n
        /\ \A u \in Thread \ {t} : \A z \in TimerType : tm[z][u] = kk.timer[z][u]
        /\ \A z \in TimerType \ {y} : tm[z] = kk.timer[z]
    BY <1>1
  <2> HIDE DEF tm
  <2>2. /\ k2.st = kk.st /\ k2.wait = kk.wait /\ k2.timer = tm /\ k2.ret = kk.ret
        /\ k2.wakeup = kk.wakeup /\ k2.joiners = kk.joiners /\ k2 \in Kernel
    BY <2>1 DEF Kernel
  <2> HIDE DEF k2
  <2>3. OneTimer(kk, k2, y, t) /\ k2.timer[y][t] = n
    BY <2>1, <2>2 DEF OneTimer
  <2> QED BY <2>3 DEF k2, tm
<1>3. /\ UnscheduleEvent(kk, y, t) = [kk EXCEPT !.timer = [kk.timer EXCEPT ![y][t] = 0]]
      /\ ScheduleEvent(kk, y, t) =
           [kk EXCEPT !.timer = [kk.timer EXCEPT ![y][t] = kk.timer[y][t] + 1]]
      /\ PopEvent(kk, y, t) =
           [kk EXCEPT !.timer = [kk.timer EXCEPT ![y][t] = kk.timer[y][t] - 1]]
  BY <1>1 DEF UnscheduleEvent, ScheduleEvent, PopEvent, Kernel
<1>4. OneTimer(kk, UnscheduleEvent(kk, y, t), y, t)
  BY <1>2, <1>3
<1>5. OneTimer(kk, ScheduleEvent(kk, y, t), y, t) /\ ScheduleEvent(kk, y, t).timer[y][t] > 0
  <2> DEFINE n == kk.timer[y][t] + 1
  <2>1. n \in Nat /\ n > 0
    BY <1>1
  <2> HIDE DEF n
  <2>2. LET k2 == [kk EXCEPT !.timer = [kk.timer EXCEPT ![y][t] = n]]
        IN  OneTimer(kk, k2, y, t) /\ k2.timer[y][t] = n
    BY <1>2, <2>1
  <2>3. ScheduleEvent(kk, y, t) = [kk EXCEPT !.timer = [kk.timer EXCEPT ![y][t] = n]]
    BY <1>3 DEF n
  <2> QED BY <2>1, <2>2, <2>3
<1>6. ASSUME kk.timer[y][t] > 0 PROVE OneTimer(kk, PopEvent(kk, y, t), y, t)
  <2> DEFINE n == kk.timer[y][t] - 1
  <2>1. n \in Nat
    BY <1>1, <1>6
  <2>2. PopEvent(kk, y, t) = [kk EXCEPT !.timer = [kk.timer EXCEPT ![y][t] = n]]
    BY <1>3
  <2> HIDE DEF n
  <2> QED BY <1>2, <2>1, <2>2
<1> QED BY <1>4, <1>5, <1>6

LEMMA OneTimerKept ==
  ASSUME NEW kk \in Kernel, NEW k2, NEW y \in TimerType, NEW t \in Thread,
         OneTimer(kk, k2, y, t)
  PROVE  \A u \in Thread \ {t} : Kept(kk, k2, u)
BY KeptSame DEF OneTimer

LEMMA UnscheduleKept ==
  ASSUME NEW kk, KernelInv(kk), NEW y \in TimerType, NEW t \in Thread
  PROVE  LET k2 == UnscheduleEvent(kk, y, t)
         IN  /\ KernelInv(k2) /\ OneTimer(kk, k2, y, t)
             /\ \A u \in Thread \ {t} : Kept(kk, k2, u)
<1> DEFINE k2 == UnscheduleEvent(kk, y, t)
<1>1. kk \in Kernel
  BY DEF KernelInv
<1>2. OneTimer(kk, k2, y, t) /\ KernelInv(k2)
  BY <1>1, OneTimerOps, UnscheduleInv
<1> HIDE DEF k2
<1>3. \A u \in Thread \ {t} : Kept(kk, k2, u)
  BY <1>1, <1>2, OneTimerKept
<1> QED BY <1>2, <1>3 DEF k2

\* Waking a joiner w of t.
LEMMA JoinerQuiet ==
  ASSUME NEW kk, KernelInv(kk), EndShapes(kk), NEW t \in Thread, NEW w \in Thread
  PROVE  LET k2 == ResumeJoiner(kk, t, w)
         IN  Quiet(kk, k2) /\ ~isWaitingFor(k2, w, "THREADEND", t)
<1>1. CASE VerifyWait(kk, w, "THREADEND", t)
  <2> DEFINE k1 == UnscheduleEvent(kk, "THREADEND", w)
             k2 == KernelResumeThreadFromWait(k1, w, "exited")
  <2>1. "THREADEND" \in TimerType /\ "exited" \in Result
    BY DEF TimerType, Result
  <2>2. /\ KernelInv(k1) /\ k1.st = kk.st /\ k1.wait = kk.wait
        /\ k1.wakeup = kk.wakeup /\ k1.joiners = kk.joiners
        /\ \A u \in Thread \ {w} : Kept(kk, k1, u)
    BY <2>1, UnscheduleKept DEF OneTimer
  <2>3. k2 = ResumeJoiner(kk, t, w)
    BY <1>1 DEF ResumeJoiner
  <2>4. kk.wait[w].type = "THREADEND"
    BY <1>1, UidAssumption DEF VerifyWait, KernelGetWaitID
  <2> HIDE DEF k1
  <2>5. Gone(k1, w) => k1.st[w] \in {{"DORMANT"}, {"DEAD"}}
    BY <2>2 DEF EndShapes, Gone
  <2>6. Quiet(k1, k2) /\ ~Waits(k2, w)
    BY <2>1, <2>2, <2>5, ResumeThreadQuiet
  <2>7. "RUNNING" \notin k1.st[w]
    BY <2>2, <2>4 DEF KernelInv, ThreadInv, StatusShape
  <2>8. KernelInv(k2)
    BY <2>1, <2>2, <2>7, ResumeThreadInv
  <2> HIDE DEF k2
  <2>9. kk \in Kernel /\ k1 \in Kernel /\ k2 \in Kernel
    BY <2>2, <2>8 DEF KernelInv
  <2>10. Kept(kk, k2, w)
    BY <2>2, <2>6 DEF Quiet, Kept, isWaitingFor, Waits, Gone
  <2>11. \A u \in Thread \ {w} : Kept(kk, k2, u)
    BY <2>2, <2>6, <2>9, KeptTransitive DEF Quiet
  <2>12. Quiet(kk, k2)
    BY <2>2, <2>6, <2>10, <2>11 DEF Quiet
  <2> QED BY <2>3, <2>6, <2>12 DEF isWaitingFor, Waits
<1>2. CASE ~VerifyWait(kk, w, "THREADEND", t)
  <2>1. ResumeJoiner(kk, t, w) = kk /\ kk \in Kernel
    BY <1>2 DEF ResumeJoiner, KernelInv
  <2>2. Quiet(kk, kk)
    BY <2>1, SameQuiet
  <2>3. ~isWaitingFor(kk, w, "THREADEND", t)
    BY <1>2 DEF isWaitingFor, VerifyWait, KernelGetWaitID, Exists, EndShapes, Gone
  <2> QED BY <2>1, <2>2, <2>3
<1> QED BY <1>1, <1>2

\* After the loop no joiner that was listed waits for t.
LEMMA JoinersQuiet ==
  ASSUME NEW kk, KernelInv(kk), EndShapes(kk), NEW t \in Thread
  PROVE  LET k2 == ResumeJoiners(kk, t)
         IN  /\ Quiet(kk, k2)
             /\ \A w \in Thread : Holds(kk.joiners[t], w) =>
                                    ~isWaitingFor(k2, w, "THREADEND", t)
<1> DEFINE s == kk.joiners[t]
           n == Len(s)
<1>1. n \in Nat /\ (\A i \in 1..n : s[i] \in Thread) /\ kk \in Kernel
  BY DEF KernelInv, Kernel
<1>2. PICK after : JoinersLoop(kk, t, after)
  BY <1>1, JoinersLoopExists
<1>3. \A i \in 0..n : KernelInv(after[i])
  BY <1>2, JoinersRounds
<1>4. /\ after[0] = kk /\ ResumeJoiners(kk, t) = after[n]
      /\ \A i \in 1..n : after[i] = ResumeJoiner(after[i - 1], t, s[i])
  BY <1>2 DEF JoinersLoop
<1>5. \A w : Holds(kk.joiners[t], w) <=> \E i \in 1..n : s[i] = w
  BY DEF Holds
<1> HIDE DEF s, n
<1> DEFINE Served(m) == \A i \in 1..m : ~isWaitingFor(after[m], s[i], "THREADEND", t)
           G == {m \in 0..n : Quiet(kk, after[m]) /\ EndShapes(after[m]) /\ Served(m)}
<1>6. 0 \in G
  BY <1>1, <1>4, SameQuiet
<1>7. ASSUME NEW m \in 1..n, m - 1 \in G PROVE m \in G
  <2> DEFINE a == after[m - 1]
             b == after[m]
  <2>1. /\ KernelInv(a) /\ KernelInv(b) /\ a \in Kernel /\ b \in Kernel
        /\ Quiet(kk, a) /\ EndShapes(a) /\ Served(m - 1)
    BY <1>1, <1>3, <1>7 DEF KernelInv
  <2>2. b = ResumeJoiner(a, t, s[m]) /\ s[m] \in Thread
    BY <1>1, <1>4
  <2>3. \A i \in 1..(m - 1) : ~isWaitingFor(a, s[i], "THREADEND", t)
    BY <2>1
  <2> HIDE DEF a, b, Served
  <2>4. Quiet(a, b) /\ ~isWaitingFor(b, s[m], "THREADEND", t)
    BY <2>1, <2>2, JoinerQuiet
  <2>5. Quiet(kk, b) /\ EndShapes(b)
    BY <1>1, <2>1, <2>4, QuietTransitive, EndShapesKept DEF Quiet
  <2>6. ASSUME NEW i \in 1..m PROVE ~isWaitingFor(b, s[i], "THREADEND", t)
    <3>1. CASE i = m
      BY <2>4, <3>1
    <3>2. CASE i # m
      <4>1. ~isWaitingFor(a, s[i], "THREADEND", t) /\ s[i] \in Thread
        BY <1>1, <2>3, <3>2
      <4> QED BY <2>4, <4>1 DEF Quiet, Kept, isWaitingFor, Waits
    <3> QED BY <3>1, <3>2
  <2> QED BY <2>5, <2>6 DEF Served, b
<1> HIDE DEF G
<1>8. \A m \in 1..n : m - 1 \in G => m \in G
  BY <1>7
<1>9. \A m \in 0..n : m \in G
  BY <1>1, <1>6, <1>8, SetInduction
<1>10. n \in G
  BY <1>1, <1>9
<1> QED BY <1>4, <1>5, <1>10 DEF G

\* __KernelStopThread() up to the listeners: nobody but t notices.
LEMMA StopBeginKept ==
  ASSUME NEW kk, KernelInv(kk), EndShapes(kk), NEW t \in User
  PROVE  LET k2 == KernelStopThreadBegin(kk, t)
         IN  /\ EndShapes(k2) /\ k2.joiners = kk.joiners
             /\ \A u \in Thread \ {t} : Kept(kk, k2, u)
<1> DEFINE unready == KernelChangeReadyState(kk, t, FALSE)
           dormant == [unready EXCEPT !.st[t] = {"DORMANT"}]
           timed == UnscheduleEvent(dormant, "DELAY", t)
           fired == UnscheduleEvent(timed, "THREADEND", t)
<1>1. t \in Thread /\ kk \in Kernel
  BY DEF Thread, KernelInv
<1>2. unready \in Kernel /\ unready = [kk EXCEPT !.rq = unready.rq]
  BY <1>1, UnreadyOff DEF InvBut
<1>3. fired = KernelStopThreadBegin(kk, t)
  BY DEF KernelStopThreadBegin, KernelFireThreadEnd
<1> HIDE DEF unready
<1>4. /\ dormant.st = [kk.st EXCEPT ![t] = {"DORMANT"}] /\ WaitsSame(kk, dormant)
      /\ dormant \in Kernel
  BY <1>1, <1>2 DEF Kernel, WaitsSame, StatusBits
<1> HIDE DEF dormant
<1>5. OneTimer(dormant, timed, "DELAY", t)
  BY <1>1, <1>4, OneTimerOps DEF TimerType
<1>6. OneTimer(timed, fired, "THREADEND", t)
  <2>1. timed \in Kernel /\ "THREADEND" \in TimerType
    BY <1>5 DEF OneTimer, TimerType
  <2> QED BY <1>1, <2>1, OneTimerOps
<1> HIDE DEF timed, fired
<1>7. /\ fired.st = dormant.st /\ fired.wait = dormant.wait
      /\ fired.wakeup = dormant.wakeup /\ fired.joiners = dormant.joiners
      /\ \A u \in Thread \ {t} : \A z \in TimerType : fired.timer[z][u] = dormant.timer[z][u]
  BY <1>5, <1>6 DEF OneTimer
<1>8. fired.st[t] = {"DORMANT"} /\ \A u \in Thread \ {t} : fired.st[u] = kk.st[u]
  BY <1>1, <1>4, <1>7 DEF Kernel
<1>9. \A u \in Thread \ {t} : Kept(kk, fired, u)
  <2> SUFFICES ASSUME NEW u \in Thread \ {t} PROVE Kept(kk, fired, u)
    OBVIOUS
  <2>1. /\ fired.st[u] = kk.st[u] /\ fired.wait[u] = kk.wait[u]
        /\ fired.wakeup[u] = kk.wakeup[u]
        /\ \A z \in TimerType : fired.timer[z][u] = kk.timer[z][u]
    BY <1>4, <1>7, <1>8 DEF WaitsSame
  <2> QED BY <1>1, <2>1, KeptSame
<1>10. EndShapes(fired)
  BY <1>8 DEF EndShapes, Gone
<1> QED BY <1>3, <1>4, <1>7, <1>9, <1>10 DEF WaitsSame

\* The rest of __KernelStopThread(): the joiners that are listed are let go.
LEMMA StopEndKept ==
  ASSUME NEW kk, KernelInv(kk), EndShapes(kk), NEW t \in User, kk.st[t] = {"DORMANT"}
  PROVE  LET k2 == KernelStopThreadEnd(kk, t)
         IN  /\ k2.st[t] = {"DORMANT"}
             /\ \A u \in Thread \ {t} : Kept(kk, k2, u) /\ k2.joiners[u] = kk.joiners[u]
             /\ \A w \in Thread : Holds(kk.joiners[t], w) =>
                                    ~isWaitingFor(k2, w, "THREADEND", t)
<1> DEFINE k1 == ResumeJoiners(kk, t)
           k2 == [k1 EXCEPT !.joiners[t] = <<>>, !.wait[t] = NoWait]
<1>1. t \in Thread
  BY DEF Thread
<1>2. KernelInv(k1) /\ Calm(kk, k1) /\ k1 \in Kernel /\ kk \in Kernel
  BY <1>1, JoinersInv DEF KernelInv
<1>3. /\ Quiet(kk, k1)
      /\ \A w \in Thread : Holds(kk.joiners[t], w) => ~isWaitingFor(k1, w, "THREADEND", t)
  BY <1>1, JoinersQuiet
<1>4. k2 = KernelStopThreadEnd(kk, t)
  BY DEF KernelStopThreadEnd
<1> HIDE DEF k1
<1>5. k1.st[t] = {"DORMANT"}
  BY <1>1, <1>2 DEF Calm
<1>6. /\ k2.st = k1.st /\ k2.timer = k1.timer /\ k2.wakeup = k1.wakeup
      /\ k2.wait = [k1.wait EXCEPT ![t] = NoWait]
      /\ k2.joiners = [k1.joiners EXCEPT ![t] = <<>>]
  BY <1>2 DEF Kernel
<1> HIDE DEF k2
<1>7. \A u \in Thread \ {t} : /\ k2.wait[u] = k1.wait[u]
                              /\ k2.joiners[u] = k1.joiners[u]
  BY <1>1, <1>2, <1>6 DEF Kernel
<1>8. ASSUME NEW u \in Thread \ {t}
      PROVE  Kept(kk, k2, u) /\ k2.joiners[u] = kk.joiners[u]
  <2>1. Kept(kk, k1, u) /\ k1.joiners = kk.joiners
    BY <1>3 DEF Quiet
  <2> QED BY <1>6, <1>7, <2>1 DEF Kept, isWaitingFor, Waits, Gone
<1>9. ASSUME NEW w \in Thread, Holds(kk.joiners[t], w)
      PROVE  ~isWaitingFor(k2, w, "THREADEND", t)
  <2>1. CASE w = t
    BY <1>5, <1>6, <2>1 DEF isWaitingFor
  <2>2. CASE w # t
    BY <1>3, <1>6, <1>7, <1>9, <2>2 DEF isWaitingFor
  <2> QED BY <2>1, <2>2
<1> QED BY <1>4, <1>5, <1>6, <1>8, <1>9

\* t is stopped: afterwards nobody waits for its end.
NobodyJoins(kk, t) ==
  \A u \in Thread \ {t} :
    ~(Waits(kk, u) /\ kk.wait[u].type = "THREADEND" /\ kk.wait[u].id = t)

\* What the end of t leaves of the waits of the others.
Leaves(kk, stopped, t) ==
  /\ NobodyJoins(stopped, t)
  /\ \A u \in Thread \ {t} : Kept(kk, stopped, u) /\ stopped.joiners[u] = kk.joiners[u]

LEMMA HeardKept ==
  ASSUME NEW kk, KernelInv(kk), WaitInv(kk), NEW t \in User, NEW k1, KernelInv(k1),
         Calm(KernelStopThreadBegin(kk, t), k1), Quiet(KernelStopThreadBegin(kk, t), k1)
  PROVE  Leaves(kk, KernelStopThreadEnd(k1, t), t)
<1> DEFINE fired == KernelStopThreadBegin(kk, t)
           k2 == KernelStopThreadEnd(k1, t)
<1>1. t \in Thread /\ kk \in Kernel /\ EndShapes(kk)
  BY DEF Thread, KernelInv, WaitInv, OwnWait, EndShapes
<1>2. KernelInv(fired) /\ fired.st[t] = {"DORMANT"}
  BY StopBeginInv
<1>3. /\ EndShapes(fired) /\ fired.joiners = kk.joiners
      /\ \A u \in Thread \ {t} : Kept(kk, fired, u)
  BY <1>1, StopBeginKept
<1> HIDE DEF fired
<1>4. Quiet(fired, k1) /\ k1.st[t] = {"DORMANT"}
  BY <1>1, <1>2 DEF Calm, fired
<1>5. EndShapes(k1) /\ k1.joiners = kk.joiners
  BY <1>3, <1>4, EndShapesKept DEF Quiet
<1>6. fired \in Kernel /\ k1 \in Kernel /\ KernelInv(k2)
  BY <1>2, <1>4, StopEndInv DEF KernelInv
<1>7. /\ \A u \in Thread \ {t} : Kept(k1, k2, u) /\ k2.joiners[u] = k1.joiners[u]
      /\ \A w \in Thread : Holds(k1.joiners[t], w) =>
                             ~isWaitingFor(k2, w, "THREADEND", t)
  BY <1>4, <1>5, StopEndKept
<1> HIDE DEF k2
<1>8. k2 \in Kernel
  BY <1>6 DEF KernelInv
<1>9. \A u \in Thread \ {t} : Kept(kk, k2, u) /\ k2.joiners[u] = kk.joiners[u]
  <2> SUFFICES ASSUME NEW u \in Thread \ {t}
               PROVE  Kept(kk, k2, u) /\ k2.joiners[u] = kk.joiners[u]
    OBVIOUS
  <2>1. Kept(kk, fired, u) /\ Kept(fired, k1, u) /\ Kept(k1, k2, u)
    BY <1>3, <1>4, <1>7 DEF Quiet
  <2>2. Kept(kk, k1, u)
    BY <1>1, <1>6, <2>1, KeptTransitive
  <2>3. Kept(kk, k2, u)
    BY <1>1, <1>6, <1>8, <2>1, <2>2, KeptTransitive
  <2> QED BY <1>5, <1>7, <2>3
<1>10. NobodyJoins(k2, t)
  <2> SUFFICES ASSUME NEW u \in Thread \ {t}, Waits(k2, u),
                      k2.wait[u].type = "THREADEND", k2.wait[u].id = t
               PROVE  FALSE
    BY DEF NobodyJoins
  <2>1. Waits(kk, u) /\ kk.wait[u] = k2.wait[u]
    BY <1>9 DEF Kept
  <2>2. Holds(kk.joiners[t], u)
    BY <2>1 DEF WaitInv, JoinRight
  <2>3. ~isWaitingFor(k2, u, "THREADEND", t)
    BY <1>5, <1>7, <2>2
  <2> QED BY <2>3 DEF isWaitingFor, Waits
<1> QED BY <1>9, <1>10 DEF Leaves, k2

LEMMA StopKept ==
  ASSUME NEW kk, KernelInv(kk), WaitInv(kk), NEW t \in User
  PROVE  Leaves(kk, KernelStopThread(kk, t), t)
<1> DEFINE fired == KernelStopThreadBegin(kk, t)
<1>1. KernelInv(fired)
  BY StopBeginInv
<1>2. Calm(fired, fired) /\ Quiet(fired, fired)
  BY <1>1, SameQuiet DEF Calm, KernelInv
<1> HIDE DEF fired
<1>3. Leaves(kk, KernelStopThreadEnd(fired, t), t)
  BY <1>1, <1>2, HeardKept DEF fired
<1> QED BY <1>3 DEF KernelStopThread, fired

\* The stopped thread is deleted.
LEMMA DeletedKept ==
  ASSUME NEW stopped, KernelInv(stopped), NEW t \in User
  PROVE  LET k2 == KernelDeleteThread(stopped, t)
         IN  /\ k2.st[t] = {"DEAD"} /\ k2.joiners = stopped.joiners
             /\ \A u \in Thread \ {t} : Kept(stopped, k2, u) /\ k2.wait[u] = stopped.wait[u]
<1> DEFINE removed == remove(stopped, stopped.prio[t], t)
           k2 == [removed EXCEPT !.cur = IF @ = t THEN NoThread ELSE @,
                                 !.st[t] = {"DEAD"},
                                 !.wakeup[t] = 0, !.ret[t] = "none"]
<1>1. t \in Thread /\ stopped \in Kernel
  BY DEF Thread, KernelInv
<1>2. k2 = KernelDeleteThread(stopped, t)
  BY DEF KernelDeleteThread
<1>3. removed = [stopped EXCEPT !.rq = removed.rq]
  BY <1>1 DEF remove, Kernel
<1> HIDE DEF removed
<1>4. /\ k2.st = [stopped.st EXCEPT ![t] = {"DEAD"}]
      /\ k2.wakeup = [stopped.wakeup EXCEPT ![t] = 0]
      /\ k2.wait = stopped.wait /\ k2.timer = stopped.timer
      /\ k2.joiners = stopped.joiners
  BY <1>1, <1>3 DEF Kernel
<1> HIDE DEF k2
<1>5. k2.st[t] = {"DEAD"}
  BY <1>1, <1>4 DEF Kernel
<1>6. \A u \in Thread \ {t} : k2.st[u] = stopped.st[u] /\ k2.wakeup[u] = stopped.wakeup[u]
  BY <1>1, <1>4 DEF Kernel
<1>7. \A u \in Thread \ {t} : Kept(stopped, k2, u)
  BY <1>1, <1>4, <1>6, KeptSame
<1> QED BY <1>2, <1>4, <1>5, <1>7

-----------------------------------------------------------------------------
(* The steps.  Next to the invariant each one leaves alone the waits for the   *)
(* kernel objects: nobody begins one, and nobody stays in one with another     *)
(* wait record or another timer.                                               *)

ObjWaits(kk, k2) ==
  \A u \in Thread :
    Waits(k2, u) /\ k2.wait[u].type \in ObjWait =>
      /\ Waits(kk, u) /\ k2.wait[u] = kk.wait[u]
      /\ \A y \in ObjWait : k2.timer[y][u] = kk.timer[y][u]

Fine(kk, k2) == WaitInv(k2) /\ ObjWaits(kk, k2)

LEMMA ObjTimers == ObjWait \subseteq TimerType
BY DEF ObjWait, TimerType

LEMMA QuietFine ==
  ASSUME NEW kk \in Kernel, NEW k2 \in Kernel, WaitInv(kk), Quiet(kk, k2)
  PROVE  Fine(kk, k2)
BY QuietInv, ObjTimers DEF Fine, ObjWaits, Quiet, Kept

LEMMA FineQuiet ==
  ASSUME NEW k1 \in Kernel, NEW k2 \in Kernel, NEW k3 \in Kernel,
         Fine(k1, k2), Quiet(k2, k3)
  PROVE  Fine(k1, k3)
BY QuietInv, ObjTimers DEF Fine, ObjWaits, Quiet, Kept

\* A quiet change before a step that is fine.
LEMMA QuietThenFine ==
  ASSUME NEW k1 \in Kernel, NEW k2 \in Kernel, NEW k3 \in Kernel,
         Quiet(k1, k2), Fine(k2, k3)
  PROVE  Fine(k1, k3)
BY ObjTimers DEF Fine, ObjWaits, Quiet, Kept

LEMMA EndedFine ==
  ASSUME NEW kk \in Kernel, NEW k2 \in Kernel, WaitInv(kk), NEW t \in Thread,
         k2.st[t] \in {{"DORMANT"}, {"DEAD"}},
         \A u \in Thread \ {t} : Kept(kk, k2, u) /\ k2.joiners[u] = kk.joiners[u],
         NobodyJoins(k2, t)
  PROVE  Fine(kk, k2)
<1>1. WaitInv(k2)
  BY EndedInv DEF NobodyJoins
<1>2. ObjWaits(kk, k2)
  BY ObjTimers DEF ObjWaits, Kept, Waits
<1> QED BY <1>1, <1>2 DEF Fine

\* t has been stopped; and then deleted.
LEMMA StoppedFine ==
  ASSUME NEW kk \in Kernel, WaitInv(kk), NEW t \in User, NEW stopped,
         Stops(kk, stopped, t), Leaves(kk, stopped, t)
  PROVE  stopped \in Kernel /\ Fine(kk, stopped)
<1>1. stopped \in Kernel /\ t \in Thread
  BY DEF Stops, KernelInv, Thread
<1> QED BY <1>1, EndedFine DEF Stops, Leaves

LEMMA DeletedFine ==
  ASSUME NEW kk \in Kernel, WaitInv(kk), NEW t \in User, NEW stopped,
         Stops(kk, stopped, t), Leaves(kk, stopped, t)
  PROVE  LET k2 == KernelDeleteThread(stopped, t)
         IN  k2 \in Kernel /\ Fine(kk, k2)
<1> DEFINE k2 == KernelDeleteThread(stopped, t)
<1>1. /\ NobodyJoins(stopped, t) /\ KernelInv(stopped)
      /\ \A u \in Thread \ {t} : Kept(kk, stopped, u)
                                 /\ stopped.joiners[u] = kk.joiners[u]
  BY DEF Stops, Leaves
<1>2. KernelInv(k2)
  BY DeleteInv
<1>3. /\ k2.st[t] = {"DEAD"} /\ k2.joiners = stopped.joiners
      /\ \A u \in Thread \ {t} : Kept(stopped, k2, u) /\ k2.wait[u] = stopped.wait[u]
  BY <1>1, DeletedKept
<1> HIDE DEF k2
<1>4. k2 \in Kernel /\ stopped \in Kernel /\ t \in Thread
  BY <1>1, <1>2 DEF KernelInv, Thread
<1>5. \A u \in Thread \ {t} : Kept(kk, k2, u) /\ k2.joiners[u] = kk.joiners[u]
  BY <1>1, <1>3, <1>4, KeptTransitive
<1>6. NobodyJoins(k2, t)
  BY <1>1, <1>3 DEF NobodyJoins, Kept
<1>7. Fine(kk, k2)
  BY <1>3, <1>4, <1>5, <1>6, EndedFine
<1> QED BY <1>4, <1>7 DEF k2

\* The current thread begins the wait w, which is none for a kernel object.
LEMMA AsleepFine ==
  ASSUME NEW kk \in Kernel, NEW k2, NEW w, WaitInv(kk), Asleep(kk, k2, w),
         kk.cur \in Thread, w.type \notin ObjWait,
         w.type = "SLEEP" => kk.wakeup[kk.cur] = 0,
         w.type = "DELAY" => kk.timer["DELAY"][kk.cur] > 0,
         w.type = "THREADEND" =>
           /\ w.id \in Thread /\ w.id # kk.cur /\ ~Gone(kk, w.id)
           /\ Holds(kk.joiners[w.id], kk.cur)
           /\ w.timed => kk.timer["THREADEND"][kk.cur] > 0
  PROVE  Fine(kk, k2)
<1>1. WaitInv(k2)
  BY AsleepInv
<1> DEFINE t == kk.cur
<1>2. /\ k2.wait[t] = w
      /\ \A u \in Thread \ {t} : k2.st[u] = kk.st[u] /\ k2.wait[u] = kk.wait[u]
      /\ k2.timer = kk.timer
  BY DEF Asleep, Kernel
<1> HIDE DEF t
<1>3. ObjWaits(kk, k2)
  BY <1>2 DEF ObjWaits, Waits
<1> QED BY <1>1, <1>3 DEF Fine

-----------------------------------------------------------------------------
LEMMA CreateFine ==
  ASSUME Inv, WaitInv(k), NEW t \in User, NEW p \in UserPrio, sceKernelCreateThread(t, p)
  PROVE  Fine(k, k')
<1> DEFINE k1 == [KernelCreateThreadObject(k, t, p) EXCEPT !.disp = TRUE]
<1>1. k \in Kernel /\ "DEAD" \in k.st[t] /\ k' = hleReSchedule(k1)
  BY InCall DEF sceKernelCreateThread, Exists
<1>2. t \in Thread /\ p \in Prio /\ k' \in Kernel
  BY CreateStep DEF Good, KernelInv, Thread, Prio
<1>3. /\ k1.st = [k.st EXCEPT ![t] = {"DORMANT"}] /\ k1.wait = [k.wait EXCEPT ![t] = NoWait]
      /\ k1.wakeup = [k.wakeup EXCEPT ![t] = 0] /\ k1.timer = k.timer
      /\ k1.joiners = [k.joiners EXCEPT ![t] = <<>>] /\ k1 \in Kernel
  <2>1. /\ [k.st EXCEPT ![t] = {"DORMANT"}] \in [Thread -> SUBSET StatusBits]
        /\ [k.prio EXCEPT ![t] = p] \in [Thread -> Prio]
        /\ [k.initp EXCEPT ![t] = p] \in [Thread -> Prio]
        /\ [k.wait EXCEPT ![t] = NoWait] \in [Thread -> Wait]
    BY <1>1, <1>2 DEF Kernel, StatusBits, NoWait, Wait, WaitType, ObjWait
  <2>2. /\ [k.ret EXCEPT ![t] = "none"] \in [Thread -> Result]
        /\ [k.wakeup EXCEPT ![t] = 0] \in [Thread -> Nat]
    BY <1>1, <1>2 DEF Kernel, Result
  <2>4. [k.joiners EXCEPT ![t] = <<>>] \in [Thread -> Seq(Thread)]
    BY <1>1, <1>2 DEF Kernel
  <2>3. k1 = [k EXCEPT !.st = [k.st EXCEPT ![t] = {"DORMANT"}],
                       !.prio = [k.prio EXCEPT ![t] = p],
                       !.initp = [k.initp EXCEPT ![t] = p],
                       !.wait = [k.wait EXCEPT ![t] = NoWait],
                       !.ret = [k.ret EXCEPT ![t] = "none"],
                       !.wakeup = [k.wakeup EXCEPT ![t] = 0],
                       !.joiners = [k.joiners EXCEPT ![t] = <<>>],
                       !.disp = TRUE]
    BY <1>1 DEF KernelCreateThreadObject, Kernel
  <2> HIDE DEF k1
  <2> QED BY <1>1, <2>1, <2>2, <2>3, <2>4 DEF Kernel
<1> HIDE DEF k1
<1>4. /\ k1.st[t] = {"DORMANT"}
      /\ \A u \in Thread \ {t} : /\ k1.st[u] = k.st[u] /\ k1.wait[u] = k.wait[u]
                                 /\ k1.wakeup[u] = k.wakeup[u]
                                 /\ k1.joiners[u] = k.joiners[u]
  <2>1. /\ k.st \in [Thread -> SUBSET StatusBits] /\ k.wait \in [Thread -> Wait]
        /\ k.wakeup \in [Thread -> Nat] /\ k.joiners \in [Thread -> Seq(Thread)]
    BY <1>1 DEF Kernel
  <2> QED BY <1>2, <1>3, <2>1
<1>5. \A u \in Thread \ {t} : Kept(k, k1, u)
  BY <1>1, <1>3, <1>4, KeptSame
<1>6. NobodyJoins(k1, t)
  BY <1>1, <1>4 DEF NobodyJoins, WaitInv, JoinRight, Waits, Gone
<1>7. Fine(k, k1)
  BY <1>1, <1>2, <1>3, <1>4, <1>5, <1>6, EndedFine
<1> QED BY <1>1, <1>2, <1>3, <1>7, hleReScheduleQuiet, FineQuiet

LEMMA StartFine ==
  ASSUME Inv, WaitInv(k), NEW t \in User, sceKernelStartThread(t)
  PROVE  Fine(k, k')
<1> DEFINE c == k.cur
           reset == KernelResetThread(k, t, k.prio[c])
           ready == KernelChangeReadyState(reset, c, TRUE)
           yielded == IF reset.prio[t] < k.prio[c] THEN hleReSchedule(ready)
                      ELSE [reset EXCEPT !.disp = TRUE]
<1>1. /\ k \in Kernel /\ c \in Thread /\ k.st[t] = {"DORMANT"}
      /\ k' = KernelChangeReadyState(yielded, t, TRUE)
  BY InCall DEF sceKernelStartThread
<1>2. t \in Thread
  BY DEF Thread
<1>3. reset \in Kernel /\ Quiet(k, reset)
  <2> DEFINE q == IF k.prio[t] < k.prio[c] THEN k.initp[t] ELSE k.prio[t]
  <2>1. q \in Prio
    BY <1>1, <1>2 DEF Kernel
  <2>2. reset = [k EXCEPT !.prio = [k.prio EXCEPT ![t] = q],
                          !.wait = [k.wait EXCEPT ![t] = NoWait],
                          !.ret = [k.ret EXCEPT ![t] = "none"]]
    BY <1>1 DEF KernelResetThread, Kernel
  <2> HIDE DEF q, reset
  <2>3. /\ [k.prio EXCEPT ![t] = q] \in [Thread -> Prio]
        /\ [k.wait EXCEPT ![t] = NoWait] \in [Thread -> Wait]
        /\ [k.ret EXCEPT ![t] = "none"] \in [Thread -> Result]
    BY <1>1, <1>2, <2>1 DEF Kernel, NoWait, Wait, WaitType, ObjWait, Result
  <2>4. /\ reset \in Kernel /\ reset.st = k.st /\ reset.timer = k.timer
        /\ reset.wakeup = k.wakeup /\ reset.joiners = k.joiners
        /\ reset.wait = [k.wait EXCEPT ![t] = NoWait]
    BY <1>1, <2>2, <2>3 DEF Kernel
  <2>5. \A u \in Thread \ {t} : reset.wait[u] = k.wait[u]
    BY <1>1, <2>4 DEF Kernel
  <2>6. \A u \in Thread \ {t} : Kept(k, reset, u)
    BY <1>1, <2>4, <2>5, KeptSame
  <2>7. Kept(k, reset, t)
    BY <1>1, <2>4 DEF Kept, isWaitingFor, Waits
  <2> QED BY <2>4, <2>6, <2>7 DEF Quiet
<1> HIDE DEF reset
<1>4. yielded \in Kernel /\ Quiet(reset, yielded)
  <2>1. CASE reset.prio[t] < k.prio[c]
    <3>1. ready \in Kernel /\ Quiet(reset, ready)
      BY <1>1, <1>3, ReadyQuiet
    <3>2. yielded = hleReSchedule(ready)
      BY <2>1
    <3> HIDE DEF ready, yielded
    <3> QED BY <1>3, <3>1, <3>2, hleReScheduleQuiet, QuietTransitive
  <2>2. CASE ~(reset.prio[t] < k.prio[c])
    <3>1. yielded = [reset EXCEPT !.disp = TRUE]
      BY <2>2
    <3> HIDE DEF yielded
    <3>2. /\ yielded \in Kernel /\ yielded.st = reset.st /\ yielded.wait = reset.wait
          /\ yielded.timer = reset.timer /\ yielded.wakeup = reset.wakeup
          /\ yielded.joiners = reset.joiners
      BY <1>3, <3>1 DEF Kernel
    <3> QED BY <1>3, <3>2, SameQuiet
  <2> QED BY <2>1, <2>2
<1> HIDE DEF yielded
<1>5. k' \in Kernel /\ Quiet(yielded, k')
  BY <1>1, <1>2, <1>4, ReadyQuiet
<1>6. Quiet(k, k')
  BY <1>1, <1>3, <1>4, <1>5, QuietTransitive
<1> QED BY <1>1, <1>5, <1>6, QuietFine

\* How the kernel looks when t has ended.
LEMMA EndCases ==
  ASSUME NEW t, NEW stopped, ThreadEnds(t, stopped)
  PROVE  \/ k' = hleReSchedule(stopped)
         \/ k' = hleReSchedule(KernelDeleteThread(stopped, t))
         \/ k' = KernelDeleteThread(stopped, t)
         \/ k' = [stopped EXCEPT !.prio[t] = k.initp[t]]
BY DEF ThreadEnds, KernelReturnFromThread, sceKernelExitThread, sceKernelExitDeleteThread,
       sceKernelDeleteThread, sceKernelTerminateDeleteThread, sceKernelTerminateThread

LEMMA EndFine ==
  ASSUME Disciplined, Inv, WaitInv(k), NEW t \in User, NEW stopped,
         Stops(k, stopped, t), Leaves(k, stopped, t), ThreadEnds(t, stopped)
  PROVE  Good /\ Fine(k, k')
<1> SUFFICES Fine(k, k')
  BY EndStep
<1> DEFINE deleted == KernelDeleteThread(stopped, t)
<1>1. KernelInv(k) /\ k \in Kernel
  BY DEF Inv, KernelInv
<1>2. k' \in Kernel
  BY EndStep DEF Good, KernelInv
<1>3. /\ stopped \in Kernel /\ Fine(k, stopped)
      /\ deleted \in Kernel /\ Fine(k, deleted)
  BY <1>1, StoppedFine, DeletedFine
<1>4. \/ k' = hleReSchedule(stopped)
      \/ k' = hleReSchedule(deleted)
      \/ k' = deleted
      \/ k' = [stopped EXCEPT !.prio[t] = k.initp[t]]
  BY EndCases
<1> HIDE DEF deleted
<1>5. CASE k' = [stopped EXCEPT !.prio[t] = k.initp[t]]
  <2>1. /\ k'.st = stopped.st /\ k'.wait = stopped.wait /\ k'.timer = stopped.timer
        /\ k'.wakeup = stopped.wakeup /\ k'.joiners = stopped.joiners
    BY <1>3, <1>5 DEF Kernel
  <2>2. Quiet(stopped, k')
    BY <1>3, <2>1, SameQuiet
  <2> QED BY <1>1, <1>2, <1>3, <2>2, FineQuiet
<1>6. CASE k' = hleReSchedule(stopped)
  BY <1>1, <1>2, <1>3, <1>6, hleReScheduleQuiet, FineQuiet
<1>7. CASE k' = hleReSchedule(deleted)
  BY <1>1, <1>2, <1>3, <1>7, hleReScheduleQuiet, FineQuiet
<1> QED BY <1>3, <1>4, <1>5, <1>6, <1>7

LEMMA DispatchFine ==
  ASSUME Inv, WaitInv(k),
         sceKernelSuspendDispatchThread
           \/ \E enabled \in BOOLEAN : sceKernelResumeDispatchThread(enabled)
  PROVE  Fine(k, k')
<1>1. k \in Kernel /\ k' \in Kernel
  BY DispatchStep DEF Good, Inv, KernelInv
<1>2. PICK b \in BOOLEAN : LET k1 == [k EXCEPT !.disp = b]
                           IN  k' = k1 \/ k' = hleReSchedule(k1)
  BY DEF sceKernelSuspendDispatchThread, sceKernelResumeDispatchThread
<1> DEFINE k1 == [k EXCEPT !.disp = b]
<1>3. /\ k1 \in Kernel /\ k1.st = k.st /\ k1.wait = k.wait /\ k1.timer = k.timer
      /\ k1.wakeup = k.wakeup /\ k1.joiners = k.joiners
  BY <1>1 DEF Kernel
<1> HIDE DEF k1
<1>4. Quiet(k, k1) /\ Fine(k, k1)
  BY <1>1, <1>3, SameQuiet, QuietFine
<1> QED BY <1>1, <1>2, <1>3, <1>4, hleReScheduleQuiet, FineQuiet DEF k1

LEMMA RotateFine ==
  ASSUME Disciplined, Inv, WaitInv(k), NEW p \in UserPrio,
         sceKernelRotateThreadReadyQueue(p)
  PROVE  Fine(k, k')
<1> DEFINE c == k.cur
           k1 == KernelRotateThreadReadyQueue(k, p)
<1>1. /\ KernelInv(k) /\ k.cur \in User /\ k.st[k.cur] = {"RUNNING"} /\ k \in Kernel
      /\ c \in Thread /\ k' = hleReSchedule(k1)
  BY InCall DEF sceKernelRotateThreadReadyQueue, Disciplined
<1>2. k' \in Kernel /\ k1 \in Kernel /\ k1.st[c] \in {{"RUNNING"}, {"READY"}}
  BY <1>1, RotateStep, RotateInv DEF Good, KernelInv
<1>3. /\ WaitsSame(k, k1)
      /\ \A u \in Thread \ {c} : k1.st[u] = k.st[u]
  <2> DEFINE queued == push_back(k, p, c)
             s == (queued.st[c] \ {"RUNNING"}) \cup {"READY"}
  <2>1. queued = [k EXCEPT !.rq = queued.rq]
    BY <1>1 DEF push_back, Kernel
  <2>2. rotate(k, p) = [k EXCEPT !.rq = rotate(k, p).rq]
    BY <1>1 DEF rotate, Kernel
  <2>3. \/ k1 = k
        \/ k1 = [queued EXCEPT !.st[c] = s]
        \/ k1 = rotate(k, p)
    BY DEF KernelRotateThreadReadyQueue
  <2> HIDE DEF queued, k1, s
  <2>4. CASE k1 = [queued EXCEPT !.st[c] = s]
    <3>1. k1 = [k EXCEPT !.rq = queued.rq, !.st = [k.st EXCEPT ![c] = s]]
      BY <1>1, <2>1, <2>4 DEF Kernel
    <3>2. WaitsSame(k, k1) /\ k1.st = [k.st EXCEPT ![c] = s]
      BY <1>1, <3>1 DEF Kernel, WaitsSame
    <3> QED BY <1>1, <3>2 DEF Kernel
  <2>5. CASE k1 = k \/ k1 = rotate(k, p)
    BY <1>1, <2>2, <2>5, ZenonT(40) DEF Kernel, WaitsSame
  <2> QED BY <2>3, <2>4, <2>5
<1> HIDE DEF k1
<1>4. Kept(k, k1, c)
  BY <1>2, KeptActive DEF Waits, Gone
<1>5. \A u \in Thread \ {c} : Kept(k, k1, u)
  <2> SUFFICES ASSUME NEW u \in Thread \ {c} PROVE Kept(k, k1, u)
    OBVIOUS
  <2> QED BY <1>1, <1>3, KeptSame DEF WaitsSame
<1>6. Quiet(k, k1)
  BY <1>3, <1>4, <1>5 DEF Quiet, WaitsSame
<1>7. Fine(k, k1)
  BY <1>1, <1>2, <1>6, QuietFine
<1> QED BY <1>1, <1>2, <1>7, hleReScheduleQuiet, FineQuiet

LEMMA PriorityFine ==
  ASSUME Inv, WaitInv(k), NEW t \in User, NEW p \in UserPrio,
         sceKernelChangeThreadPriority(t, p)
  PROVE  Fine(k, k')
<1> DEFINE removed == remove(k, k.prio[t], t)
           moved == [removed EXCEPT !.prio[t] = p]
           s == (moved.st[t] \ {"RUNNING"}) \cup {"READY"}
           ready == IF "RUNNING" \in k.st[t] THEN [moved EXCEPT !.st[t] = s] ELSE moved
           queued == push_back(ready, p, t)
           k1 == KernelChangeThreadPriority(k, t, p)
<1>1. k \in Kernel /\ t \in Thread /\ KernelInv(k) /\ k' = hleReSchedule(k1)
  BY DEF Inv, KernelInv, sceKernelChangeThreadPriority, Thread
<1>2. k1 \in Kernel /\ k' \in Kernel
  BY <1>1, PriorityInv, PriorityStep DEF Good, KernelInv
<1>3. removed = [k EXCEPT !.rq = removed.rq]
  BY <1>1 DEF remove, Kernel
<1>4. k1 = queued \/ k1 = ready
  BY DEF KernelChangeThreadPriority
<1>5. moved.st = k.st /\ WaitsSame(k, moved)
  <2> HIDE DEF removed
  <2> QED BY <1>1, <1>3 DEF Kernel, WaitsSame
<1>6. WaitsSame(k, ready) /\ IF "RUNNING" \in k.st[t] THEN ready.st = [k.st EXCEPT ![t] = s]
                             ELSE ready.st = k.st
  <2>1. moved = [k EXCEPT !.rq = removed.rq, !.prio = moved.prio]
    <3> HIDE DEF removed
    <3> QED BY <1>1, <1>3 DEF Kernel
  <2> HIDE DEF moved, s
  <2> QED BY <1>1, <1>5, <2>1 DEF Kernel, WaitsSame
<1>7. WaitsSame(k, queued) /\ queued.st = ready.st
  <2>1. queued = [ready EXCEPT !.rq = queued.rq]
    <3>1. ready = [k EXCEPT !.rq = ready.rq, !.prio = ready.prio, !.st = ready.st]
      <4> HIDE DEF removed
      <4> QED BY <1>1, <1>3 DEF Kernel
    <3> HIDE DEF ready
    <3> QED BY <1>1, <3>1 DEF push_back, Kernel
  <2>2. ready = [k EXCEPT !.rq = ready.rq, !.prio = ready.prio, !.st = ready.st]
    <3> HIDE DEF removed
    <3> QED BY <1>1, <1>3 DEF Kernel
  <2> HIDE DEF queued, ready
  <2> QED BY <1>1, <1>6, <2>1, <2>2 DEF Kernel, WaitsSame
<1>8. /\ WaitsSame(k, k1)
      /\ IF "RUNNING" \in k.st[t] THEN k1.st = [k.st EXCEPT ![t] = s] ELSE k1.st = k.st
  <2> HIDE DEF queued, ready, k1, s
  <2> QED BY <1>4, <1>6, <1>7
<1>9. "RUNNING" \in k.st[t] => s = {"READY"}
  BY <1>1, <1>5 DEF KernelInv, ThreadInv, StatusShape
<1> HIDE DEF queued, ready, k1, s
<1>10. \A u \in Thread : k1.st[u] = k.st[u] \/ k1.st[u] = {"READY"}
  BY <1>1, <1>8, <1>9 DEF Kernel
<1>11. ASSUME NEW u \in Thread PROVE Kept(k, k1, u)
  <2>1. CASE k1.st[u] = {"READY"}
    BY <2>1, KeptActive DEF Waits, Gone
  <2>2. CASE k1.st[u] = k.st[u]
    BY <1>1, <1>8, <2>2, KeptSame DEF WaitsSame
  <2> QED BY <1>10, <2>1, <2>2
<1>12. Fine(k, k1)
  BY <1>1, <1>2, <1>8, <1>11, QuietFine DEF Quiet, WaitsSame
<1> QED BY <1>1, <1>2, <1>12, hleReScheduleQuiet, FineQuiet

LEMMA DelayFine ==
  ASSUME Inv, WaitInv(k), sceKernelDelayThread
  PROVE  Fine(k, k')
<1> DEFINE c == k.cur
           k1 == ScheduleEvent(k, "DELAY", c)
           w == [type |-> "DELAY", id |-> c, value |-> 0, timed |-> FALSE]
<1>1. /\ KernelInv(k) /\ k \in Kernel /\ c \in User /\ c \in Thread /\ k.disp
      /\ k.st[c] \in {{"RUNNING"}, {"READY"}}
      /\ k' = KernelWaitCurThread(k1, "DELAY", c, 0, FALSE)
  BY InCall DEF sceKernelDelayThread
<1>2. /\ OneTimer(k, k1, "DELAY", c) /\ k1.timer["DELAY"][c] > 0
      /\ KernelInv(k1) /\ Calm(k, k1) /\ k1.st = k.st
  BY <1>1, OneTimerOps, TimerOps, TimerInv DEF TimerType
<1> HIDE DEF k1
<1>3. k1.cur = c /\ k1.disp /\ k1 \in Kernel
  BY <1>1, <1>2 DEF Calm, KernelInv
<1>4. \A u \in Thread \ {c} : Kept(k, k1, u)
  BY <1>1, <1>2, OneTimerKept DEF TimerType
<1>5. Kept(k, k1, c)
  BY <1>1, <1>2, KeptActive DEF Waits, Gone
<1>6. Quiet(k, k1) /\ WaitInv(k1)
  BY <1>1, <1>2, <1>3, <1>4, <1>5, QuietInv DEF Quiet, OneTimer
<1>7. "DELAY" \in WaitType /\ 0 \in Nat /\ FALSE \in BOOLEAN
  BY DEF WaitType
<1>8. Asleep(k1, k', w) /\ w.type = "DELAY"
  BY <1>1, <1>2, <1>3, <1>7, WaitCurInv DEF ObjWait
<1> HIDE DEF w
<1>9. Fine(k1, k')
  BY <1>1, <1>2, <1>3, <1>6, <1>8, AsleepFine DEF ObjWait
<1>10. k' \in Kernel
  BY <1>8 DEF Asleep, KernelInv
<1> QED BY <1>1, <1>3, <1>6, <1>9, <1>10, QuietThenFine

LEMMA SleepFine ==
  ASSUME Inv, WaitInv(k), sceKernelSleepThread
  PROVE  Fine(k, k')
<1> DEFINE c == k.cur
           w == [type |-> "SLEEP", id |-> NoObj, value |-> 0, timed |-> FALSE]
<1>1. /\ KernelInv(k) /\ k \in Kernel /\ c \in User /\ c \in Thread /\ k.disp
      /\ k.st[c] \in {{"RUNNING"}, {"READY"}} /\ k.wakeup \in [Thread -> Nat]
      /\ k' = IF k.wakeup[c] > 0 THEN [k EXCEPT !.wakeup[c] = @ - 1]
              ELSE KernelWaitCurThread(k, "SLEEP", NoObj, 0, FALSE)
  BY InCall DEF sceKernelSleepThread, Kernel
<1>2. k' \in Kernel
  BY SleepStep DEF Good, KernelInv
<1>3. CASE k.wakeup[c] > 0
  <2>1. /\ k'.st = k.st /\ k'.wait = k.wait /\ k'.timer = k.timer
        /\ k'.joiners = k.joiners /\ k'.wakeup = [k.wakeup EXCEPT ![c] = k.wakeup[c] - 1]
    BY <1>1, <1>3 DEF Kernel
  <2>2. \A u \in Thread \ {c} : Kept(k, k', u)
    BY <1>1, <2>1, KeptSame, ZenonT(40)
  <2>3. Kept(k, k', c)
    <3>1. k'.st[c] \in {{"RUNNING"}, {"READY"}}
      BY <1>1, <2>1
    <3> QED BY <3>1, KeptActive DEF Waits, Gone
  <2>4. Quiet(k, k')
    BY <2>1, <2>2, <2>3 DEF Quiet
  <2> QED BY <1>1, <1>2, <2>4, QuietFine
<1>4. CASE ~(k.wakeup[c] > 0)
  <2>1. "SLEEP" \in WaitType /\ 0 \in Nat /\ FALSE \in BOOLEAN
    BY DEF WaitType
  <2>2. k' = KernelWaitCurThread(k, "SLEEP", NoObj, 0, FALSE)
    BY <1>1, <1>4
  <2>3. Asleep(k, KernelWaitCurThread(k, "SLEEP", NoObj, 0, FALSE), w)
    BY <1>1, <2>1, WaitCurInv DEF ObjWait
  <2>4. k.wakeup[c] = 0 /\ w.type = "SLEEP"
    BY <1>1, <1>4
  <2> HIDE DEF w
  <2> QED BY <1>1, <2>2, <2>3, <2>4, AsleepFine DEF ObjWait
<1> QED BY <1>3, <1>4

LEMMA WaitThreadEndFine ==
  ASSUME Inv, WaitInv(k), NEW t \in User, NEW timed \in BOOLEAN,
         sceKernelWaitThreadEnd(t, timed)
  PROVE  Fine(k, k')
<1> DEFINE c == k.cur
           armed == IF timed THEN ScheduleEvent(k, "THREADEND", c) ELSE k
           listed == IF Holds(k.joiners[t], c) THEN armed
                     ELSE [armed EXCEPT !.joiners[t] = Append(@, c)]
           w == [type |-> "THREADEND", id |-> t, value |-> 0, timed |-> timed]
<1>1. /\ k \in Kernel /\ c \in Thread /\ t \in Thread /\ t # c
      /\ k.st[c] \in {{"RUNNING"}, {"READY"}}
      /\ "DEAD" \notin k.st[t] /\ k.st[t] # {"DORMANT"}
  BY InCall DEF sceKernelWaitThreadEnd, Exists, Thread
<1>2. /\ KernelInv(armed) /\ armed.st = k.st
      /\ KernelInv(listed) /\ listed.st = k.st /\ listed.cur = c
      /\ Asleep(listed, k', w)
  BY JoinInv, Zenon
<1>3. /\ OneTimer(k, armed, "THREADEND", c)
      /\ timed => armed.timer["THREADEND"][c] > 0
  <2>1. CASE timed
    BY <1>1, <2>1, OneTimerOps DEF TimerType
  <2>2. CASE ~timed
    BY <1>1, <2>2 DEF OneTimer
  <2> QED BY <2>1, <2>2
<1> HIDE DEF armed
<1>4. /\ listed \in Kernel /\ listed.wait = armed.wait /\ listed.timer = armed.timer
      /\ listed.wakeup = armed.wakeup
      /\ \A u \in Thread \ {t} : listed.joiners[u] = armed.joiners[u]
      /\ Holds(listed.joiners[t], c)
      /\ \A u : Holds(armed.joiners[t], u) => Holds(listed.joiners[t], u)
  <2>1. CASE Holds(k.joiners[t], c)
    BY <1>2, <1>3, <2>1 DEF OneTimer, KernelInv
  <2>2. CASE ~Holds(k.joiners[t], c)
    <3> DEFINE q == Append(armed.joiners[t], c)
    <3>1. armed \in Kernel /\ armed.joiners[t] \in Seq(Thread)
      BY <1>1, <1>2 DEF KernelInv, Kernel
    <3>2. listed = [armed EXCEPT !.joiners = [armed.joiners EXCEPT ![t] = q]]
      BY <2>2, <3>1 DEF Kernel
    <3>3. \A u : Holds(q, u) <=> Holds(armed.joiners[t], u) \/ u = c
      BY <1>1, <3>1, AppendHolds
    <3> HIDE DEF q, listed
    <3>4. /\ listed.wait = armed.wait /\ listed.timer = armed.timer
          /\ listed.wakeup = armed.wakeup
          /\ listed.joiners = [armed.joiners EXCEPT ![t] = q]
      BY <3>1, <3>2 DEF Kernel
    <3>5. listed.joiners[t] = q /\ \A u \in Thread \ {t} : listed.joiners[u] = armed.joiners[u]
      BY <1>1, <3>1, <3>4 DEF Kernel
    <3> QED BY <1>2, <3>3, <3>4, <3>5 DEF KernelInv
  <2> QED BY <2>1, <2>2
<1> HIDE DEF listed
<1>5. \A u \in Thread \ {c} : Kept(k, listed, u)
  <2> SUFFICES ASSUME NEW u \in Thread \ {c} PROVE Kept(k, listed, u)
    OBVIOUS
  <2>1. /\ listed.wait[u] = k.wait[u] /\ listed.wakeup[u] = k.wakeup[u]
        /\ \A y \in TimerType : listed.timer[y][u] = k.timer[y][u]
    BY <1>3, <1>4 DEF OneTimer
  <2> QED BY <1>1, <1>2, <2>1, KeptSame
<1>6. Kept(k, listed, c)
  BY <1>1, <1>2, KeptActive DEF Waits, Gone
<1>7. \A u, v \in Thread : Holds(k.joiners[v], u) => Holds(listed.joiners[v], u)
  BY <1>3, <1>4 DEF OneTimer
<1>8. WaitInv(listed)
  <2> SUFFICES ASSUME NEW u \in Thread PROVE OwnWait(listed, u) /\ JoinRight(listed, u)
    BY DEF WaitInv
  <2>1. Kept(k, listed, u) /\ OwnWait(k, u) /\ JoinRight(k, u)
    BY <1>5, <1>6 DEF WaitInv
  <2>2. OwnWait(listed, u)
    BY <1>1, <1>4, <2>1, KeptOwn
  <2>3. JoinRight(listed, u)
    BY <1>2, <1>7, <2>1 DEF Kept, JoinRight, Waits, Gone
  <2> QED BY <2>2, <2>3
<1>9. ObjWaits(k, listed)
  BY <1>5, <1>6, ObjTimers DEF ObjWaits, Kept
<1>10. ~Gone(k, t)
  BY <1>1 DEF WaitInv, OwnWait, Gone
<1>11. /\ w.type = "THREADEND" /\ w.id = t /\ w.timed = timed
  OBVIOUS
<1>12. w.timed => listed.timer["THREADEND"][c] > 0
  BY <1>3, <1>4
<1> HIDE DEF w
<1>13. Fine(listed, k')
  BY <1>1, <1>2, <1>4, <1>8, <1>10, <1>11, <1>12, AsleepFine DEF ObjWait, Gone
<1> QED BY <1>9, <1>13 DEF Fine, ObjWaits

\* t, which need not be waiting, is woken and a reschedule is asked for.
LEMMA WokenFine ==
  ASSUME NEW kk, KernelInv(kk), WaitInv(kk), NEW t \in Thread, NEW r \in Result,
         "RUNNING" \notin kk.st[t]
  PROVE  LET k2 == hleReSchedule(KernelResumeThreadFromWait(kk, t, r))
         IN  k2 \in Kernel /\ Fine(kk, k2)
<1> DEFINE k1 == KernelResumeThreadFromWait(kk, t, r)
<1>1. Quiet(kk, k1)
  BY ResumeThreadQuiet DEF WaitInv, OwnWait
<1>2. KernelInv(k1)
  BY ResumeThreadInv
<1> HIDE DEF k1
<1>3. kk \in Kernel /\ k1 \in Kernel
  BY <1>2 DEF KernelInv
<1>4. Fine(kk, k1)
  BY <1>1, <1>3, QuietFine
<1> QED BY <1>3, <1>4, hleReScheduleQuiet, FineQuiet DEF k1

LEMMA WakeupFine ==
  ASSUME Inv, WaitInv(k), NEW t \in User, sceKernelWakeupThread(t)
  PROVE  Fine(k, k')
<1>1. KernelInv(k) /\ k \in Kernel /\ t \in Thread
  BY DEF Inv, KernelInv, Thread
<1>2. CASE isWaitingFor(k, t, "SLEEP", NoObj)
  <2>1. k' = hleReSchedule(KernelResumeThreadFromWait(k, t, "ok"))
    BY <1>2 DEF sceKernelWakeupThread
  <2>2. "RUNNING" \notin k.st[t] /\ "ok" \in Result
    BY <1>1, <1>2 DEF isWaitingFor, KernelInv, ThreadInv, StatusShape, Result
  <2> QED BY <1>1, <2>1, <2>2, WokenFine
<1>3. CASE ~isWaitingFor(k, t, "SLEEP", NoObj)
  <2>1. /\ k'.st = k.st /\ k'.wait = k.wait /\ k'.timer = k.timer
        /\ k'.joiners = k.joiners /\ k'.wakeup = [k.wakeup EXCEPT ![t] = k.wakeup[t] + 1]
    BY <1>1, <1>3 DEF sceKernelWakeupThread, Kernel
  <2>2. k' \in Kernel
    BY WakeupStep DEF Good, KernelInv
  <2>3. \A u \in Thread \ {t} : k'.wakeup[u] = k.wakeup[u]
    BY <1>1, <2>1 DEF Kernel
  <2>4. \A u \in Thread \ {t} : Kept(k, k', u)
    BY <1>1, <2>1, <2>3, KeptSame
  <2>5. Kept(k, k', t)
    BY <1>3, <2>1 DEF Kept, isWaitingFor, Waits
  <2>6. Quiet(k, k')
    BY <2>1, <2>4, <2>5 DEF Quiet
  <2> QED BY <1>1, <2>2, <2>6, QuietFine
<1> QED BY <1>2, <1>3

LEMMA CancelWakeupFine ==
  ASSUME Inv, WaitInv(k), NEW t \in User, sceKernelCancelWakeupThread(t)
  PROVE  Fine(k, k')
<1>1. k \in Kernel /\ t \in Thread /\ k.wakeup \in [Thread -> Nat]
  BY DEF Inv, KernelInv, Thread, Kernel
<1>2. /\ k'.st = k.st /\ k'.wait = k.wait /\ k'.timer = k.timer
      /\ k'.joiners = k.joiners /\ k'.wakeup = [k.wakeup EXCEPT ![t] = 0]
  BY <1>1 DEF sceKernelCancelWakeupThread, Kernel
<1>3. k' \in Kernel
  BY CancelWakeupStep DEF Good, KernelInv
<1>4. \A u \in Thread : k'.wakeup[u] <= k.wakeup[u]
  BY <1>1, <1>2
<1>5. Quiet(k, k')
  BY <1>2, <1>4 DEF Quiet, Kept, Waits
<1> QED BY <1>1, <1>3, <1>5, QuietFine

LEMMA ReleaseFine ==
  ASSUME Inv, WaitInv(k), NEW t \in User, sceKernelReleaseWaitThread(t)
  PROVE  Fine(k, k')
<1>1. KernelInv(k) /\ t \in Thread /\ "RELEASE_WAIT" \in Result
  BY DEF Inv, Thread, Result
<1>2. /\ "RUNNING" \notin k.st[t]
      /\ k' = hleReSchedule(KernelResumeThreadFromWait(k, t, "RELEASE_WAIT"))
  BY <1>1 DEF sceKernelReleaseWaitThread, KernelInv, ThreadInv, StatusShape
<1> QED BY <1>1, <1>2, WokenFine

LEMMA SuspendFine ==
  ASSUME Inv, WaitInv(k), NEW t \in User, sceKernelSuspendThread(t)
  PROVE  Fine(k, k')
<1> DEFINE k1 == KernelChangeReadyState(k, t, FALSE)
           s == (k1.st[t] \ {"READY"}) \cup {"SUSPEND"}
<1>1. /\ KernelInv(k) /\ k \in Kernel /\ t \in Thread
      /\ "DEAD" \notin k.st[t] /\ "DORMANT" \notin k.st[t]
      /\ k' = [k1 EXCEPT !.st[t] = s]
  BY DEF Inv, KernelInv, Thread, sceKernelSuspendThread, Exists, Stopped
<1>2. k1 = [k EXCEPT !.rq = k1.rq]
  BY <1>1, UnreadyOff
<1> HIDE DEF k1
<1>3. k1.st[t] = k.st[t]
  BY <1>1, <1>2 DEF Kernel
<1> HIDE DEF s
<1>4. k' = [k EXCEPT !.rq = k1.rq, !.st = [k.st EXCEPT ![t] = s]]
  BY <1>1, <1>2 DEF Kernel
<1>5. /\ k'.st = [k.st EXCEPT ![t] = s] /\ k'.wait = k.wait /\ k'.timer = k.timer
      /\ k'.wakeup = k.wakeup /\ k'.joiners = k.joiners
  BY <1>1, <1>4 DEF Kernel
<1>6. k'.st[t] = s /\ \A u \in Thread \ {t} : k'.st[u] = k.st[u]
  BY <1>1, <1>5 DEF Kernel
<1>7. \A u \in Thread \ {t} : Kept(k, k', u)
  BY <1>1, <1>5, <1>6, KeptSame
<1>8. Kept(k, k', t)
  <2>1. k.wakeup[t] \in Nat
    BY <1>1 DEF Kernel
  <2> QED BY <1>1, <1>3, <1>5, <1>6, <2>1 DEF Kept, Waits, Gone, s
<1>9. k' \in Kernel
  BY SuspendStep DEF Good, KernelInv
<1>10. Quiet(k, k')
  BY <1>5, <1>7, <1>8 DEF Quiet
<1> QED BY <1>1, <1>9, <1>10, QuietFine

LEMMA ResumeFine ==
  ASSUME Inv, WaitInv(k), NEW t \in User, sceKernelResumeThread(t)
  PROVE  Fine(k, k')
<1> DEFINE left == k.st[t] \ {"SUSPEND"}
           k1 == [k EXCEPT !.st[t] = @ \ {"SUSPEND"}]
           k2 == IF k1.st[t] = {} THEN KernelChangeReadyState(k1, t, TRUE) ELSE k1
<1>1. /\ KernelInv(k) /\ k \in Kernel /\ t \in Thread /\ k' = hleReSchedule(k2)
      /\ "SUSPEND" \in k.st[t]
  BY DEF Inv, KernelInv, Thread, sceKernelResumeThread
<1>2. ~Gone(k, t)
  BY <1>1 DEF WaitInv, OwnWait, Gone
<1>3. left \in SUBSET StatusBits /\ k1 = [k EXCEPT !.st = [k.st EXCEPT ![t] = left]]
  BY <1>1 DEF Kernel
<1> HIDE DEF k1, left
<1>4. /\ k1 \in Kernel /\ k1.st = [k.st EXCEPT ![t] = left]
      /\ k1.wait = k.wait /\ k1.timer = k.timer
      /\ k1.wakeup = k.wakeup /\ k1.joiners = k.joiners
  BY <1>1, <1>3 DEF Kernel
<1>5. k1.st[t] = left /\ \A u \in Thread \ {t} : k1.st[u] = k.st[u]
  BY <1>1, <1>4 DEF Kernel
<1>6. \A u \in Thread \ {t} : Kept(k, k1, u)
  BY <1>1, <1>4, <1>5, KeptSame
<1>7. Kept(k, k1, t)
  <2>1. k.wakeup[t] \in Nat
    BY <1>1 DEF Kernel
  <2> QED BY <1>2, <1>4, <1>5, <2>1 DEF Kept, Waits, Gone, left
<1>8. Quiet(k, k1)
  BY <1>4, <1>6, <1>7 DEF Quiet
<1>9. k2 \in Kernel /\ Quiet(k, k2)
  <2>1. CASE k1.st[t] = {}
    BY <1>1, <1>4, <1>8, <2>1, ReadyQuiet, QuietTransitive
  <2>2. CASE k1.st[t] # {}
    BY <1>4, <1>8, <2>2
  <2> QED BY <2>1, <2>2
<1> HIDE DEF k2
<1> QED BY <1>1, <1>9, hleReScheduleQuiet, QuietFine, FineQuiet

\* An event fires for t, and t is not in the wait that the event ends.
LEMMA FiredFine ==
  ASSUME NEW kk, KernelInv(kk), WaitInv(kk), NEW t \in Thread,
         NEW y \in {"DELAY", "THREADEND"}, kk.timer[y][t] > 0,
         y = "DELAY" => ~isWaitingFor(kk, t, "DELAY", t),
         y = "THREADEND" => ~(Waits(kk, t) /\ kk.wait[t].type = "THREADEND")
  PROVE  Fine(kk, PopEvent(kk, y, t))
<1> DEFINE f == PopEvent(kk, y, t)
<1>1. kk \in Kernel /\ y \in TimerType
  BY DEF KernelInv, TimerType
<1>2. OneTimer(kk, f, y, t)
  BY <1>1, OneTimerOps
<1> HIDE DEF f
<1>3. \A u \in Thread \ {t} : Kept(kk, f, u)
  BY <1>1, <1>2, OneTimerKept
<1>4. /\ f.st = kk.st /\ f.wait = kk.wait /\ f.wakeup = kk.wakeup
      /\ f.joiners = kk.joiners /\ f \in Kernel
      /\ \A z \in TimerType \ {y} : f.timer[z] = kk.timer[z]
  BY <1>2 DEF OneTimer
<1>5. ASSUME NEW u \in Thread PROVE OwnWait(f, u) /\ JoinRight(f, u)
  <2>1. OwnWait(kk, u) /\ JoinRight(kk, u)
    BY DEF WaitInv
  <2>2. OwnWait(f, u)
    <3>1. CASE u = t
      <4>1. y = "DELAY" => f.timer["THREADEND"] = kk.timer["THREADEND"]
        BY <1>4 DEF TimerType
      <4>2. y = "THREADEND" => f.timer["DELAY"] = kk.timer["DELAY"]
        BY <1>4 DEF TimerType
      <4> QED BY <1>4, <2>1, <3>1, <4>1, <4>2 DEF OwnWait, isWaitingFor, Waits, Gone
    <3>2. CASE u # t
      BY <1>1, <1>3, <1>4, <2>1, <3>2, KeptOwn
    <3> QED BY <3>1, <3>2
  <2> QED BY <1>4, <2>1, <2>2 DEF JoinRight, Waits, Gone
<1>6. ObjWaits(kk, f)
  <2>1. \A z \in ObjWait : f.timer[z] = kk.timer[z]
    BY <1>4 DEF ObjWait, TimerType
  <2> QED BY <1>4, <2>1 DEF ObjWaits, Waits
<1> QED BY <1>5, <1>6 DEF Fine, WaitInv, f

\* An event fires for t and t is woken.
LEMMA FiredWokenFine ==
  ASSUME NEW kk, KernelInv(kk), WaitInv(kk), NEW t \in Thread,
         NEW y \in {"DELAY", "THREADEND"}, kk.timer[y][t] > 0, NEW r \in Result,
         "RUNNING" \notin kk.st[t]
  PROVE  Fine(kk, hleReSchedule(KernelResumeThreadFromWait(PopEvent(kk, y, t), t, r)))
<1> DEFINE f == PopEvent(kk, y, t)
           k1 == KernelResumeThreadFromWait(f, t, r)
<1>1. kk \in Kernel /\ y \in TimerType
  BY DEF KernelInv, TimerType
<1>2. OneTimer(kk, f, y, t) /\ OnlyTimer(kk, f)
  BY <1>1, OneTimerOps, TimerOps
<1> HIDE DEF f
<1>3. KernelInv(f) /\ f.st = kk.st /\ f.joiners = kk.joiners /\ f \in Kernel
  BY <1>2, TimerInv DEF KernelInv
<1>4. \A u \in Thread \ {t} : Kept(kk, f, u)
  BY <1>1, <1>2, OneTimerKept
<1>5. Gone(f, t) => f.st[t] \in {{"DORMANT"}, {"DEAD"}}
  BY <1>3 DEF WaitInv, OwnWait, Gone
<1>6. Quiet(f, k1) /\ ~Waits(k1, t) /\ KernelInv(k1)
  BY <1>3, <1>5, ResumeThreadQuiet, ResumeThreadInv
<1> HIDE DEF k1
<1>7. k1 \in Kernel
  BY <1>6 DEF KernelInv
<1>8. \A u \in Thread \ {t} : Kept(kk, k1, u)
  BY <1>1, <1>3, <1>4, <1>6, <1>7, KeptTransitive DEF Quiet
<1>9. Kept(kk, k1, t)
  BY <1>3, <1>6 DEF Quiet, Kept, isWaitingFor, Waits, Gone
<1>10. Quiet(kk, k1)
  BY <1>3, <1>6, <1>8, <1>9 DEF Quiet
<1> QED BY <1>1, <1>7, <1>10, hleReScheduleQuiet, QuietFine, FineQuiet DEF k1, f

LEMMA TimerFine ==
  ASSUME Inv, WaitInv(k), NEW t \in User, hleScheduledWakeup(t) \/ hleThreadEndTimeout(t)
  PROVE  Fine(k, k')
<1>1. KernelInv(k) /\ k \in Kernel /\ t \in Thread
  BY DEF Inv, KernelInv, Thread
<1>2. ASSUME NEW y \in {"DELAY", "THREADEND"}, k.timer[y][t] > 0
      PROVE  LET f == PopEvent(k, y, t)
             IN  f.st = k.st /\ f.wait = k.wait
                   /\ (f.wait[t].type = y => "RUNNING" \notin k.st[t])
  <2>1. OneTimer(k, PopEvent(k, y, t), y, t)
    BY <1>1, <1>2, OneTimerOps DEF TimerType
  <2> QED BY <1>1, <2>1 DEF OneTimer, KernelInv, ThreadInv, StatusShape
<1>3. CASE hleScheduledWakeup(t)
  <2> DEFINE f == PopEvent(k, "DELAY", t)
  <2>1. /\ f.st = k.st /\ f.wait = k.wait /\ k.timer["DELAY"][t] > 0
        /\ f.wait[t].type = "DELAY" => "RUNNING" \notin k.st[t]
    BY <1>2, <1>3 DEF hleScheduledWakeup
  <2>2. k' = IF KernelGetWaitID(f, t, "DELAY") = t
             THEN hleReSchedule(KernelResumeThreadFromWait(f, t, "ok")) ELSE f
    BY <1>3 DEF hleScheduledWakeup
  <2>3. CASE KernelGetWaitID(f, t, "DELAY") = t
    <3>1. "RUNNING" \notin k.st[t] /\ "ok" \in Result
      BY <1>1, <2>1, <2>3, UidAssumption DEF KernelGetWaitID, Result
    <3> QED BY <1>1, <2>1, <2>2, <2>3, <3>1, FiredWokenFine
  <2>4. CASE KernelGetWaitID(f, t, "DELAY") # t
    <3>1. ~isWaitingFor(k, t, "DELAY", t)
      <4> HIDE DEF f
      <4> QED BY <1>1, <2>1, <2>4
              DEF KernelGetWaitID, isWaitingFor, Exists, WaitInv, OwnWait, Gone
    <3> QED BY <1>1, <2>1, <2>2, <2>4, <3>1, FiredFine
  <2> QED BY <2>3, <2>4
<1>4. CASE hleThreadEndTimeout(t)
  <2> DEFINE f == PopEvent(k, "THREADEND", t)
             uid == KernelGetWaitID(f, t, "THREADEND")
  <2>1. /\ f.st = k.st /\ f.wait = k.wait /\ k.timer["THREADEND"][t] > 0
        /\ f.wait[t].type = "THREADEND" => "RUNNING" \notin k.st[t]
    BY <1>2, <1>4 DEF hleThreadEndTimeout
  <2>2. k' = IF uid # NoObj /\ Exists(f, uid)
             THEN hleReSchedule(KernelResumeThreadFromWait(f, t, "WAIT_TIMEOUT")) ELSE f
    BY <1>4 DEF hleThreadEndTimeout, WaitExecTimeout, hleReSchedule
  <2>3. CASE uid # NoObj /\ Exists(f, uid)
    <3>1. "RUNNING" \notin k.st[t] /\ "WAIT_TIMEOUT" \in Result
      <4> HIDE DEF f
      <4> QED BY <1>1, <2>1, <2>3 DEF KernelGetWaitID, Result
    <3> QED BY <1>1, <2>1, <2>2, <2>3, <3>1, FiredWokenFine
  <2>4. CASE ~(uid # NoObj /\ Exists(f, uid))
    <3>1. ~(Waits(k, t) /\ k.wait[t].type = "THREADEND")
      <4> HIDE DEF f
      <4> SUFFICES ASSUME Waits(k, t), k.wait[t].type = "THREADEND" PROVE FALSE
        OBVIOUS
      <4>1. k.wait[t].id \in Thread /\ ~Gone(k, k.wait[t].id)
        BY <1>1 DEF WaitInv, JoinRight
      <4>2. ~Gone(k, t)
        BY <1>1 DEF WaitInv, OwnWait, Waits
      <4>3. uid = k.wait[t].id
        BY <2>1, <4>2 DEF KernelGetWaitID, Exists, Gone
      <4> QED BY <2>1, <2>4, <4>1, <4>3, UidAssumption DEF Exists, Gone
    <3> QED BY <1>1, <2>1, <2>2, <2>4, <3>1, FiredFine
  <2> QED BY <2>3, <2>4
<1> QED BY <1>3, <1>4

LEMMA IdleFine ==
  ASSUME Inv, WaitInv(k), KernelIdle
  PROVE  Fine(k, k')
<1>1. k \in Kernel /\ k' = hleReSchedule(k)
  BY DEF Inv, KernelInv, KernelIdle
<1> QED BY <1>1, hleReScheduleQuiet, QuietFine

LEMMA ReScheduleEndQuiet ==
  ASSUME NEW kk, KernelInv(kk), PhaseInv(kk), kk.frames # <<>>
  PROVE  Quiet(kk, KernelReScheduleEnd(kk))
<1> DEFINE k1 == [kk EXCEPT !.frames = SubSeq(@, 1, Len(@) - 1)]
           k2 == KernelReScheduleEnd(kk)
<1>1. /\ KernelInv(k2) /\ KernelInv(k1) /\ k1.st = kk.st /\ WaitsSame(kk, k1)
      /\ k2 = IF kk.disp THEN SwitchToNext(k1) ELSE k1
  BY ReScheduleEndInv
<1> HIDE DEF k1, k2
<1>2. kk \in Kernel /\ k1 \in Kernel /\ k2 \in Kernel
  BY <1>1 DEF KernelInv
<1>3. Quiet(kk, k1)
  BY <1>1, <1>2, SameQuiet DEF WaitsSame
<1>4. k2 = k1 \/ Quiet(k1, k2)
  BY <1>1, <1>2, SwitchToNextInv, SwitchedQuiet
<1>5. Quiet(kk, k2)
  BY <1>2, <1>3, <1>4, QuietTransitive
<1> QED BY <1>5 DEF k2

LEMMA ReScheduleFine ==
  ASSUME Inv, WaitInv(k), KernelReSchedule
  PROVE  Fine(k, k')
<1>1. Quiet(k, k')
  BY ReScheduleEndQuiet DEF Inv, KernelReSchedule
<1>2. k \in Kernel /\ k' \in Kernel
  BY ReScheduleStep DEF Inv, Good, KernelInv
<1> QED BY <1>1, <1>2, QuietFine

\* Every step of the thread manager, for the modules that build on it too.
LEMMA UndisturbedFine ==
  ASSUME Disciplined, Inv, WaitInv(k), Undisturbed
  PROVE  Good /\ Fine(k, k')
<1>1. CASE SystemCall
  <2>1. Good
    BY <1>1, CreateStep, PriorityStep, StartStep, WakeupStep, CancelWakeupStep, ReleaseStep,
       SuspendStep, ResumeStep, WaitThreadEndStep, DispatchStep, RotateStep, DelayStep,
       SleepStep
       DEF SystemCall
  <2>2. Fine(k, k')
    BY <1>1, CreateFine, PriorityFine, StartFine, WakeupFine, CancelWakeupFine, ReleaseFine,
       SuspendFine, ResumeFine, WaitThreadEndFine, DispatchFine, RotateFine, DelayFine,
       SleepFine
       DEF SystemCall
  <2> QED BY <2>1, <2>2
<1>2. CASE Timer
  BY <1>2, TimerStep, TimerFine DEF Timer
<1> QED BY <1>1, <1>2, IdleStep, IdleFine, ReScheduleStep, ReScheduleFine DEF Undisturbed

LEMMA ThreadEndFine ==
  ASSUME Disciplined, Inv, WaitInv(k), ThreadEnd
  PROVE  Good /\ Fine(k, k')
<1>1. PICK t \in User : ThreadEnds(t, KernelStopThread(k, t))
  BY DEF ThreadEnd
<1>2. Stops(k, KernelStopThread(k, t), t) /\ Leaves(k, KernelStopThread(k, t), t)
  BY StopInv, StopKept DEF Inv
<1> QED BY <1>1, <1>2, EndFine

LEMMA InitWaitInv ==
  ASSUME Init
  PROVE  WaitInv(k)
<1>1. PICK root \in User, p \in UserPrio : k = InitKernel(root, p)
  BY DEF Init
<1>2. /\ k.st = [t \in Thread |-> IF t = root THEN {"RUNNING"}
                                   ELSE IF t \in Idle THEN {"READY"} ELSE {"DEAD"}]
  BY <1>1 DEF InitKernel
<1>3. \A t \in Thread : k.st[t] \in {{"RUNNING"}, {"READY"}, {"DEAD"}}
  BY <1>2
<1> QED BY <1>3 DEF WaitInv, OwnWait, JoinRight, Waits, Gone, isWaitingFor

\* The invariant of the thread manager, with that of its waits.
LEMMA WaitInvHolds ==
  ASSUME Disciplined
  PROVE  Spec => [](Inv /\ WaitInv(k))
<1>1. Init => Inv /\ WaitInv(k)
  BY InitInv, InitWaitInv
<1>2. Inv /\ WaitInv(k) /\ [Next]_k => (Inv /\ WaitInv(k))'
  <2> SUFFICES ASSUME Inv, WaitInv(k), [Next]_k PROVE (Inv /\ WaitInv(k))'
    OBVIOUS
  <2>1. CASE Next
    <3>1. Good /\ WaitInv(k')
      BY <2>1, UndisturbedFine, ThreadEndFine DEF Next, Fine
    <3> QED BY <3>1 DEF Good, Inv, KernelInv, QueuesDistinct, ThreadInv, StatusShape,
               IdleShape, QueuedRight, PhaseInv, CurRunnable, WaitInv, OwnWait, JoinRight,
               Waits, Gone, isWaitingFor
  <2>2. CASE UNCHANGED k
    BY <2>2 DEF Inv, KernelInv, QueuesDistinct, ThreadInv, StatusShape,
               IdleShape, QueuedRight, PhaseInv, CurRunnable, WaitInv, OwnWait, JoinRight,
               Waits, Gone, isWaitingFor
  <2> QED BY <2>1, <2>2
<1> QED BY <1>1, <1>2, PTL DEF Spec

-----------------------------------------------------------------------------
\* A sleeping thread has no wakeup saved up: sceKernelWakeupThread() wakes whoever
\* sleeps, suspended or not, and sceKernelSleepThread() takes a saved wakeup first.
THEOREM NoLostWakeupHolds ==
  ASSUME Disciplined
  PROVE  Spec => []NoLostWakeup
<1>1. WaitInv(k) => NoLostWakeup
  BY DEF WaitInv, OwnWait, NoLostWakeup
<1> QED BY <1>1, WaitInvHolds, PTL

\* Every join and every delay can end: a joiner is in the list of a thread that has
\* not ended, whoever stopped, deleted, released, timed out or suspended whom, and
\* a timed wait has an event of its own.
THEOREM JoinsAndDelaysCanEndHolds ==
  ASSUME Disciplined
  PROVE  Spec => []JoinsAndDelaysCanEnd
<1>1. WaitInv(k) => JoinersRegistered
  BY DEF WaitInv, JoinRight, Gone, Waits, isWaitingFor, Exists, Stopped, JoinersRegistered
<1>2. WaitInv(k) => TimedWaitHasTimer
  BY DEF WaitInv, OwnWait, Waits, TimedWaitHasTimer
<1>3. WaitInv(k) => JoinsAndDelaysCanEnd
  BY <1>1, <1>2 DEF JoinsAndDelaysCanEnd
<1> QED BY <1>3, WaitInvHolds, PTL

-----------------------------------------------------------------------------
(* What the kernel objects do with their lists of waiters. *)

\* ListOnce(): the list holds t and no id twice.
LEMMA ListOnceHolds ==
  ASSUME NEW w \in Seq(Thread), Distinct(w), NEW t \in Thread
  PROVE  /\ ListOnce(w, t) \in Seq(Thread) /\ Distinct(ListOnce(w, t))
         /\ \A u : Holds(ListOnce(w, t), u) <=> Holds(w, u) \/ u = t
BY AppendHolds DEF ListOnce

\* A list whose places are taken in another order, without taking one twice.
Picked(w, c, m) == [i \in 1..m |-> w[c[i]]]

LEMMA ReorderHolds ==
  ASSUME NEW w \in Seq(Thread), Distinct(w), NEW m \in Nat, NEW c \in [1..m -> 1..Len(w)],
         \A i, j \in 1..m : c[i] = c[j] => i = j
  PROVE  LET s == Picked(w, c, m)
         IN  /\ s \in Seq(Thread) /\ Distinct(s)
             /\ \A u : Holds(s, u) => Holds(w, u)
             /\ \A i \in 1..Len(w) : Holds(c, i) => Holds(s, w[i])
<1> DEFINE s == Picked(w, c, m)
<1>1. s \in [1..m -> Thread] /\ \A i \in 1..m : s[i] = w[c[i]]
  BY DEF Picked
<1> HIDE DEF s
<1>2. c \in Seq(1..Len(w)) /\ Len(c) = m /\ s \in Seq(Thread) /\ Len(s) = m
  BY <1>1, FunctionIsSeq
<1>3. Distinct(s)
  BY <1>1, <1>2 DEF Distinct
<1>4. \A u : Holds(s, u) => Holds(w, u)
  BY <1>1, <1>2 DEF Holds
<1>5. \A i \in 1..Len(w) : Holds(c, i) => Holds(s, w[i])
  BY <1>1, <1>2 DEF Holds
<1> QED BY <1>2, <1>3, <1>4, <1>5 DEF s

\* SortPriority() loses and repeats nobody: the places that the sort gives to
\* different elements are different, as priority and place order them strictly.
LEMMA SortHolds ==
  ASSUME NEW kk \in Kernel, NEW w \in Seq(Thread), Distinct(w)
  PROVE  /\ SortPriority(kk, w) \in Seq(Thread) /\ Distinct(SortPriority(kk, w))
         /\ \A u : Holds(SortPriority(kk, w), u) <=> Holds(w, u)
<1> DEFINE n == Len(w)
           key(i) == IF Exists(kk, w[i]) THEN kk.prio[w[i]] ELSE 0
           Before(i) == {j \in 1..n : key(j) < key(i) \/ (key(j) = key(i) /\ j <= i)}
           place(i) == Cardinality(Before(i))
           c == [m \in 1..n |-> CHOOSE i \in 1..n : place(i) = m]
           f == [i \in 1..n |-> place(i)]
<1>1. n \in Nat /\ \A i \in 1..n : key(i) \in Nat
  <2>1. \A t \in Thread : kk.prio[t] \in Nat
    BY PrioAssumption DEF Kernel, Prio
  <2>2. \A i \in 1..n : w[i] \in Thread
    OBVIOUS
  <2> QED BY <2>1, <2>2
<1>2. SortPriority(kk, w) = [m \in 1..n |-> w[c[m]]]
  BY DEF SortPriority
<1> HIDE DEF n, key
<1>3. IsFiniteSet(1..n) /\ Cardinality(1..n) = n
  BY <1>1, FS_Interval
<1>4. \A i \in 1..n : IsFiniteSet(Before(i)) /\ i \in Before(i) /\ place(i) \in 1..n
  <2> SUFFICES ASSUME NEW i \in 1..n
               PROVE  IsFiniteSet(Before(i)) /\ i \in Before(i) /\ place(i) \in 1..n
    OBVIOUS
  <2>1. Before(i) \in SUBSET (1..n) /\ i \in Before(i)
    BY <1>1
  <2> HIDE DEF Before
  <2>2. IsFiniteSet(Before(i)) /\ place(i) \in Nat /\ place(i) <= n /\ place(i) # 0
    BY <1>3, <2>1, FS_Subset, FS_CardinalityType, FS_EmptySet
  <2> QED BY <1>1, <2>1, <2>2
<1>5. ASSUME NEW i \in 1..n, NEW j \in 1..n, i # j,
             key(i) < key(j) \/ (key(i) = key(j) /\ i <= j)
      PROVE  place(i) # place(j)
  <2>1. Before(i) \in SUBSET Before(j) /\ j \notin Before(i)
    BY <1>1, <1>5
  <2>2. IsFiniteSet(Before(j)) /\ j \in Before(j)
    BY <1>4
  <2> HIDE DEF Before
  <2> QED BY <2>1, <2>2, FS_Subset
<1>6. \A i, j \in 1..n : place(i) = place(j) => i = j
  <2> HIDE DEF place
  <2> QED BY <1>1, <1>5
<1>7. f \in Injection(1..n, 1..n)
  <2>1. f \in [1..n -> 1..n] /\ \A i \in 1..n : f[i] = place(i)
    BY <1>4
  <2> HIDE DEF f, place
  <2> QED BY <1>6, <2>1 DEF Injection, IsInjective
<1>8. \A m \in 1..n : \E i \in 1..n : place(i) = m
  <2>1. f \in Surjection(1..n, 1..n)
    <3> HIDE DEF f
    <3> QED BY <1>3, <1>7, FS_Injection
  <2>2. \A i \in 1..n : f[i] = place(i)
    OBVIOUS
  <2> HIDE DEF f, place
  <2> QED BY <2>1, <2>2 DEF Surjection
<1>9. \A m \in 1..n : c[m] \in 1..n /\ place(c[m]) = m
  <2> HIDE DEF place
  <2> QED BY <1>8
<1>10. c \in [1..n -> 1..n] /\ \A i, j \in 1..n : c[i] = c[j] => i = j
  <2>1. c \in [1..n -> 1..n]
    BY <1>9
  <2> HIDE DEF c, place
  <2> QED BY <1>9, <2>1
<1>11. \A i \in 1..n : Holds(c, i)
  <2> SUFFICES ASSUME NEW i \in 1..n PROVE Holds(c, i)
    OBVIOUS
  <2>1. place(i) \in 1..n /\ c[place(i)] = i
    <3> HIDE DEF c
    <3>1. place(i) \in 1..n
      BY <1>4
    <3> HIDE DEF place
    <3> QED BY <1>6, <1>9, <1>10, <3>1
  <2>2. Len(c) = n
    BY <1>1
  <2> HIDE DEF c, place
  <2> QED BY <2>1, <2>2 DEF Holds
<1> HIDE DEF c, place, f
<1> DEFINE s == Picked(w, c, n)
<1>12. /\ s \in Seq(Thread) /\ Distinct(s) /\ \A u : Holds(s, u) => Holds(w, u)
       /\ \A i \in 1..Len(w) : Holds(c, i) => Holds(s, w[i])
  <2>1. c \in [1..n -> 1..Len(w)]
    BY <1>10 DEF n
  <2>3. n \in Nat /\ \A i, j \in 1..n : c[i] = c[j] => i = j
    BY <1>1, <1>10
  <2> QED BY <2>1, <2>3, ReorderHolds
<1> HIDE DEF s
<1>13. \A u : Holds(w, u) => Holds(s, u)
  BY <1>11, <1>12 DEF Holds, n
<1> QED BY <1>2, <1>12, <1>13 DEF s, Picked

\* One look of the cleanup at the id at place i of what is left.
CleanupRound(kk, type, id, threads, y) ==
  LET size == Len(y.order)
  IN  IF y.i > size THEN y
      ELSE IF VerifyWait(kk, threads[y.order[y.i]], type, id)
           THEN [y EXCEPT !.i = @ + 1]
           ELSE [y EXCEPT !.order = [j \in 1..(size - 1) |-> @[IF j = y.i THEN size ELSE j]]]

CleanupStart(threads) == [order |-> [i \in 1..Len(threads) |-> i], i |-> 1]

\* No place is left twice, and no waiter's place is dropped.
CleanupLeft(kk, type, id, threads, y) ==
  /\ y \in [order : Seq(1..Len(threads)), i : Nat \ {0}] /\ Distinct(y.order)
  /\ \A v \in 1..Len(threads) : VerifyWait(kk, threads[v], type, id) => Holds(y.order, v)

LEMMA CleanupRoundHolds ==
  ASSUME NEW kk, NEW type, NEW id, NEW threads, NEW y, Len(threads) \in Nat,
         CleanupLeft(kk, type, id, threads, y)
  PROVE  CleanupLeft(kk, type, id, threads, CleanupRound(kk, type, id, threads, y))
<1> DEFINE N == Len(threads)
           size == Len(y.order)
           o == [j \in 1..(size - 1) |-> y.order[IF j = y.i THEN size ELSE j]]
           z == CleanupRound(kk, type, id, threads, y)
           Waiter(v) == VerifyWait(kk, threads[v], type, id)
<1>1. /\ N \in Nat /\ y = [order |-> y.order, i |-> y.i] /\ y.order \in Seq(1..N)
      /\ y.i \in Nat \ {0} /\ size \in Nat /\ Distinct(y.order)
      /\ \A v \in 1..N : Waiter(v) => Holds(y.order, v)
  BY DEF CleanupLeft
<1>2. CASE y.i > size
  BY <1>2 DEF CleanupRound
<1>3. CASE ~(y.i > size) /\ Waiter(y.order[y.i])
  <2>1. z = [y EXCEPT !.i = y.i + 1]
    BY <1>3 DEF CleanupRound
  <2> HIDE DEF z, Waiter, N
  <2>2. z.order = y.order /\ z.i = y.i + 1 /\ z \in [order : Seq(1..N), i : Nat \ {0}]
    BY <1>1, <2>1
  <2> QED BY <1>1, <2>2 DEF CleanupLeft, N, z, Waiter
<1>4. CASE ~(y.i > size) /\ ~Waiter(y.order[y.i])
  <2>1. z = [y EXCEPT !.order = o]
    BY <1>4 DEF CleanupRound
  <2>2. \A j \in 1..(size - 1) : o[j] = y.order[IF j = y.i THEN size ELSE j]
    OBVIOUS
  <2>3. o \in [1..(size - 1) -> 1..N] /\ size - 1 \in Nat
    BY <1>1, <1>4
  <2>4. o \in Seq(1..N) /\ Len(o) = size - 1
    <3> HIDE DEF o, N
    <3> QED BY <2>3, FunctionIsSeq, ZenonT(40)
  <2> HIDE DEF o, z, N, Waiter
  <2>5. z.order = o /\ z.i = y.i /\ z \in [order : Seq(1..N), i : Nat \ {0}]
    BY <1>1, <2>1, <2>4
  <2>6. Distinct(o)
    <3> SUFFICES ASSUME NEW a \in 1..(size - 1), NEW b \in 1..(size - 1), o[a] = o[b]
                 PROVE  a = b
      BY <2>4 DEF Distinct
    <3> DEFINE h(j) == IF j = y.i THEN size ELSE j
    <3>1. h(a) \in 1..size /\ h(b) \in 1..size
      BY <1>1, <1>4
    <3>2. y.order[h(a)] = y.order[h(b)]
      BY <2>2
    <3>3. h(a) = h(b)
      <4> HIDE DEF h
      <4> QED BY <1>1, <3>1, <3>2 DEF Distinct
    <3> QED BY <1>1, <3>3
  <2>7. ASSUME NEW v \in 1..N, Waiter(v) PROVE Holds(o, v)
    <3>1. PICK j \in 1..size : y.order[j] = v
      BY <1>1, <2>7 DEF Holds
    <3>2. j # y.i
      BY <1>4, <2>7, <3>1
    <3>3. CASE j = size
      <4>1. y.i \in 1..(size - 1)
        BY <1>1, <1>4, <3>2, <3>3
      <4>2. o[y.i] = v
        BY <2>2, <3>1, <3>3, <4>1
      <4> QED BY <2>4, <4>1, <4>2 DEF Holds
    <3>4. CASE j # size
      <4>1. j \in 1..(size - 1)
        BY <1>1, <3>4
      <4>2. o[j] = v
        BY <2>2, <3>1, <3>2, <4>1
      <4> QED BY <2>4, <4>1, <4>2 DEF Holds
    <3> QED BY <3>3, <3>4
  <2> QED BY <2>5, <2>6, <2>7 DEF CleanupLeft, z, N, Waiter
<1> QED BY <1>2, <1>3, <1>4

\* The loop of the cleanup is well defined.
CleanupLoop(kk, type, id, threads, after) ==
  /\ after[0] = CleanupStart(threads)
  /\ \A i \in 1..Len(threads) :
       after[i] = CleanupRound(kk, type, id, threads, after[i - 1])
  /\ CleanupOrder(kk, type, id, threads) = after[Len(threads)].order

LEMMA CleanupLoopExists ==
  ASSUME NEW kk, NEW type, NEW id, NEW threads, Len(threads) \in Nat
  PROVE  \E after : CleanupLoop(kk, type, id, threads, after)
<1> DEFINE n == Len(threads)
           start == CleanupStart(threads)
           Round(y) == CleanupRound(kk, type, id, threads, y)
           IsLoop(f, m) == f = [i \in 0..m |-> IF i = 0 THEN start ELSE Round(f[i - 1])]
           after == CHOOSE f : IsLoop(f, n)
<1>2. CleanupOrder(kk, type, id, threads) = after[n].order /\ n \in Nat
  BY DEF CleanupOrder, CleanupRound, CleanupStart
<1>3. after[0] = start /\ \A i \in 1..n : after[i] = Round(after[i - 1])
  <2> HIDE DEF start, n, Round
  <2>1. IsLoop(after, n)
    <3> DEFINE G == {m \in 0..n : \E f : IsLoop(f, m)}
    <3>1. 0 \in G
      <4>1. IsLoop([i \in 0..0 |-> start], 0)
        OBVIOUS
      <4> HIDE DEF IsLoop
      <4> QED BY <1>2, <4>1
    <3>2. ASSUME NEW m \in 1..n, m - 1 \in G PROVE m \in G
      <4>1. PICK f : IsLoop(f, m - 1)
        BY <3>2
      <4> DEFINE g == [i \in 0..m |-> IF i < m THEN f[i] ELSE Round(f[m - 1])]
      <4>2. ASSUME NEW i \in 0..m
            PROVE  g[i] = IF i = 0 THEN start ELSE Round(g[i - 1])
        <5>1. CASE i = 0
          BY <4>1, <5>1
        <5>2. CASE i # 0 /\ i < m
          BY <4>1, <5>2
        <5>3. CASE i = m
          BY <5>3
        <5> QED BY <5>1, <5>2, <5>3
      <4>3. IsLoop(g, m)
        BY <4>2
      <4> HIDE DEF IsLoop, g
      <4> QED BY <4>3
    <3> HIDE DEF G
    <3>3. n \in G
      <4>1. \A m \in 1..n : m - 1 \in G => m \in G
        BY <3>2
      <4>2. \A m \in 0..n : m \in G
        BY <1>2, <3>1, <4>1, SetInduction
      <4> QED BY <1>2, <4>2
    <3> QED BY <3>3 DEF G
  <2> HIDE DEF after
  <2> QED BY <1>2, <2>1
<1> HIDE DEF after
<1> QED BY <1>2, <1>3 DEF CleanupLoop

LEMMA CleanupOrderHolds ==
  ASSUME NEW kk, NEW type, NEW id, NEW threads, Len(threads) \in Nat
  PROVE  LET order == CleanupOrder(kk, type, id, threads)
         IN  /\ order \in Seq(1..Len(threads)) /\ Distinct(order)
             /\ \A v \in 1..Len(threads) :
                  VerifyWait(kk, threads[v], type, id) => Holds(order, v)
<1> DEFINE n == Len(threads)
           Left(y) == CleanupLeft(kk, type, id, threads, y)
<1>1. PICK after : CleanupLoop(kk, type, id, threads, after)
  BY CleanupLoopExists
<1>2. Left(CleanupStart(threads))
  <2> DEFINE o == [i \in 1..n |-> i]
  <2>1. o \in Seq(1..n) /\ Len(o) = n /\ \A i \in 1..n : o[i] = i
    OBVIOUS
  <2>2. CleanupStart(threads) = [order |-> o, i |-> 1]
    BY DEF CleanupStart
  <2> HIDE DEF o
  <2>3. Distinct(o) /\ \A v \in 1..n : Holds(o, v)
    BY <2>1 DEF Distinct, Holds
  <2> QED BY <2>1, <2>2, <2>3 DEF CleanupLeft
<1> DEFINE G == {m \in 0..n : Left(after[m])}
<1>3. n \in Nat /\ after[0] = CleanupStart(threads)
      /\ \A m \in 1..n : after[m] = CleanupRound(kk, type, id, threads, after[m - 1])
  BY <1>1 DEF CleanupLoop
<1>4. 0 \in G
  BY <1>2, <1>3
<1>5. ASSUME NEW m \in 1..n, m - 1 \in G PROVE m \in G
  BY <1>3, <1>5, CleanupRoundHolds
<1> HIDE DEF G
<1>6. \A m \in 0..n : m \in G
  <2>1. \A m \in 1..n : m - 1 \in G => m \in G
    BY <1>5
  <2> QED BY <1>3, <1>4, <2>1, SetInduction
<1>7. Left(after[n])
  BY <1>3, <1>6 DEF G
<1> QED BY <1>1, <1>7 DEF CleanupLoop, CleanupLeft

\* CleanupWaitingThreads() drops only ids that do not wait, and repeats none.
LEMMA CleanupHolds ==
  ASSUME NEW kk, NEW type, NEW id, NEW w \in Seq(Thread), Distinct(w)
  PROVE  LET s == CleanupWaitingThreads(kk, type, id, w)
         IN  /\ s \in Seq(Thread) /\ Distinct(s)
             /\ \A u : Holds(w, u) /\ VerifyWait(kk, u, type, id) => Holds(s, u)
<1> DEFINE order == CleanupOrder(kk, type, id, w)
           m == Len(order)
           s == Picked(w, order, m)
<1>1. /\ order \in Seq(1..Len(w)) /\ Distinct(order)
      /\ \A v \in 1..Len(w) : VerifyWait(kk, w[v], type, id) => Holds(order, v)
  BY CleanupOrderHolds
<1>2. s = CleanupWaitingThreads(kk, type, id, w)
  BY DEF CleanupWaitingThreads, Picked
<1> HIDE DEF order
<1>3. /\ m \in Nat /\ order \in [1..m -> 1..Len(w)]
      /\ \A i, j \in 1..m : order[i] = order[j] => i = j
  BY <1>1 DEF Distinct
<1> HIDE DEF m
<1>4. /\ s \in Seq(Thread) /\ Distinct(s)
      /\ \A i \in 1..Len(w) : Holds(order, i) => Holds(s, w[i])
  BY <1>3, ReorderHolds
<1> HIDE DEF s
<1>5. \A u : Holds(w, u) /\ VerifyWait(kk, u, type, id) => Holds(s, u)
  BY <1>1, <1>4 DEF Holds
<1> QED BY <1>2, <1>4, <1>5

-----------------------------------------------------------------------------
(* What the kernel objects do to the threads that wait for them. *)

\* Everything proved of the thread manager that an object relies on.
Sound(kk) == KernelInv(kk) /\ PhaseInv(kk) /\ WaitInv(kk)

\* k2 is kk after some waiters have been let go.
Freed(kk, k2) == KernelInv(k2) /\ Calm(kk, k2) /\ Quiet(kk, k2)

\* Whoever waits in k2 for an object of type y waited for it in kk, with its timer.
SameWaits(kk, k2, y) ==
  \A u \in Thread :
    Waits(k2, u) /\ k2.wait[u].type = y =>
      /\ Waits(kk, u) /\ k2.wait[u] = kk.wait[u]
      /\ k2.timer[y][u] = kk.timer[y][u]

LEMMA QuietSameWaits ==
  ASSUME NEW kk, NEW k2, Quiet(kk, k2), NEW y \in ObjWait
  PROVE  SameWaits(kk, k2, y)
BY ObjTimers DEF Quiet, Kept, SameWaits

LEMMA FineSameWaits ==
  ASSUME NEW kk, NEW k2, Fine(kk, k2), NEW y \in ObjWait
  PROVE  SameWaits(kk, k2, y)
BY DEF Fine, ObjWaits, SameWaits

LEMMA FreedSelf ==
  ASSUME NEW kk, KernelInv(kk)
  PROVE  Freed(kk, kk)
BY SameQuiet DEF Freed, Calm, KernelInv

LEMMA FreedTransitive ==
  ASSUME NEW k1, KernelInv(k1), NEW k2, NEW k3, Freed(k1, k2), Freed(k2, k3)
  PROVE  Freed(k1, k3)
BY CalmTransitive, QuietTransitive DEF Freed, KernelInv

\* A waiter t of an object is let go: its timer is stopped and it is resumed.
LEMMA LetGoFreed ==
  ASSUME NEW kk, KernelInv(kk), EndShapes(kk), NEW y \in ObjWait, NEW t \in Thread,
         NEW r \in Result, kk.wait[t].type = y
  PROVE  LET k2 == KernelResumeThreadFromWait(StopWaitTimer(kk, y, t), t, r)
         IN  Freed(kk, k2) /\ ~Waits(k2, t)
<1> DEFINE k1 == StopWaitTimer(kk, y, t)
           k2 == KernelResumeThreadFromWait(k1, t, r)
<1>1. y \in TimerType /\ kk \in Kernel
  BY ObjTimers DEF KernelInv
<1>2. /\ KernelInv(k1) /\ k1.st = kk.st /\ k1.wait = kk.wait /\ Calm(kk, k1)
      /\ k1.wakeup = kk.wakeup /\ k1.joiners = kk.joiners
      /\ \A u \in Thread \ {t} : Kept(kk, k1, u)
  <2>1. CASE kk.wait[t].timed
    <3>1. k1 = UnscheduleEvent(kk, y, t)
      BY <2>1 DEF StopWaitTimer
    <3> HIDE DEF k1
    <3> QED BY <1>1, <3>1, UnscheduleKept, UnscheduleInv DEF OneTimer
  <2>2. CASE ~kk.wait[t].timed
    <3>1. k1 = kk
      BY <2>2 DEF StopWaitTimer
    <3> HIDE DEF k1
    <3> QED BY <1>1, <3>1, FreedSelf DEF Freed, Quiet
  <2> QED BY <2>1, <2>2
<1> HIDE DEF k1
<1>3. Gone(k1, t) => k1.st[t] \in {{"DORMANT"}, {"DEAD"}}
  BY <1>2 DEF EndShapes, Gone
<1>4. Quiet(k1, k2) /\ ~Waits(k2, t)
  BY <1>2, <1>3, ResumeThreadQuiet
<1>5. "RUNNING" \notin k1.st[t]
  BY <1>2 DEF KernelInv, ThreadInv, StatusShape, ObjWait
<1>6. KernelInv(k2) /\ Calm(k1, k2)
  BY <1>2, <1>5, ResumeThreadInv
<1> HIDE DEF k2
<1>7. k1 \in Kernel /\ k2 \in Kernel
  BY <1>2, <1>6 DEF KernelInv
<1>8. Kept(kk, k2, t)
  BY <1>2, <1>4 DEF Quiet, Kept, isWaitingFor, Waits, Gone
<1>9. \A u \in Thread \ {t} : Kept(kk, k2, u)
  BY <1>1, <1>2, <1>4, <1>7, KeptTransitive DEF Quiet
<1>10. Quiet(kk, k2)
  BY <1>2, <1>4, <1>8, <1>9 DEF Quiet
<1>11. Calm(kk, k2)
  BY <1>2, <1>6, CalmTransitive
<1> QED BY <1>4, <1>6, <1>10, <1>11 DEF Freed, k1, k2

LEMMA FreedShapes ==
  ASSUME NEW kk, NEW k2, EndShapes(kk), Freed(kk, k2)
  PROVE  EndShapes(k2)
BY EndShapesKept DEF Freed, Quiet

LEMMA SoundShapes ==
  ASSUME NEW kk, WaitInv(kk)
  PROVE  EndShapes(kk)
BY DEF WaitInv, OwnWait, EndShapes

\* Letting waiters go keeps the thread manager sound, with or without a reschedule.
LEMMA FreedSound ==
  ASSUME NEW kk, Sound(kk), NEW k2, Freed(kk, k2)
  PROVE  /\ Sound(k2) /\ Sound(hleReSchedule(k2))
         /\ Quiet(kk, hleReSchedule(k2))
<1> DEFINE k3 == hleReSchedule(k2)
<1>1. kk \in Kernel /\ k2 \in Kernel /\ KernelInv(kk) /\ PhaseInv(kk) /\ WaitInv(kk)
  BY DEF Sound, Freed, KernelInv
<1>2. KernelInv(k3) /\ Pending(k2, k3)
  BY hleReScheduleInv DEF Freed
<1>3. k3 \in Kernel /\ Quiet(k2, k3)
  BY <1>1, hleReScheduleQuiet
<1> HIDE DEF k3
<1>4. Quiet(kk, k3)
  BY <1>1, <1>3, QuietTransitive DEF Freed
<1>5. WaitInv(k2) /\ WaitInv(k3)
  BY <1>1, <1>3, <1>4, QuietInv DEF Freed
<1>6. PhaseInv(k2)
  BY <1>1, CalmPhase DEF Freed, Calm
<1>7. PhaseInv(k3)
  BY <1>1, <1>2, CalmPhase DEF Freed, Calm, Pending
<1> QED BY <1>2, <1>4, <1>5, <1>6, <1>7 DEF Sound, Freed, k3

\* The current thread begins to wait for an object.
BeginsWait(kk, k2, y, w) ==
  /\ Waits(k2, kk.cur) /\ k2.wait[kk.cur] = w
  /\ w.timed => k2.timer[y][kk.cur] > 0
  /\ k2.ret = kk.ret /\ k2.cur = kk.cur /\ k2.disp /\ k2.frames # <<>>
  /\ \A u \in Thread \ {kk.cur} :
       k2.st[u] = kk.st[u] /\ k2.wait[u] = kk.wait[u] /\ k2.timer[y][u] = kk.timer[y][u]

LEMMA ObjAsleep ==
  ASSUME NEW kk, Sound(kk), kk.disp, kk.cur \in User,
         kk.st[kk.cur] \in {{"RUNNING"}, {"READY"}},
         NEW y \in ObjWait, NEW id \in Obj, NEW v \in Nat, NEW timed \in BOOLEAN
  PROVE  LET k2 == KernelWaitCurThread(SetWaitTimer(kk, y, timed), y, id, v, timed)
         IN  /\ Sound(k2)
             /\ BeginsWait(kk, k2, y, [type |-> y, id |-> id, value |-> v, timed |-> timed])
<1> DEFINE t == kk.cur
           w == [type |-> y, id |-> id, value |-> v, timed |-> timed]
           k1 == SetWaitTimer(kk, y, timed)
           k2 == KernelWaitCurThread(k1, y, id, v, timed)
<1>1. /\ KernelInv(kk) /\ WaitInv(kk) /\ kk \in Kernel /\ y \in TimerType
      /\ t \in Thread /\ y \in WaitType
  BY ObjTimers DEF Sound, KernelInv, Thread, ObjWait, WaitType
<1>2. /\ KernelInv(k1) /\ Calm(kk, k1) /\ OneTimer(kk, k1, y, t)
      /\ timed => k1.timer[y][t] > 0
  <2>1. CASE timed
    <3>1. k1 = ScheduleEvent(kk, y, t)
      BY <2>1 DEF SetWaitTimer
    <3> HIDE DEF k1, t
    <3> QED BY <1>1, <3>1, OneTimerOps, TimerOps, TimerInv
  <2>2. CASE ~timed
    <3>1. k1 = kk
      BY <2>2 DEF SetWaitTimer
    <3> HIDE DEF k1, t
    <3> QED BY <1>1, <2>2, <3>1, FreedSelf DEF Freed, OneTimer
  <2> QED BY <2>1, <2>2
<1> HIDE DEF k1
<1>3. /\ k1.cur = t /\ k1.disp /\ k1.st = kk.st /\ k1.wait = kk.wait /\ k1 \in Kernel
      /\ k1.joiners = kk.joiners /\ k1.wakeup = kk.wakeup /\ k1.ret = kk.ret
      /\ \A u \in Thread \ {t} : k1.timer[y][u] = kk.timer[y][u]
  BY <1>1, <1>2 DEF Calm, OneTimer
<1>4. WaitInv(k1)
  <2>1. Kept(kk, k1, t)
    BY <1>3, KeptActive DEF Waits, Gone
  <2>2. \A u \in Thread \ {t} : Kept(kk, k1, u)
    BY <1>1, <1>2, OneTimerKept
  <2>3. Quiet(kk, k1)
    BY <1>3, <2>1, <2>2 DEF Quiet
  <2> QED BY <1>1, <1>3, <2>3, QuietInv
<1>5. Asleep(k1, k2, w)
  BY <1>1, <1>2, <1>3, WaitCurInv
<1> HIDE DEF k2
<1>6. WaitInv(k2)
  <2>1. w.type = y /\ y \notin {"SLEEP", "DELAY", "THREADEND"}
    BY DEF ObjWait
  <2> HIDE DEF w
  <2> QED BY <1>1, <1>3, <1>4, <1>5, <2>1, AsleepInv
<1>7. /\ KernelInv(k2) /\ k2.frames # <<>> /\ k2.disp /\ k2.cur = t
      /\ k2.st = [k1.st EXCEPT ![t] = {"WAIT"}] /\ k2.wait = [k1.wait EXCEPT ![t] = w]
      /\ k2.timer = k1.timer /\ k2.ret = kk.ret
  BY <1>3, <1>5 DEF Asleep
<1>8. PhaseInv(k2)
  BY <1>7, PendingPhase
<1>9. BeginsWait(kk, k2, y, w)
  <2>1. /\ k2.st[t] = {"WAIT"} /\ k2.wait[t] = w
        /\ \A u \in Thread \ {t} : k2.st[u] = kk.st[u] /\ k2.wait[u] = kk.wait[u]
    <3>1. k1.st \in [Thread -> SUBSET StatusBits] /\ k1.wait \in [Thread -> Wait]
      BY <1>3 DEF Kernel
    <3> HIDE DEF w, t
    <3> QED BY <1>1, <1>3, <1>7, <3>1
  <2>2. w.timed = timed
    OBVIOUS
  <2> HIDE DEF w
  <2> QED BY <1>2, <1>3, <1>7, <2>1, <2>2 DEF BeginsWait, Waits
<1> QED BY <1>6, <1>7, <1>8, <1>9 DEF Sound, k2, k1

\* The timer of a wait of type y fires for t.
LEMMA ObjFired ==
  ASSUME NEW kk, Sound(kk), NEW y \in ObjWait, NEW t \in Thread, kk.timer[y][t] > 0
  PROVE  LET f == PopEvent(kk, y, t)
         IN  /\ KernelInv(f) /\ Calm(kk, f) /\ WaitInv(f)
             /\ OneTimer(kk, f, y, t) /\ f.frames = kk.frames
<1> DEFINE f == PopEvent(kk, y, t)
<1>1. KernelInv(kk) /\ WaitInv(kk) /\ kk \in Kernel /\ y \in TimerType
  BY ObjTimers DEF Sound, KernelInv
<1>2. OneTimer(kk, f, y, t) /\ KernelInv(f) /\ Calm(kk, f) /\ f \in Kernel
  BY <1>1, OneTimerOps, TimerOps, TimerInv DEF KernelInv
<1> HIDE DEF f
<1>3. \A u \in Thread \ {t} : Kept(kk, f, u)
  BY <1>1, <1>2, OneTimerKept
<1>4. /\ f.st = kk.st /\ f.wait = kk.wait /\ f.wakeup = kk.wakeup
      /\ f.joiners = kk.joiners /\ f.timer["DELAY"] = kk.timer["DELAY"]
      /\ f.timer["THREADEND"] = kk.timer["THREADEND"]
  BY <1>2 DEF OneTimer, ObjWait, TimerType
<1>5. \A u \in Thread : OwnWait(f, u) /\ JoinRight(f, u)
  BY <1>1, <1>4 DEF WaitInv, OwnWait, JoinRight, Waits, Gone, isWaitingFor
<1> QED BY <1>2, <1>5 DEF WaitInv, Calm, f

\* An event that is not followed by anything, as t is not in a wait of type y.
LEMMA ObjStale ==
  ASSUME NEW kk, Sound(kk), NEW y \in ObjWait, NEW t \in Thread, kk.timer[y][t] > 0,
         ~(Waits(kk, t) /\ kk.wait[t].type = y)
  PROVE  Sound(PopEvent(kk, y, t)) /\ SameWaits(kk, PopEvent(kk, y, t), y)
<1> DEFINE f == PopEvent(kk, y, t)
<1>1. KernelInv(kk) /\ PhaseInv(kk) /\ kk \in Kernel /\ y \in TimerType
  BY ObjTimers DEF Sound, KernelInv
<1>2. KernelInv(f) /\ Calm(kk, f) /\ WaitInv(f) /\ OneTimer(kk, f, y, t)
  BY ObjFired
<1> HIDE DEF f
<1>3. PhaseInv(f)
  BY <1>1, <1>2, CalmPhase DEF Calm
<1>4. SameWaits(kk, f, y)
  BY <1>1, <1>2 DEF OneTimer, SameWaits, Waits
<1> QED BY <1>2, <1>3, <1>4 DEF Sound, f

\* WaitExecTimeout(): t, which waits for an object of type y or has done so, is
\* resumed, and a reschedule is under way.
LEMMA ObjTimedOut ==
  ASSUME NEW kk, Sound(kk), NEW y \in ObjWait, NEW t \in Thread, kk.timer[y][t] > 0,
         kk.wait[t].type = y, NEW rest \in Obj \cup {NoObj}
  PROVE  LET k2 == WaitExecTimeout(PopEvent(kk, y, t), t, rest)
         IN  Sound(k2) /\ Quiet(kk, k2)
<1> DEFINE f == PopEvent(kk, y, t)
           k1 == KernelResumeThreadFromWait(f, t, "WAIT_TIMEOUT")
           k2 == [k1 EXCEPT !.frames = Append(@, rest)]
<1>1. KernelInv(kk) /\ PhaseInv(kk) /\ WaitInv(kk) /\ kk \in Kernel /\ y \in TimerType
  BY ObjTimers DEF Sound, KernelInv
<1>2. KernelInv(f) /\ Calm(kk, f) /\ WaitInv(f) /\ OneTimer(kk, f, y, t)
  BY ObjFired
<1> HIDE DEF f
<1>3. /\ \A u \in Thread \ {t} : Kept(kk, f, u)
      /\ f \in Kernel /\ f.wait = kk.wait /\ f.st = kk.st /\ f.joiners = kk.joiners
  BY <1>1, <1>2, OneTimerKept DEF OneTimer
<1>4. "RUNNING" \notin f.st[t] /\ "WAIT_TIMEOUT" \in Result
  BY <1>2, <1>3 DEF KernelInv, ThreadInv, StatusShape, ObjWait, Result
<1>5. Gone(f, t) => f.st[t] \in {{"DORMANT"}, {"DEAD"}}
  BY <1>2 DEF WaitInv, OwnWait
<1>6. KernelInv(k1) /\ Calm(f, k1) /\ Quiet(f, k1) /\ ~Waits(k1, t)
  BY <1>2, <1>4, <1>5, ResumeThreadInv, ResumeThreadQuiet
<1> HIDE DEF k1
<1>7. KernelInv(k2) /\ Pending(k1, k2)
  BY <1>6, PushFrameInv
<1>8. k2 = WaitExecTimeout(f, t, rest)
  BY DEF WaitExecTimeout, k1
<1> HIDE DEF k2
<1>9. k1 \in Kernel /\ k2 \in Kernel
  BY <1>6, <1>7 DEF KernelInv
<1>10. Kept(kk, k1, t)
  BY <1>3, <1>6 DEF Quiet, Kept, isWaitingFor, Waits, Gone
<1>11. \A u \in Thread \ {t} : Kept(kk, k1, u)
  BY <1>1, <1>3, <1>6, <1>9, KeptTransitive DEF Quiet
<1>12. Quiet(kk, k1)
  BY <1>3, <1>6, <1>10, <1>11 DEF Quiet
<1>13. Quiet(k1, k2)
  BY <1>7, <1>9, SameQuiet DEF Pending, WaitsSame
<1>14. Quiet(kk, k2)
  BY <1>1, <1>9, <1>12, <1>13, QuietTransitive
<1>15. WaitInv(k2)
  BY <1>1, <1>9, <1>14, QuietInv
<1>16. PhaseInv(k2)
  BY <1>1, <1>2, <1>6, <1>7, CalmPhase, ZenonT(40) DEF Calm, Pending
<1> QED BY <1>7, <1>8, <1>14, <1>15, <1>16 DEF Sound, f

-----------------------------------------------------------------------------
(* The wait records of threads that do not wait any more.  VerifyWait() looks  *)
(* at the record alone, and it stays until the thread is switched in.          *)

\* Nobody ends.
Lives(kk, k2) == \A u \in Thread : Gone(k2, u) => Gone(kk, u)

\* A record stays as it is or is cleared; if it is one of a kernel object, no event
\* is added and the result does not become a timeout.
RecordKept(kk, k2, u) ==
  /\ k2.wait[u] = kk.wait[u]
  /\ k2.wait[u].type \in ObjWait =>
       /\ k2.ret[u] = "WAIT_TIMEOUT" => kk.ret[u] = "WAIT_TIMEOUT"
       /\ \A y \in ObjWait : k2.timer[y][u] <= kk.timer[y][u]
Records(kk, k2) == \A u \in Thread : k2.wait[u] = NoWait \/ RecordKept(kk, k2, u)

\* The same for the records of the objects only: other waits may have begun.
ObjRecords(kk, k2) ==
  \A u \in Thread : k2.wait[u].type \in ObjWait => RecordKept(kk, k2, u)

\* The current thread has no record, unless a reschedule will switch away from it.
Settled(kk) ==
  kk.cur \in Thread /\ kk.wait[kk.cur].type # "NONE" => kk.disp /\ kk.frames # <<>>

Steady(kk, k2) == k2 \in Kernel /\ Records(kk, k2) /\ Lives(kk, k2) /\ k2.cur = kk.cur

LEMMA TimerTypes ==
  ASSUME NEW kk \in Kernel, NEW y \in ObjWait, NEW u \in Thread
  PROVE  kk.timer[y][u] \in Nat
BY ObjTimers DEF Kernel

LEMMA RecordsSame ==
  ASSUME NEW kk \in Kernel, NEW k2, k2.wait = kk.wait, k2.ret = kk.ret,
         k2.timer = kk.timer
  PROVE  Records(kk, k2)
<1>1. \A u \in Thread, y \in ObjWait : k2.timer[y][u] <= kk.timer[y][u]
  BY TimerTypes
<1> QED BY <1>1 DEF Records, RecordKept

LEMMA RecordsTransitive ==
  ASSUME NEW k1 \in Kernel, NEW k2 \in Kernel, NEW k3 \in Kernel,
         Records(k1, k2), Records(k2, k3)
  PROVE  Records(k1, k3)
<1> SUFFICES ASSUME NEW u \in Thread, k3.wait[u] # NoWait PROVE RecordKept(k1, k3, u)
  BY DEF Records
<1>1. RecordKept(k2, k3, u) /\ RecordKept(k1, k2, u)
  BY DEF Records, RecordKept
<1>2. ASSUME NEW y \in ObjWait, k3.wait[u].type \in ObjWait
      PROVE  k3.timer[y][u] <= k1.timer[y][u]
  <2>1. k3.timer[y][u] <= k2.timer[y][u] /\ k2.timer[y][u] <= k1.timer[y][u]
    BY <1>1, <1>2 DEF RecordKept
  <2>2. k1.timer[y][u] \in Nat /\ k2.timer[y][u] \in Nat /\ k3.timer[y][u] \in Nat
    BY TimerTypes
  <2> QED BY <2>1, <2>2
<1> QED BY <1>1, <1>2 DEF RecordKept

LEMMA SteadyTransitive ==
  ASSUME NEW k1 \in Kernel, NEW k2, NEW k3, Steady(k1, k2), Steady(k2, k3)
  PROVE  Steady(k1, k3)
BY RecordsTransitive DEF Steady, Lives

LEMMA SteadySame ==
  ASSUME NEW kk \in Kernel, NEW k2 \in Kernel, k2.wait = kk.wait, k2.ret = kk.ret,
         k2.timer = kk.timer, k2.cur = kk.cur, k2.st = kk.st
  PROVE  Steady(kk, k2)
BY RecordsSame DEF Steady, Lives, Gone

LEMMA SteadyQuiet ==
  ASSUME NEW kk \in Kernel, NEW k2 \in Kernel, Quiet(kk, k2), k2.cur = kk.cur,
         k2.wait = kk.wait, k2.ret = kk.ret, k2.timer = kk.timer
  PROVE  Steady(kk, k2)
BY RecordsSame DEF Steady, Lives, Quiet, Kept, Gone

\* A step that is steady keeps the current thread without a record.
LEMMA SteadySettled ==
  ASSUME NEW kk, NEW k2, Settled(kk), Steady(kk, k2),
         kk.frames = <<>> \/ (k2.disp = kk.disp /\ k2.frames # <<>>)
  PROVE  Settled(k2)
BY DEF Settled, Steady, Records, RecordKept, NoWait

LEMMA RecordsObj ==
  ASSUME NEW kk, NEW k2, Records(kk, k2)
  PROVE  ObjRecords(kk, k2)
BY DEF Records, ObjRecords, NoWait, ObjWait

-----------------------------------------------------------------------------
LEMMA hleReScheduleSteady ==
  ASSUME NEW kk \in Kernel
  PROVE  LET k2 == hleReSchedule(kk)
         IN  Steady(kk, k2) /\ k2.disp = kk.disp /\ k2.frames # <<>>
<1> DEFINE f == Append(kk.frames, NoObj)
           k2 == hleReSchedule(kk)
<1>1. k2 = [kk EXCEPT !.frames = f] /\ f # <<>> /\ k2 \in Kernel
  <2>1. kk.frames \in Seq(Obj \cup {NoObj}) /\ k2 \in Kernel
    BY hleReScheduleQuiet DEF Kernel
  <2>2. f # <<>>
    <3>1. Len(f) = Len(kk.frames) + 1 /\ Len(kk.frames) \in Nat
      BY <2>1
    <3> HIDE DEF f, k2
    <3> QED BY <3>1
  <2> QED BY <2>1, <2>2 DEF hleReSchedule
<1> HIDE DEF f, k2
<1>2. /\ k2.wait = kk.wait /\ k2.ret = kk.ret /\ k2.timer = kk.timer
      /\ k2.cur = kk.cur /\ k2.st = kk.st /\ k2.disp = kk.disp /\ k2.frames = f
  BY <1>1 DEF Kernel
<1> QED BY <1>1, <1>2, SteadySame DEF k2

\* KernelChangeReadyState() to READY.
LEMMA ReadySteady ==
  ASSUME NEW kk \in Kernel, NEW t \in Thread
  PROVE  LET k2 == KernelChangeReadyState(kk, t, TRUE)
         IN  Steady(kk, k2) /\ k2.disp = kk.disp /\ k2.frames = kk.frames
<1> DEFINE k2 == KernelChangeReadyState(kk, t, TRUE)
           p == kk.prio[t]
           front == [kk.rq EXCEPT ![p] = <<t>> \o kk.rq[p]]
           back == [kk.rq EXCEPT ![p] = Append(kk.rq[p], t)]
           s == [kk.st EXCEPT ![t] = {"READY"}]
<1>1. k2 \in Kernel /\ Quiet(kk, k2)
  BY ReadyQuiet
<1>2. \/ k2 = kk
      \/ k2 = [kk EXCEPT !.rq = front, !.st = s]
      \/ k2 = [kk EXCEPT !.rq = back, !.st = s]
  BY DEF KernelChangeReadyState, push_front, push_back, Kernel
<1> HIDE DEF k2, front, back, s
<1>3. /\ k2.wait = kk.wait /\ k2.ret = kk.ret /\ k2.timer = kk.timer
      /\ k2.cur = kk.cur /\ k2.disp = kk.disp /\ k2.frames = kk.frames
  BY <1>2 DEF Kernel
<1> QED BY <1>1, <1>3, SteadyQuiet DEF k2

\* __KernelResumeThreadFromWait(), but not of a thread whose wait for an object has
\* timed out.
LEMMA ResumeThreadRecords ==
  ASSUME NEW kk, KernelInv(kk), EndShapes(kk), NEW t \in Thread, NEW r \in Result,
         "RUNNING" \notin kk.st[t]
  PROVE  LET k2 == KernelResumeThreadFromWait(kk, t, r)
         IN  /\ k2 \in Kernel /\ Lives(kk, k2) /\ k2.cur = kk.cur /\ k2.disp = kk.disp
             /\ k2.frames = kk.frames /\ k2.wait = kk.wait /\ k2.timer = kk.timer
             /\ k2.ret = [kk.ret EXCEPT ![t] = r]
             /\ r # "WAIT_TIMEOUT" \/ kk.wait[t].type \notin ObjWait => Steady(kk, k2)
<1> DEFINE k1 == resumeFromWait(kk, t)
           k2 == KernelResumeThreadFromWait(kk, t, r)
<1>1. kk \in Kernel /\ k1 = [kk EXCEPT !.st = k1.st, !.rq = k1.rq]
  BY ResumeInv DEF KernelInv
<1>2. KernelInv(k2) /\ Calm(kk, k2) /\ Quiet(kk, k2)
  BY ResumeThreadInv, ResumeThreadQuiet DEF EndShapes
<1>3. k2 = [k1 EXCEPT !.ret = [k1.ret EXCEPT ![t] = r]]
  BY <1>1 DEF KernelResumeThreadFromWait, Kernel
<1> HIDE DEF k1, k2
<1>4. k1.ret = kk.ret /\ k1.wait = kk.wait /\ k1.timer = kk.timer
  BY <1>1 DEF Kernel
<1>5. /\ k2.wait = kk.wait /\ k2.timer = kk.timer /\ k2.ret = [kk.ret EXCEPT ![t] = r]
  BY <1>1, <1>3, <1>4 DEF Kernel
<1>6. k2 \in Kernel /\ Lives(kk, k2)
  BY <1>2 DEF KernelInv, Quiet, Kept, Lives, Gone
<1>7. ASSUME r # "WAIT_TIMEOUT" \/ kk.wait[t].type \notin ObjWait PROVE Records(kk, k2)
  <2>1. \A u \in Thread : k2.ret[u] = IF u = t THEN r ELSE kk.ret[u]
    BY <1>1, <1>5 DEF Kernel
  <2>2. \A u \in Thread, y \in ObjWait : k2.timer[y][u] <= kk.timer[y][u]
    BY <1>1, <1>5, TimerTypes
  <2> QED BY <1>5, <1>7, <2>1, <2>2 DEF Records, RecordKept
<1> QED BY <1>2, <1>5, <1>6, <1>7 DEF Calm, Steady, k2

\* An event of t fires or is removed.
LEMMA TimerSteady ==
  ASSUME NEW kk \in Kernel, NEW y \in TimerType, NEW t \in Thread
  PROVE  /\ LET k2 == UnscheduleEvent(kk, y, t)
            IN  Steady(kk, k2) /\ k2.disp = kk.disp /\ k2.frames = kk.frames
         /\ kk.timer[y][t] > 0 =>
              LET k2 == PopEvent(kk, y, t)
              IN  Steady(kk, k2) /\ k2.disp = kk.disp /\ k2.frames = kk.frames
<1>1. kk.timer \in [TimerType -> [Thread -> Nat]] /\ kk.timer[y][t] \in Nat
  BY DEF Kernel
<1>2. ASSUME NEW n \in Nat, n <= kk.timer[y][t]
      PROVE  LET k2 == [kk EXCEPT !.timer = [kk.timer EXCEPT ![y][t] = n]]
             IN  Steady(kk, k2) /\ k2.disp = kk.disp /\ k2.frames = kk.frames
  <2> DEFINE tm == [kk.timer EXCEPT ![y][t] = n]
             k2 == [kk EXCEPT !.timer = tm]
  <2>1. /\ tm \in [TimerType -> [Thread -> Nat]]
        /\ \A z \in TimerType, u \in Thread : tm[z][u] <= kk.timer[z][u]
    <3>1. tm \in [TimerType -> [Thread -> Nat]]
      BY <1>1
    <3>2. ASSUME NEW z \in TimerType, NEW u \in Thread PROVE tm[z][u] <= kk.timer[z][u]
      <4>1. tm[z][u] = IF z = y /\ u = t THEN n ELSE kk.timer[z][u]
        BY <1>1
      <4>2. kk.timer[z][u] \in Nat
        BY <1>1
      <4> HIDE DEF tm
      <4> QED BY <1>2, <4>1, <4>2
    <3> QED BY <3>1, <3>2
  <2> HIDE DEF tm
  <2>2. /\ k2 \in Kernel /\ k2.st = kk.st /\ k2.wait = kk.wait /\ k2.ret = kk.ret
        /\ k2.timer = tm /\ k2.cur = kk.cur /\ k2.disp = kk.disp /\ k2.frames = kk.frames
    BY <2>1 DEF Kernel
  <2> HIDE DEF k2
  <2>3. \A z \in ObjWait, u \in Thread : k2.timer[z][u] <= kk.timer[z][u]
    BY <2>1, <2>2, ObjTimers
  <2>4. Records(kk, k2)
    BY <2>2, <2>3 DEF Records, RecordKept
  <2> QED BY <2>2, <2>4 DEF Steady, Lives, Gone, k2, tm
<1>3. UnscheduleEvent(kk, y, t) = [kk EXCEPT !.timer = [kk.timer EXCEPT ![y][t] = 0]]
  BY <1>1 DEF UnscheduleEvent, Kernel
<1>4. PopEvent(kk, y, t) = [kk EXCEPT !.timer = [kk.timer EXCEPT ![y][t] = kk.timer[y][t] - 1]]
  BY <1>1 DEF PopEvent, Kernel
<1>5. LET k2 == UnscheduleEvent(kk, y, t)
      IN  Steady(kk, k2) /\ k2.disp = kk.disp /\ k2.frames = kk.frames
  <2>1. 0 \in Nat /\ 0 <= kk.timer[y][t]
    BY <1>1
  <2> QED BY <1>2, <1>3, <2>1
<1>6. ASSUME kk.timer[y][t] > 0
      PROVE  LET k2 == PopEvent(kk, y, t)
             IN  Steady(kk, k2) /\ k2.disp = kk.disp /\ k2.frames = kk.frames
  <2> DEFINE n == kk.timer[y][t] - 1
  <2>1. n \in Nat /\ n <= kk.timer[y][t]
    BY <1>1, <1>6
  <2>2. PopEvent(kk, y, t) = [kk EXCEPT !.timer = [kk.timer EXCEPT ![y][t] = n]]
    BY <1>4
  <2> HIDE DEF n
  <2> QED BY <1>2, <2>1, <2>2
<1> QED BY <1>5, <1>6

-----------------------------------------------------------------------------
(* What the steps of the thread manager do to the records. *)

Tidy(kk, k2) == ObjRecords(kk, k2) /\ Lives(kk, k2) /\ Settled(k2)

LEMMA CallTidy ==
  ASSUME NEW kk, NEW k2, Settled(kk), kk.frames = <<>>, Steady(kk, k2)
  PROVE  Tidy(kk, k2)
BY SteadySettled, RecordsObj DEF Tidy, Steady

\* A system call that ends with a reschedule.
LEMMA CallPendingTidy ==
  ASSUME NEW kk \in Kernel, NEW k2, Settled(kk), kk.frames = <<>>, Steady(kk, k2)
  PROVE  Tidy(kk, hleReSchedule(k2))
<1>1. k2 \in Kernel
  BY DEF Steady
<1>2. Steady(k2, hleReSchedule(k2))
  BY <1>1, hleReScheduleSteady
<1>3. Steady(kk, hleReSchedule(k2))
  BY <1>2, SteadyTransitive
<1> QED BY <1>3, CallTidy

\* The caller begins a wait that is none for an object.
LEMMA AsleepTidy ==
  ASSUME NEW kk \in Kernel, NEW k1, NEW k2, NEW w, Steady(kk, k1), Asleep(k1, k2, w),
         k1.cur \in Thread, w.type \notin ObjWait
  PROVE  Tidy(kk, k2)
<1> DEFINE c == k1.cur
<1>1. /\ k1 \in Kernel /\ k2.disp /\ k2.frames # <<>> /\ k2.ret = k1.ret
      /\ k2.timer = k1.timer /\ k2.cur = c
      /\ k2.st = [k1.st EXCEPT ![c] = {"WAIT"}] /\ k2.wait = [k1.wait EXCEPT ![c] = w]
  BY DEF Steady, Asleep
<1>2. /\ k2.st[c] = {"WAIT"} /\ k2.wait[c] = w
      /\ \A u \in Thread \ {c} : k2.st[u] = k1.st[u] /\ k2.wait[u] = k1.wait[u]
  <2>1. /\ k1.st \in [Thread -> SUBSET StatusBits] /\ k1.wait \in [Thread -> Wait]
        /\ c \in Thread
    BY <1>1 DEF Kernel
  <2> HIDE DEF c
  <2> QED BY <1>1, <2>1
<1> HIDE DEF c
<1>3. Records(kk, k1) /\ Lives(kk, k1)
  BY DEF Steady
<1>4. Lives(kk, k2)
  BY <1>2, <1>3 DEF Lives, Gone
<1>5. ObjRecords(kk, k2)
  BY <1>1, <1>2, <1>3 DEF Records, RecordKept, ObjRecords, NoWait, ObjWait
<1> QED BY <1>1, <1>4, <1>5 DEF Tidy, Settled

LEMMA CreateTidy ==
  ASSUME Inv, Settled(k), NEW t \in User, NEW p \in UserPrio, sceKernelCreateThread(t, p)
  PROVE  Tidy(k, k')
<1> DEFINE k1 == [KernelCreateThreadObject(k, t, p) EXCEPT !.disp = TRUE]
<1>1. k \in Kernel /\ "DEAD" \in k.st[t] /\ k' = hleReSchedule(k1) /\ k.frames = <<>>
  BY InCall DEF sceKernelCreateThread, Exists
<1>2. t \in Thread /\ p \in Prio
  BY DEF Thread, Prio
<1>3. /\ [k.st EXCEPT ![t] = {"DORMANT"}] \in [Thread -> SUBSET StatusBits]
      /\ [k.prio EXCEPT ![t] = p] \in [Thread -> Prio]
      /\ [k.initp EXCEPT ![t] = p] \in [Thread -> Prio]
      /\ [k.wait EXCEPT ![t] = NoWait] \in [Thread -> Wait]
  BY <1>1, <1>2 DEF Kernel, StatusBits, NoWait, Wait, WaitType, ObjWait
<1>4. /\ [k.ret EXCEPT ![t] = "none"] \in [Thread -> Result]
      /\ [k.wakeup EXCEPT ![t] = 0] \in [Thread -> Nat]
      /\ [k.joiners EXCEPT ![t] = <<>>] \in [Thread -> Seq(Thread)]
  BY <1>1, <1>2 DEF Kernel, Result
<1>5. k1 = [k EXCEPT !.st = [k.st EXCEPT ![t] = {"DORMANT"}],
                     !.prio = [k.prio EXCEPT ![t] = p],
                     !.initp = [k.initp EXCEPT ![t] = p],
                     !.wait = [k.wait EXCEPT ![t] = NoWait],
                     !.ret = [k.ret EXCEPT ![t] = "none"],
                     !.wakeup = [k.wakeup EXCEPT ![t] = 0],
                     !.joiners = [k.joiners EXCEPT ![t] = <<>>],
                     !.disp = TRUE]
  BY <1>1 DEF KernelCreateThreadObject, Kernel
<1> HIDE DEF k1
<1>6. /\ k1 \in Kernel /\ k1.cur = k.cur /\ k1.timer = k.timer
      /\ k1.st = [k.st EXCEPT ![t] = {"DORMANT"}] /\ k1.wait = [k.wait EXCEPT ![t] = NoWait]
      /\ k1.ret = [k.ret EXCEPT ![t] = "none"]
  BY <1>1, <1>3, <1>4, <1>5 DEF Kernel
<1>7. /\ k1.wait[t] = NoWait
      /\ \A u \in Thread \ {t} :
           k1.wait[u] = k.wait[u] /\ k1.ret[u] = k.ret[u] /\ k1.st[u] = k.st[u]
  BY <1>1, <1>2, <1>6 DEF Kernel
<1>8. \A u \in Thread, y \in ObjWait : k1.timer[y][u] <= k.timer[y][u]
  BY <1>1, <1>6, TimerTypes
<1>9. Records(k, k1)
  BY <1>7, <1>8 DEF Records, RecordKept
<1>10. Lives(k, k1)
  BY <1>1, <1>7 DEF Lives, Gone
<1> QED BY <1>1, <1>6, <1>9, <1>10, CallPendingTidy DEF Steady

LEMMA StartTidy ==
  ASSUME Inv, Settled(k), NEW t \in User, sceKernelStartThread(t)
  PROVE  Tidy(k, k')
<1> DEFINE c == k.cur
           reset == KernelResetThread(k, t, k.prio[c])
           ready == KernelChangeReadyState(reset, c, TRUE)
           yielded == IF reset.prio[t] < k.prio[c] THEN hleReSchedule(ready)
                      ELSE [reset EXCEPT !.disp = TRUE]
<1>1. /\ k \in Kernel /\ c \in Thread /\ k.frames = <<>>
      /\ k' = KernelChangeReadyState(yielded, t, TRUE)
  BY InCall DEF sceKernelStartThread
<1>2. t \in Thread
  BY DEF Thread
<1>3. Steady(k, reset)
  <2> DEFINE q == IF k.prio[t] < k.prio[c] THEN k.initp[t] ELSE k.prio[t]
  <2>1. q \in Prio
    BY <1>1, <1>2 DEF Kernel
  <2>2. reset = [k EXCEPT !.prio = [k.prio EXCEPT ![t] = q],
                          !.wait = [k.wait EXCEPT ![t] = NoWait],
                          !.ret = [k.ret EXCEPT ![t] = "none"]]
    BY <1>1 DEF KernelResetThread, Kernel
  <2> HIDE DEF q, reset
  <2>3. /\ [k.prio EXCEPT ![t] = q] \in [Thread -> Prio]
        /\ [k.wait EXCEPT ![t] = NoWait] \in [Thread -> Wait]
        /\ [k.ret EXCEPT ![t] = "none"] \in [Thread -> Result]
    BY <1>1, <1>2, <2>1 DEF Kernel, NoWait, Wait, WaitType, ObjWait, Result
  <2>4. /\ reset \in Kernel /\ reset.st = k.st /\ reset.timer = k.timer /\ reset.cur = k.cur
        /\ reset.wait = [k.wait EXCEPT ![t] = NoWait]
        /\ reset.ret = [k.ret EXCEPT ![t] = "none"]
    BY <1>1, <2>2, <2>3 DEF Kernel
  <2>5. /\ reset.wait[t] = NoWait
        /\ \A u \in Thread \ {t} : reset.wait[u] = k.wait[u] /\ reset.ret[u] = k.ret[u]
    BY <1>1, <1>2, <2>4 DEF Kernel
  <2>6. \A u \in Thread, y \in ObjWait : reset.timer[y][u] <= k.timer[y][u]
    BY <1>1, <2>4, TimerTypes
  <2>7. Records(k, reset)
    BY <2>5, <2>6 DEF Records, RecordKept
  <2> QED BY <2>4, <2>7 DEF Steady, Lives, Gone
<1> HIDE DEF reset
<1>4. Steady(k, yielded)
  <2>1. reset \in Kernel
    BY <1>3 DEF Steady
  <2>2. CASE reset.prio[t] < k.prio[c]
    <3>1. Steady(reset, ready)
      BY <1>1, <2>1, ReadySteady
    <3>2. yielded = hleReSchedule(ready)
      BY <2>2
    <3> HIDE DEF ready, yielded
    <3>3. ready \in Kernel
      BY <3>1 DEF Steady
    <3>4. Steady(ready, yielded)
      BY <3>2, <3>3, hleReScheduleSteady
    <3> QED BY <1>1, <1>3, <3>1, <3>4, SteadyTransitive
  <2>3. CASE ~(reset.prio[t] < k.prio[c])
    <3>1. yielded = [reset EXCEPT !.disp = TRUE]
      BY <2>3
    <3> HIDE DEF yielded
    <3>2. /\ yielded \in Kernel /\ yielded.st = reset.st /\ yielded.wait = reset.wait
          /\ yielded.timer = reset.timer /\ yielded.ret = reset.ret
          /\ yielded.cur = reset.cur
      BY <2>1, <3>1 DEF Kernel
    <3> QED BY <1>1, <1>3, <2>1, <3>2, SteadySame, SteadyTransitive
  <2> QED BY <2>2, <2>3
<1> HIDE DEF yielded
<1>5. yielded \in Kernel
  BY <1>4 DEF Steady
<1>6. Steady(yielded, k')
  BY <1>1, <1>2, <1>5, ReadySteady
<1> QED BY <1>1, <1>4, <1>6, SteadyTransitive, CallTidy

LEMMA DispatchTidy ==
  ASSUME Inv, Settled(k),
         sceKernelSuspendDispatchThread
           \/ \E enabled \in BOOLEAN : sceKernelResumeDispatchThread(enabled)
  PROVE  Tidy(k, k')
<1>1. k \in Kernel /\ k.frames = <<>>
  BY InCall DEF sceKernelSuspendDispatchThread, sceKernelResumeDispatchThread
<1>2. PICK b \in BOOLEAN : LET k1 == [k EXCEPT !.disp = b]
                           IN  k' = k1 \/ k' = hleReSchedule(k1)
  BY DEF sceKernelSuspendDispatchThread, sceKernelResumeDispatchThread
<1> DEFINE k1 == [k EXCEPT !.disp = b]
<1>3. /\ k1 \in Kernel /\ k1.st = k.st /\ k1.wait = k.wait /\ k1.timer = k.timer
      /\ k1.ret = k.ret /\ k1.cur = k.cur
  BY <1>1 DEF Kernel
<1> HIDE DEF k1
<1>4. Steady(k, k1)
  BY <1>1, <1>3, SteadySame
<1> QED BY <1>1, <1>2, <1>4, CallTidy, CallPendingTidy DEF k1

LEMMA RotateTidy ==
  ASSUME Disciplined, Inv, Settled(k), NEW p \in UserPrio,
         sceKernelRotateThreadReadyQueue(p)
  PROVE  Tidy(k, k')
<1> DEFINE c == k.cur
           k1 == KernelRotateThreadReadyQueue(k, p)
           s == (k.st[c] \ {"RUNNING"}) \cup {"READY"}
           back == [k.rq EXCEPT ![p] = Append(k.rq[p], c)]
           turned == [k.rq EXCEPT ![p] = Append(Tail(k.rq[p]), Head(k.rq[p]))]
<1>1. /\ KernelInv(k) /\ k.cur \in User /\ k.st[k.cur] = {"RUNNING"} /\ k \in Kernel
      /\ c \in Thread /\ k' = hleReSchedule(k1) /\ k.frames = <<>>
  BY InCall DEF sceKernelRotateThreadReadyQueue, Disciplined
<1>2. k1 \in Kernel
  BY <1>1, RotateInv DEF KernelInv
<1>3. \/ k1 = k
      \/ k1 = [k EXCEPT !.rq = back, !.st = [k.st EXCEPT ![c] = s]]
      \/ k1 = [k EXCEPT !.rq = turned]
  BY <1>1 DEF KernelRotateThreadReadyQueue, rotate, push_back, Kernel
<1> HIDE DEF k1, s, back, turned
<1>4. /\ k1.wait = k.wait /\ k1.ret = k.ret /\ k1.timer = k.timer /\ k1.cur = k.cur
      /\ k1.st = k.st \/ k1.st = [k.st EXCEPT ![c] = s]
  BY <1>1, <1>3 DEF Kernel
<1>5. \A u \in Thread : k1.st[u] = k.st[u] \/ (u = c /\ k1.st[u] = s)
  BY <1>1, <1>4 DEF Kernel
<1>6. Lives(k, k1)
  BY <1>5 DEF Lives, Gone, s
<1>7. Steady(k, k1)
  BY <1>1, <1>2, <1>4, <1>6, RecordsSame DEF Steady
<1> QED BY <1>1, <1>7, CallPendingTidy

LEMMA PriorityTidy ==
  ASSUME Inv, Settled(k), NEW t \in User, NEW p \in UserPrio,
         sceKernelChangeThreadPriority(t, p)
  PROVE  Tidy(k, k')
<1> DEFINE k1 == KernelChangeThreadPriority(k, t, p)
           removed == remove(k, k.prio[t], t)
           moved == [removed EXCEPT !.prio[t] = p]
           s == (moved.st[t] \ {"RUNNING"}) \cup {"READY"}
           ready == IF "RUNNING" \in k.st[t] THEN [moved EXCEPT !.st[t] = s] ELSE moved
           queued == push_back(ready, p, t)
<1>1. k \in Kernel /\ t \in Thread /\ k' = hleReSchedule(k1) /\ KernelInv(k) /\ k.frames = <<>>
  BY InCall DEF sceKernelChangeThreadPriority, Thread
<1>2. k1 \in Kernel /\ k1.cur = k.cur
  BY <1>1, PriorityInv DEF KernelInv
<1>3. removed = [k EXCEPT !.rq = removed.rq]
  BY <1>1 DEF remove, Kernel
<1>4. k1 = queued \/ k1 = ready
  BY DEF KernelChangeThreadPriority
<1> HIDE DEF removed, k1
<1>5. moved = [k EXCEPT !.rq = removed.rq, !.prio = [removed.prio EXCEPT ![t] = p]]
  BY <1>1, <1>3 DEF Kernel
<1> HIDE DEF moved
<1>6. moved.st = k.st
  BY <1>1, <1>5 DEF Kernel
<1> HIDE DEF s
<1>7. \/ ready = [k EXCEPT !.rq = removed.rq, !.prio = moved.prio]
      \/ ready = [k EXCEPT !.rq = removed.rq, !.prio = moved.prio,
                           !.st = [k.st EXCEPT ![t] = s]]
  BY <1>1, <1>5, <1>6 DEF Kernel
<1> HIDE DEF ready
<1>8. \/ k1 = [k EXCEPT !.rq = k1.rq, !.prio = moved.prio]
      \/ k1 = [k EXCEPT !.rq = k1.rq, !.prio = moved.prio, !.st = [k.st EXCEPT ![t] = s]]
  <2>1. k1 = ready \/ k1 = [ready EXCEPT !.rq = queued.rq]
    BY <1>1, <1>4, <1>7 DEF push_back, Kernel
  <2> HIDE DEF queued
  <2>2. CASE ready = [k EXCEPT !.rq = removed.rq, !.prio = moved.prio]
    BY <1>1, <2>1, <2>2 DEF Kernel
  <2>3. CASE ready = [k EXCEPT !.rq = removed.rq, !.prio = moved.prio,
                               !.st = [k.st EXCEPT ![t] = s]]
    BY <1>1, <2>1, <2>3 DEF Kernel
  <2> QED BY <1>7, <2>2, <2>3
<1>9. /\ k1.wait = k.wait /\ k1.ret = k.ret /\ k1.timer = k.timer
      /\ k1.st = k.st \/ k1.st = [k.st EXCEPT ![t] = s]
  BY <1>1, <1>8 DEF Kernel
<1>10. \A u \in Thread : k1.st[u] = k.st[u] \/ (u = t /\ k1.st[u] = s)
  BY <1>1, <1>9 DEF Kernel
<1>11. Lives(k, k1)
  BY <1>6, <1>10 DEF Lives, Gone, s
<1>12. Steady(k, k1)
  BY <1>1, <1>2, <1>9, <1>11, RecordsSame DEF Steady
<1> QED BY <1>1, <1>12, CallPendingTidy

\* A change of the events of one type that is none of an object.
LEMMA OtherTimerSteady ==
  ASSUME NEW kk \in Kernel, NEW k2, NEW y \in TimerType \ ObjWait, NEW t \in Thread,
         OneTimer(kk, k2, y, t), k2.cur = kk.cur
  PROVE  Steady(kk, k2)
<1>1. \A u \in Thread, z \in ObjWait : k2.timer[z][u] <= kk.timer[z][u]
  <2> SUFFICES ASSUME NEW u \in Thread, NEW z \in ObjWait
               PROVE  k2.timer[z][u] <= kk.timer[z][u]
    OBVIOUS
  <2>1. k2.timer[z] = kk.timer[z]
    BY ObjTimers DEF OneTimer
  <2> QED BY <2>1, TimerTypes
<1> QED BY <1>1 DEF OneTimer, Steady, Records, RecordKept, Lives, Gone

LEMMA DelayTidy ==
  ASSUME Inv, WaitInv(k), Settled(k), sceKernelDelayThread
  PROVE  Tidy(k, k')
<1> DEFINE c == k.cur
           k1 == ScheduleEvent(k, "DELAY", c)
           w == [type |-> "DELAY", id |-> c, value |-> 0, timed |-> FALSE]
<1>1. /\ KernelInv(k) /\ k \in Kernel /\ c \in User /\ c \in Thread /\ k.disp
      /\ k.st[c] \in {{"RUNNING"}, {"READY"}}
      /\ k' = KernelWaitCurThread(k1, "DELAY", c, 0, FALSE)
  BY InCall DEF sceKernelDelayThread
<1>2. /\ OneTimer(k, k1, "DELAY", c) /\ KernelInv(k1) /\ Calm(k, k1)
  BY <1>1, OneTimerOps, TimerOps, TimerInv DEF TimerType
<1> HIDE DEF k1
<1>3. k1.cur = c /\ k1.disp /\ k1 \in Kernel /\ k1.st = k.st
  BY <1>1, <1>2 DEF Calm, KernelInv, OneTimer
<1>4. Steady(k, k1)
  BY <1>1, <1>2, <1>3, OtherTimerSteady DEF ObjWait, TimerType
<1>5. "DELAY" \in WaitType /\ 0 \in Nat /\ FALSE \in BOOLEAN
  BY DEF WaitType
<1>6. Asleep(k1, k', w) /\ w.type = "DELAY"
  BY <1>1, <1>2, <1>3, <1>5, WaitCurInv DEF ObjWait
<1> HIDE DEF w
<1> QED BY <1>1, <1>3, <1>4, <1>6, AsleepTidy DEF ObjWait

LEMMA SleepTidy ==
  ASSUME Inv, Settled(k), sceKernelSleepThread
  PROVE  Tidy(k, k')
<1> DEFINE c == k.cur
           w == [type |-> "SLEEP", id |-> NoObj, value |-> 0, timed |-> FALSE]
<1>1. /\ KernelInv(k) /\ k \in Kernel /\ c \in User /\ c \in Thread /\ k.disp
      /\ k.st[c] \in {{"RUNNING"}, {"READY"}} /\ k.frames = <<>>
      /\ k' = IF k.wakeup[c] > 0 THEN [k EXCEPT !.wakeup[c] = @ - 1]
              ELSE KernelWaitCurThread(k, "SLEEP", NoObj, 0, FALSE)
  BY InCall DEF sceKernelSleepThread, Kernel
<1>2. k' \in Kernel
  BY SleepStep DEF Good, KernelInv
<1>3. CASE k.wakeup[c] > 0
  <2>1. /\ k'.st = k.st /\ k'.wait = k.wait /\ k'.timer = k.timer
        /\ k'.ret = k.ret /\ k'.cur = k.cur
    BY <1>1, <1>3 DEF Kernel
  <2> QED BY <1>1, <1>2, <2>1, SteadySame, CallTidy
<1>4. CASE ~(k.wakeup[c] > 0)
  <2>1. "SLEEP" \in WaitType /\ 0 \in Nat /\ FALSE \in BOOLEAN
    BY DEF WaitType
  <2>2. Asleep(k, KernelWaitCurThread(k, "SLEEP", NoObj, 0, FALSE), w) /\ w.type = "SLEEP"
    BY <1>1, <2>1, WaitCurInv DEF ObjWait
  <2>3. Steady(k, k)
    BY <1>1, SteadySame
  <2> HIDE DEF w
  <2> QED BY <1>1, <1>4, <2>2, <2>3, AsleepTidy DEF ObjWait
<1> QED BY <1>3, <1>4

LEMMA WaitThreadEndTidy ==
  ASSUME Inv, Settled(k), NEW t \in User, NEW timed \in BOOLEAN,
         sceKernelWaitThreadEnd(t, timed)
  PROVE  Tidy(k, k')
<1> DEFINE c == k.cur
           armed == IF timed THEN ScheduleEvent(k, "THREADEND", c) ELSE k
           listed == IF Holds(k.joiners[t], c) THEN armed
                     ELSE [armed EXCEPT !.joiners[t] = Append(@, c)]
           w == [type |-> "THREADEND", id |-> t, value |-> 0, timed |-> timed]
<1>1. k \in Kernel /\ c \in Thread
  BY InCall DEF sceKernelWaitThreadEnd
<1>2. /\ KernelInv(armed) /\ armed.st = k.st
      /\ KernelInv(listed) /\ listed.st = k.st /\ listed.cur = c
      /\ Asleep(listed, k', w)
  BY JoinInv, Zenon
<1>3. OneTimer(k, armed, "THREADEND", c)
  <2>1. CASE timed
    BY <1>1, <2>1, OneTimerOps DEF TimerType
  <2>2. CASE ~timed
    BY <1>1, <2>2 DEF OneTimer
  <2> QED BY <2>1, <2>2
<1> HIDE DEF armed
<1>4. /\ listed \in Kernel /\ listed.wait = armed.wait /\ listed.timer = armed.timer
      /\ listed.ret = armed.ret /\ listed.cur = armed.cur
  BY <1>2 DEF KernelInv, Kernel
<1> HIDE DEF listed
<1>5. armed.cur = k.cur
  BY <1>2, <1>4
<1>6. Steady(k, armed) /\ armed \in Kernel
  BY <1>1, <1>2, <1>3, <1>5, OtherTimerSteady DEF ObjWait, TimerType, KernelInv
<1>7. Steady(k, listed)
  BY <1>1, <1>2, <1>4, <1>5, <1>6, SteadySame, SteadyTransitive
<1>8. w.type = "THREADEND"
  OBVIOUS
<1> HIDE DEF w
<1> QED BY <1>1, <1>2, <1>7, <1>8, AsleepTidy DEF ObjWait

\* t is woken and a reschedule asked for.
LEMMA WokenTidy ==
  ASSUME NEW kk, KernelInv(kk), EndShapes(kk), Settled(kk), NEW t \in Thread,
         NEW r \in Result, r # "WAIT_TIMEOUT" \/ kk.wait[t].type \notin ObjWait,
         "RUNNING" \notin kk.st[t]
  PROVE  Tidy(kk, hleReSchedule(KernelResumeThreadFromWait(kk, t, r)))
<1> DEFINE k1 == KernelResumeThreadFromWait(kk, t, r)
           k2 == hleReSchedule(k1)
<1>1. Steady(kk, k1) /\ k1.disp = kk.disp
  <2> HIDE DEF k2
  <2>1. /\ KernelInv(kk) /\ EndShapes(kk) /\ t \in Thread /\ r \in Result
        /\ "RUNNING" \notin kk.st[t]
    OBVIOUS
  <2>2. k1 = KernelResumeThreadFromWait(kk, t, r)
    OBVIOUS
  <2> HIDE DEF k1
  <2>3. k1.disp = kk.disp
    BY <2>1, <2>2, ResumeThreadRecords, Zenon
  <2>4. r # "WAIT_TIMEOUT" \/ kk.wait[t].type \notin ObjWait => Steady(kk, k1)
    BY <2>1, <2>2, ResumeThreadRecords
  <2> QED BY <2>3, <2>4
<1> HIDE DEF k1
<1>2. k1 \in Kernel /\ kk \in Kernel
  BY <1>1 DEF Steady, KernelInv
<1>3. Steady(k1, k2) /\ k2.disp = k1.disp /\ k2.frames # <<>>
  BY <1>2, hleReScheduleSteady
<1> HIDE DEF k2
<1>4. Steady(kk, k2)
  BY <1>1, <1>2, <1>3, SteadyTransitive
<1>5. Settled(k2)
  BY <1>1, <1>3, <1>4, SteadySettled
<1> QED BY <1>4, <1>5, RecordsObj DEF Tidy, Steady, k1, k2

LEMMA WakeupTidy ==
  ASSUME Inv, WaitInv(k), Settled(k), NEW t \in User,
         sceKernelWakeupThread(t) \/ sceKernelCancelWakeupThread(t)
  PROVE  Tidy(k, k')
<1>1. KernelInv(k) /\ k \in Kernel /\ t \in Thread /\ EndShapes(k) /\ k.frames = <<>>
  BY InCall, SoundShapes DEF Inv, Thread, sceKernelWakeupThread, sceKernelCancelWakeupThread
<1>2. CASE sceKernelWakeupThread(t) /\ isWaitingFor(k, t, "SLEEP", NoObj)
  <2>1. k' = hleReSchedule(KernelResumeThreadFromWait(k, t, "ok"))
    BY <1>2 DEF sceKernelWakeupThread
  <2>2. "RUNNING" \notin k.st[t] /\ "ok" \in Result /\ "ok" # "WAIT_TIMEOUT"
    BY <1>1, <1>2 DEF isWaitingFor, KernelInv, ThreadInv, StatusShape, Result
  <2> QED BY <1>1, <2>1, <2>2, WokenTidy
<1>3. CASE \/ sceKernelCancelWakeupThread(t)
           \/ sceKernelWakeupThread(t) /\ ~isWaitingFor(k, t, "SLEEP", NoObj)
  <2>1. \/ k' = [k EXCEPT !.wakeup[t] = @ + 1]
        \/ k' = [k EXCEPT !.wakeup[t] = 0]
    BY <1>3 DEF sceKernelWakeupThread, sceKernelCancelWakeupThread
  <2>2. /\ k'.st = k.st /\ k'.wait = k.wait /\ k'.timer = k.timer
        /\ k'.ret = k.ret /\ k'.cur = k.cur
    BY <1>1, <2>1 DEF Kernel
  <2>3. k' \in Kernel
    BY <1>3, WakeupStep, CancelWakeupStep DEF Good, KernelInv
  <2> QED BY <1>1, <2>2, <2>3, SteadySame, CallTidy
<1> QED BY <1>2, <1>3

LEMMA ReleaseTidy ==
  ASSUME Inv, WaitInv(k), Settled(k), NEW t \in User, sceKernelReleaseWaitThread(t)
  PROVE  Tidy(k, k')
<1>1. /\ KernelInv(k) /\ t \in Thread /\ "RELEASE_WAIT" \in Result /\ EndShapes(k)
      /\ "RELEASE_WAIT" # "WAIT_TIMEOUT"
  BY SoundShapes DEF Inv, Thread, Result
<1>2. /\ "RUNNING" \notin k.st[t]
      /\ k' = hleReSchedule(KernelResumeThreadFromWait(k, t, "RELEASE_WAIT"))
  BY <1>1 DEF sceKernelReleaseWaitThread, KernelInv, ThreadInv, StatusShape
<1> QED BY <1>1, <1>2, WokenTidy

LEMMA SuspendTidy ==
  ASSUME Inv, Settled(k), NEW t \in User, sceKernelSuspendThread(t)
  PROVE  Tidy(k, k')
<1> DEFINE k1 == KernelChangeReadyState(k, t, FALSE)
           s == (k1.st[t] \ {"READY"}) \cup {"SUSPEND"}
<1>1. /\ KernelInv(k) /\ k \in Kernel /\ t \in Thread /\ k' = [k1 EXCEPT !.st[t] = s]
      /\ k.frames = <<>>
  BY InCall DEF Thread, sceKernelSuspendThread
<1>2. k1 = [k EXCEPT !.rq = k1.rq]
  BY <1>1, UnreadyOff
<1> HIDE DEF k1
<1>3. k1.st = k.st
  BY <1>1, <1>2 DEF Kernel
<1> HIDE DEF s
<1>4. k' = [k EXCEPT !.rq = k1.rq, !.st = [k.st EXCEPT ![t] = s]]
  BY <1>1, <1>2 DEF Kernel
<1>5. /\ k'.st = [k.st EXCEPT ![t] = s] /\ k'.wait = k.wait /\ k'.timer = k.timer
      /\ k'.ret = k.ret /\ k'.cur = k.cur
  BY <1>1, <1>4 DEF Kernel
<1>6. k'.st[t] = s /\ \A u \in Thread \ {t} : k'.st[u] = k.st[u]
  BY <1>1, <1>5 DEF Kernel
<1>7. Lives(k, k')
  BY <1>3, <1>6 DEF Lives, Gone, s
<1>8. k' \in Kernel
  BY SuspendStep DEF Good, KernelInv
<1>9. Steady(k, k')
  BY <1>1, <1>5, <1>7, <1>8, RecordsSame DEF Steady
<1> QED BY <1>1, <1>9, CallTidy

LEMMA ResumeTidy ==
  ASSUME Inv, Settled(k), NEW t \in User, sceKernelResumeThread(t)
  PROVE  Tidy(k, k')
<1> DEFINE left == k.st[t] \ {"SUSPEND"}
           k1 == [k EXCEPT !.st[t] = @ \ {"SUSPEND"}]
           k2 == IF k1.st[t] = {} THEN KernelChangeReadyState(k1, t, TRUE) ELSE k1
<1>1. /\ KernelInv(k) /\ k \in Kernel /\ t \in Thread /\ k' = hleReSchedule(k2)
      /\ k.frames = <<>>
  BY InCall DEF Thread, sceKernelResumeThread
<1>2. left \in SUBSET StatusBits /\ k1 = [k EXCEPT !.st = [k.st EXCEPT ![t] = left]]
  BY <1>1 DEF Kernel
<1> HIDE DEF k1, left
<1>3. /\ k1 \in Kernel /\ k1.st = [k.st EXCEPT ![t] = left]
      /\ k1.wait = k.wait /\ k1.timer = k.timer /\ k1.ret = k.ret /\ k1.cur = k.cur
  BY <1>1, <1>2 DEF Kernel
<1>4. k1.st[t] = left /\ \A u \in Thread \ {t} : k1.st[u] = k.st[u]
  BY <1>1, <1>3 DEF Kernel
<1>5. Lives(k, k1)
  BY <1>4 DEF Lives, Gone, left
<1>6. Steady(k, k1)
  BY <1>1, <1>3, <1>5, RecordsSame DEF Steady
<1>7. Steady(k, k2)
  <2>1. CASE k1.st[t] = {}
    BY <1>1, <1>3, <1>6, <2>1, ReadySteady, SteadyTransitive
  <2>2. CASE k1.st[t] # {}
    BY <1>6, <2>2
  <2> QED BY <2>1, <2>2
<1> HIDE DEF k2
<1> QED BY <1>1, <1>7, CallPendingTidy

\* An event fires and its handler does nothing.
LEMMA FiredTidy ==
  ASSUME NEW kk, KernelInv(kk), Settled(kk), NEW y \in TimerType, NEW t \in Thread,
         kk.timer[y][t] > 0
  PROVE  LET f == PopEvent(kk, y, t)
         IN  Tidy(kk, f) /\ Steady(kk, f) /\ KernelInv(f) /\ f.st = kk.st /\ f.wait = kk.wait
<1> DEFINE f == PopEvent(kk, y, t)
<1>1. kk \in Kernel
  BY DEF KernelInv
<1>2. /\ Steady(kk, f) /\ f.disp = kk.disp /\ f.frames = kk.frames
      /\ KernelInv(f) /\ f.st = kk.st /\ f.wait = kk.wait
  BY <1>1, TimerSteady, TimerOps, TimerInv
<1> HIDE DEF f
<1>3. Settled(f)
  BY <1>2, SteadySettled
<1> QED BY <1>2, <1>3, RecordsObj DEF Tidy, Steady, f

LEMMA TidySteady ==
  ASSUME NEW k1 \in Kernel, NEW k2 \in Kernel, NEW k3 \in Kernel,
         Steady(k1, k2), Tidy(k2, k3)
  PROVE  Tidy(k1, k3)
<1>1. Records(k1, k2) /\ Lives(k1, k2) /\ ObjRecords(k2, k3) /\ Lives(k2, k3) /\ Settled(k3)
  BY DEF Steady, Tidy
<1>2. ASSUME NEW u \in Thread, k3.wait[u].type \in ObjWait PROVE RecordKept(k1, k3, u)
  <2>1. RecordKept(k2, k3, u)
    BY <1>1, <1>2 DEF ObjRecords
  <2>2. RecordKept(k1, k2, u)
    BY <1>1, <1>2, <2>1 DEF Records, RecordKept, NoWait, ObjWait
  <2>3. ASSUME NEW y \in ObjWait PROVE k3.timer[y][u] <= k1.timer[y][u]
    <3>1. k3.timer[y][u] <= k2.timer[y][u] /\ k2.timer[y][u] <= k1.timer[y][u]
      BY <1>2, <2>1, <2>2 DEF RecordKept
    <3>2. k1.timer[y][u] \in Nat /\ k2.timer[y][u] \in Nat /\ k3.timer[y][u] \in Nat
      BY TimerTypes
    <3> QED BY <3>1, <3>2
  <2> QED BY <2>1, <2>2, <2>3 DEF RecordKept
<1>3. Lives(k1, k3)
  BY <1>1 DEF Lives
<1> QED BY <1>1, <1>2, <1>3 DEF Tidy, ObjRecords

LEMMA TimerTidy ==
  ASSUME Inv, WaitInv(k), Settled(k), NEW t \in User,
         hleScheduledWakeup(t) \/ hleThreadEndTimeout(t)
  PROVE  Tidy(k, k')
<1>1. KernelInv(k) /\ k \in Kernel /\ t \in Thread /\ EndShapes(k)
  BY SoundShapes DEF Inv, KernelInv, Thread
<1>2. ASSUME NEW y \in {"DELAY", "THREADEND"}, k.timer[y][t] > 0, NEW r \in Result,
             LET f == PopEvent(k, y, t)
             IN  \/ k' = f
                 \/ /\ f.wait[t].type = y
                    /\ k' = hleReSchedule(KernelResumeThreadFromWait(f, t, r))
      PROVE  Tidy(k, k')
  <2> DEFINE f == PopEvent(k, y, t)
  <2>1. /\ Tidy(k, f) /\ Steady(k, f) /\ KernelInv(f) /\ f.st = k.st /\ f.wait = k.wait
    BY <1>1, <1>2, FiredTidy DEF TimerType
  <2>2. CASE k' = f
    BY <2>1, <2>2
  <2>3. CASE /\ f.wait[t].type = y
             /\ k' = hleReSchedule(KernelResumeThreadFromWait(f, t, r))
    <3> HIDE DEF f
    <3>1. f.wait[t].type \notin ObjWait /\ "RUNNING" \notin f.st[t]
      BY <1>1, <1>2, <2>1, <2>3 DEF ObjWait, KernelInv, ThreadInv, StatusShape
    <3>2. EndShapes(f) /\ Settled(f)
      BY <1>1, <2>1 DEF EndShapes, Gone, Tidy
    <3>3. Tidy(f, k')
      BY <1>1, <2>1, <2>3, <3>1, <3>2, WokenTidy
    <3>4. k' \in Kernel /\ f \in Kernel
      BY <2>1, TimerStep DEF Good, KernelInv
    <3> QED BY <1>1, <2>1, <3>3, <3>4, TidySteady
  <2> QED BY <1>2, <2>2, <2>3
<1>3. CASE hleScheduledWakeup(t)
  <2> DEFINE f == PopEvent(k, "DELAY", t)
  <2>1. /\ k.timer["DELAY"][t] > 0 /\ "ok" \in Result
        /\ k' = IF KernelGetWaitID(f, t, "DELAY") = t
                THEN hleReSchedule(KernelResumeThreadFromWait(f, t, "ok")) ELSE f
    BY <1>3 DEF hleScheduledWakeup, Result
  <2>2. KernelGetWaitID(f, t, "DELAY") = t => f.wait[t].type = "DELAY"
    BY <1>1, UidAssumption DEF KernelGetWaitID
  <2> HIDE DEF f
  <2> QED BY <1>2, <2>1, <2>2 DEF f
<1>4. CASE hleThreadEndTimeout(t)
  <2> DEFINE f == PopEvent(k, "THREADEND", t)
             uid == KernelGetWaitID(f, t, "THREADEND")
  <2>1. /\ k.timer["THREADEND"][t] > 0 /\ "WAIT_TIMEOUT" \in Result
        /\ k' = IF uid # NoObj /\ Exists(f, uid)
                THEN hleReSchedule(KernelResumeThreadFromWait(f, t, "WAIT_TIMEOUT")) ELSE f
    BY <1>4 DEF hleThreadEndTimeout, WaitExecTimeout, hleReSchedule, Result
  <2>2. uid # NoObj => f.wait[t].type = "THREADEND"
    BY <1>1, UidAssumption DEF KernelGetWaitID
  <2> HIDE DEF f, uid
  <2> QED BY <1>2, <2>1, <2>2 DEF f
<1> QED BY <1>3, <1>4

LEMMA IdleTidy ==
  ASSUME Inv, Settled(k), KernelIdle
  PROVE  Tidy(k, k')
<1>1. k \in Kernel /\ k' = hleReSchedule(k) /\ k.frames = <<>>
  BY DEF Inv, KernelInv, KernelIdle
<1> QED BY <1>1, SteadySame, CallPendingTidy

LEMMA ReScheduleTidy ==
  ASSUME Inv, WaitInv(k), Settled(k), KernelReSchedule
  PROVE  Tidy(k, k')
<1> DEFINE k1 == [k EXCEPT !.frames = SubSeq(@, 1, Len(@) - 1)]
           k2 == KernelReScheduleEnd(k)
<1>1. /\ KernelInv(k2) /\ KernelInv(k1) /\ k1.st = k.st /\ WaitsSame(k, k1)
      /\ k1.cur = k.cur /\ k2 = IF k.disp THEN SwitchToNext(k1) ELSE k1
      /\ k' = k2 /\ k \in Kernel
  BY ReScheduleEndInv DEF Inv, KernelReSchedule, KernelInv
<1> HIDE DEF k1, k2
<1>2. Lives(k, k')
  BY <1>1, ReScheduleEndQuiet DEF Inv, KernelReSchedule, Quiet, Kept, Lives, Gone, k2
<1>3. CASE ~k.disp
  <2>1. /\ k' \in Kernel /\ k'.wait = k.wait /\ k'.ret = k.ret /\ k'.timer = k.timer
        /\ k'.cur = k.cur
    BY <1>1, <1>3 DEF WaitsSame, KernelInv
  <2>2. Records(k, k')
    BY <1>1, <2>1, RecordsSame
  <2>3. Settled(k')
    BY <1>3, <2>1 DEF Settled
  <2> QED BY <1>2, <2>2, <2>3, RecordsObj DEF Tidy
<1>4. CASE k.disp
  <2>1. Switched(k1, k')
    BY <1>1, <1>4, SwitchToNextInv
  <2>2. /\ k'.cur \in Thread /\ k'.st[k'.cur] = {"RUNNING"} /\ k'.timer = k.timer
        /\ \A u \in Thread : k'.wait[u] = NoWait
                             \/ (k'.wait[u] = k.wait[u] /\ k'.ret[u] = k.ret[u])
    BY <1>1, <2>1 DEF Switched, Loaded, WaitsSame
  <2>3. \A u \in Thread, y \in ObjWait : k'.timer[y][u] <= k.timer[y][u]
    BY <1>1, <2>2, TimerTypes
  <2>4. Records(k, k')
    BY <2>2, <2>3 DEF Records, RecordKept
  <2>5. Settled(k')
    BY <1>1, <2>2 DEF Settled, KernelInv, ThreadInv, StatusShape
  <2> QED BY <1>2, <2>4, <2>5, RecordsObj DEF Tidy
<1> QED BY <1>3, <1>4

\* Every step of the thread manager but the end of a thread.
LEMMA UndisturbedTidy ==
  ASSUME Disciplined, Inv, WaitInv(k), Settled(k), Undisturbed
  PROVE  Tidy(k, k')
<1>1. CASE SystemCall
  BY <1>1, CreateTidy, PriorityTidy, StartTidy, WakeupTidy, ReleaseTidy, SuspendTidy,
     ResumeTidy, WaitThreadEndTidy, DispatchTidy, RotateTidy, DelayTidy, SleepTidy
     DEF SystemCall
<1>2. CASE Timer
  BY <1>2, TimerTidy DEF Timer
<1> QED BY <1>1, <1>2, IdleTidy, ReScheduleTidy DEF Undisturbed

-----------------------------------------------------------------------------
(* Who is told "ok". *)

\* The fields of kk, with the types of those that matter here.
Bare(kk) ==
  kk \in [st : [Thread -> SUBSET StatusBits], prio : {kk.prio}, initp : {kk.initp},
          wait : {kk.wait}, ret : [Thread -> Result], wakeup : {kk.wakeup},
          joiners : {kk.joiners}, rq : {kk.rq}, cur : {kk.cur}, disp : {kk.disp},
          timer : {kk.timer}, frames : {kk.frames}]

\* Nobody is told "ok", and who is switched in is told nothing.
Says(kk, k2) ==
  /\ Bare(k2)
  /\ \A u \in Thread :
       /\ k2.ret[u] = "ok" => kk.ret[u] = "ok"
       /\ "RUNNING" \in k2.st[u] => "RUNNING" \in kk.st[u] \/ k2.ret[u] # "ok"

LEMMA BareKernel ==
  ASSUME NEW kk \in Kernel
  PROVE  Bare(kk)
BY DEF Bare, Kernel

LEMMA SaysTransitive ==
  ASSUME NEW k1, NEW k2, NEW k3, Says(k1, k2), Says(k2, k3)
  PROVE  Says(k1, k3)
BY DEF Says

LEMMA SaysSame ==
  ASSUME NEW kk, Bare(kk), NEW k2, Bare(k2), k2.st = kk.st, k2.ret = kk.ret
  PROVE  Says(kk, k2)
BY DEF Says

\* Writes of fields that do not matter here.
LEMMA FieldsSaid ==
  ASSUME NEW kk, Bare(kk), NEW v
  PROVE  /\ Says(kk, [kk EXCEPT !.rq = v]) /\ Says(kk, [kk EXCEPT !.cur = v])
         /\ Says(kk, [kk EXCEPT !.prio = v]) /\ Says(kk, [kk EXCEPT !.wait = v])
         /\ Says(kk, [kk EXCEPT !.disp = v]) /\ Says(kk, [kk EXCEPT !.timer = v])
         /\ Says(kk, [kk EXCEPT !.frames = v]) /\ Says(kk, [kk EXCEPT !.joiners = v])
         /\ Says(kk, [kk EXCEPT !.wakeup = v]) /\ Says(kk, [kk EXCEPT !.initp = v])
BY DEF Bare, Says

LEMMA QueueSays ==
  ASSUME NEW kk, Bare(kk), NEW p, NEW t
  PROVE  /\ Says(kk, push_front(kk, p, t)) /\ Says(kk, push_back(kk, p, t))
         /\ Says(kk, remove(kk, p, t)) /\ Says(kk, rotate(kk, p))
BY DEF Bare, Says, push_front, push_back, remove, rotate

LEMMA StatusSays ==
  ASSUME NEW kk, Bare(kk), NEW t, NEW s \in SUBSET StatusBits,
         "RUNNING" \in s => "RUNNING" \in kk.st[t]
  PROVE  LET k2 == [kk EXCEPT !.st[t] = s]
         IN  Says(kk, k2) /\ k2.ret = kk.ret /\ k2.wait = kk.wait
BY DEF Bare, Says

LEMMA AnswerSays ==
  ASSUME NEW kk, Bare(kk), NEW t, NEW r \in Result \ {"ok"}
  PROVE  LET k2 == [kk EXCEPT !.ret[t] = r]
         IN  Says(kk, k2)
BY DEF Bare, Says

LEMMA ReadySays ==
  ASSUME NEW kk, Bare(kk), NEW t, NEW ready
  PROVE  Says(kk, KernelChangeReadyState(kk, t, ready))
<1>1. Says(kk, kk)
  BY SaysSame
<1>2. {"READY"} \in SUBSET StatusBits /\ "RUNNING" \notin {"READY"}
  BY DEF StatusBits
<1>3. ASSUME NEW k1, Says(kk, k1) PROVE Says(kk, [k1 EXCEPT !.st[t] = {"READY"}])
  <2> DEFINE s == {"READY"}
             k2 == [k1 EXCEPT !.st[t] = s]
  <2>1. Bare(k1)
    BY <1>3 DEF Says
  <2>2. s \in SUBSET StatusBits /\ "RUNNING" \notin s
    BY <1>2
  <2> HIDE DEF s
  <2>3. Says(k1, k2)
    BY <2>1, <2>2, StatusSays
  <2> HIDE DEF k2
  <2> QED BY <1>3, <2>3, SaysTransitive DEF k2, s
<1> QED BY <1>1, <1>3, QueueSays DEF KernelChangeReadyState

LEMMA hleReScheduleSays ==
  ASSUME NEW kk, Bare(kk)
  PROVE  Says(kk, hleReSchedule(kk))
BY DEF hleReSchedule, Bare, Says

LEMMA ResumeSays ==
  ASSUME NEW kk, Bare(kk), NEW t \in Thread
  PROVE  Says(kk, resumeFromWait(kk, t))
<1> DEFINE left == kk.st[t] \ {"WAIT"}
           freed == [kk EXCEPT !.st[t] = left]
<1>1. left \in SUBSET StatusBits
  BY DEF Bare
<1>2. Says(kk, freed)
  <2> HIDE DEF freed
  <2>1. "RUNNING" \in left => "RUNNING" \in kk.st[t]
    OBVIOUS
  <2> HIDE DEF left
  <2> QED BY <1>1, <2>1, StatusSays DEF freed
<1> HIDE DEF left, freed
<1>3. Says(kk, KernelChangeReadyState(freed, t, TRUE))
  <2> DEFINE ready == KernelChangeReadyState(freed, t, TRUE)
  <2>1. Bare(freed)
    BY <1>2 DEF Says
  <2>2. Says(freed, ready)
    BY <2>1, ReadySays
  <2> HIDE DEF ready
  <2> QED BY <1>2, <2>2, SaysTransitive DEF ready
<1> QED BY <1>2, <1>3 DEF resumeFromWait, freed, left

LEMMA ResumeThreadSays ==
  ASSUME NEW kk, Bare(kk), NEW t \in Thread, NEW r \in Result \ {"ok"}
  PROVE  Says(kk, KernelResumeThreadFromWait(kk, t, r))
<1>1. Says(kk, resumeFromWait(kk, t))
  BY ResumeSays
<1> QED BY <1>1, AnswerSays, SaysTransitive DEF KernelResumeThreadFromWait, Says

LEMMA EventSays ==
  ASSUME NEW kk, Bare(kk), NEW y, NEW t
  PROVE  /\ Says(kk, UnscheduleEvent(kk, y, t)) /\ Says(kk, ScheduleEvent(kk, y, t))
         /\ Says(kk, PopEvent(kk, y, t)) /\ Says(kk, StopWaitTimer(kk, y, t))
BY DEF Bare, Says, UnscheduleEvent, ScheduleEvent, PopEvent, StopWaitTimer

LEMMA StopBeginSays ==
  ASSUME NEW kk, Bare(kk), NEW t
  PROVE  Says(kk, KernelStopThreadBegin(kk, t))
<1> DEFINE unready == KernelChangeReadyState(kk, t, FALSE)
           dormant == [unready EXCEPT !.st[t] = {"DORMANT"}]
           timed == UnscheduleEvent(dormant, "DELAY", t)
<1>1. Says(kk, unready)
  BY ReadySays
<1> HIDE DEF unready
<1>2. Says(unready, dormant)
  BY <1>1 DEF Bare, Says, StatusBits
<1> HIDE DEF dormant
<1>3. Says(dormant, timed)
  BY <1>2, EventSays DEF Says
<1> HIDE DEF timed
<1>4. Says(timed, UnscheduleEvent(timed, "THREADEND", t))
  BY <1>3, EventSays DEF Says
<1>5. Says(kk, UnscheduleEvent(timed, "THREADEND", t))
  BY <1>1, <1>2, <1>3, <1>4, SaysTransitive
<1> QED BY <1>5 DEF KernelStopThreadBegin, KernelFireThreadEnd, timed, dormant, unready

LEMMA JoinerSays ==
  ASSUME NEW kk, Bare(kk), NEW t, NEW w \in Thread
  PROVE  Says(kk, ResumeJoiner(kk, t, w))
<1> DEFINE k1 == UnscheduleEvent(kk, "THREADEND", w)
<1>1. Says(kk, kk)
  BY SaysSame
<1>2. Says(kk, k1)
  BY EventSays
<1> HIDE DEF k1
<1>3. "exited" \in Result \ {"ok"}
  BY DEF Result
<1>4. Says(kk, KernelResumeThreadFromWait(k1, w, "exited"))
  BY <1>2, <1>3, ResumeThreadSays, SaysTransitive DEF Says
<1> QED BY <1>1, <1>4 DEF ResumeJoiner, k1

LEMMA JoinersSay ==
  ASSUME NEW kk, Bare(kk), NEW t, kk.joiners[t] \in Seq(Thread)
  PROVE  Says(kk, ResumeJoiners(kk, t))
<1> DEFINE s == kk.joiners[t]
           n == Len(s)
<1>1. n \in Nat /\ (\A i \in 1..n : s[i] \in Thread)
  OBVIOUS
<1>2. PICK after : JoinersLoop(kk, t, after)
  BY <1>1, JoinersLoopExists
<1>3. /\ after[0] = kk /\ ResumeJoiners(kk, t) = after[n]
      /\ \A i \in 1..n : after[i] = ResumeJoiner(after[i - 1], t, s[i])
  BY <1>2 DEF JoinersLoop
<1> HIDE DEF s, n
<1> DEFINE G == {m \in 0..n : Says(kk, after[m])}
<1>4. 0 \in G
  BY <1>1, <1>3, SaysSame
<1>5. ASSUME NEW m \in 1..n, m - 1 \in G PROVE m \in G
  <2> DEFINE a == after[m - 1]
  <2>1. Says(kk, a) /\ after[m] = ResumeJoiner(a, t, s[m]) /\ s[m] \in Thread
    BY <1>1, <1>3, <1>5
  <2> HIDE DEF a
  <2>2. Says(kk, after[m])
    BY <2>1, JoinerSays, SaysTransitive DEF Says
  <2> QED BY <2>2
<1> HIDE DEF G
<1>6. \A m \in 1..n : m - 1 \in G => m \in G
  BY <1>5
<1>7. n \in G
  <2>1. \A m \in 0..n : m \in G
    BY <1>1, <1>4, <1>6, SetInduction
  <2> QED BY <1>1, <2>1
<1> QED BY <1>3, <1>7 DEF G

LEMMA StopSays ==
  ASSUME NEW kk, KernelInv(kk), NEW t \in User
  PROVE  Says(kk, KernelStopThread(kk, t))
<1> DEFINE fired == KernelStopThreadBegin(kk, t)
           woken == ResumeJoiners(fired, t)
<1>1. Bare(kk) /\ t \in Thread
  BY BareKernel DEF KernelInv, Thread
<1>2. Says(kk, fired)
  BY <1>1, StopBeginSays
<1>3. KernelInv(fired)
  BY StopBeginInv
<1> HIDE DEF fired
<1>6. fired.joiners[t] \in Seq(Thread)
  BY <1>1, <1>3 DEF KernelInv, Kernel
<1>4. Says(fired, woken)
  BY <1>2, <1>6, JoinersSay DEF Says
<1> HIDE DEF woken
<1>5. Says(woken, [woken EXCEPT !.joiners[t] = <<>>, !.wait[t] = NoWait])
  BY <1>4 DEF Bare, Says
<1> QED BY <1>2, <1>4, <1>5, SaysTransitive
        DEF KernelStopThread, KernelStopThreadEnd, woken, fired

LEMMA DeleteSays ==
  ASSUME NEW kk, Bare(kk), NEW t
  PROVE  Says(kk, KernelDeleteThread(kk, t))
<1> DEFINE removed == remove(kk, kk.prio[t], t)
           k2 == [removed EXCEPT !.cur = IF @ = t THEN NoThread ELSE @,
                                 !.st[t] = {"DEAD"}, !.wakeup[t] = 0, !.ret[t] = "none"]
<1>1. Says(kk, removed)
  BY QueueSays
<1> HIDE DEF removed
<1>2. Says(removed, k2)
  BY <1>1 DEF Bare, Says, StatusBits, Result
<1> QED BY <1>1, <1>2, SaysTransitive DEF KernelDeleteThread, removed

LEMMA SwitchContextSays ==
  ASSUME NEW kk, Bare(kk), NEW t
  PROVE  Says(kk, KernelSwitchContext(kk, t))
<1> DEFINE saved == IF kk.cur # NoThread /\ Has(kk, kk.cur, "RUNNING")
                    THEN KernelChangeReadyState(kk, kk.cur, TRUE) ELSE kk
           taken == KernelChangeReadyState(saved, t, FALSE)
           s == (taken.st[t] \cup {"RUNNING"}) \ {"READY"}
           k2 == [taken EXCEPT !.cur = t, !.st[t] = s, !.wait[t] = NoWait, !.ret[t] = "none"]
<1>1. Says(kk, saved)
  BY ReadySays, SaysSame
<1> HIDE DEF saved
<1>2. Says(saved, taken)
  <2>1. Bare(saved)
    BY <1>1 DEF Says
  <2> QED BY <2>1, ReadySays
<1> HIDE DEF taken
<1>3. t \in Thread => s \in SUBSET StatusBits
  BY <1>2 DEF Bare, Says, StatusBits
<1>4. [taken EXCEPT !.cur = t, !.st[t] = (@ \cup {"RUNNING"}) \ {"READY"},
                    !.wait[t] = NoWait, !.ret[t] = "none"] = k2
  BY <1>2 DEF Bare, Says
<1> HIDE DEF s
<1>5. Says(taken, k2)
  <2>1. "none" \in Result /\ Bare(taken)
    BY <1>2 DEF Says, Result
  <2> QED BY <1>3, <2>1 DEF Bare, Says
<1> HIDE DEF k2
<1>6. Says(kk, k2)
  BY <1>1, <1>2, <1>5, SaysTransitive
<1>7. KernelSwitchContext(kk, t) = k2
  BY <1>4 DEF KernelSwitchContext, taken, saved
<1> QED BY <1>6, <1>7

LEMMA ReScheduleEndSays ==
  ASSUME NEW kk, Bare(kk)
  PROVE  Says(kk, KernelReScheduleEnd(kk))
<1>1. ASSUME NEW k1, Bare(k1) PROVE Says(k1, SwitchToBest(k1))
  <2> DEFINE p == CHOOSE q \in Prio : IsBestQueue(k1, q)
             best == Head(k1.rq[p])
             popped == [k1 EXCEPT !.rq[p] = Tail(@)]
             ready == KernelChangeReadyState(popped, k1.cur, TRUE)
  <2>1. SwitchToBest(k1) = IF k1.cur # NoThread /\ Has(k1, k1.cur, "RUNNING")
                           THEN KernelSwitchContext(ready, best)
                           ELSE KernelSwitchContext(popped, best)
    BY DEF SwitchToBest
  <2> HIDE DEF p, best
  <2>2. Says(k1, popped)
    BY <1>1 DEF Bare, Says
  <2> HIDE DEF popped
  <2>3. Says(popped, ready)
    <3>1. Bare(popped)
      BY <2>2 DEF Says
    <3> QED BY <3>1, ReadySays
  <2> HIDE DEF ready
  <2>4. /\ Says(popped, KernelSwitchContext(popped, best))
        /\ Says(ready, KernelSwitchContext(ready, best))
    BY <2>2, <2>3, SwitchContextSays DEF Says
  <2>5. Says(k1, ready)
    BY <2>2, <2>3, SaysTransitive
  <2> QED BY <2>1, <2>2, <2>4, <2>5, SaysTransitive
<1>2. ASSUME NEW k1, Bare(k1) PROVE Says(k1, SwitchToNext(k1))
  BY <1>1, <1>2, SwitchContextSays, SaysSame DEF SwitchToNext
<1> DEFINE popped == [kk EXCEPT !.frames = SubSeq(@, 1, Len(@) - 1)]
<1>3. Says(kk, popped)
  BY DEF Bare, Says
<1> HIDE DEF popped
<1>4. Says(popped, SwitchToNext(popped))
  BY <1>2, <1>3 DEF Says
<1> QED BY <1>3, <1>4, SaysTransitive DEF KernelReScheduleEnd, popped

LEMMA WaitCurSays ==
  ASSUME NEW kk, Bare(kk), NEW type, NEW id, NEW value, NEW timed
  PROVE  Says(kk, KernelWaitCurThread(kk, type, id, value, timed))
<1> DEFINE t == kk.cur
           w == [type |-> type, id |-> id, value |-> value, timed |-> timed]
           noted == [kk EXCEPT !.wait[t] = w]
           s == {"WAIT"} \cup (kk.st[t] \cap {"SUSPEND"})
           ready == KernelChangeReadyState(noted, t, "READY" \in s)
           k2 == [ready EXCEPT !.st[t] = s]
           slept == KernelChangeThreadState(noted, t, s)
<1>1. s \in SUBSET StatusBits /\ "RUNNING" \notin s
  BY DEF StatusBits
<1> HIDE DEF s, w
<1>2. Says(kk, noted) /\ Bare(noted)
  BY DEF Bare, Says
<1> HIDE DEF noted
<1>3. Says(noted, ready)
  BY <1>2, ReadySays
<1> HIDE DEF ready
<1>4. Bare(ready)
  BY <1>3 DEF Says
<1>5. Says(ready, k2)
  BY <1>1, <1>4, StatusSays
<1> HIDE DEF k2
<1>6. Says(kk, k2)
  BY <1>2, <1>3, <1>5, SaysTransitive
<1>7. slept = noted \/ slept = k2
  BY DEF KernelChangeThreadState, k2, ready
<1> HIDE DEF slept
<1>8. Says(kk, slept)
  BY <1>2, <1>6, <1>7
<1>9. Bare(slept)
  BY <1>8 DEF Says
<1>10. Says(kk, hleReSchedule(slept))
  BY <1>8, <1>9, hleReScheduleSays, SaysTransitive
<1>11. Says(kk, kk)
  BY SaysSame
<1> QED BY <1>10, <1>11 DEF KernelWaitCurThread, slept, noted, s, w

LEMMA PrioritySays ==
  ASSUME NEW kk, Bare(kk), NEW t, NEW p
  PROVE  Says(kk, KernelChangeThreadPriority(kk, t, p))
<1> DEFINE moved == [remove(kk, kk.prio[t], t) EXCEPT !.prio[t] = p]
           s == (moved.st[t] \ {"RUNNING"}) \cup {"READY"}
           off == [moved EXCEPT !.st[t] = s]
           ready == IF Has(kk, t, "RUNNING") THEN off ELSE moved
<1>0. \/ KernelChangeThreadPriority(kk, t, p) = push_back(ready, p, t)
      \/ KernelChangeThreadPriority(kk, t, p) = ready
  BY DEF KernelChangeThreadPriority
<1>1. Bare(remove(kk, kk.prio[t], t)) /\ Says(kk, remove(kk, kk.prio[t], t))
  BY QueueSays DEF Says
<1>2. Says(remove(kk, kk.prio[t], t), moved) /\ Bare(moved)
  BY <1>1 DEF Bare, Says
<1> HIDE DEF moved
<1>3. (t \in Thread => s \in SUBSET StatusBits) /\ "RUNNING" \notin s
  BY <1>2 DEF Bare, StatusBits
<1> HIDE DEF s
<1>4. Says(moved, off)
  BY <1>2, <1>3 DEF Bare, Says
<1>5. Says(moved, moved)
  BY <1>2, SaysSame
<1> HIDE DEF off
<1>6. Says(moved, ready)
  BY <1>4, <1>5
<1>7. Bare(ready)
  BY <1>6 DEF Says
<1> HIDE DEF ready
<1>9. Says(ready, push_back(ready, p, t))
  BY <1>7, QueueSays
<1>10. Says(kk, ready)
  BY <1>1, <1>2, <1>6, SaysTransitive
<1>11. Says(kk, push_back(ready, p, t))
  BY <1>9, <1>10, SaysTransitive
<1> QED BY <1>0, <1>10, <1>11

LEMMA RotateSays ==
  ASSUME NEW kk, Bare(kk), NEW p
  PROVE  Says(kk, KernelRotateThreadReadyQueue(kk, p))
<1> DEFINE pushed == push_back(kk, p, kk.cur)
           s == (pushed.st[kk.cur] \ {"RUNNING"}) \cup {"READY"}
           off == [pushed EXCEPT !.st[kk.cur] = s]
<1>1. Says(kk, kk) /\ Says(kk, pushed) /\ Says(kk, rotate(kk, p))
  BY SaysSame, QueueSays
<1>2. Bare(pushed)
  BY <1>1 DEF Says
<1> HIDE DEF pushed
<1>3. (kk.cur \in Thread => s \in SUBSET StatusBits) /\ "RUNNING" \notin s
  BY <1>2 DEF Bare, StatusBits
<1>4. off = [pushed EXCEPT !.st[kk.cur] = (@ \ {"RUNNING"}) \cup {"READY"}]
  BY <1>2 DEF Bare
<1> HIDE DEF s
<1>5. Says(pushed, off)
  BY <1>2, <1>3 DEF Bare, Says
<1> HIDE DEF off
<1>6. Says(kk, off)
  BY <1>1, <1>5, SaysTransitive
<1> QED BY <1>1, <1>4, <1>6 DEF KernelRotateThreadReadyQueue, pushed

-----------------------------------------------------------------------------
\* A call or an event of the thread manager: who is told "ok" slept or was delayed.
Told(kk, k2) ==
  \A u \in Thread :
    /\ k2.ret[u] = "ok" => kk.ret[u] = "ok" \/ kk.wait[u].type \in {"SLEEP", "DELAY"}
    /\ "RUNNING" \in k2.st[u] => "RUNNING" \in kk.st[u] \/ k2.ret[u] # "ok"

LEMMA SaysTold ==
  ASSUME NEW kk, NEW k2, Says(kk, k2)
  PROVE  Told(kk, k2)
BY DEF Says, Told

LEMMA SaysPending ==
  ASSUME NEW kk, NEW k2, Says(kk, k2)
  PROVE  Says(kk, hleReSchedule(k2))
<1>1. Bare(k2)
  BY DEF Says
<1> QED BY <1>1, hleReScheduleSays, SaysTransitive

\* t is told "ok".
LEMMA OkTold ==
  ASSUME NEW kk, Bare(kk), NEW k0, Says(kk, k0), NEW t \in Thread,
         kk.wait[t].type \in {"SLEEP", "DELAY"},
         LET k2 == hleReSchedule(KernelResumeThreadFromWait(k0, t, "ok"))
         IN  KernelInv(k2) /\ k2.wait = kk.wait
  PROVE  Told(kk, hleReSchedule(KernelResumeThreadFromWait(k0, t, "ok")))
<1> DEFINE k1 == resumeFromWait(k0, t)
           f == Append(k1.frames, NoObj)
           k2 == hleReSchedule(KernelResumeThreadFromWait(k0, t, "ok"))
<1>1. Bare(k0)
  BY DEF Says
<1>2. Says(k0, k1)
  BY <1>1, ResumeSays
<1>3. Says(kk, k1)
  BY <1>2, SaysTransitive
<1>4. KernelInv(k2) /\ k2.wait = kk.wait
  OBVIOUS
<1>5. KernelResumeThreadFromWait(k0, t, "ok") = [k1 EXCEPT !.ret[t] = "ok"]
  BY DEF KernelResumeThreadFromWait
<1> HIDE DEF k1
<1>6. k2 = [[k1 EXCEPT !.ret[t] = "ok"] EXCEPT !.frames = Append(@, NoObj)]
  BY <1>5 DEF hleReSchedule
<1>7. k2.st = k1.st /\ k2.ret = [k1.ret EXCEPT ![t] = "ok"]
  BY <1>3, <1>6 DEF Says, Bare
<1>8. \A u \in Thread \ {t} : k2.ret[u] = k1.ret[u]
  BY <1>3, <1>7 DEF Says, Bare
<1> HIDE DEF k2
<1>9. "RUNNING" \notin k2.st[t]
  BY <1>4 DEF KernelInv, ThreadInv, StatusShape
<1>10. Told(kk, k2)
  BY <1>3, <1>7, <1>8, <1>9 DEF Says, Told
<1> QED BY <1>10 DEF k2

LEMMA CreateTold ==
  ASSUME Bare(k), NEW t \in User, NEW p, sceKernelCreateThread(t, p)
  PROVE  Told(k, k')
<1> DEFINE k1 == [KernelCreateThreadObject(k, t, p) EXCEPT !.disp = TRUE]
<1>1. Says(k, k1)
  BY DEF KernelCreateThreadObject, Bare, Says, StatusBits, Result
<1>2. k' = hleReSchedule(k1)
  BY DEF sceKernelCreateThread
<1> HIDE DEF k1
<1> QED BY <1>1, <1>2, SaysPending, SaysTold

LEMMA StartTold ==
  ASSUME Bare(k), NEW t \in User, sceKernelStartThread(t)
  PROVE  Told(k, k')
<1> DEFINE reset == KernelResetThread(k, t, k.prio[k.cur])
           other == KernelChangeReadyState(reset, k.cur, TRUE)
           on == [reset EXCEPT !.disp = TRUE]
           better == reset.prio[t] < k.prio[k.cur]
           yielded == IF better THEN hleReSchedule(other) ELSE on
<1>1. Says(k, reset)
  BY DEF KernelResetThread, Bare, Says, Result
<1>2. k' = KernelChangeReadyState(yielded, t, TRUE)
  BY DEF sceKernelStartThread
<1> HIDE DEF reset, better
<1>3. Bare(reset)
  BY <1>1 DEF Says
<1>4. Says(reset, on)
  BY <1>3 DEF Bare, Says
<1>5. Says(reset, other)
  BY <1>3, ReadySays
<1> HIDE DEF on, other
<1>6. Says(reset, yielded)
  BY <1>4, <1>5, SaysPending
<1> HIDE DEF yielded
<1>7. Bare(yielded)
  BY <1>6 DEF Says
<1>8. Says(yielded, k')
  BY <1>2, <1>7, ReadySays
<1>9. Says(k, k')
  BY <1>1, <1>6, <1>8, SaysTransitive
<1> QED BY <1>9, SaysTold

LEMMA EndTold ==
  ASSUME KernelInv(k), ThreadEnd
  PROVE  Told(k, k')
<1>1. PICK t \in User : ThreadEnds(t, KernelStopThread(k, t))
  BY DEF ThreadEnd
<1> DEFINE stopped == KernelStopThread(k, t)
           gone == KernelDeleteThread(stopped, t)
<1>2. Says(k, stopped)
  BY StopSays
<1>3. ThreadEnds(t, stopped)
  BY <1>1
<1> HIDE DEF stopped
<1>4. Says(k, gone)
  <2>1. Bare(stopped)
    BY <1>2 DEF Says
  <2>2. Says(stopped, gone)
    BY <2>1, DeleteSays
  <2> QED BY <1>2, <2>2, SaysTransitive
<1>5. Says(k, [stopped EXCEPT !.prio[t] = k.initp[t]])
  <2>1. Says(stopped, [stopped EXCEPT !.prio[t] = k.initp[t]])
    BY <1>2 DEF Bare, Says
  <2> QED BY <1>2, <2>1, SaysTransitive
<1>6. \/ k' = hleReSchedule(stopped) \/ k' = hleReSchedule(gone) \/ k' = gone
      \/ k' = [stopped EXCEPT !.prio[t] = k.initp[t]]
  BY <1>3 DEF ThreadEnds, KernelReturnFromThread, sceKernelExitThread,
              sceKernelExitDeleteThread, sceKernelDeleteThread,
              sceKernelTerminateDeleteThread, sceKernelTerminateThread
<1> HIDE DEF gone
<1>7. Says(k, k')
  BY <1>2, <1>4, <1>5, <1>6, SaysPending
<1> QED BY <1>7, SaysTold

LEMMA WakeupTold ==
  ASSUME k \in Kernel, NEW t \in User, sceKernelWakeupThread(t), KernelInv(k')
  PROVE  Told(k, k')
<1>1. Bare(k) /\ t \in Thread
  BY BareKernel DEF Thread
<1>2. CASE isWaitingFor(k, t, "SLEEP", NoObj)
  <2> DEFINE k2 == hleReSchedule(KernelResumeThreadFromWait(k, t, "ok"))
  <2>1. k' = k2
    BY <1>2 DEF sceKernelWakeupThread
  <2>2. k2.wait = k.wait
    BY DEF hleReSchedule, KernelResumeThreadFromWait, resumeFromWait, KernelChangeReadyState,
           push_front, push_back, remove, Kernel
  <2>3. k.wait[t].type \in {"SLEEP", "DELAY"} /\ Says(k, k)
    BY <1>1, <1>2, SaysSame DEF isWaitingFor
  <2> HIDE DEF k2
  <2>4. KernelInv(k2)
    BY <2>1
  <2>5. Told(k, k2)
    BY <1>1, <2>2, <2>3, <2>4, OkTold DEF k2
  <2> QED BY <2>1, <2>5
<1>3. CASE ~isWaitingFor(k, t, "SLEEP", NoObj)
  <2>1. k' = [k EXCEPT !.wakeup[t] = @ + 1]
    BY <1>3 DEF sceKernelWakeupThread
  <2>2. Says(k, k')
    BY <1>1, <2>1 DEF Bare, Says
  <2> QED BY <2>2, SaysTold
<1> QED BY <1>2, <1>3

LEMMA ScheduledTold ==
  ASSUME k \in Kernel, NEW t \in User, hleScheduledWakeup(t), KernelInv(k')
  PROVE  Told(k, k')
<1>1. Bare(k) /\ t \in Thread /\ NoObj \notin Thread
  BY BareKernel, UidAssumption DEF Thread
<1> DEFINE fired == PopEvent(k, "DELAY", t)
<1>2. Says(k, fired)
  BY <1>1, EventSays
<1>3. fired.wait = k.wait /\ fired \in [st : {fired.st}, prio : {fired.prio},
        initp : {fired.initp}, wait : {fired.wait}, ret : {fired.ret},
        wakeup : {fired.wakeup}, joiners : {fired.joiners}, rq : {fired.rq},
        cur : {fired.cur}, disp : {fired.disp}, timer : {fired.timer},
        frames : {fired.frames}]
  BY DEF PopEvent, Kernel
<1>4. k' = IF KernelGetWaitID(fired, t, "DELAY") = t
           THEN hleReSchedule(KernelResumeThreadFromWait(fired, t, "ok")) ELSE fired
  BY DEF hleScheduledWakeup
<1> HIDE DEF fired
<1>5. CASE KernelGetWaitID(fired, t, "DELAY") = t
  <2> DEFINE k2 == hleReSchedule(KernelResumeThreadFromWait(fired, t, "ok"))
  <2>1. k' = k2
    BY <1>4, <1>5
  <2>2. k2.wait = k.wait
    BY <1>3 DEF hleReSchedule, KernelResumeThreadFromWait, resumeFromWait,
                KernelChangeReadyState, push_front, push_back, remove
  <2>3. k.wait[t].type \in {"SLEEP", "DELAY"}
    BY <1>1, <1>3, <1>5 DEF KernelGetWaitID
  <2> HIDE DEF k2
  <2>4. KernelInv(k2)
    BY <2>1
  <2>5. Told(k, k2)
    BY <1>1, <1>2, <2>2, <2>3, <2>4, OkTold DEF k2
  <2> QED BY <2>1, <2>5
<1>6. CASE KernelGetWaitID(fired, t, "DELAY") # t
  BY <1>2, <1>4, <1>6, SaysTold
<1> QED BY <1>5, <1>6

LEMMA JoinTold ==
  ASSUME Bare(k), NEW t \in User, NEW timed \in BOOLEAN, sceKernelWaitThreadEnd(t, timed)
  PROVE  Told(k, k')
<1> DEFINE armed == IF timed THEN ScheduleEvent(k, "THREADEND", k.cur) ELSE k
           more == [armed EXCEPT !.joiners[t] = Append(@, k.cur)]
           listed == IF Holds(k.joiners[t], k.cur) THEN armed ELSE more
<1>1. Says(k, armed)
  BY EventSays, SaysSame
<1>2. k' = KernelWaitCurThread(listed, "THREADEND", t, 0, timed)
  BY DEF sceKernelWaitThreadEnd
<1> HIDE DEF armed
<1>3. Says(armed, more)
  BY <1>1 DEF Bare, Says
<1> HIDE DEF more
<1>4. Says(k, more)
  BY <1>1, <1>3, SaysTransitive
<1>5. Says(k, listed)
  BY <1>1, <1>4
<1> HIDE DEF listed
<1>6. Bare(listed)
  BY <1>5 DEF Says
<1>7. Says(listed, k')
  BY <1>2, <1>6, WaitCurSays
<1>8. Says(k, k')
  BY <1>5, <1>7, SaysTransitive
<1> QED BY <1>8, SaysTold

LEMMA SuspendTold ==
  ASSUME Bare(k), NEW t \in User, sceKernelSuspendThread(t)
  PROVE  Told(k, k')
<1> DEFINE unready == KernelChangeReadyState(k, t, FALSE)
           s == (unready.st[t] \ {"READY"}) \cup {"SUSPEND"}
           k2 == [unready EXCEPT !.st[t] = s]
<1>1. Says(k, unready)
  BY ReadySays
<1>2. k' = [unready EXCEPT !.st[t] = (@ \ {"READY"}) \cup {"SUSPEND"}]
  BY DEF sceKernelSuspendThread
<1> HIDE DEF unready
<1>3. Bare(unready) /\ t \in Thread
  BY <1>1 DEF Says, Thread
<1>4. s \in SUBSET StatusBits /\ ("RUNNING" \in s => "RUNNING" \in unready.st[t])
  BY <1>3 DEF Bare, StatusBits
<1>5. k' = k2
  BY <1>2, <1>3 DEF Bare
<1> HIDE DEF s
<1>6. Says(unready, k2)
  BY <1>3, <1>4, StatusSays
<1> HIDE DEF k2
<1>7. Says(k, k')
  BY <1>1, <1>5, <1>6, SaysTransitive
<1> QED BY <1>7, SaysTold

LEMMA ResumeTold ==
  ASSUME Bare(k), NEW t \in User, sceKernelResumeThread(t)
  PROVE  Told(k, k')
<1> DEFINE s == k.st[t] \ {"SUSPEND"}
           resumed == [k EXCEPT !.st[t] = s]
           ready == KernelChangeReadyState(resumed, t, TRUE)
<1>1. t \in Thread /\ s \in SUBSET StatusBits /\ ("RUNNING" \in s => "RUNNING" \in k.st[t])
  BY DEF Bare, Thread
<1>2. k' = hleReSchedule(IF resumed.st[t] = {} THEN ready ELSE resumed)
  BY DEF sceKernelResumeThread
<1> HIDE DEF s
<1>3. Says(k, resumed)
  BY <1>1, StatusSays
<1> HIDE DEF resumed
<1>4. Bare(resumed)
  BY <1>3 DEF Says
<1>5. Says(resumed, ready)
  BY <1>4, ReadySays
<1> HIDE DEF ready
<1>6. Says(k, ready)
  BY <1>3, <1>5, SaysTransitive
<1>7. Says(k, k')
  BY <1>2, <1>3, <1>6, SaysPending
<1> QED BY <1>7, SaysTold

LEMMA JoinTimeoutTold ==
  ASSUME Bare(k), NEW t \in User, hleThreadEndTimeout(t)
  PROVE  Told(k, k')
<1> DEFINE fired == PopEvent(k, "THREADEND", t)
           woken == KernelResumeThreadFromWait(fired, t, "WAIT_TIMEOUT")
           k2 == [woken EXCEPT !.frames = Append(@, NoObj)]
<1>1. Says(k, fired) /\ t \in Thread
  BY EventSays DEF Thread
<1>2. k' = k2 \/ k' = fired
  BY DEF hleThreadEndTimeout, WaitExecTimeout
<1> HIDE DEF fired
<1>3. Bare(fired) /\ "WAIT_TIMEOUT" \in Result \ {"ok"}
  BY <1>1 DEF Says, Result
<1>4. Says(fired, woken)
  BY <1>1, <1>3, ResumeThreadSays
<1> HIDE DEF woken
<1>5. Says(woken, k2)
  BY <1>4 DEF Bare, Says
<1> HIDE DEF k2
<1>6. Says(k, k')
  BY <1>1, <1>2, <1>4, <1>5, SaysTransitive
<1> QED BY <1>6, SaysTold

LEMMA ReleaseTold ==
  ASSUME Bare(k), NEW t \in User, sceKernelReleaseWaitThread(t)
  PROVE  Told(k, k')
<1>1. t \in Thread /\ "RELEASE_WAIT" \in Result \ {"ok"}
  BY DEF Thread, Result
<1>2. Says(k, KernelResumeThreadFromWait(k, t, "RELEASE_WAIT"))
  BY <1>1, ResumeThreadSays
<1>3. Says(k, k')
  BY <1>2, SaysPending DEF sceKernelReleaseWaitThread
<1> QED BY <1>3, SaysTold

LEMMA SleepTold ==
  ASSUME Bare(k), sceKernelDelayThread \/ sceKernelSleepThread
  PROVE  Told(k, k')
<1> DEFINE armed == ScheduleEvent(k, "DELAY", k.cur)
           fewer == [k EXCEPT !.wakeup[k.cur] = @ - 1]
<1>1. \/ k' = KernelWaitCurThread(armed, "DELAY", k.cur, 0, FALSE)
      \/ k' = KernelWaitCurThread(k, "SLEEP", NoObj, 0, FALSE) \/ k' = fewer
  BY DEF sceKernelDelayThread, sceKernelSleepThread
<1>2. Says(k, armed)
  BY EventSays
<1>3. Says(k, fewer)
  BY DEF Bare, Says
<1> HIDE DEF armed, fewer
<1>4. Bare(armed)
  BY <1>2 DEF Says
<1>5. Says(armed, KernelWaitCurThread(armed, "DELAY", k.cur, 0, FALSE))
  BY <1>4, WaitCurSays
<1>6. Says(k, k')
  BY <1>1, <1>2, <1>3, <1>5, WaitCurSays, SaysTransitive
<1> QED BY <1>6, SaysTold

LEMMA DispatchTold ==
  ASSUME Bare(k),
         \/ sceKernelSuspendDispatchThread
         \/ \E enabled \in BOOLEAN : sceKernelResumeDispatchThread(enabled)
         \/ \E p \in UserPrio : sceKernelRotateThreadReadyQueue(p)
         \/ \E t \in User, p \in UserPrio : sceKernelChangeThreadPriority(t, p)
         \/ \E t \in User : sceKernelCancelWakeupThread(t)
         \/ KernelIdle \/ KernelReSchedule
  PROVE  Told(k, k')
<1>1. CASE sceKernelSuspendDispatchThread
  <2>1. Says(k, k')
    BY <1>1, FieldsSaid DEF sceKernelSuspendDispatchThread
  <2> QED BY <2>1, SaysTold
<1>2. CASE \E enabled \in BOOLEAN : sceKernelResumeDispatchThread(enabled)
  <2>1. PICK enabled \in BOOLEAN : k' = hleReSchedule([k EXCEPT !.disp = enabled])
    BY <1>2 DEF sceKernelResumeDispatchThread
  <2>2. Says(k, [k EXCEPT !.disp = enabled])
    BY FieldsSaid
  <2>3. Says(k, k')
    BY <2>1, <2>2, SaysPending
  <2> QED BY <2>3, SaysTold
<1>3. CASE \E p \in UserPrio : sceKernelRotateThreadReadyQueue(p)
  <2>1. PICK p \in UserPrio : k' = hleReSchedule(KernelRotateThreadReadyQueue(k, p))
    BY <1>3 DEF sceKernelRotateThreadReadyQueue
  <2>2. Says(k, k')
    BY <2>1, RotateSays, SaysPending
  <2> QED BY <2>2, SaysTold
<1>4. CASE \E t \in User, p \in UserPrio : sceKernelChangeThreadPriority(t, p)
  <2>1. PICK t \in User, p \in UserPrio :
          k' = hleReSchedule(KernelChangeThreadPriority(k, t, p))
    BY <1>4 DEF sceKernelChangeThreadPriority
  <2>2. Says(k, k')
    BY <2>1, PrioritySays, SaysPending
  <2> QED BY <2>2, SaysTold
<1>5. CASE \E t \in User : sceKernelCancelWakeupThread(t)
  <2>1. PICK t \in User : k' = [k EXCEPT !.wakeup[t] = 0]
    BY <1>5 DEF sceKernelCancelWakeupThread
  <2>2. Says(k, k')
    BY <2>1 DEF Bare, Says
  <2> QED BY <2>2, SaysTold
<1>6. CASE KernelIdle
  <2>1. Says(k, k')
    BY <1>6, hleReScheduleSays DEF KernelIdle
  <2> QED BY <2>1, SaysTold
<1>7. CASE KernelReSchedule
  <2>1. Says(k, k')
    BY <1>7, ReScheduleEndSays DEF KernelReSchedule
  <2> QED BY <2>1, SaysTold
<1> QED BY <1>1, <1>2, <1>3, <1>4, <1>5, <1>6, <1>7

LEMMA ManagerTold ==
  ASSUME KernelInv(k), KernelInv(k'), Next
  PROVE  Told(k, k')
<1>1. k \in Kernel /\ Bare(k)
  BY BareKernel DEF KernelInv
<1>2. CASE ThreadEnd
  BY <1>2, EndTold
<1>3. CASE SystemCall
  BY <1>1, <1>3, CreateTold, StartTold, WakeupTold, ReleaseTold, SuspendTold, ResumeTold,
     JoinTold, SleepTold, DispatchTold DEF SystemCall
<1>4. CASE Timer
  BY <1>1, <1>4, ScheduledTold, JoinTimeoutTold DEF Timer
<1>5. CASE KernelIdle \/ KernelReSchedule
  BY <1>1, <1>5, DispatchTold
<1> QED BY <1>2, <1>3, <1>4, <1>5 DEF Next, Undisturbed

-----------------------------------------------------------------------------
(* The record of the current thread. *)

\* A reschedule that may leave the current thread is under way.
Leaving(kk) == kk.disp /\ kk.frames # <<>>

\* The current thread goes on and its record is still cleared.
Stays(kk, k2) ==
  k2.cur # NoThread /\ ~Leaving(k2) =>
    \/ "RUNNING" \in k2.st[k2.cur]
    \/ /\ k2.cur = kk.cur /\ ~Leaving(kk)
       /\ k2.wait[k2.cur].type \in {kk.wait[k2.cur].type, "NONE"}

\* What matters here is not written.
Beside(kk, k2) ==
  /\ Bare(k2) /\ k2.cur = kk.cur /\ k2.disp = kk.disp /\ k2.frames = kk.frames
  /\ k2.wait = kk.wait

LEMMA BesideStays ==
  ASSUME NEW kk, NEW k2, Beside(kk, k2)
  PROVE  Stays(kk, k2)
BY DEF Beside, Stays, Leaving

LEMMA BesideTransitive ==
  ASSUME NEW k1, NEW k2, NEW k3, Beside(k1, k2), Beside(k2, k3)
  PROVE  Beside(k1, k3)
BY DEF Beside

\* A call whose reschedule is under way leaves the current thread, or dispatch is off.
LEMMA PendingStays ==
  ASSUME NEW kk \in Kernel, NEW k2, Beside(kk, k2)
  PROVE  Stays(kk, hleReSchedule(k2))
<1> DEFINE k3 == hleReSchedule(k2)
<1>1. /\ k3.cur = kk.cur /\ k3.disp = kk.disp /\ k3.wait = kk.wait
      /\ k3.frames = Append(kk.frames, NoObj)
  BY DEF hleReSchedule, Beside, Bare
<1>2. k3.frames # <<>>
  <2>1. kk.frames \in Seq(Obj \cup {NoObj}) /\ NoObj \in Obj \cup {NoObj}
    BY DEF Kernel
  <2> QED BY <1>1, <2>1
<1> HIDE DEF k3
<1>3. Stays(kk, k3)
  BY <1>1, <1>2 DEF Stays, Leaving
<1> QED BY <1>3 DEF k3

LEMMA QueueBeside ==
  ASSUME NEW kk, Bare(kk), NEW p, NEW t
  PROVE  /\ Beside(kk, push_front(kk, p, t)) /\ Beside(kk, push_back(kk, p, t))
         /\ Beside(kk, remove(kk, p, t)) /\ Beside(kk, rotate(kk, p))
BY DEF Bare, Beside, push_front, push_back, remove, rotate

LEMMA ReadyBeside ==
  ASSUME NEW kk, Bare(kk), NEW t, NEW ready
  PROVE  Beside(kk, KernelChangeReadyState(kk, t, ready))
<1>1. Bare(KernelChangeReadyState(kk, t, ready))
  BY ReadySays DEF Says
<1>2. /\ Beside(kk, push_front(kk, kk.prio[t], t)) /\ Beside(kk, push_back(kk, kk.prio[t], t))
      /\ Beside(kk, remove(kk, kk.prio[t], t)) /\ Beside(kk, kk)
  BY QueueBeside DEF Beside
<1>3. ASSUME NEW k1, Beside(kk, k1)
      PROVE  LET k2 == [k1 EXCEPT !.st[t] = {"READY"}]
             IN  /\ k2.cur = kk.cur /\ k2.disp = kk.disp /\ k2.frames = kk.frames
                 /\ k2.wait = kk.wait
  BY <1>3 DEF Beside, Bare
<1> QED BY <1>1, <1>2, <1>3 DEF KernelChangeReadyState, Beside

LEMMA ResumeBeside ==
  ASSUME NEW kk, Bare(kk), NEW t \in Thread, NEW r \in Result
  PROVE  Beside(kk, KernelResumeThreadFromWait(kk, t, r))
<1> DEFINE freed == [kk EXCEPT !.st[t] = kk.st[t] \ {"WAIT"}]
           k1 == resumeFromWait(kk, t)
           k2 == KernelResumeThreadFromWait(kk, t, r)
<1>1. Beside(kk, freed)
  BY DEF Beside, Bare
<1>2. k1 = freed \/ k1 = KernelChangeReadyState(freed, t, TRUE)
  BY DEF resumeFromWait
<1> HIDE DEF freed, k1
<1>3. Beside(kk, k1)
  <2>1. Bare(freed)
    BY <1>1 DEF Beside
  <2>2. Beside(freed, KernelChangeReadyState(freed, t, TRUE))
    BY <2>1, ReadyBeside
  <2>3. Beside(kk, KernelChangeReadyState(freed, t, TRUE))
    BY <1>1, <2>2, BesideTransitive
  <2> QED BY <1>1, <1>2, <2>3
<1>4. k2 = [k1 EXCEPT !.ret[t] = r]
  BY DEF KernelResumeThreadFromWait, k1
<1> HIDE DEF k2
<1>5. Beside(k1, k2)
  BY <1>3, <1>4 DEF Beside, Bare
<1> QED BY <1>3, <1>5, BesideTransitive DEF k2

LEMMA EventBeside ==
  ASSUME NEW kk, Bare(kk), NEW y, NEW t
  PROVE  /\ Beside(kk, UnscheduleEvent(kk, y, t)) /\ Beside(kk, ScheduleEvent(kk, y, t))
         /\ Beside(kk, PopEvent(kk, y, t)) /\ Beside(kk, StopWaitTimer(kk, y, t))
BY DEF Bare, Beside, UnscheduleEvent, ScheduleEvent, PopEvent, StopWaitTimer

LEMMA StopBeginBeside ==
  ASSUME NEW kk, Bare(kk), NEW t
  PROVE  Beside(kk, KernelStopThreadBegin(kk, t))
<1> DEFINE unready == KernelChangeReadyState(kk, t, FALSE)
           dormant == [unready EXCEPT !.st[t] = {"DORMANT"}]
           timed == UnscheduleEvent(dormant, "DELAY", t)
<1>1. Beside(kk, unready)
  BY ReadyBeside
<1> HIDE DEF unready
<1>2. Beside(unready, dormant)
  BY <1>1 DEF Beside, Bare, StatusBits
<1> HIDE DEF dormant
<1>3. Beside(dormant, timed)
  BY <1>2, EventBeside DEF Beside
<1> HIDE DEF timed
<1>4. Beside(timed, UnscheduleEvent(timed, "THREADEND", t))
  BY <1>3, EventBeside DEF Beside
<1>5. Beside(kk, UnscheduleEvent(timed, "THREADEND", t))
  BY <1>1, <1>2, <1>3, <1>4, BesideTransitive
<1> QED BY <1>5 DEF KernelStopThreadBegin, KernelFireThreadEnd, timed, dormant, unready

LEMMA JoinersBeside ==
  ASSUME NEW kk, Bare(kk), NEW t, kk.joiners[t] \in Seq(Thread)
  PROVE  Beside(kk, ResumeJoiners(kk, t))
<1> DEFINE s == kk.joiners[t]
           n == Len(s)
<1>1. n \in Nat /\ (\A i \in 1..n : s[i] \in Thread)
  OBVIOUS
<1>2. PICK after : JoinersLoop(kk, t, after)
  BY <1>1, JoinersLoopExists
<1>3. /\ after[0] = kk /\ ResumeJoiners(kk, t) = after[n]
      /\ \A i \in 1..n : after[i] = ResumeJoiner(after[i - 1], t, s[i])
  BY <1>2 DEF JoinersLoop
<1> HIDE DEF s, n
<1> DEFINE G == {m \in 0..n : Beside(kk, after[m])}
<1>4. 0 \in G
  BY <1>1, <1>3 DEF Beside
<1>5. ASSUME NEW m \in 1..n, m - 1 \in G PROVE m \in G
  <2> DEFINE a == after[m - 1]
             b == UnscheduleEvent(a, "THREADEND", s[m])
  <2>1. Beside(kk, a) /\ after[m] = ResumeJoiner(a, t, s[m]) /\ s[m] \in Thread
    BY <1>1, <1>3, <1>5
  <2> HIDE DEF a
  <2>2. Beside(a, b)
    BY <2>1, EventBeside DEF Beside
  <2>3. after[m] = a \/ after[m] = KernelResumeThreadFromWait(b, s[m], "exited")
    BY <2>1 DEF ResumeJoiner
  <2> HIDE DEF b
  <2>4. "exited" \in Result /\ Bare(b)
    BY <2>2 DEF Result, Beside
  <2>5. Beside(b, KernelResumeThreadFromWait(b, s[m], "exited"))
    BY <2>1, <2>4, ResumeBeside
  <2>6. Beside(kk, after[m])
    BY <2>1, <2>2, <2>3, <2>5, BesideTransitive
  <2> QED BY <2>6
<1> HIDE DEF G
<1>6. \A m \in 1..n : m - 1 \in G => m \in G
  BY <1>5
<1>7. n \in G
  <2>1. \A m \in 0..n : m \in G
    BY <1>1, <1>4, <1>6, SetInduction
  <2> QED BY <1>1, <2>1
<1> QED BY <1>3, <1>7 DEF G

\* The thread that ends loses its record, nobody else does.
LEMMA StopRecords ==
  ASSUME NEW kk, KernelInv(kk), NEW t \in User
  PROVE  LET k2 == KernelStopThread(kk, t)
         IN  /\ Bare(k2) /\ k2.cur = kk.cur /\ k2.disp = kk.disp /\ k2.frames = kk.frames
             /\ k2.wait = [kk.wait EXCEPT ![t] = NoWait]
<1> DEFINE fired == KernelStopThreadBegin(kk, t)
           woken == ResumeJoiners(fired, t)
           k2 == KernelStopThread(kk, t)
<1>1. Bare(kk) /\ t \in Thread
  BY BareKernel DEF KernelInv, Thread
<1>2. Beside(kk, fired)
  BY <1>1, StopBeginBeside
<1>3. KernelInv(fired)
  BY StopBeginInv
<1> HIDE DEF fired
<1>4. fired.joiners[t] \in Seq(Thread)
  BY <1>1, <1>3 DEF KernelInv, Kernel
<1>5. Beside(fired, woken)
  BY <1>2, <1>4, JoinersBeside DEF Beside
<1>6. k2 = [woken EXCEPT !.joiners[t] = <<>>, !.wait[t] = NoWait]
  BY DEF KernelStopThread, KernelStopThreadEnd, woken, fired
<1> HIDE DEF woken, k2
<1>7. Beside(kk, woken)
  BY <1>2, <1>5, BesideTransitive
<1>8. /\ k2.cur = kk.cur /\ k2.disp = kk.disp /\ k2.frames = kk.frames
      /\ k2.wait = [kk.wait EXCEPT ![t] = NoWait]
  BY <1>6, <1>7 DEF Beside, Bare
<1>9. Bare(k2)
  BY StopSays DEF Says, k2
<1> QED BY <1>8, <1>9 DEF k2

\* Who goes to sleep leaves.
LEMMA WaitCurLeaves ==
  ASSUME NEW kk, Bare(kk), kk.disp, kk.frames \in Seq(Obj \cup {NoObj}),
         NEW type, NEW id, NEW value, NEW timed
  PROVE  Leaving(KernelWaitCurThread(kk, type, id, value, timed))
<1> DEFINE t == kk.cur
           w == [type |-> type, id |-> id, value |-> value, timed |-> timed]
           noted == [kk EXCEPT !.wait[t] = w]
           s == {"WAIT"} \cup (kk.st[t] \cap {"SUSPEND"})
           ready == KernelChangeReadyState(noted, t, "READY" \in s)
           slept == KernelChangeThreadState(noted, t, s)
           k2 == hleReSchedule(slept)
<1>1. Bare(noted) /\ noted.disp /\ noted.frames = kk.frames
  BY DEF Bare
<1> HIDE DEF noted, s
<1>2. Beside(noted, ready)
  BY <1>1, ReadyBeside
<1>3. slept = noted \/ slept = [ready EXCEPT !.st[t] = s]
  BY DEF KernelChangeThreadState, ready
<1> HIDE DEF ready, slept
<1>4. slept.disp /\ slept.frames = kk.frames
  BY <1>1, <1>2, <1>3 DEF Beside, Bare
<1>5. \E v : slept = [v EXCEPT !.st[t] = s] \/ slept = v
  OBVIOUS
<1>6. k2.disp = slept.disp /\ k2.frames = Append(slept.frames, NoObj)
  BY <1>1, <1>2, <1>3 DEF hleReSchedule, Beside, Bare
<1>7. Append(kk.frames, NoObj) # <<>>
  <2>1. NoObj \in Obj \cup {NoObj}
    OBVIOUS
  <2> QED BY <2>1
<1>8. KernelWaitCurThread(kk, type, id, value, timed) = k2
  BY DEF KernelWaitCurThread, k2, slept, noted, s
<1> HIDE DEF k2
<1> QED BY <1>4, <1>6, <1>7, <1>8 DEF Leaving

LEMMA AppendSome ==
  ASSUME NEW S, NEW s \in Seq(S), NEW e \in S
  PROVE  Append(s, e) # <<>>
<1>1. Len(Append(s, e)) = Len(s) + 1 /\ Len(s) \in Nat
  OBVIOUS
<1>2. Len(Append(s, e)) # 0
  BY <1>1
<1>3. Len(<<>>) = 0
  OBVIOUS
<1> DEFINE a == Append(s, e)
<1> HIDE DEF a
<1>4. ASSUME a = <<>> PROVE Len(a) = 0
  BY <1>3, <1>4, Zenon
<1> QED BY <1>2, <1>4 DEF a

LEMMA LeavingStays ==
  ASSUME NEW kk, NEW k2, Leaving(k2)
  PROVE  Stays(kk, k2)
BY DEF Stays

LEMMA CreateStays ==
  ASSUME k \in Kernel, NEW t \in User, NEW p, sceKernelCreateThread(t, p)
  PROVE  Stays(k, k')
<1> DEFINE k1 == [KernelCreateThreadObject(k, t, p) EXCEPT !.disp = TRUE]
<1>1. k' = hleReSchedule(k1)
  BY DEF sceKernelCreateThread
<1>2. k'.disp = TRUE /\ k'.frames = Append(k.frames, NoObj)
  BY <1>1 DEF KernelCreateThreadObject, hleReSchedule, Kernel
<1>3. k.frames \in Seq(Obj \cup {NoObj}) /\ NoObj \in Obj \cup {NoObj}
  BY DEF Kernel
<1>4. Append(k.frames, NoObj) # <<>>
  BY <1>3, AppendSome
<1> QED BY <1>2, <1>4, LeavingStays DEF Leaving

LEMMA StartStays ==
  ASSUME k \in Kernel, NEW t \in User, sceKernelStartThread(t)
  PROVE  Stays(k, k')
<1> DEFINE reset == KernelResetThread(k, t, k.prio[k.cur])
           other == KernelChangeReadyState(reset, k.cur, TRUE)
           on == [reset EXCEPT !.disp = TRUE]
           better == reset.prio[t] < k.prio[k.cur]
           yielded == IF better THEN hleReSchedule(other) ELSE on
<1>1. /\ Bare(reset) /\ reset.cur = k.cur /\ reset.wait = [k.wait EXCEPT ![t] = NoWait]
      /\ k.frames = <<>>
  BY BareKernel DEF KernelResetThread, Bare, Result, sceKernelStartThread, Calls, Kernel
<1>2. k' = KernelChangeReadyState(yielded, t, TRUE)
  BY DEF sceKernelStartThread
<1> HIDE DEF reset, better
<1>3. Beside(reset, other)
  BY <1>1, ReadyBeside
<1> HIDE DEF other
<1>4. Bare(yielded) /\ yielded.cur = k.cur /\ yielded.wait = [k.wait EXCEPT ![t] = NoWait]
  <2>1. CASE better
    BY <1>1, <1>3, <2>1 DEF hleReSchedule, Beside, Bare
  <2>2. CASE ~better
    BY <1>1, <2>2 DEF Bare
  <2> QED BY <2>1, <2>2
<1> HIDE DEF yielded
<1>5. Beside(yielded, k')
  BY <1>2, <1>4, ReadyBeside
<1>6. k'.cur = k.cur /\ k'.wait = [k.wait EXCEPT ![t] = NoWait]
  BY <1>4, <1>5 DEF Beside
<1>7. k.cur \in Thread /\ k'.wait[k.cur].type \in {k.wait[k.cur].type, "NONE"}
  <2>1. k.cur \in Thread /\ k.wait \in [Thread -> Wait] /\ NoWait.type = "NONE"
    BY DEF Kernel, NoWait, sceKernelStartThread, Calls, Thread
  <2>2. k'.wait[k.cur] = k.wait[k.cur] \/ k'.wait[k.cur] = NoWait
    BY <1>6, <2>1
  <2> QED BY <2>1, <2>2
<1> QED BY <1>1, <1>6, <1>7 DEF Stays, Leaving

\* Calls that end with a reschedule.
LEMMA CallStays ==
  ASSUME KernelInv(k),
         \/ \E t \in User : \/ sceKernelWakeupThread(t) \/ sceKernelCancelWakeupThread(t)
                            \/ sceKernelReleaseWaitThread(t)
         \/ \E p \in UserPrio : sceKernelRotateThreadReadyQueue(p)
         \/ \E t \in User, p \in UserPrio : sceKernelChangeThreadPriority(t, p)
  PROVE  Stays(k, k')
<1>1. k \in Kernel /\ Bare(k)
  BY BareKernel DEF KernelInv
<1>2. ASSUME NEW t \in User, sceKernelWakeupThread(t) PROVE Stays(k, k')
  <2>1. "ok" \in Result /\ t \in Thread
    BY DEF Result, Thread
  <2>2. Beside(k, KernelResumeThreadFromWait(k, t, "ok"))
    BY <1>1, <2>1, ResumeBeside
  <2>3. Beside(k, [k EXCEPT !.wakeup[t] = @ + 1])
    BY <1>1 DEF Beside, Bare
  <2> QED BY <1>1, <1>2, <2>2, <2>3, PendingStays, BesideStays DEF sceKernelWakeupThread
<1>3. ASSUME NEW t \in User, sceKernelCancelWakeupThread(t) PROVE Stays(k, k')
  <2>1. Beside(k, [k EXCEPT !.wakeup[t] = 0])
    BY <1>1 DEF Beside, Bare
  <2> QED BY <1>3, <2>1, BesideStays DEF sceKernelCancelWakeupThread
<1>4. ASSUME NEW t \in User, sceKernelReleaseWaitThread(t) PROVE Stays(k, k')
  <2>1. "RELEASE_WAIT" \in Result /\ t \in Thread
    BY DEF Result, Thread
  <2>2. Beside(k, KernelResumeThreadFromWait(k, t, "RELEASE_WAIT"))
    BY <1>1, <2>1, ResumeBeside
  <2> QED BY <1>1, <1>4, <2>2, PendingStays DEF sceKernelReleaseWaitThread
<1>5. ASSUME NEW p \in UserPrio, sceKernelRotateThreadReadyQueue(p) PROVE Stays(k, k')
  <2> DEFINE pushed == push_back(k, p, k.cur)
             off == [pushed EXCEPT !.st[k.cur] = (@ \ {"RUNNING"}) \cup {"READY"}]
             k1 == KernelRotateThreadReadyQueue(k, p)
  <2>1. Bare(k1)
    BY <1>1, RotateSays DEF Says
  <2>2. k1 = k \/ k1 = off \/ k1 = rotate(k, p)
    BY DEF KernelRotateThreadReadyQueue
  <2>3. Beside(k, pushed) /\ Beside(k, rotate(k, p))
    BY <1>1, QueueBeside
  <2> HIDE DEF pushed, k1
  <2>4. off.cur = k.cur /\ off.disp = k.disp /\ off.frames = k.frames /\ off.wait = k.wait
    BY <2>3 DEF Beside, Bare
  <2> HIDE DEF off
  <2>5. Beside(k, k1)
    BY <2>1, <2>2, <2>3, <2>4 DEF Beside
  <2> QED BY <1>1, <1>5, <2>5, PendingStays DEF sceKernelRotateThreadReadyQueue, k1
<1>6. ASSUME NEW t \in User, NEW p \in UserPrio, sceKernelChangeThreadPriority(t, p)
      PROVE  Stays(k, k')
  <2> DEFINE k1 == KernelChangeThreadPriority(k, t, p)
  <2>1. Bare(k1)
    BY <1>1, PrioritySays DEF Says
  <2>2. k1.cur = k.cur /\ k1.disp = k.disp /\ k1.frames = k.frames /\ k1.wait = k.wait
    BY <1>1 DEF KernelChangeThreadPriority, remove, push_back, Kernel
  <2> HIDE DEF k1
  <2>3. Beside(k, k1)
    BY <2>1, <2>2 DEF Beside
  <2> QED BY <1>1, <1>6, <2>3, PendingStays DEF sceKernelChangeThreadPriority, k1
<1> QED BY <1>2, <1>3, <1>4, <1>5, <1>6

LEMMA SuspendStays ==
  ASSUME k \in Kernel, NEW t \in User, sceKernelSuspendThread(t) \/ sceKernelResumeThread(t)
  PROVE  Stays(k, k')
<1>1. Bare(k)
  BY BareKernel
<1>2. CASE sceKernelSuspendThread(t)
  <2> DEFINE unready == KernelChangeReadyState(k, t, FALSE)
  <2>1. k' = [unready EXCEPT !.st[t] = (@ \ {"READY"}) \cup {"SUSPEND"}]
    BY <1>2 DEF sceKernelSuspendThread
  <2>2. Beside(k, unready)
    BY <1>1, ReadyBeside
  <2> HIDE DEF unready
  <2>3. k'.cur = k.cur /\ k'.disp = k.disp /\ k'.frames = k.frames /\ k'.wait = k.wait
    BY <2>1, <2>2 DEF Beside, Bare
  <2> QED BY <2>3 DEF Stays, Leaving
<1>3. CASE sceKernelResumeThread(t)
  <2> DEFINE s == k.st[t] \ {"SUSPEND"}
             resumed == [k EXCEPT !.st[t] = s]
             ready == KernelChangeReadyState(resumed, t, TRUE)
  <2>1. k' = hleReSchedule(IF resumed.st[t] = {} THEN ready ELSE resumed)
    BY <1>3 DEF sceKernelResumeThread
  <2>2. Beside(k, resumed)
    BY <1>1 DEF Beside, Bare
  <2> HIDE DEF resumed
  <2>3. Bare(resumed)
    BY <2>2 DEF Beside
  <2>4. Beside(resumed, ready)
    BY <2>3, ReadyBeside
  <2> HIDE DEF ready
  <2>5. Beside(k, ready)
    BY <2>2, <2>4, BesideTransitive
  <2> QED BY <2>1, <2>2, <2>5, PendingStays
<1> QED BY <1>2, <1>3

LEMMA SleepStays ==
  ASSUME KernelInv(k),
         \/ sceKernelDelayThread \/ sceKernelSleepThread
         \/ \E t \in User, timed \in BOOLEAN : sceKernelWaitThreadEnd(t, timed)
  PROVE  Stays(k, k')
<1>1. k \in Kernel /\ Bare(k) /\ k.frames \in Seq(Obj \cup {NoObj})
  BY BareKernel DEF KernelInv, Kernel
<1>2. ASSUME NEW k1, Beside(k, k1), k.disp, NEW type, NEW id, NEW timed,
             k' = KernelWaitCurThread(k1, type, id, 0, timed)
      PROVE  Stays(k, k')
  <2>1. Bare(k1) /\ k1.disp /\ k1.frames \in Seq(Obj \cup {NoObj})
    BY <1>1, <1>2 DEF Beside
  <2> QED BY <1>2, <2>1, WaitCurLeaves, LeavingStays
<1>3. CASE sceKernelDelayThread
  <2>1. Beside(k, ScheduleEvent(k, "DELAY", k.cur))
    BY <1>1, EventBeside
  <2> QED BY <1>2, <1>3, <2>1 DEF sceKernelDelayThread
<1>4. CASE sceKernelSleepThread
  <2>1. Beside(k, k) /\ Beside(k, [k EXCEPT !.wakeup[k.cur] = @ - 1])
    BY <1>1 DEF Beside, Bare
  <2> QED BY <1>2, <1>4, <2>1, BesideStays DEF sceKernelSleepThread
<1>5. ASSUME NEW t \in User, NEW timed \in BOOLEAN, sceKernelWaitThreadEnd(t, timed)
      PROVE  Stays(k, k')
  <2> DEFINE armed == IF timed THEN ScheduleEvent(k, "THREADEND", k.cur) ELSE k
             more == [armed EXCEPT !.joiners[t] = Append(@, k.cur)]
             listed == IF Holds(k.joiners[t], k.cur) THEN armed ELSE more
  <2>1. k.disp /\ k' = KernelWaitCurThread(listed, "THREADEND", t, 0, timed)
    BY <1>5 DEF sceKernelWaitThreadEnd
  <2>2. Beside(k, armed)
    <3>1. Beside(k, k)
      BY <1>1 DEF Beside
    <3> QED BY <1>1, <3>1, EventBeside
  <2> HIDE DEF armed
  <2>3. Beside(k, more)
    BY <2>2 DEF Beside, Bare
  <2> HIDE DEF more
  <2>4. Beside(k, listed)
    BY <2>2, <2>3
  <2> HIDE DEF listed
  <2> QED BY <1>2, <2>1, <2>4
<1> QED BY <1>3, <1>4, <1>5

LEMMA TimerStays ==
  ASSUME KernelInv(k), NEW t \in User, hleScheduledWakeup(t) \/ hleThreadEndTimeout(t)
  PROVE  Stays(k, k')
<1>1. /\ k \in Kernel /\ Bare(k) /\ t \in Thread
      /\ "ok" \in Result /\ "WAIT_TIMEOUT" \in Result
  BY BareKernel DEF KernelInv, Thread, Result
<1>2. ASSUME NEW y, NEW r \in Result,
             \/ k' = PopEvent(k, y, t)
             \/ k' = hleReSchedule(KernelResumeThreadFromWait(PopEvent(k, y, t), t, r))
      PROVE  Stays(k, k')
  <2> DEFINE fired == PopEvent(k, y, t)
             woken == KernelResumeThreadFromWait(fired, t, r)
  <2>1. Beside(k, fired)
    BY <1>1, EventBeside
  <2> HIDE DEF fired
  <2>2. Bare(fired)
    BY <2>1 DEF Beside
  <2>3. Beside(fired, woken)
    BY <1>1, <2>2, ResumeBeside
  <2> HIDE DEF woken
  <2>4. Beside(k, woken)
    BY <2>1, <2>3, BesideTransitive
  <2> QED BY <1>1, <1>2, <2>1, <2>4, BesideStays, PendingStays DEF fired, woken
<1>3. CASE hleScheduledWakeup(t)
  BY <1>1, <1>2, <1>3 DEF hleScheduledWakeup
<1>4. CASE hleThreadEndTimeout(t)
  BY <1>1, <1>2, <1>4 DEF hleThreadEndTimeout, WaitExecTimeout, hleReSchedule
<1> QED BY <1>3, <1>4

LEMMA IdleStays ==
  ASSUME KernelInv(k), KernelIdle
  PROVE  Stays(k, k')
<1>1. k \in Kernel /\ Beside(k, k)
  BY BareKernel DEF KernelInv, Beside
<1> QED BY <1>1, PendingStays DEF KernelIdle

LEMMA ReScheduleStays ==
  ASSUME Inv, KernelReSchedule
  PROVE  Stays(k, k')
<1> DEFINE popped == [k EXCEPT !.frames = SubSeq(@, 1, Len(@) - 1)]
<1>1. KernelInv(k) /\ PhaseInv(k) /\ k \in Kernel /\ k.frames # <<>>
  BY DEF Inv, KernelInv, KernelReSchedule
<1>2. /\ KernelInv(popped) /\ popped.cur = k.cur /\ WaitsSame(k, popped)
      /\ k' = IF k.disp THEN SwitchToNext(popped) ELSE popped
  BY <1>1, ReScheduleEndInv DEF KernelReSchedule
<1>3. popped.wait = k.wait
  BY <1>1 DEF Kernel
<1> HIDE DEF popped
<1>4. CASE k.disp
  <2>1. Switched(popped, k')
    BY <1>2, <1>4, SwitchToNextInv
  <2> QED BY <2>1 DEF Switched, Stays
<1>5. CASE ~k.disp
  BY <1>2, <1>3, <1>5 DEF Stays, Leaving
<1> QED BY <1>4, <1>5

LEMMA DispatchStays ==
  ASSUME k \in Kernel,
         \/ sceKernelSuspendDispatchThread
         \/ \E enabled \in BOOLEAN : sceKernelResumeDispatchThread(enabled)
  PROVE  Stays(k, k')
<1>1. k.frames = <<>>
  BY DEF sceKernelSuspendDispatchThread, sceKernelResumeDispatchThread, Calls
<1>2. k'.cur = k.cur /\ k'.wait = k.wait
  BY DEF sceKernelSuspendDispatchThread, sceKernelResumeDispatchThread, hleReSchedule, Kernel
<1> QED BY <1>1, <1>2 DEF Stays, Leaving

LEMMA EndStays ==
  ASSUME Disciplined, Inv, ThreadEnd
  PROVE  Stays(k, k')
<1>1. PICK t \in User : ThreadEnds(t, KernelStopThread(k, t))
  BY DEF ThreadEnd
<1> DEFINE stopped == KernelStopThread(k, t)
           removed == remove(stopped, stopped.prio[t], t)
           gone == KernelDeleteThread(stopped, t)
<1>2. KernelInv(k) /\ k \in Kernel /\ t \in Thread
  BY DEF Inv, KernelInv, Thread
<1>3. ThreadEnds(t, stopped)
  BY <1>1
<1>4. /\ Bare(stopped) /\ stopped.cur = k.cur /\ stopped.disp = k.disp
      /\ stopped.frames = k.frames /\ stopped.wait = [k.wait EXCEPT ![t] = NoWait]
  BY <1>2, StopRecords
<1> HIDE DEF stopped
<1>5. Beside(stopped, removed)
  BY <1>4, QueueBeside
<1> HIDE DEF removed
<1>6. /\ gone.cur = IF k.cur = t THEN NoThread ELSE k.cur
      /\ gone.disp = k.disp /\ gone.frames = k.frames
      /\ gone.wait = [k.wait EXCEPT ![t] = NoWait]
      /\ hleReSchedule(gone).disp = k.disp
      /\ hleReSchedule(gone).frames = Append(k.frames, NoObj)
  BY <1>4, <1>5 DEF KernelDeleteThread, removed, hleReSchedule, Beside, Bare
<1> HIDE DEF gone
<1>7. hleReSchedule(stopped).disp = k.disp
      /\ hleReSchedule(stopped).frames = Append(k.frames, NoObj)
  BY <1>4 DEF hleReSchedule, Bare
<1>8. Append(k.frames, NoObj) # <<>>
  <2>1. k.frames \in Seq(Obj \cup {NoObj}) /\ NoObj \in Obj \cup {NoObj}
    BY <1>2 DEF Kernel
  <2> QED BY <2>1, AppendSome
<1>9. ASSUME k.disp, k' = hleReSchedule(stopped) \/ k' = hleReSchedule(gone)
      PROVE  Stays(k, k')
  BY <1>6, <1>7, <1>8, <1>9, LeavingStays DEF Leaving
<1>10. ASSUME t # k.cur, k.frames = <<>>, k.cur \in Thread, NEW k2, k2.cur = k.cur,
              k2.wait = [k.wait EXCEPT ![t] = NoWait], k' = k2
       PROVE  Stays(k, k')
  <2>1. k'.wait[k.cur] = k.wait[k.cur]
    BY <1>2, <1>10 DEF Kernel
  <2> QED BY <1>10, <2>1 DEF Stays, Leaving
<1>11. CASE t = k.cur /\ KernelReturnFromThread(stopped)
  <2>1. k.disp
    BY <1>11, InCall DEF KernelReturnFromThread, Disciplined
  <2> QED BY <1>9, <1>11, <2>1 DEF KernelReturnFromThread
<1>12. CASE t = k.cur /\ (sceKernelExitThread(stopped) \/ sceKernelExitDeleteThread(stopped))
  BY <1>9, <1>12 DEF sceKernelExitThread, sceKernelExitDeleteThread, gone
<1>13. CASE sceKernelDeleteThread(t, stopped) \/ sceKernelTerminateDeleteThread(t, stopped)
  <2>1. t # k.cur /\ k.frames = <<>> /\ k.cur \in Thread /\ k' = gone
    BY <1>13 DEF sceKernelDeleteThread, sceKernelTerminateDeleteThread, Calls, Thread, gone
  <2> QED BY <1>6, <1>10, <2>1
<1>14. CASE sceKernelTerminateThread(t, stopped)
  <2> DEFINE k2 == [stopped EXCEPT !.prio[t] = k.initp[t]]
  <2>1. t # k.cur /\ k.frames = <<>> /\ k.cur \in Thread /\ k' = k2
    BY <1>14 DEF sceKernelTerminateThread, Calls, Thread
  <2>2. k2.cur = k.cur /\ k2.wait = [k.wait EXCEPT ![t] = NoWait]
    BY <1>4 DEF Bare
  <2> HIDE DEF k2
  <2> QED BY <1>10, <2>1, <2>2
<1> QED BY <1>3, <1>11, <1>12, <1>13, <1>14 DEF ThreadEnds

LEMMA ManagerStays ==
  ASSUME Disciplined, Inv, Next
  PROVE  Stays(k, k')
<1>1. k \in Kernel /\ KernelInv(k)
  BY DEF Inv, KernelInv
<1>2. CASE SystemCall
  BY <1>1, <1>2, CreateStays, StartStays, CallStays, SuspendStays, DispatchStays, SleepStays
     DEF SystemCall
<1>3. CASE Timer \/ KernelIdle \/ KernelReSchedule \/ ThreadEnd
  BY <1>1, <1>3, TimerStays, IdleStays, ReScheduleStays, EndStays DEF Timer
<1> QED BY <1>2, <1>3 DEF Next, Undisturbed
=============================================================================
