------------------------- MODULE KernelObjectProofs -------------------------
(***************************************************************************)
(* Semaphores, event flags and mutexes.  No waiter is forgotten and none   *)
(* is listed twice; a thread that waits for a flag is listed with the bits *)
(* of this wait, and those bits are not set; a mutex is locked exactly     *)
(* when a living thread owns it, mutexHeldLocks lists exactly the owners,  *)
(* nobody waits for a free mutex, and only the owner, a cancel, a delete   *)
(* or the end of the owner takes one away.  For any threads, objects,      *)
(* counts, bits and modes of waiting, and orders in which a thread that    *)
(* ends gives up what it holds.                                            *)
(***************************************************************************)
EXTENDS KernelSema, KernelEventFlag, KernelMutex, KernelThreadProofs

USE DEF Has

-----------------------------------------------------------------------------
(* Semaphores. *)

\* What every semaphore satisfies, given the thread manager kk.
SemaRight(kk, sm) ==
  /\ sm \in [Obj -> Semaphore]
  /\ \A s \in Obj : Distinct(sm[s].waiting)
  /\ \A t \in Thread, s \in Obj :
       isWaitingFor(kk, t, "SEMA", s) => sm[s].exists /\ Holds(sm[s].waiting, t)
  /\ \A t \in Thread :
       Waits(kk, t) /\ kk.wait[t].type = "SEMA" /\ kk.wait[t].timed
         => kk.timer["SEMA"][t] > 0

\* The inductive invariant.
SemaSound(kk, sm) == Sound(kk) /\ SemaRight(kk, sm)

LEMMA SemaType == "SEMA" \in ObjWait /\ "SEMA" \in TimerType
BY DEF ObjWait, TimerType

\* The semaphores are the same, and nobody has begun to wait for one.
LEMMA SemaKept ==
  ASSUME NEW kk, NEW k2, NEW sm, SemaRight(kk, sm), SameWaits(kk, k2, "SEMA")
  PROVE  SemaRight(k2, sm)
BY DEF SemaRight, SameWaits, isWaitingFor, Waits

\* One semaphore s has been written.
LEMMA SemaStored ==
  ASSUME NEW kk, NEW k2, NEW sm, SemaRight(kk, sm), SameWaits(kk, k2, "SEMA"),
         NEW s \in Obj, NEW q \in Semaphore, Distinct(q.waiting),
         \A u \in Thread :
           isWaitingFor(k2, u, "SEMA", s) => q.exists /\ Holds(q.waiting, u)
  PROVE  SemaRight(k2, [sm EXCEPT ![s] = q])
<1> DEFINE sm2 == [sm EXCEPT ![s] = q]
<1>1. SemaRight(k2, sm)
  BY SemaKept
<1>2. /\ sm2 \in [Obj -> Semaphore] /\ sm2[s] = q
      /\ \A i \in Obj \ {s} : sm2[i] = sm[i]
  BY DEF SemaRight
<1> HIDE DEF sm2
<1>3. \A i \in Obj : Distinct(sm2[i].waiting)
  BY <1>1, <1>2 DEF SemaRight
<1>4. \A t \in Thread, i \in Obj :
        isWaitingFor(k2, t, "SEMA", i) => sm2[i].exists /\ Holds(sm2[i].waiting, t)
  BY <1>1, <1>2 DEF SemaRight
<1> QED BY <1>1, <1>2, <1>3, <1>4 DEF SemaRight, sm2

-----------------------------------------------------------------------------
(* Letting waiters go. *)

\* The state of a loop over the waiters of a semaphore.
Letting == [k : Kernel, q : Semaphore, woke : BOOLEAN]

\* All who wait for s in kk are in the list w.
Listed(kk, s, w) == \A u \in Thread : isWaitingFor(kk, u, "SEMA", s) => Holds(w, u)

\* y is x after some waiters of s have been let go.
Serves(x, y, s) ==
  /\ y \in Letting /\ Freed(x.k, y.k) /\ y.q.exists = x.q.exists
  /\ Distinct(y.q.waiting) /\ Listed(y.k, s, y.q.waiting)

LEMMA ListedFreed ==
  ASSUME NEW kk, NEW k2, NEW s, NEW w, Listed(kk, s, w), Freed(kk, k2)
  PROVE  Listed(k2, s, w)
BY DEF Listed, Freed, Quiet, Kept, isWaitingFor, Waits

\* __KernelUnlockSemaForThread(): t does not wait for s afterwards, and no more tokens
\* are taken than there are.
LEMMA UnlockOne ==
  ASSUME NEW s \in Obj, NEW x \in Letting, KernelInv(x.k), EndShapes(x.k),
         NEW t \in Thread, NEW r \in Result, r = "ok" => CanUnlock(x, s, t)
  PROVE  LET y == KernelUnlockSemaForThread(x, s, t, r)
         IN  /\ y \in Letting /\ Freed(x.k, y.k)
             /\ y.q.waiting = x.q.waiting /\ y.q.exists = x.q.exists
             /\ ~isWaitingFor(y.k, t, "SEMA", s)
<1> DEFINE y == KernelUnlockSemaForThread(x, s, t, r)
<1>1. x.k \in Kernel /\ x.q \in Semaphore /\ x.woke \in BOOLEAN
  BY DEF Letting
<1>2. CASE ~VerifyWait(x.k, t, "SEMA", s)
  <2>1. y = x
    BY <1>2 DEF KernelUnlockSemaForThread
  <2>2. ~isWaitingFor(x.k, t, "SEMA", s)
    BY <1>2 DEF isWaitingFor, VerifyWait, KernelGetWaitID, Exists, EndShapes, Gone
  <2> HIDE DEF y
  <2> QED BY <2>1, <2>2, FreedSelf DEF y
<1>3. CASE VerifyWait(x.k, t, "SEMA", s)
  <2> DEFINE k2 == KernelResumeThreadFromWait(StopWaitTimer(x.k, "SEMA", t), t, r)
             v == x.k.wait[t].value
             q2 == IF r = "ok" THEN [x.q EXCEPT !.count = @ - v] ELSE x.q
  <2>1. y = [k |-> k2, q |-> q2, woke |-> TRUE]
    BY <1>3 DEF KernelUnlockSemaForThread
  <2>2. x.k.wait[t].type = "SEMA"
    BY <1>3, UidAssumption DEF VerifyWait, KernelGetWaitID
  <2>3. Freed(x.k, k2) /\ ~Waits(k2, t)
    BY <2>2, LetGoFreed, SemaType
  <2>4. q2 \in Semaphore /\ q2.waiting = x.q.waiting /\ q2.exists = x.q.exists
    <3>1. CASE r = "ok"
      <4>1. v \in Nat /\ x.q.count \in Nat /\ v <= x.q.count
        BY <1>1, <1>3, <3>1 DEF Kernel, Wait, Semaphore, CanUnlock
      <4>2. x.q.count - v \in Nat
        BY <4>1
      <4> HIDE DEF v
      <4> QED BY <1>1, <3>1, <4>2 DEF Semaphore
    <3>2. CASE r # "ok"
      BY <1>1, <3>2
    <3> QED BY <3>1, <3>2
  <2> HIDE DEF k2, q2, y
  <2>5. k2 \in Kernel
    BY <2>3 DEF Freed, KernelInv
  <2>6. y \in Letting /\ y.k = k2 /\ y.q = q2
    BY <2>1, <2>4, <2>5 DEF Letting
  <2> QED BY <2>3, <2>4, <2>6 DEF isWaitingFor, Waits, y
<1> QED BY <1>2, <1>3

\* The waiter at place i is let go and its id erased.
LEMMA UnlockAtServes ==
  ASSUME NEW s \in Obj, NEW x \in Letting, KernelInv(x.k), EndShapes(x.k),
         Distinct(x.q.waiting), Listed(x.k, s, x.q.waiting),
         NEW i \in 1..Len(x.q.waiting), CanUnlock(x, s, x.q.waiting[i])
  PROVE  Serves(x, UnlockAt(x, s, i), s)
<1> DEFINE w == x.q.waiting
           t == w[i]
           y == KernelUnlockSemaForThread(x, s, t, "ok")
           z == [y EXCEPT !.q = [y.q EXCEPT !.waiting = DropAt(w, i)]]
<1>1. w \in Seq(Thread) /\ t \in Thread /\ "ok" \in Result
  BY DEF Letting, Semaphore, Result
<1>2. /\ y \in Letting /\ Freed(x.k, y.k) /\ y.q.waiting = w
      /\ y.q.exists = x.q.exists /\ ~isWaitingFor(y.k, t, "SEMA", s)
  BY <1>1, UnlockOne
<1>3. UnlockAt(x, s, i) = [y EXCEPT !.q.waiting = DropAt(@, i)]
  BY DEF UnlockAt
<1> HIDE DEF y
<1>4. UnlockAt(x, s, i) = z
  BY <1>2, <1>3 DEF Letting, Semaphore
<1>5. /\ DropAt(w, i) \in Seq(Thread) /\ Distinct(DropAt(w, i))
      /\ \A u : Holds(DropAt(w, i), u) <=> Holds(w, u) /\ u # t
  BY <1>1, DropAtHolds
<1> DEFINE d == DropAt(w, i)
<1> HIDE DEF w, d
<1>6. z \in Letting /\ z.k = y.k /\ z.q.waiting = d /\ z.q.exists = x.q.exists
  BY <1>2, <1>5 DEF Letting, Semaphore, d
<1> HIDE DEF z
<1>7. Listed(y.k, s, w)
  BY <1>2, ListedFreed DEF w
<1>8. Listed(y.k, s, d)
  BY <1>2, <1>5, <1>7 DEF Listed, d
<1> QED BY <1>2, <1>4, <1>5, <1>6, <1>8 DEF Serves, d

LEMMA ServesTransitive ==
  ASSUME NEW s, NEW x, KernelInv(x.k), NEW y, NEW z, Serves(x, y, s), Serves(y, z, s)
  PROVE  Serves(x, z, s)
BY FreedTransitive DEF Serves

\* One round of the loops of a signal and of a timeout.
LEMMA UnlockRoundServes ==
  ASSUME NEW s \in Obj, NEW x \in Letting, KernelInv(x.k), EndShapes(x.k),
         Distinct(x.q.waiting), Listed(x.k, s, x.q.waiting), NEW headOnly \in BOOLEAN
  PROVE  Serves(x, UnlockRound(x, s, headOnly), s)
<1> DEFINE F == Free(x, s, headOnly)
<1>1. CASE F = {}
  BY <1>1, FreedSelf DEF UnlockRound, Serves
<1>2. CASE F # {}
  <2>1. /\ F \subseteq 1..Len(x.q.waiting) /\ F \subseteq Nat
        /\ \A i \in F : CanUnlock(x, s, x.q.waiting[i])
    BY DEF Free
  <2> HIDE DEF F
  <2>2. Min(F) \in F
    <3>1. \E m \in F : \A y \in F : m <= y
      BY <1>2, <2>1, LeastElement
    <3> QED BY <3>1 DEF Min
  <2>3. UnlockRound(x, s, headOnly) = UnlockAt(x, s, Min(F))
    BY <1>2 DEF UnlockRound, F
  <2> QED BY <2>1, <2>2, <2>3, UnlockAtServes
<1> QED BY <1>1, <1>2

\* after[i] is the state after i rounds.
UnlockLoop(x, s, headOnly, after) ==
  /\ after[0] = x
  /\ \A i \in 1..Len(x.q.waiting) : after[i] = UnlockRound(after[i - 1], s, headOnly)
  /\ UnlockWaiters(x, s, headOnly) = after[Len(x.q.waiting)]

LEMMA UnlockLoopExists ==
  ASSUME NEW x, NEW s, NEW headOnly, Len(x.q.waiting) \in Nat
  PROVE  \E after : UnlockLoop(x, s, headOnly, after)
<1> DEFINE n == Len(x.q.waiting)
           Round(y) == CHOOSE z \in {UnlockRound(v, s, headOnly) : v \in {y}} : TRUE
           IsLoop(f, m) == f = [i \in 0..m |-> IF i = 0 THEN x ELSE Round(f[i - 1])]
           after == CHOOSE f : IsLoop(f, n)
<1>2. UnlockWaiters(x, s, headOnly) = after[n] /\ n \in Nat
  BY DEF UnlockWaiters
<1>3. after[0] = x /\ \A i \in 1..n : after[i] = Round(after[i - 1])
  <2> HIDE DEF n, Round
  <2>1. IsLoop(after, n)
    <3> DEFINE G == {m \in 0..n : \E f : IsLoop(f, m)}
    <3>1. 0 \in G
      <4>1. IsLoop([i \in 0..0 |-> x], 0)
        OBVIOUS
      <4> HIDE DEF IsLoop
      <4> QED BY <1>2, <4>1
    <3>2. ASSUME NEW m \in 1..n, m - 1 \in G PROVE m \in G
      <4>1. PICK f : IsLoop(f, m - 1)
        BY <3>2
      <4> DEFINE g == [i \in 0..m |-> IF i < m THEN f[i] ELSE Round(f[m - 1])]
      <4>2. ASSUME NEW i \in 0..m
            PROVE  g[i] = IF i = 0 THEN x ELSE Round(g[i - 1])
        <5>1. CASE i = 0
          BY <4>1, <5>1
        <5>2. CASE i # 0 /\ i < m
          BY <4>1, <5>2
        <5>3. CASE i = m
          BY <5>3
        <5> QED BY <5>1, <5>2, <5>3
      <4>3. IsLoop(g, m)
        BY <4>2
      <4> HIDE DEF IsLoop, g
      <4> QED BY <4>3
    <3> HIDE DEF G
    <3>3. n \in G
      <4>1. \A m \in 1..n : m - 1 \in G => m \in G
        BY <3>2
      <4>2. \A m \in 0..n : m \in G
        BY <1>2, <3>1, <4>1, SetInduction
      <4> QED BY <1>2, <4>2
    <3> QED BY <3>3 DEF G
  <2> HIDE DEF after
  <2> QED BY <1>2, <2>1
<1>4. \A y : Round(y) = UnlockRound(y, s, headOnly)
  OBVIOUS
<1> HIDE DEF after, Round
<1> QED BY <1>2, <1>3, <1>4 DEF UnlockLoop

LEMMA UnlockWaitersServes ==
  ASSUME NEW s \in Obj, NEW x \in Letting, KernelInv(x.k), EndShapes(x.k),
         Distinct(x.q.waiting), Listed(x.k, s, x.q.waiting), NEW headOnly \in BOOLEAN
  PROVE  Serves(x, UnlockWaiters(x, s, headOnly), s)
<1> DEFINE n == Len(x.q.waiting)
<1>1. n \in Nat
  BY DEF Letting, Semaphore
<1>2. PICK after : UnlockLoop(x, s, headOnly, after)
  BY <1>1, UnlockLoopExists
<1> DEFINE G == {m \in 0..n : Serves(x, after[m], s)}
<1>3. 0 \in G
  BY <1>1, <1>2, FreedSelf DEF UnlockLoop, Serves
<1>4. ASSUME NEW m \in 1..n, m - 1 \in G PROVE m \in G
  <2> DEFINE y == after[m - 1]
  <2>1. Serves(x, y, s) /\ after[m] = UnlockRound(y, s, headOnly)
    BY <1>2, <1>4 DEF UnlockLoop
  <2>2. Serves(y, UnlockRound(y, s, headOnly), s)
    <3> HIDE DEF y
    <3>1. y \in Letting /\ KernelInv(y.k) /\ EndShapes(y.k)
      BY <2>1, FreedShapes DEF Serves, Freed
    <3> QED BY <2>1, <3>1, UnlockRoundServes DEF Serves
  <2> HIDE DEF y
  <2> QED BY <2>1, <2>2, ServesTransitive
<1> HIDE DEF G
<1>5. \A m \in 0..n : m \in G
  <2>1. \A m \in 1..n : m - 1 \in G => m \in G
    BY <1>4
  <2> QED BY <1>1, <1>3, <2>1, SetInduction
<1>6. n \in G
  BY <1>1, <1>5
<1> QED BY <1>2, <1>6 DEF G, UnlockLoop

-----------------------------------------------------------------------------
(* Deletion and cancellation let everybody go. *)

ClearLoop(x, s, result, after) ==
  /\ after[0] = x
  /\ \A i \in 1..Len(x.q.waiting) :
       after[i] = KernelUnlockSemaForThread(after[i - 1], s, x.q.waiting[i], result)
  /\ KernelClearSemaThreads(x, s, result) =
       [after[Len(x.q.waiting)] EXCEPT !.q.waiting = <<>>]

LEMMA ClearLoopExists ==
  ASSUME NEW x, NEW s, NEW result, Len(x.q.waiting) \in Nat
  PROVE  \E after : ClearLoop(x, s, result, after)
<1> DEFINE w == x.q.waiting
           n == Len(w)
           Round(y, i) == KernelUnlockSemaForThread(y, s, w[i], result)
           IsLoop(f, m) == f = [i \in 0..m |-> IF i = 0 THEN x ELSE Round(f[i - 1], i)]
           after == CHOOSE f : IsLoop(f, n)
<1>1. KernelClearSemaThreads(x, s, result) = [after[n] EXCEPT !.q.waiting = <<>>]
  BY DEF KernelClearSemaThreads
<1>2. n \in Nat
  OBVIOUS
<1>3. after[0] = x /\ \A i \in 1..n : after[i] = Round(after[i - 1], i)
  <2> HIDE DEF w, n, Round
  <2>1. IsLoop(after, n)
    <3> DEFINE G == {m \in 0..n : \E f : IsLoop(f, m)}
    <3>1. 0 \in G
      <4>1. IsLoop([i \in 0..0 |-> x], 0)
        OBVIOUS
      <4> HIDE DEF IsLoop
      <4> QED BY <1>2, <4>1
    <3>2. ASSUME NEW m \in 1..n, m - 1 \in G PROVE m \in G
      <4>1. PICK f : IsLoop(f, m - 1)
        BY <3>2
      <4> DEFINE g == [i \in 0..m |-> IF i < m THEN f[i] ELSE Round(f[m - 1], m)]
      <4>2. ASSUME NEW i \in 0..m
            PROVE  g[i] = IF i = 0 THEN x ELSE Round(g[i - 1], i)
        <5>1. CASE i = 0
          BY <4>1, <5>1
        <5>2. CASE i # 0 /\ i < m
          BY <4>1, <5>2
        <5>3. CASE i = m
          BY <5>3
        <5> QED BY <5>1, <5>2, <5>3
      <4>3. IsLoop(g, m)
        BY <4>2
      <4> HIDE DEF IsLoop, g
      <4> QED BY <4>3
    <3> HIDE DEF G
    <3>3. n \in G
      <4>1. \A m \in 1..n : m - 1 \in G => m \in G
        BY <3>2
      <4>2. \A m \in 0..n : m \in G
        BY <1>2, <3>1, <4>1, SetInduction
      <4> QED BY <1>2, <4>2
    <3> QED BY <3>3 DEF G
  <2> HIDE DEF after
  <2> QED BY <1>2, <2>1
<1> HIDE DEF after
<1> QED BY <1>1, <1>3 DEF ClearLoop

\* Nobody waits for s when its waiters have been cleared.
LEMMA ClearServes ==
  ASSUME NEW s \in Obj, NEW x \in Letting, KernelInv(x.k), EndShapes(x.k),
         Listed(x.k, s, x.q.waiting), NEW r \in Result \ {"ok"}
  PROVE  LET y == KernelClearSemaThreads(x, s, r)
         IN  /\ Serves(x, y, s) /\ y.q.waiting = <<>>
             /\ \A u \in Thread : ~isWaitingFor(y.k, u, "SEMA", s)
<1> DEFINE w == x.q.waiting
           n == Len(w)
           y == KernelClearSemaThreads(x, s, r)
<1>1. w \in Seq(Thread) /\ n \in Nat /\ \A i \in 1..n : w[i] \in Thread
  BY DEF Letting, Semaphore
<1>2. PICK after : ClearLoop(x, s, r, after)
  BY <1>1, ClearLoopExists
<1> DEFINE Done(z, m) ==
             /\ z \in Letting /\ Freed(x.k, z.k) /\ z.q.exists = x.q.exists
             /\ \A i \in 1..m : ~isWaitingFor(z.k, w[i], "SEMA", s)
           G == {m \in 0..n : Done(after[m], m)}
<1>3. 0 \in G
  BY <1>1, <1>2, FreedSelf DEF ClearLoop
<1>4. ASSUME NEW m \in 1..n, m - 1 \in G PROVE m \in G
  <2> DEFINE z == after[m - 1]
             z2 == KernelUnlockSemaForThread(z, s, w[m], r)
  <2>1. Done(z, m - 1) /\ after[m] = z2 /\ w[m] \in Thread
    BY <1>1, <1>2, <1>4 DEF ClearLoop
  <2> HIDE DEF z, w, n
  <2>2. KernelInv(z.k) /\ EndShapes(z.k)
    BY <2>1, FreedShapes DEF Freed
  <2>3. /\ z2 \in Letting /\ Freed(z.k, z2.k) /\ z2.q.exists = z.q.exists
        /\ ~isWaitingFor(z2.k, w[m], "SEMA", s)
    BY <2>1, <2>2, UnlockOne
  <2> HIDE DEF z2
  <2>4. Freed(x.k, z2.k)
    BY <2>1, <2>3, FreedTransitive
  <2>5. ASSUME NEW i \in 1..m PROVE ~isWaitingFor(z2.k, w[i], "SEMA", s)
    <3>1. CASE i = m
      BY <2>3, <3>1
    <3>2. CASE i # m
      <4>1. w[i] \in Thread /\ i \in 1..(m - 1)
        BY <1>1, <3>2
      <4> QED BY <2>1, <2>3, <4>1
              DEF Freed, Quiet, Kept, isWaitingFor, Waits
    <3> QED BY <3>1, <3>2
  <2> QED BY <2>1, <2>3, <2>4, <2>5
<1> HIDE DEF G
<1>5. \A m \in 0..n : m \in G
  <2>1. \A m \in 1..n : m - 1 \in G => m \in G
    BY <1>4
  <2> QED BY <1>1, <1>3, <2>1, SetInduction
<1>6. Done(after[n], n)
  BY <1>1, <1>5 DEF G
<1> DEFINE z == after[n]
<1>7. y = [z EXCEPT !.q.waiting = <<>>]
  BY <1>2 DEF ClearLoop
<1> HIDE DEF z, y, w
<1>8. /\ y \in Letting /\ y.k = z.k /\ y.q.waiting = <<>> /\ y.q.exists = x.q.exists
  <2> DEFINE q2 == [z.q EXCEPT !.waiting = <<>>]
  <2>1. z \in Letting /\ z.q \in Semaphore /\ <<>> \in Seq(Thread)
    BY <1>6 DEF Letting, z
  <2>2. q2 \in Semaphore /\ q2.waiting = <<>> /\ q2.exists = z.q.exists
    BY <2>1 DEF Semaphore
  <2>3. y = [z EXCEPT !.q = q2]
    BY <1>7
  <2> HIDE DEF q2
  <2>4. y \in Letting /\ y.k = z.k /\ y.q = q2
    BY <2>1, <2>2, <2>3 DEF Letting
  <2> QED BY <1>6, <2>2, <2>4 DEF z
<1>9. ASSUME NEW u \in Thread PROVE ~isWaitingFor(z.k, u, "SEMA", s)
  <2>1. Listed(z.k, s, w)
    BY <1>6, ListedFreed DEF z, w
  <2> QED BY <1>6, <2>1 DEF Listed, Holds, z
<1>10. Distinct(<<>>)
  BY DEF Distinct
<1> QED BY <1>6, <1>8, <1>9, <1>10 DEF Serves, Listed, z, y

-----------------------------------------------------------------------------
(* The steps. *)

LEMMA SemaFacts ==
  ASSUME SemaSound(k, sema), NEW s \in Obj
  PROVE  /\ Inv /\ Sound(k) /\ SemaRight(k, sema) /\ EndShapes(k) /\ k \in Kernel
         /\ sema[s] \in Semaphore /\ Distinct(sema[s].waiting)
         /\ Listed(k, s, sema[s].waiting)
         /\ Begin(s) \in Letting /\ Begin(s).k = k /\ Begin(s).q = sema[s]
BY SoundShapes DEF SemaSound, Sound, Inv, KernelInv, SemaRight, Listed, Begin, Letting

\* The end of a call that has let waiters of s go.
LEMMA FinishSound ==
  ASSUME SemaSound(k, sema), NEW s \in Obj, NEW y \in Letting, Freed(k, y.k),
         Distinct(y.q.waiting),
         \A u \in Thread :
           isWaitingFor(y.k, u, "SEMA", s) => y.q.exists /\ Holds(y.q.waiting, u),
         Finish(y, s)
  PROVE  SemaSound(k', sema')
<1>1. Sound(k) /\ SemaRight(k, sema) /\ y.q \in Semaphore
  BY DEF SemaSound, Letting
<1>2. /\ Sound(y.k) /\ Sound(hleReSchedule(y.k))
      /\ Quiet(k, y.k) /\ Quiet(k, hleReSchedule(y.k))
  BY <1>1, FreedSound DEF Freed
<1>3. k' = y.k \/ k' = hleReSchedule(y.k)
  BY DEF Finish
<1>4. Sound(k') /\ SameWaits(k, k', "SEMA")
  BY <1>2, <1>3, QuietSameWaits, SemaType
<1>5. k'.st = y.k.st /\ k'.wait = y.k.wait
  BY <1>2, <1>3, hleReScheduleInv DEF Sound, Pending, WaitsSame
<1>6. \A u \in Thread :
        isWaitingFor(k', u, "SEMA", s) => y.q.exists /\ Holds(y.q.waiting, u)
  BY <1>5 DEF isWaitingFor
<1>7. sema' = [sema EXCEPT ![s] = y.q]
  BY DEF Finish
<1> QED BY <1>1, <1>4, <1>6, <1>7, SemaStored DEF SemaSound

\* Only the semaphore s is written; the thread manager is left alone.
LEMMA WriteSound ==
  ASSUME SemaSound(k, sema), NEW s \in Obj, NEW q \in Semaphore, Distinct(q.waiting),
         \A u \in Thread :
           isWaitingFor(k, u, "SEMA", s) => q.exists /\ Holds(q.waiting, u)
  PROVE  SemaSound(k, [sema EXCEPT ![s] = q])
<1>1. Sound(k) /\ SemaRight(k, sema) /\ SameWaits(k, k, "SEMA")
  BY DEF SemaSound, SameWaits
<1> QED BY <1>1, SemaStored DEF SemaSound

LEMMA CreateSemaStep ==
  ASSUME SemaSound(k, sema), NEW s \in Obj, NEW priority \in Attrs, NEW max \in MaxCounts,
         NEW init \in 0..max, sceKernelCreateSema(s, priority, init, max)
  PROVE  SemaSound(k', sema')
<1> DEFINE q == [exists |-> TRUE, priority |-> priority, init |-> init, count |-> init,
                 max |-> max, numWait |-> 0, waiting |-> <<>>]
<1>1. priority \in BOOLEAN /\ max \in Nat /\ init \in Nat
  BY SemaAssumption
<1>2. q \in Semaphore /\ q.waiting = <<>> /\ q.exists
  BY <1>1 DEF Semaphore
<1>3. ~sema[s].exists /\ k' = k /\ sema' = [sema EXCEPT ![s] = q]
  BY DEF sceKernelCreateSema
<1> HIDE DEF q
<1>4. \A u \in Thread : ~isWaitingFor(k, u, "SEMA", s)
  BY <1>3 DEF SemaSound, SemaRight
<1>5. Distinct(<<>>)
  BY DEF Distinct
<1> QED BY <1>2, <1>3, <1>4, <1>5, WriteSound

LEMMA PollSemaStep ==
  ASSUME SemaSound(k, sema), NEW s \in Obj, NEW want \in Counts, sceKernelPollSema(s, want)
  PROVE  SemaSound(k', sema')
<1> DEFINE q == [sema[s] EXCEPT !.count = @ - want]
<1>1. /\ sema[s] \in Semaphore /\ Distinct(sema[s].waiting) /\ SemaRight(k, sema)
  BY SemaFacts
<1>2. /\ sema[s].count >= want /\ k' = k /\ sema' = [sema EXCEPT ![s].count = @ - want]
  BY DEF sceKernelPollSema
<1>3. sema' = [sema EXCEPT ![s] = q]
  BY <1>2
<1>4. sema[s].count - want \in Nat
  BY <1>1, <1>2, SemaAssumption DEF Semaphore
<1>5. q \in Semaphore /\ q.waiting = sema[s].waiting /\ q.exists = sema[s].exists
  BY <1>1, <1>4 DEF Semaphore
<1> HIDE DEF q
<1>6. Distinct(q.waiting)
  BY <1>1, <1>5
<1>7. ASSUME NEW u \in Thread, isWaitingFor(k, u, "SEMA", s)
      PROVE  q.exists /\ Holds(q.waiting, u)
  BY <1>1, <1>5, <1>7 DEF SemaRight
<1>8. SemaSound(k, [sema EXCEPT ![s] = q])
  BY <1>5, <1>6, <1>7, WriteSound
<1> QED BY <1>2, <1>3, <1>8

LEMMA ReferSemaStep ==
  ASSUME SemaSound(k, sema), NEW s \in Obj, sceKernelReferSemaStatus(s)
  PROVE  SemaSound(k', sema')
<1> DEFINE w == CleanupWaitingThreads(k, "SEMA", s, sema[s].waiting)
           q == [sema[s] EXCEPT !.waiting = w, !.numWait = Len(w)]
<1>1. /\ sema[s] \in Semaphore /\ Distinct(sema[s].waiting) /\ sema[s].exists /\ k' = k
      /\ Listed(k, s, sema[s].waiting) /\ EndShapes(k)
      /\ sema' = [sema EXCEPT ![s].waiting = w, ![s].numWait = Len(w)]
  BY SemaFacts DEF sceKernelReferSemaStatus
<1>2. sema' = [sema EXCEPT ![s] = q]
  <2> HIDE DEF w
  <2> QED BY <1>1 DEF SemaSound, SemaRight
<1>3. sema[s].waiting \in Seq(Thread)
  BY <1>1 DEF Semaphore
<1>4. /\ w \in Seq(Thread) /\ Distinct(w)
      /\ \A u : Holds(sema[s].waiting, u) /\ VerifyWait(k, u, "SEMA", s) => Holds(w, u)
  BY <1>1, <1>3, CleanupHolds
<1> HIDE DEF w
<1>5. q \in Semaphore /\ q.waiting = w /\ q.exists
  <2>1. Len(w) \in Nat
    BY <1>4
  <2> QED BY <1>1, <1>4, <2>1 DEF Semaphore
<1> HIDE DEF q
<1>6. ASSUME NEW u \in Thread, isWaitingFor(k, u, "SEMA", s) PROVE Holds(w, u)
  <2>1. VerifyWait(k, u, "SEMA", s)
    BY <1>1, <1>6 DEF isWaitingFor, VerifyWait, KernelGetWaitID, Exists, EndShapes, Gone
  <2> QED BY <1>1, <1>4, <1>6, <2>1 DEF Listed
<1> QED BY <1>1, <1>2, <1>4, <1>5, <1>6, WriteSound

LEMMA DeleteSemaStep ==
  ASSUME SemaSound(k, sema), NEW s \in Obj, sceKernelDeleteSema(s)
  PROVE  SemaSound(k', sema')
<1> DEFINE x == Begin(s)
           y == KernelClearSemaThreads(x, s, "WAIT_DELETE")
           z == [y EXCEPT !.q = NoSema]
<1>1. /\ x \in Letting /\ x.k = k /\ x.q = sema[s] /\ KernelInv(k) /\ EndShapes(k)
      /\ Listed(k, s, sema[s].waiting)
  BY SemaFacts DEF Sound
<1>2. Finish(z, s)
  BY DEF sceKernelDeleteSema
<1> HIDE DEF x
<1>3. Serves(x, y, s) /\ \A u \in Thread : ~isWaitingFor(y.k, u, "SEMA", s)
  BY <1>1, ClearServes DEF Result
<1> HIDE DEF y
<1>4. NoSema \in Semaphore /\ NoSema.waiting = <<>>
  BY DEF NoSema, Semaphore
<1>5. z \in Letting /\ z.k = y.k /\ z.q = NoSema
  BY <1>3, <1>4 DEF Serves, Letting
<1> HIDE DEF z
<1>6. Freed(k, z.k) /\ Distinct(z.q.waiting)
  BY <1>1, <1>3, <1>4, <1>5 DEF Serves, Distinct
<1> QED BY <1>2, <1>3, <1>5, <1>6, FinishSound

LEMMA CancelSemaStep ==
  ASSUME SemaSound(k, sema), NEW s \in Obj, NEW newCount \in {-1, 0} \cup Counts,
         sceKernelCancelSema(s, newCount)
  PROVE  SemaSound(k', sema')
<1> DEFINE c == IF newCount < 0 THEN sema[s].init ELSE newCount
           q == [sema[s] EXCEPT !.numWait = Len(sema[s].waiting), !.count = c]
           x == [Begin(s) EXCEPT !.q = q]
           y == KernelClearSemaThreads(x, s, "WAIT_CANCEL")
<1>1. /\ k \in Kernel /\ KernelInv(k) /\ EndShapes(k) /\ sema[s] \in Semaphore
      /\ Listed(k, s, sema[s].waiting) /\ sema[s].exists
  BY SemaFacts DEF Sound, sceKernelCancelSema
<1>2. c \in Nat
  <2>1. sema[s].init \in Nat
    BY <1>1 DEF Semaphore
  <2>2. newCount < 0 \/ newCount \in Nat
    BY SemaAssumption
  <2> QED BY <2>1, <2>2
<1>3. Finish(y, s)
  BY DEF sceKernelCancelSema
<1> HIDE DEF c
<1>4. q \in Semaphore /\ q.waiting = sema[s].waiting /\ q.exists
  <2>1. Len(sema[s].waiting) \in Nat
    BY <1>1 DEF Semaphore
  <2> QED BY <1>1, <1>2, <2>1 DEF Semaphore
<1> HIDE DEF q
<1>5. x \in Letting /\ x.k = k /\ x.q = q
  BY <1>1, <1>4 DEF Begin, Letting
<1> HIDE DEF x
<1>6. /\ Serves(x, y, s) /\ y.q.waiting = <<>>
      /\ \A u \in Thread : ~isWaitingFor(y.k, u, "SEMA", s)
  BY <1>1, <1>4, <1>5, ClearServes DEF Result
<1> HIDE DEF y
<1>7. y \in Letting /\ Freed(k, y.k) /\ Distinct(y.q.waiting)
  BY <1>5, <1>6 DEF Serves
<1> QED BY <1>3, <1>6, <1>7, FinishSound

LEMMA SignalSemaStep ==
  ASSUME SemaSound(k, sema), NEW s \in Obj, NEW signal \in Counts,
         sceKernelSignalSema(s, signal)
  PROVE  SemaSound(k', sema')
<1> DEFINE w == IF sema[s].priority THEN SortPriority(k, sema[s].waiting)
                ELSE sema[s].waiting
           q == [sema[s] EXCEPT !.count = @ + signal, !.waiting = w]
           x == [Begin(s) EXCEPT !.q = q]
           y == UnlockAll(x, s)
<1>1. /\ k \in Kernel /\ KernelInv(k) /\ EndShapes(k) /\ sema[s] \in Semaphore
      /\ Listed(k, s, sema[s].waiting) /\ sema[s].exists /\ Distinct(sema[s].waiting)
      /\ sema[s].waiting \in Seq(Thread) /\ sema[s].count + signal \in Nat
  BY SemaFacts, SemaAssumption DEF Sound, sceKernelSignalSema, Semaphore
<1>2. /\ w \in Seq(Thread) /\ Distinct(w)
      /\ \A u : Holds(w, u) <=> Holds(sema[s].waiting, u)
  BY <1>1, SortHolds
<1> DEFINE q0 == [sema[s] EXCEPT
                    !.count = @ + signal,
                    !.waiting = IF sema[s].priority THEN SortPriority(k, @) ELSE @]
           x0 == [Begin(s) EXCEPT !.q = q0]
<1>3. Finish(UnlockAll(x0, s), s)
  BY DEF sceKernelSignalSema
<1>9. q0 = q
  BY <1>1 DEF Semaphore
<1> HIDE DEF w, q0
<1>4. q \in Semaphore /\ q.waiting = w /\ q.exists
  BY <1>1, <1>2 DEF Semaphore
<1> HIDE DEF q
<1>5. x \in Letting /\ x.k = k /\ x.q = q
  BY <1>1, <1>4 DEF Begin, Letting
<1>6. Listed(k, s, w)
  BY <1>1, <1>2 DEF Listed
<1> HIDE DEF x
<1>7. Serves(x, y, s)
  BY <1>1, <1>2, <1>4, <1>5, <1>6, UnlockWaitersServes DEF UnlockAll
<1> HIDE DEF y
<1>8. Finish(y, s)
  BY <1>3, <1>9 DEF x, y
<1> QED BY <1>4, <1>5, <1>7, <1>8, FinishSound DEF Serves, Listed

LEMMA WaitSemaStep ==
  ASSUME SemaSound(k, sema), NEW s \in Obj, NEW want \in Counts, NEW timed \in BOOLEAN,
         NEW hasCallbacks \in BOOLEAN, KernelWaitSema(s, want, timed, hasCallbacks)
  PROVE  SemaSound(k', sema')
<1>1. /\ Inv /\ Sound(k) /\ SemaRight(k, sema) /\ sema[s] \in Semaphore
      /\ Distinct(sema[s].waiting) /\ sema[s].waiting \in Seq(Thread)
      /\ want \in Nat /\ sema[s].count \in Nat
  BY SemaFacts, SemaAssumption DEF Semaphore
<1>2. /\ Calls("WaitSema") /\ k.disp /\ sema[s].exists
  BY DEF KernelWaitSema
<1>3. /\ k.cur \in User /\ k.cur \in Thread /\ k.st[k.cur] \in {{"RUNNING"}, {"READY"}}
  BY <1>1, <1>2, InCall
<1>4. CASE sema[s].count >= want /\ sema[s].waiting = <<>> /\ ~hasCallbacks
  <2> DEFINE q == [sema[s] EXCEPT !.count = @ - want]
  <2>1. sema' = [sema EXCEPT ![s] = q] /\ k' = k
    BY <1>4 DEF KernelWaitSema
  <2>2. sema[s].count - want \in Nat
    BY <1>1, <1>4
  <2>3. q \in Semaphore /\ q.waiting = sema[s].waiting /\ q.exists = sema[s].exists
    BY <1>1, <2>2 DEF Semaphore
  <2> HIDE DEF q
  <2> QED BY <1>1, <2>1, <2>3, WriteSound DEF SemaRight
<1>5. CASE ~(sema[s].count >= want /\ sema[s].waiting = <<>> /\ ~hasCallbacks)
  <2> DEFINE w == ListOnce(sema[s].waiting, k.cur)
             q == [sema[s] EXCEPT !.waiting = w]
             wt == [type |-> "SEMA", id |-> s, value |-> want, timed |-> timed]
             k2 == KernelWaitCurThread(SetWaitTimer(k, "SEMA", timed), "SEMA", s, want, timed)
             sm2 == [sema EXCEPT ![s] = q]
  <2>1. sema' = sm2 /\ k' = k2
    BY <1>5 DEF KernelWaitSema
  <2>2. Sound(k2) /\ BeginsWait(k, k2, "SEMA", wt)
    BY <1>1, <1>2, <1>3, ObjAsleep, SemaType
  <2> HIDE DEF k2
  <2>3. /\ w \in Seq(Thread) /\ Distinct(w)
        /\ \A u : Holds(w, u) <=> Holds(sema[s].waiting, u) \/ u = k.cur
    BY <1>1, <1>3, ListOnceHolds, Zenon
  <2> HIDE DEF w
  <2>4. q \in Semaphore /\ q.waiting = w /\ q.exists
    BY <1>1, <1>2, <2>3 DEF Semaphore
  <2> HIDE DEF q
  <2>5. /\ sm2 \in [Obj -> Semaphore] /\ sm2[s] = q /\ \A i \in Obj \ {s} : sm2[i] = sema[i]
    BY <1>1, <2>4 DEF SemaRight
  <2> HIDE DEF sm2
  <2>6. \A i \in Obj : Distinct(sm2[i].waiting)
    BY <1>1, <2>3, <2>4, <2>5 DEF SemaRight
  <2>7. /\ k2.wait[k.cur] = wt
        /\ wt.timed => k2.timer["SEMA"][k.cur] > 0
        /\ \A u \in Thread \ {k.cur} :
             /\ k2.st[u] = k.st[u] /\ k2.wait[u] = k.wait[u]
             /\ k2.timer["SEMA"][u] = k.timer["SEMA"][u]
    BY <2>2 DEF BeginsWait
  <2>8. wt.id = s
    OBVIOUS
  <2> HIDE DEF wt
  <2>9. ASSUME NEW u \in Thread, NEW i \in Obj, isWaitingFor(k2, u, "SEMA", i)
        PROVE  sm2[i].exists /\ Holds(sm2[i].waiting, u)
    <3>1. CASE u = k.cur
      <4>1. i = s
        BY <2>7, <2>8, <2>9, <3>1 DEF isWaitingFor
      <4> QED BY <2>3, <2>4, <2>5, <3>1, <4>1
    <3>2. CASE u # k.cur
      <4>1. sema[i].exists /\ Holds(sema[i].waiting, u)
        BY <1>1, <2>7, <2>9, <3>2 DEF isWaitingFor, SemaRight
      <4>2. CASE i = s
        BY <2>3, <2>4, <2>5, <4>1, <4>2
      <4>3. CASE i # s
        BY <2>5, <4>1, <4>3
      <4> QED BY <4>2, <4>3
    <3> QED BY <3>1, <3>2
  <2>10. ASSUME NEW u \in Thread, Waits(k2, u), k2.wait[u].type = "SEMA", k2.wait[u].timed
         PROVE  k2.timer["SEMA"][u] > 0
    <3>1. CASE u = k.cur
      BY <2>7, <2>8, <2>10, <3>1
    <3>2. CASE u # k.cur
      BY <1>1, <2>7, <2>10, <3>2 DEF Waits, SemaRight
    <3> QED BY <3>1, <3>2
  <2>11. SemaRight(k2, sm2)
    BY <2>5, <2>6, <2>9, <2>10 DEF SemaRight
  <2> QED BY <2>1, <2>2, <2>11 DEF SemaSound
<1> QED BY <1>4, <1>5

\* The thread manager has moved on, and nobody has begun to wait for a semaphore.
LEMMA MovedOn ==
  ASSUME SemaSound(k, sema), NEW k2, Sound(k2), SameWaits(k, k2, "SEMA")
  PROVE  SemaSound(k2, sema)
BY SemaKept DEF SemaSound

\* A timer that fires finds the wait it belongs to, or one that has ended.
LEMMA SemaTimeoutStep ==
  ASSUME SemaSound(k, sema), NEW t \in User, KernelSemaTimeout(t)
  PROVE  SemaSound(k', sema')
<1> DEFINE f == PopEvent(k, "SEMA", t)
           uid == KernelGetWaitID(f, t, "SEMA")
<1>1. /\ Sound(k) /\ SemaRight(k, sema) /\ EndShapes(k) /\ k \in Kernel /\ t \in Thread
      /\ "SEMA" \in ObjWait
  BY SoundShapes, SemaType DEF SemaSound, Sound, KernelInv, Thread
<1>2. /\ k.timer["SEMA"][t] > 0 /\ sema' = sema
      /\ k' = IF uid # NoObj /\ sema[uid].exists THEN WaitExecTimeout(f, t, uid) ELSE f
  BY DEF KernelSemaTimeout
<1>3. f.st = k.st /\ f.wait = k.wait
  BY <1>1, <1>2, ObjFired DEF OneTimer
<1>4. k.wait[t] \in Wait
  BY <1>1 DEF Kernel
<1>5. CASE uid # NoObj /\ sema[uid].exists
  <2> HIDE DEF f
  <2>1. k.wait[t].type = "SEMA" /\ uid = k.wait[t].id
    BY <1>3, <1>5 DEF KernelGetWaitID
  <2>2. uid \in Obj \cup {NoObj}
    BY <1>1, <1>4, <2>1 DEF Wait
  <2> HIDE DEF uid
  <2>3. Sound(k') /\ Quiet(k, k')
    BY <1>1, <1>2, <1>5, <2>1, <2>2, ObjTimedOut DEF f
  <2> QED BY <1>1, <1>2, <2>3, QuietSameWaits, MovedOn
<1>6. CASE ~(uid # NoObj /\ sema[uid].exists)
  <2>1. ~(Waits(k, t) /\ k.wait[t].type = "SEMA")
    <3> SUFFICES ASSUME Waits(k, t), k.wait[t].type = "SEMA" PROVE FALSE
      OBVIOUS
    <3>1. Exists(k, t) /\ Exists(f, t)
      BY <1>1, <1>3 DEF Exists, EndShapes, Gone, Waits
    <3> HIDE DEF f
    <3>2. uid = k.wait[t].id /\ k.wait[t].id \in Obj
      BY <1>1, <1>3, <1>4, <3>1 DEF KernelGetWaitID, Wait
    <3> HIDE DEF uid
    <3>3. uid # NoObj
      BY <3>2, UidAssumption
    <3>4. sema[uid].exists
      BY <1>1, <3>2 DEF SemaRight, isWaitingFor, Waits
    <3> QED BY <1>6, <3>3, <3>4
  <2>2. Sound(f) /\ SameWaits(k, f, "SEMA") /\ k' = f
    BY <1>1, <1>2, <1>6, <2>1, ObjStale
  <2> HIDE DEF f
  <2> QED BY <1>2, <2>2, MovedOn
<1> QED BY <1>5, <1>6

\* The reschedule that the timeout has asked for ends, and the waiters whose request
\* the count covers go.
LEMMA SemaTimeoutEndStep ==
  ASSUME SemaSound(k, sema), NEW s \in Obj, KernelSemaTimeoutEnd(s)
  PROVE  SemaSound(k', sema')
<1> DEFINE k1 == KernelReScheduleEnd(k)
           x == [k |-> k1, q |-> sema[s], woke |-> FALSE]
           y == IF sema[s].exists /\ ~sema[s].priority THEN UnlockPrefix(x, s) ELSE x
<1>1. /\ KernelInv(k) /\ PhaseInv(k) /\ WaitInv(k) /\ SemaRight(k, sema)
      /\ sema[s] \in Semaphore /\ Distinct(sema[s].waiting)
  BY SemaFacts DEF SemaSound, Sound
<1>2. k.frames # <<>> /\ k' = y.k /\ sema' = [sema EXCEPT ![s] = y.q]
  BY DEF KernelSemaTimeoutEnd
<1>3. KernelInv(k1) /\ PhaseInv(k1) /\ Quiet(k, k1)
  BY <1>1, <1>2, ReScheduleEndInv, ReScheduleEndQuiet
<1> HIDE DEF k1
<1>4. Sound(k1)
  BY <1>1, <1>3, QuietInv DEF Sound, KernelInv
<1>5. SemaRight(k1, sema)
  BY <1>1, <1>3, QuietSameWaits, SemaKept, SemaType
<1>6. x \in Letting /\ x.k = k1 /\ x.q = sema[s]
  BY <1>1, <1>3 DEF Letting, KernelInv
<1> HIDE DEF x
<1>7. Listed(k1, s, sema[s].waiting)
  BY <1>5 DEF SemaRight, Listed
<1>8. Serves(x, y, s)
  <2>1. Serves(x, x, s)
    BY <1>1, <1>3, <1>6, <1>7, FreedSelf DEF Serves
  <2>2. Serves(x, UnlockPrefix(x, s), s)
    BY <1>1, <1>4, <1>6, <1>7, UnlockWaitersServes, SoundShapes DEF Sound, UnlockPrefix
  <2> QED BY <2>1, <2>2
<1> HIDE DEF y
<1>9. Sound(y.k) /\ SameWaits(k1, y.k, "SEMA") /\ y.q \in Semaphore
  BY <1>4, <1>6, <1>8, FreedSound, QuietSameWaits, SemaType DEF Serves, Freed, Letting
<1>10. ASSUME NEW u \in Thread, isWaitingFor(y.k, u, "SEMA", s)
       PROVE  y.q.exists /\ Holds(y.q.waiting, u)
  <2>1. isWaitingFor(k1, u, "SEMA", s)
    BY <1>9, <1>10 DEF SameWaits, isWaitingFor, Waits
  <2> QED BY <1>5, <1>6, <1>8, <1>10, <2>1 DEF SemaRight, Serves, Listed
<1>11. SemaRight(y.k, [sema EXCEPT ![s] = y.q])
  BY <1>5, <1>8, <1>9, <1>10, SemaStored DEF Serves
<1> QED BY <1>2, <1>9, <1>11 DEF SemaSound

\* A step of the thread manager alone.
LEMMA ManagerStep ==
  ASSUME Disciplined, SemaSound(k, sema), Next, UNCHANGED sema
  PROVE  SemaSound(k', sema')
<1>1. Inv /\ WaitInv(k)
  BY DEF SemaSound, Sound, Inv
<1>2. Good /\ Fine(k, k')
  BY <1>1, UndisturbedFine, ThreadEndFine DEF Next
<1>3. Sound(k') /\ SameWaits(k, k', "SEMA")
  BY <1>2, FineSameWaits, SemaType DEF Good, Fine, Sound
<1> QED BY <1>3, MovedOn

LEMMA SemaInitSound ==
  ASSUME SemaInit
  PROVE  SemaSound(k, sema)
<1>1. Sound(k)
  BY InitInv, InitWaitInv DEF SemaInit, Inv, Sound
<1>2. PICK root \in User, p \in UserPrio : k = InitKernel(root, p)
  BY DEF SemaInit, Init
<1>3. \A t \in Thread : ~Waits(k, t)
  <2>1. /\ k.st = [t \in Thread |-> IF t = root THEN {"RUNNING"}
                                     ELSE IF t \in Idle THEN {"READY"} ELSE {"DEAD"}]
    BY <1>2 DEF InitKernel
  <2> QED BY <2>1 DEF Waits
<1>4. NoSema \in Semaphore /\ Distinct(NoSema.waiting)
  BY DEF NoSema, Semaphore, Distinct
<1>5. sema \in [Obj -> Semaphore] /\ \A s \in Obj : Distinct(sema[s].waiting)
  BY <1>4 DEF SemaInit
<1> QED BY <1>1, <1>3, <1>5 DEF SemaSound, SemaRight, isWaitingFor, Waits

LEMMA SemaStep ==
  ASSUME Disciplined, SemaSound(k, sema), SemaNext
  PROVE  SemaSound(k', sema')
<1>1. CASE SemaCall
  <2>1. PICK s \in Obj :
          \/ \E priority \in Attrs, max \in MaxCounts : \E init \in 0..max :
               sceKernelCreateSema(s, priority, init, max)
          \/ sceKernelDeleteSema(s)
          \/ \E newCount \in {-1, 0} \cup Counts : sceKernelCancelSema(s, newCount)
          \/ sceKernelReferSemaStatus(s)
          \/ \E n \in Counts : sceKernelSignalSema(s, n) \/ sceKernelPollSema(s, n)
          \/ \E want \in Counts, timed \in BOOLEAN : sceKernelWaitSema(s, want, timed)
    BY <1>1 DEF SemaCall
  <2>2. CASE \E want \in Counts, timed \in BOOLEAN : sceKernelWaitSema(s, want, timed)
    BY <2>2, WaitSemaStep DEF sceKernelWaitSema
  <2> QED BY <2>1, <2>2, CreateSemaStep, DeleteSemaStep, CancelSemaStep, ReferSemaStep,
             SignalSemaStep, PollSemaStep
<1>2. CASE \E t \in User : KernelSemaTimeout(t)
  BY <1>2, SemaTimeoutStep
<1>3. CASE \E s \in Obj : KernelSemaTimeoutEnd(s)
  BY <1>3, SemaTimeoutEndStep
<1>4. CASE Next /\ UNCHANGED sema
  BY <1>4, ManagerStep
<1> QED BY <1>1, <1>2, <1>3, <1>4 DEF SemaNext

LEMMA SemaSoundHolds ==
  ASSUME Disciplined
  PROVE  SemaSpec => []SemaSound(k, sema)
<1>1. SemaInit => SemaSound(k, sema)
  BY SemaInitSound
<1>2. SemaSound(k, sema) /\ [SemaNext]_semavars => SemaSound(k, sema)'
  <2> SUFFICES ASSUME SemaSound(k, sema), [SemaNext]_semavars
               PROVE  SemaSound(k, sema)'
    OBVIOUS
  <2>1. SemaSound(k', sema')
    <3>1. CASE SemaNext
      BY <3>1, SemaStep
    <3>2. CASE UNCHANGED semavars
      BY <3>2 DEF semavars
    <3> QED BY <3>1, <3>2
  <2> QED BY <2>1
<1> QED BY <1>1, <1>2, PTL DEF SemaSpec

-----------------------------------------------------------------------------
\* Whatever is created, deleted, cancelled, signalled, polled, waited for or timed out:
\* the counts of the semaphores never go below zero and the calls keep the invariant of
\* the thread manager; no thread is in a list of waiters twice, although its id stays
\* there after a timeout; and a thread in a timed wait still has the event that ends it.
THEOREM SemaInvHolds ==
  ASSUME Disciplined
  PROVE  SemaSpec => []SemaInv
<1>1. SemaSound(k, sema) => SemaInv
  BY DEF SemaSound, Sound, SemaRight, Inv, SemaInv, SemaTypeOK, WaitersDistinct,
         TimedSemaWaitHasTimer, WaitsFor, Waits
<1> QED BY <1>1, SemaSoundHolds, PTL

\* No waiter is forgotten: whoever is in WAIT for a semaphore is in its list, and the
\* semaphore exists, after every sort, cleanup, signal, cancel, deletion and timeout.
THEOREM WaitersListedHolds ==
  ASSUME Disciplined
  PROVE  SemaSpec => []WaitersListed
<1>1. SemaSound(k, sema) => WaitersListed
  BY DEF SemaSound, SemaRight, WaitersListed
<1> QED BY <1>1, SemaSoundHolds, PTL

-----------------------------------------------------------------------------
(* Sums over finite sets. *)

Pick(V) == CHOOSE e \in V : TRUE

\* g sums f over the subsets of U.
Sums(f, U, g) ==
  g = [V \in SUBSET U |-> IF V = {} THEN 0 ELSE f[Pick(V)] + g[V \ {Pick(V)}]]

LEMMA SumIs ==
  ASSUME NEW f, NEW U
  PROVE  SumFunctionOnSet(f, U) = (CHOOSE g : Sums(f, U, g))[U]
BY DEF SumFunctionOnSet, FoldFunctionOnSet, MapThenFoldSet, Sums, Pick

\* The sums of the sets with at most n elements.
SumsUpTo(f, U, n, h) ==
  h = [V \in {W \in SUBSET U : Cardinality(W) <= n} |->
         IF V = {} THEN 0 ELSE f[Pick(V)] + h[V \ {Pick(V)}]]

LEMMA PickFacts ==
  ASSUME NEW U, IsFiniteSet(U), NEW V \in SUBSET U
  PROVE  /\ IsFiniteSet(V) /\ Cardinality(V) \in Nat /\ (Cardinality(V) <= 0 => V = {})
         /\ V # {} => /\ Pick(V) \in V /\ V \ {Pick(V)} \in SUBSET U
                      /\ Cardinality(V \ {Pick(V)}) = Cardinality(V) - 1
<1>1. IsFiniteSet(V)
  BY FS_Subset
<1>2. Cardinality(V) \in Nat /\ (Cardinality(V) <= 0 => V = {})
  <2>1. Cardinality(V) \in Nat /\ (V = {} <=> Cardinality(V) = 0)
    BY <1>1, FS_CardinalityType, FS_EmptySet
  <2> HIDE DEF Pick
  <2> QED BY <2>1
<1>3. ASSUME V # {} PROVE Pick(V) \in V
  BY <1>3 DEF Pick
<1>4. ASSUME V # {} PROVE Cardinality(V \ {Pick(V)}) = Cardinality(V) - 1
  BY <1>1, <1>3, <1>4, FS_RemoveElement
<1> QED BY <1>1, <1>2, <1>3, <1>4

LEMMA SumsExist ==
  ASSUME NEW f, NEW U, IsFiniteSet(U)
  PROVE  \E g : Sums(f, U, g)
<1> DEFINE n == Cardinality(U)
           Small(m) == {W \in SUBSET U : Cardinality(W) <= m}
           G == {m \in 0..n : \E h : SumsUpTo(f, U, m, h)}
<1>1. n \in Nat /\ \A V \in SUBSET U : Cardinality(V) <= n
  BY FS_CardinalityType, FS_Subset
<1>2. 0 \in G
  <2> DEFINE h == [V \in Small(0) |-> 0]
  <2>1. \A V \in Small(0) : V = {}
    BY PickFacts
  <2>2. h = [V \in Small(0) |-> IF V = {} THEN 0 ELSE f[Pick(V)] + h[V \ {Pick(V)}]]
    BY <2>1
  <2> HIDE DEF h
  <2>3. SumsUpTo(f, U, 0, h)
    BY <2>2 DEF SumsUpTo
  <2> QED BY <1>1, <2>3
<1>3. ASSUME NEW m \in 1..n, m - 1 \in G PROVE m \in G
  <2>1. PICK p : SumsUpTo(f, U, m - 1, p)
    BY <1>3
  <2>2. p = [V \in Small(m - 1) |-> IF V = {} THEN 0 ELSE f[Pick(V)] + p[V \ {Pick(V)}]]
    BY <2>1 DEF SumsUpTo
  <2> DEFINE Old(W) == IF W = {} THEN 0 ELSE f[Pick(W)] + p[W \ {Pick(W)}]
             h == [V \in Small(m) |-> Old(V)]
  <2>3. ASSUME NEW V \in Small(m), V # {} PROVE h[V \ {Pick(V)}] = p[V \ {Pick(V)}]
    <3> DEFINE W == V \ {Pick(V)}
    <3>1. W \in SUBSET U /\ Cardinality(W) = Cardinality(V) - 1 /\ Cardinality(V) \in Nat
      BY <2>3, PickFacts
    <3>2. Cardinality(W) <= m - 1 /\ Cardinality(W) <= m
      BY <3>1
    <3>3. W \in Small(m - 1) /\ W \in Small(m)
      BY <3>1, <3>2
    <3> HIDE DEF W, Small
    <3>4. p[W] = Old(W) /\ h[W] = Old(W)
      BY <2>2, <3>3
    <3> QED BY <3>4 DEF W
  <2>4. h = [V \in Small(m) |-> IF V = {} THEN 0 ELSE f[Pick(V)] + h[V \ {Pick(V)}]]
    <3> HIDE DEF Small
    <3>1. \A V \in Small(m) :
            h[V] = IF V = {} THEN 0 ELSE f[Pick(V)] + h[V \ {Pick(V)}]
      BY <2>3
    <3> QED BY <3>1
  <2> HIDE DEF h
  <2>5. SumsUpTo(f, U, m, h)
    BY <2>4 DEF SumsUpTo
  <2> QED BY <2>5
<1> HIDE DEF G
<1>4. n \in G
  <2>1. \A m \in 1..n : m - 1 \in G => m \in G
    BY <1>3
  <2>2. \A m \in 0..n : m \in G
    BY <1>1, <1>2, <2>1, SetInduction
  <2> QED BY <1>1, <2>2
<1>5. PICK h : SumsUpTo(f, U, n, h)
  BY <1>4 DEF G
<1>6. Small(n) = SUBSET U
  BY <1>1
<1> QED BY <1>5, <1>6 DEF SumsUpTo, Sums

\* Which element is picked first makes no difference.
LEMMA SumsAdd ==
  ASSUME NEW f, NEW U, IsFiniteSet(U), \A e \in U : f[e] \in Nat, NEW g, Sums(f, U, g)
  PROVE  \A V \in SUBSET U :
           g[V] \in Nat /\ \A e \in V : g[V] = g[V \ {e}] + f[e]
<1> DEFINE n == Cardinality(U)
           Adds(V) == g[V] \in Nat /\ \A e \in V : g[V] = g[V \ {e}] + f[e]
           G == {m \in 0..n : \A V \in SUBSET U : Cardinality(V) <= m => Adds(V)}
<1>1. n \in Nat /\ \A V \in SUBSET U : Cardinality(V) <= n
  BY FS_CardinalityType, FS_Subset
<1>2. \A V \in SUBSET U : g[V] = IF V = {} THEN 0 ELSE f[Pick(V)] + g[V \ {Pick(V)}]
  BY DEF Sums
<1>3. Adds({})
  BY <1>2
<1>4. 0 \in G
  <2>1. \A V \in SUBSET U : Cardinality(V) <= 0 => V = {}
    BY PickFacts
  <2> HIDE DEF Adds
  <2> QED BY <1>1, <1>3, <2>1
<1>5. ASSUME NEW m \in 1..n, m - 1 \in G PROVE m \in G
  <2>1. ASSUME NEW V \in SUBSET U, Cardinality(V) <= m, V # {} PROVE Adds(V)
    <3> DEFINE c == Pick(V)
               W == V \ {c}
    <3>1. /\ c \in V /\ W \in SUBSET U /\ Cardinality(W) = Cardinality(V) - 1
          /\ Cardinality(V) \in Nat /\ IsFiniteSet(V)
      BY <2>1, PickFacts
    <3>2. Cardinality(W) <= m - 1
      BY <2>1, <3>1
    <3>3. g[V] = f[c] + g[W]
      BY <1>2, <2>1
    <3> HIDE DEF c, Adds
    <3>4. Adds(W)
      BY <1>5, <3>1, <3>2
    <3>5. g[V] \in Nat
      BY <3>1, <3>3, <3>4 DEF Adds
    <3>6. ASSUME NEW e \in V PROVE g[V] = g[V \ {e}] + f[e]
      <4>1. CASE e = c
        BY <3>1, <3>3, <3>4, <4>1 DEF Adds
      <4>2. CASE e # c
        <5> DEFINE A == V \ {e}
                   B == W \ {e}
        <5>1. A \in SUBSET U /\ c \in A /\ A \ {c} = B /\ e \in W /\ B \in SUBSET U
          BY <3>1, <4>2
        <5>2. Cardinality(A) = Cardinality(V) - 1
          BY <3>1, FS_RemoveElement
        <5>3. Cardinality(A) <= m - 1
          BY <2>1, <3>1, <5>2
        <5>4. Cardinality(B) <= m - 1
          <6>1. IsFiniteSet(W)
            BY <3>1, FS_Subset
          <6>2. Cardinality(B) = Cardinality(W) - 1
            BY <5>1, <6>1, FS_RemoveElement
          <6> QED BY <2>1, <3>1, <6>2
        <5> HIDE DEF A, B, W
        <5>5. Adds(A) /\ Adds(B)
          BY <1>5, <5>1, <5>3, <5>4
        <5>6. g[A] = g[B] + f[c] /\ g[W] = g[B] + f[e] /\ g[B] \in Nat
          BY <3>4, <5>1, <5>5 DEF Adds, B
        <5>7. f[c] \in Nat /\ f[e] \in Nat
          BY <3>1
        <5>8. g[V] = g[A] + f[e]
          BY <3>3, <5>6, <5>7
        <5> QED BY <5>8 DEF A
      <4> QED BY <4>1, <4>2
    <3> QED BY <3>5, <3>6 DEF Adds
  <2> HIDE DEF Adds
  <2>2. ASSUME NEW V \in SUBSET U, Cardinality(V) <= m PROVE Adds(V)
    BY <1>3, <2>1, <2>2
  <2> QED BY <2>2
<1> HIDE DEF G
<1>6. n \in G
  <2>1. \A m \in 1..n : m - 1 \in G => m \in G
    BY <1>5
  <2>2. \A m \in 0..n : m \in G
    BY <1>1, <1>4, <2>1, SetInduction
  <2> QED BY <1>1, <2>2
<1> QED BY <1>1, <1>6 DEF G

\* The sum over a set does not depend on the set it was begun from.
LEMMA SumsAgree ==
  ASSUME NEW f, NEW U, IsFiniteSet(U), \A e \in U : f[e] \in Nat, NEW g, Sums(f, U, g),
         NEW V \in SUBSET U, NEW h, Sums(f, V, h)
  PROVE  \A W \in SUBSET V : h[W] = g[W]
<1> DEFINE n == Cardinality(V)
           G == {m \in 0..n : \A W \in SUBSET V : Cardinality(W) <= m => h[W] = g[W]}
<1>1. n \in Nat /\ IsFiniteSet(V) /\ \A W \in SUBSET V : Cardinality(W) <= n
  BY FS_CardinalityType, FS_Subset
<1>2. \A W \in SUBSET V :
        /\ g[W] = IF W = {} THEN 0 ELSE f[Pick(W)] + g[W \ {Pick(W)}]
        /\ h[W] = IF W = {} THEN 0 ELSE f[Pick(W)] + h[W \ {Pick(W)}]
  BY DEF Sums
<1>3. 0 \in G
  <2>1. \A W \in SUBSET V : Cardinality(W) <= 0 => W = {}
    BY <1>1, PickFacts
  <2>2. ASSUME NEW W \in SUBSET V, Cardinality(W) <= 0 PROVE h[W] = g[W]
    <3>1. W = {}
      BY <2>1, <2>2
    <3> QED BY <1>2, <3>1
  <2> QED BY <1>1, <2>2
<1>4. ASSUME NEW m \in 1..n, m - 1 \in G PROVE m \in G
  <2>1. ASSUME NEW W \in SUBSET V, Cardinality(W) <= m, W # {} PROVE h[W] = g[W]
    <3>1. /\ W \ {Pick(W)} \in SUBSET V /\ Cardinality(W) \in Nat
          /\ Cardinality(W \ {Pick(W)}) = Cardinality(W) - 1
      BY <1>1, <2>1, PickFacts
    <3>2. Cardinality(W \ {Pick(W)}) <= m - 1
      BY <2>1, <3>1
    <3>3. h[W \ {Pick(W)}] = g[W \ {Pick(W)}]
      BY <1>4, <3>1, <3>2
    <3> QED BY <1>2, <2>1, <3>3
  <2>2. ASSUME NEW W \in SUBSET V, Cardinality(W) <= m PROVE h[W] = g[W]
    BY <1>2, <2>1, <2>2
  <2> QED BY <2>2
<1> HIDE DEF G
<1>5. n \in G
  <2>1. \A m \in 1..n : m - 1 \in G => m \in G
    BY <1>4
  <2>2. \A m \in 0..n : m \in G
    BY <1>1, <1>3, <2>1, SetInduction
  <2> QED BY <1>1, <2>2
<1> QED BY <1>1, <1>5 DEF G

\* SumFunctionOnSet() of the community modules.
LEMMA SumMore ==
  ASSUME NEW f, NEW V, IsFiniteSet(V), \A e \in V : f[e] \in Nat, NEW e \in V
  PROVE  /\ SumFunctionOnSet(f, V) \in Nat
         /\ SumFunctionOnSet(f, V) = SumFunctionOnSet(f, V \ {e}) + f[e]
<1> DEFINE g == CHOOSE h : Sums(f, V, h)
           W == V \ {e}
           h == CHOOSE p : Sums(f, W, p)
<1>1. IsFiniteSet(W) /\ W \in SUBSET V
  BY FS_Subset
<1>2. Sums(f, V, g) /\ Sums(f, W, h)
  BY <1>1, SumsExist
<1>3. SumFunctionOnSet(f, V) = g[V] /\ SumFunctionOnSet(f, W) = h[W]
  BY SumIs
<1> HIDE DEF g, h
<1>4. g[V] \in Nat /\ g[V] = g[W] + f[e]
  <2>1. \A A \in SUBSET V : g[A] \in Nat /\ \A c \in A : g[A] = g[A \ {c}] + f[c]
    BY <1>2, SumsAdd
  <2> QED BY <2>1
<1> HIDE DEF W
<1>5. h[W] = g[W]
  BY <1>1, <1>2, SumsAgree
<1> QED BY <1>3, <1>4, <1>5 DEF W

LEMMA SumOfNone == ASSUME NEW f PROVE SumFunctionOnSet(f, {}) = 0
<1> DEFINE g == CHOOSE h : Sums(f, {}, h)
<1>1. Sums(f, {}, g)
  BY SumsExist, FS_EmptySet
<1>2. SumFunctionOnSet(f, {}) = g[{}]
  BY SumIs
<1> HIDE DEF g
<1> QED BY <1>1, <1>2 DEF Sums


-----------------------------------------------------------------------------
(* What a signal hands out. *)

LEMMA FreedExists ==
  ASSUME NEW kk, EndShapes(kk), NEW k2, Freed(kk, k2), NEW u \in Thread
  PROVE  Exists(k2, u) <=> Exists(kk, u)
<1>1. Exists(kk, u) \/ kk.st[u] = {"DEAD"}
  <2>1. Exists(kk, u) \/ (Gone(kk, u) /\ "DEAD" \in kk.st[u])
    BY DEF Exists, Gone
  <2> QED BY <2>1 DEF EndShapes
<1>2. kk.st[u] = {"DEAD"} => k2.st[u] = {"DEAD"}
  BY DEF Freed, Calm
<1>3. ~Exists(k2, u) => k2.st[u] = kk.st[u]
  BY DEF Freed, Quiet, Kept, Gone, Exists
<1> QED BY <1>1, <1>2, <1>3 DEF Exists

\* Where the records are the same, the same ids pass the check.
LEMMA SameVerify ==
  ASSUME NEW kk, NEW k2, EndShapes(kk), Freed(kk, k2), k2.wait = kk.wait,
         NEW u \in Thread, NEW y, NEW id
  PROVE  VerifyWait(k2, u, y, id) <=> VerifyWait(kk, u, y, id)
BY FreedExists DEF VerifyWait, KernelGetWaitID

\* Its record stays with a waiter that is let go.
LEMMA LetGoRecord ==
  ASSUME NEW kk, KernelInv(kk), EndShapes(kk), NEW y \in ObjWait, NEW t \in Thread,
         NEW r \in Result, kk.wait[t].type = y
  PROVE  KernelResumeThreadFromWait(StopWaitTimer(kk, y, t), t, r).wait = kk.wait
<1> DEFINE k1 == StopWaitTimer(kk, y, t)
<1>1. y \in TimerType /\ kk \in Kernel
  BY ObjTimers DEF KernelInv
<1>2. KernelInv(k1) /\ k1.st = kk.st /\ k1.wait = kk.wait
  <2>1. CASE kk.wait[t].timed
    <3>1. k1 = UnscheduleEvent(kk, y, t)
      BY <2>1 DEF StopWaitTimer
    <3> HIDE DEF k1
    <3> QED BY <1>1, <3>1, UnscheduleKept, UnscheduleInv DEF OneTimer
  <2>2. CASE ~kk.wait[t].timed
    BY <2>2 DEF StopWaitTimer
  <2> QED BY <2>1, <2>2
<1> HIDE DEF k1
<1>3. EndShapes(k1)
  BY <1>2 DEF EndShapes, Gone
<1>4. "RUNNING" \notin k1.st[t]
  BY <1>2 DEF KernelInv, ThreadInv, StatusShape, ObjWait
<1>5. KernelResumeThreadFromWait(k1, t, r).wait = k1.wait
  BY <1>2, <1>3, <1>4, ResumeThreadRecords
<1> QED BY <1>2, <1>5 DEF k1

\* What t takes when it is let go: what it asked for, if its id is not stale.
Price(kk, s, t) == IF VerifyWait(kk, t, "SEMA", s) THEN kk.wait[t].value ELSE 0

LEMMA UnlockOneCounts ==
  ASSUME NEW s \in Obj, NEW x \in Letting, KernelInv(x.k), EndShapes(x.k),
         NEW t \in Thread
  PROVE  LET y == KernelUnlockSemaForThread(x, s, t, "ok")
         IN  y.k.wait = x.k.wait /\ y.q.count = x.q.count - Price(x.k, s, t)
<1> DEFINE y == KernelUnlockSemaForThread(x, s, t, "ok")
<1>1. x.k \in Kernel /\ x.q \in Semaphore /\ x.q.count \in Nat /\ "ok" \in Result
  BY DEF Letting, Semaphore, Result
<1>2. CASE ~VerifyWait(x.k, t, "SEMA", s)
  <2>1. y = x
    BY <1>2 DEF KernelUnlockSemaForThread
  <2> HIDE DEF y
  <2>2. Price(x.k, s, t) = 0
    BY <1>2 DEF Price
  <2>3. x.q.count - 0 = x.q.count
    BY <1>1
  <2> QED BY <2>1, <2>2, <2>3 DEF y
<1>3. CASE VerifyWait(x.k, t, "SEMA", s)
  <2> DEFINE k2 == KernelResumeThreadFromWait(StopWaitTimer(x.k, "SEMA", t), t, "ok")
             v == x.k.wait[t].value
             q2 == [x.q EXCEPT !.count = @ - v]
  <2>1. y = [k |-> k2, q |-> q2, woke |-> TRUE]
    BY <1>3 DEF KernelUnlockSemaForThread
  <2>2. x.k.wait[t].type = "SEMA"
    BY <1>3, UidAssumption DEF VerifyWait, KernelGetWaitID
  <2>3. k2.wait = x.k.wait
    BY <1>1, <2>2, LetGoRecord, SemaType
  <2>4. q2.count = x.q.count - v
    BY <1>1 DEF Semaphore
  <2> HIDE DEF k2, q2, y
  <2>5. y.k.wait = x.k.wait /\ y.q.count = x.q.count - v
    BY <2>1, <2>3, <2>4
  <2>6. Price(x.k, s, t) = v
    BY <1>3 DEF Price
  <2> QED BY <2>5, <2>6 DEF y
<1> QED BY <1>2, <1>3

LEMMA UnlockAtCounts ==
  ASSUME NEW s \in Obj, NEW x \in Letting, KernelInv(x.k), EndShapes(x.k),
         Distinct(x.q.waiting),
         NEW i \in 1..Len(x.q.waiting), CanUnlock(x, s, x.q.waiting[i])
  PROVE  LET z == UnlockAt(x, s, i)
         IN  /\ z.k.wait = x.k.wait
             /\ z.q.waiting = DropAt(x.q.waiting, i)
             /\ z.q.count = x.q.count - Price(x.k, s, x.q.waiting[i])
<1> DEFINE w == x.q.waiting
           t == w[i]
           y == KernelUnlockSemaForThread(x, s, t, "ok")
           z == UnlockAt(x, s, i)
<1>1. w \in Seq(Thread) /\ t \in Thread /\ "ok" \in Result
  BY DEF Letting, Semaphore, Result
<1>2. y \in Letting /\ y.q.waiting = w
  BY <1>1, UnlockOne
<1>3. y.k.wait = x.k.wait /\ y.q.count = x.q.count - Price(x.k, s, t)
  BY <1>1, UnlockOneCounts
<1>4. z = [y EXCEPT !.q.waiting = DropAt(@, i)]
  BY DEF UnlockAt
<1> HIDE DEF y, z
<1>5. z.k = y.k /\ z.q.waiting = DropAt(w, i) /\ z.q.count = y.q.count
  BY <1>2, <1>4 DEF Letting, Semaphore
<1> QED BY <1>3, <1>5 DEF z

\* The threads that y serves and x does not, and what they asked for.
ServedSince(x, y, s) ==
  {t \in Thread : /\ VerifyWait(x.k, t, "SEMA", s)
                  /\ Holds(x.q.waiting, t) /\ ~Holds(y.q.waiting, t)}
Asked(x) == [t \in Thread |-> x.k.wait[t].value]

\* y is x after some waiters have been served and have paid.
Pays(x, y, s) ==
  /\ Serves(x, y, s) /\ y.k.wait = x.k.wait
  /\ \A t : Holds(y.q.waiting, t) => Holds(x.q.waiting, t)
  /\ y.q.count = x.q.count - SumFunctionOnSet(Asked(x), ServedSince(x, y, s))

LEMMA ServedFinite ==
  ASSUME NEW x \in Letting, NEW y, NEW s
  PROVE  /\ IsFiniteSet(ServedSince(x, y, s))
         /\ \A t \in ServedSince(x, y, s) : Asked(x)[t] \in Nat
<1> DEFINE w == x.q.waiting
           n == Len(w)
           T == {w[i] : i \in 1..n}
<1>1. w \in Seq(Thread) /\ n \in Nat /\ w \in [1..n -> Thread]
  BY DEF Letting, Semaphore
<1>2. w \in Surjection(1..n, T)
  <2> HIDE DEF w, n
  <2>1. w \in [1..n -> T]
    BY <1>1
  <2> QED BY <2>1 DEF Surjection
<1>3. IsFiniteSet(1..n)
  BY <1>1, FS_Interval
<1>4. IsFiniteSet(T)
  BY <1>2, <1>3, FS_Surjection
<1>5. ServedSince(x, y, s) \subseteq T
  BY DEF ServedSince, Holds
<1>6. \A t \in Thread : x.k.wait[t].value \in Nat
  BY DEF Letting, Kernel, Wait
<1> HIDE DEF T
<1> QED BY <1>4, <1>5, <1>6, FS_Subset DEF ServedSince, Asked

LEMMA SumOfServed ==
  ASSUME NEW x \in Letting, NEW y, NEW s
  PROVE  SumFunctionOnSet(Asked(x), ServedSince(x, y, s)) \in Nat
<1> DEFINE D == ServedSince(x, y, s)
           f == Asked(x)
<1>1. IsFiniteSet(D) /\ \A t \in D : f[t] \in Nat
  BY ServedFinite
<1> HIDE DEF D, f
<1>2. CASE D = {}
  BY <1>2, SumOfNone DEF D, f
<1>3. CASE D # {}
  <2>1. SumFunctionOnSet(f, D) \in Nat
    BY <1>1, <1>3, SumMore
  <2> QED BY <2>1 DEF D, f
<1> QED BY <1>2, <1>3

\* One waiter more.
LEMMA PaysMore ==
  ASSUME NEW s \in Obj, NEW x \in Letting, KernelInv(x.k), EndShapes(x.k),
         NEW y, Pays(x, y, s), NEW i \in 1..Len(y.q.waiting),
         CanUnlock(y, s, y.q.waiting[i])
  PROVE  LET z == UnlockAt(y, s, i)
         IN  Pays(x, z, s) /\ Len(z.q.waiting) = Len(y.q.waiting) - 1
<1> DEFINE w == y.q.waiting
           t == w[i]
           z == UnlockAt(y, s, i)
           D == ServedSince(x, y, s)
           E == ServedSince(x, z, s)
           f == Asked(x)
<1>1. /\ y \in Letting /\ KernelInv(y.k) /\ EndShapes(y.k) /\ Freed(x.k, y.k)
      /\ Distinct(w) /\ Listed(y.k, s, w) /\ y.k.wait = x.k.wait
      /\ w \in Seq(Thread) /\ t \in Thread
  BY FreedShapes DEF Pays, Serves, Freed, Letting, Semaphore
<1>2. Serves(y, z, s)
  BY <1>1, UnlockAtServes
<1>3. /\ z.k.wait = x.k.wait /\ z.q.waiting = DropAt(w, i)
      /\ z.q.count = y.q.count - Price(y.k, s, t)
  BY <1>1, UnlockAtCounts
<1>4. Serves(x, z, s)
  BY <1>2, ServesTransitive DEF Pays
<1>5. /\ \A u : Holds(DropAt(w, i), u) <=> Holds(w, u) /\ u # t
      /\ Len(DropAt(w, i)) = Len(w) - 1 /\ Holds(w, t) /\ Holds(x.q.waiting, t)
  <2>1. Len(w) - 1 \in Nat
    BY <1>1
  <2>2. Len(DropAt(w, i)) = Len(w) - 1
    BY <2>1 DEF DropAt
  <2>3. Holds(w, t)
    BY DEF Holds
  <2>4. Holds(x.q.waiting, t)
    BY <2>3 DEF Pays
  <2> QED BY <1>1, <2>2, <2>3, <2>4, DropAtHolds
<1>6. VerifyWait(y.k, t, "SEMA", s) <=> VerifyWait(x.k, t, "SEMA", s)
  BY <1>1, SameVerify
<1>7. Price(y.k, s, t) = IF VerifyWait(x.k, t, "SEMA", s) THEN f[t] ELSE 0
  BY <1>1, <1>6 DEF Price, Asked
<1> HIDE DEF z, w, t
<1>8. E = IF VerifyWait(x.k, t, "SEMA", s) THEN D \cup {t} ELSE D
  BY <1>1, <1>3, <1>5 DEF ServedSince, Pays, w
<1>9. /\ IsFiniteSet(D) /\ IsFiniteSet(E) /\ t \notin D
      /\ \A u \in D : f[u] \in Nat
      /\ \A u \in E : f[u] \in Nat
  BY <1>5, ServedFinite DEF ServedSince, w
<1>10. /\ y.q.count = x.q.count - SumFunctionOnSet(f, D)
       /\ \A u : Holds(w, u) => Holds(x.q.waiting, u)
  BY DEF Pays, w
<1> HIDE DEF D, E, f
<1>11. y.q.count \in Nat /\ x.q.count \in Nat
  BY <1>1 DEF Letting, Semaphore
<1>12. SumFunctionOnSet(f, D) \in Nat
  BY SumOfServed DEF D, f
<1>13. z.q.count = x.q.count - SumFunctionOnSet(f, E)
  <2>1. CASE VerifyWait(x.k, t, "SEMA", s)
    <3>1. E \ {t} = D /\ t \in E
      BY <1>8, <1>9, <2>1
    <3>2. SumFunctionOnSet(f, E) = SumFunctionOnSet(f, D) + f[t] /\ f[t] \in Nat
      BY <1>9, <3>1, SumMore
    <3>3. z.q.count = y.q.count - f[t]
      BY <1>3, <1>7, <2>1
    <3> QED BY <1>10, <1>11, <1>12, <3>2, <3>3
  <2>2. CASE ~VerifyWait(x.k, t, "SEMA", s)
    <3>1. E = D /\ z.q.count = y.q.count - 0
      BY <1>3, <1>7, <1>8, <2>2
    <3> QED BY <1>10, <1>11, <3>1
  <2> QED BY <2>1, <2>2
<1>14. \A u : Holds(z.q.waiting, u) => Holds(x.q.waiting, u)
  BY <1>3, <1>5, <1>10
<1>15. Pays(x, z, s)
  BY <1>3, <1>4, <1>13, <1>14 DEF Pays, E, f
<1> QED BY <1>3, <1>5, <1>15 DEF z, w

LEMMA PaysNothing ==
  ASSUME NEW s \in Obj, NEW x \in Letting, KernelInv(x.k), Distinct(x.q.waiting),
         Listed(x.k, s, x.q.waiting)
  PROVE  Pays(x, x, s)
<1>1. Serves(x, x, s)
  BY FreedSelf DEF Serves
<1>2. ServedSince(x, x, s) = {}
  BY DEF ServedSince
<1>3. x.q.count - 0 = x.q.count
  BY DEF Letting, Semaphore
<1> QED BY <1>1, <1>2, <1>3, SumOfNone DEF Pays

\* The loop of a signal goes on until nobody is left who may go.
LEMMA UnlockAllServes ==
  ASSUME NEW s \in Obj, NEW x \in Letting, KernelInv(x.k), EndShapes(x.k),
         Distinct(x.q.waiting), Listed(x.k, s, x.q.waiting)
  PROVE  LET y == UnlockAll(x, s)
         IN  Pays(x, y, s) /\ Free(y, s, FALSE) = {}
<1> DEFINE n == Len(x.q.waiting)
<1>1. n \in Nat
  BY DEF Letting, Semaphore
<1>2. PICK after : UnlockLoop(x, s, FALSE, after)
  BY <1>1, UnlockLoopExists
<1> DEFINE Done(y, m) == Free(y, s, FALSE) = {} \/ Len(y.q.waiting) = n - m
           G == {m \in 0..n : Pays(x, after[m], s) /\ Done(after[m], m)}
<1>3. 0 \in G
  <2>1. after[0] = x /\ n - 0 = n
    BY <1>1, <1>2 DEF UnlockLoop
  <2>2. Done(after[0], 0)
    BY <2>1
  <2>3. Pays(x, after[0], s)
    BY <2>1, PaysNothing
  <2> HIDE DEF Done
  <2> QED BY <1>1, <2>2, <2>3
<1>4. ASSUME NEW m \in 1..n, m - 1 \in G PROVE m \in G
  <2> DEFINE y == after[m - 1]
             F == Free(y, s, FALSE)
             z == UnlockRound(y, s, FALSE)
  <2>1. Pays(x, y, s) /\ Done(y, m - 1) /\ after[m] = z
    BY <1>2, <1>4 DEF UnlockLoop
  <2> HIDE DEF y
  <2>2. CASE F = {}
    <3>1. z = y
      BY <2>2 DEF UnlockRound
    <3>2. Done(y, m)
      BY <2>2
    <3> HIDE DEF Done, F, z
    <3> QED BY <2>1, <3>1, <3>2 DEF y
  <2>3. CASE F # {}
    <3>1. /\ F \subseteq 1..Len(y.q.waiting) /\ F \subseteq Nat
          /\ \A i \in F : CanUnlock(y, s, y.q.waiting[i])
      BY DEF Free
    <3>2. z = UnlockAt(y, s, Min(F))
      BY <2>3 DEF UnlockRound
    <3>3. Len(y.q.waiting) = n - (m - 1)
      BY <2>1, <2>3
    <3> HIDE DEF F, z
    <3>4. Min(F) \in F
      <4>1. \E e \in F : \A v \in F : e <= v
        BY <2>3, <3>1, LeastElement
      <4> QED BY <4>1 DEF Min
    <3>5. Pays(x, z, s) /\ Len(z.q.waiting) = Len(y.q.waiting) - 1
      BY <2>1, <3>1, <3>2, <3>4, PaysMore
    <3>6. Len(z.q.waiting) = n - m
      BY <1>1, <3>3, <3>5
    <3>7. Done(z, m)
      BY <3>6
    <3> HIDE DEF Done
    <3> QED BY <2>1, <3>5, <3>7 DEF y
  <2> QED BY <2>2, <2>3
<1> HIDE DEF G
<1>5. n \in G
  <2>1. \A m \in 1..n : m - 1 \in G => m \in G
    BY <1>4
  <2>2. \A m \in 0..n : m \in G
    BY <1>1, <1>3, <2>1, SetInduction
  <2> QED BY <1>1, <2>2
<1>6. UnlockAll(x, s) = after[n]
  BY <1>2 DEF UnlockAll, UnlockLoop
<1> DEFINE y == after[n]
<1>7. Pays(x, y, s) /\ (Free(y, s, FALSE) = {} \/ Len(y.q.waiting) = n - n)
  BY <1>5 DEF G
<1> HIDE DEF y
<1>8. n - n = 0 /\ 1..0 = {}
  BY <1>1
<1>9. Free(y, s, FALSE) = {}
  BY <1>7, <1>8 DEF Free
<1> QED BY <1>6, <1>7, <1>9 DEF y

LEMMA SignalPays ==
  ASSUME SemaSound(k, sema), NEW s \in Obj, NEW n \in Counts, sceKernelSignalSema(s, n)
  PROVE  LET served == {t \in Thread : /\ VerifyWait(k, t, "SEMA", s)
                                       /\ Holds(sema[s].waiting, t)
                                       /\ ~Holds(sema'[s].waiting, t)}
         IN  /\ \A t \in Thread : isWaitingFor(k', t, "SEMA", s) =>
                                    k'.wait[t].value > sema'[s].count
             /\ sema'[s].count = sema[s].count + n
                  - SumFunctionOnSet([t \in Thread |-> k.wait[t].value], served)
<1> DEFINE w == IF sema[s].priority THEN SortPriority(k, sema[s].waiting)
                ELSE sema[s].waiting
           q == [sema[s] EXCEPT !.count = @ + n, !.waiting = w]
           x == [Begin(s) EXCEPT !.q = q]
           y == UnlockAll(x, s)
<1>1. /\ k \in Kernel /\ KernelInv(k) /\ EndShapes(k) /\ sema[s] \in Semaphore
      /\ Listed(k, s, sema[s].waiting) /\ sema[s].exists /\ Distinct(sema[s].waiting)
      /\ sema[s].waiting \in Seq(Thread) /\ sema[s].count + n \in Nat
      /\ sema \in [Obj -> Semaphore]
  BY SemaFacts, SemaAssumption DEF Sound, sceKernelSignalSema, Semaphore, SemaRight
<1>2. /\ w \in Seq(Thread) /\ Distinct(w)
      /\ \A u : Holds(w, u) <=> Holds(sema[s].waiting, u)
  BY <1>1, SortHolds
<1> DEFINE q0 == [sema[s] EXCEPT
                    !.count = @ + n,
                    !.waiting = IF sema[s].priority THEN SortPriority(k, @) ELSE @]
           x0 == [Begin(s) EXCEPT !.q = q0]
<1>3. Finish(UnlockAll(x0, s), s)
  BY DEF sceKernelSignalSema
<1>4. q0 = q
  BY <1>1 DEF Semaphore
<1> HIDE DEF w, q0
<1>5. q \in Semaphore /\ q.waiting = w /\ q.count = sema[s].count + n
  BY <1>1, <1>2 DEF Semaphore
<1> HIDE DEF q
<1>6. x \in Letting /\ x.k = k /\ x.q = q
  BY <1>1, <1>5 DEF Begin, Letting
<1>7. Listed(k, s, w)
  BY <1>1, <1>2 DEF Listed
<1> HIDE DEF x
<1>8. Pays(x, y, s) /\ Free(y, s, FALSE) = {}
  BY <1>1, <1>2, <1>5, <1>6, <1>7, UnlockAllServes
<1> HIDE DEF y
<1>9. Finish(y, s)
  BY <1>3, <1>4 DEF x, y
<1>10. y \in Letting /\ Freed(k, y.k) /\ y.k.wait = k.wait /\ Listed(y.k, s, y.q.waiting)
  BY <1>6, <1>8 DEF Pays, Serves
<1>11. k'.st = y.k.st /\ k'.wait = y.k.wait
  <2>1. k' = y.k \/ k' = hleReSchedule(y.k)
    BY <1>9 DEF Finish
  <2>2. y.k \in Kernel
    BY <1>10 DEF Letting
  <2> QED BY <2>1, <2>2 DEF hleReSchedule, Kernel
<1>12. sema'[s] = y.q
  BY <1>1, <1>9 DEF Finish
<1>13. ASSUME NEW t \in Thread, isWaitingFor(k', t, "SEMA", s)
       PROVE  k'.wait[t].value > sema'[s].count
  <2>1. isWaitingFor(y.k, t, "SEMA", s)
    BY <1>11, <1>13 DEF isWaitingFor
  <2>2. PICK i \in 1..Len(y.q.waiting) : y.q.waiting[i] = t
    BY <1>10, <2>1 DEF Listed, Holds
  <2>3. ~CanUnlock(y, s, t)
    BY <1>8, <2>2 DEF Free
  <2>4. y.q.count \in Nat /\ y.k.wait[t].value \in Nat
    BY <1>10 DEF Letting, Semaphore, Kernel, Wait
  <2> QED BY <1>11, <1>12, <2>3, <2>4 DEF CanUnlock
<1> DEFINE served == {t \in Thread : /\ VerifyWait(k, t, "SEMA", s)
                                     /\ Holds(sema[s].waiting, t)
                                     /\ ~Holds(sema'[s].waiting, t)}
<1>14. served = ServedSince(x, y, s)
  BY <1>2, <1>5, <1>6, <1>12 DEF ServedSince
<1>15. Asked(x) = [t \in Thread |-> k.wait[t].value]
  BY <1>6 DEF Asked
<1>16. sema'[s].count = sema[s].count + n - SumFunctionOnSet(Asked(x), ServedSince(x, y, s))
  <2>1. y.q.count = x.q.count - SumFunctionOnSet(Asked(x), ServedSince(x, y, s))
    BY <1>8 DEF Pays
  <2>2. sema'[s].count = y.q.count /\ x.q.count = sema[s].count + n
    BY <1>5, <1>6, <1>12
  <2>3. SumFunctionOnSet(Asked(x), ServedSince(x, y, s)) \in Nat
    BY <1>6, SumOfServed
  <2>4. sema[s].count \in Nat /\ n \in Nat
    BY <1>1, SemaAssumption DEF Semaphore
  <2> QED BY <2>1, <2>2, <2>3, <2>4
<1> HIDE DEF served
<1> QED BY <1>13, <1>14, <1>15, <1>16 DEF served

\* A signal hands out what it can, once: after its loop every waiter asks for more than is
\* left, and the count has lost exactly what those who were let go had asked for.
THEOREM SignalServesHolds ==
  ASSUME Disciplined
  PROVE  SemaSpec => SignalServes
<1>1. SemaSound(k, sema) /\ [SemaNext]_semavars =>
        [\A s \in Obj, n \in Counts :
           sceKernelSignalSema(s, n) =>
             LET served == {t \in Thread : /\ VerifyWait(k, t, "SEMA", s)
                                           /\ Holds(sema[s].waiting, t)
                                           /\ ~Holds(sema'[s].waiting, t)}
             IN  /\ \A t \in Thread : isWaitingFor(k', t, "SEMA", s) =>
                                        k'.wait[t].value > sema'[s].count
                 /\ sema'[s].count = sema[s].count + n
                      - SumFunctionOnSet([t \in Thread |-> k.wait[t].value], served)
        ]_semavars
  BY SignalPays
<1> QED BY <1>1, SemaSoundHolds, PTL DEF SemaSpec, SignalServes

-----------------------------------------------------------------------------
(* Event flags. *)

\* The threads of a list of waiters.
Names(w) == [i \in 1..Len(w) |-> w[i].thread]

\* The wait of the entry e is not satisfied by the pattern.
FlagHeld(kk, f, pattern, e) ==
  isWaitingFor(kk, e.thread, "EVENTFLAG", f) => ~KernelCheckEventFlagMatches(pattern, e.ask)

\* Whoever waits for the flag is listed.
FlagListed(kk, f, w) ==
  \A u \in Thread : isWaitingFor(kk, u, "EVENTFLAG", f) => Holds(Names(w), u)

FlagAlive(kk, f, exists) == \A u \in Thread : isWaitingFor(kk, u, "EVENTFLAG", f) => exists

FlagUnmet(kk, f, pattern, w) == \A i \in 1..Len(w) : FlagHeld(kk, f, pattern, w[i])

\* One thread waits for the flag, unless several may.
FlagAlone(kk, f, multiple) ==
  multiple \/ \A u, v \in Thread :
    isWaitingFor(kk, u, "EVENTFLAG", f) /\ isWaitingFor(kk, v, "EVENTFLAG", f) => u = v

\* The flag f, whose state is q, suits the waits of kk.
FlagFits(kk, f, q) ==
  /\ Distinct(Names(q.waiting)) /\ FlagListed(kk, f, q.waiting)
  /\ FlagAlive(kk, f, q.exists) /\ FlagUnmet(kk, f, q.pattern, q.waiting)
  /\ FlagAlone(kk, f, q.multiple)

\* What the flags satisfy, given the thread manager kk.
FlagRight(kk, fl) ==
  /\ fl \in [Obj -> EventFlag] /\ \A f \in Obj : FlagFits(kk, f, fl[f])
  /\ \A t \in Thread :
       Waits(kk, t) /\ kk.wait[t].type = "EVENTFLAG" /\ kk.wait[t].timed
         => kk.timer["EVENTFLAG"][t] > 0

\* The inductive invariant.
FlagSound(kk, fl) == Sound(kk) /\ FlagRight(kk, fl)

LEMMA FlagType == "EVENTFLAG" \in ObjWait /\ "EVENTFLAG" \in TimerType
BY DEF ObjWait, TimerType

LEMMA NamesList ==
  ASSUME NEW w \in Seq(Entry)
  PROVE  /\ Names(w) \in Seq(Thread) /\ Len(Names(w)) = Len(w) /\ Len(w) \in Nat
         /\ \A i \in 1..Len(w) : /\ w[i] \in Entry /\ w[i].thread \in Thread
                                 /\ Names(w)[i] = w[i].thread
<1>1. \A i \in 1..Len(w) : w[i] \in Entry /\ w[i].thread \in Thread
  <2>1. \A i \in 1..Len(w) : w[i] \in Entry
    OBVIOUS
  <2>2. \A e \in Entry : e.thread \in Thread
    BY DEF Entry
  <2> QED BY <2>1, <2>2
<1>2. Names(w) \in [1..Len(w) -> Thread]
  BY <1>1 DEF Names
<1>3. \A i \in 1..Len(w) : Names(w)[i] = w[i].thread
  BY DEF Names
<1> QED BY <1>1, <1>2, <1>3, FunctionIsSeq

\* A smaller pattern satisfies fewer waits.
LEMMA MatchShrinks ==
  ASSUME NEW p, NEW q, q \subseteq p, NEW ask, KernelCheckEventFlagMatches(q, ask)
  PROVE  KernelCheckEventFlagMatches(p, ask)
BY DEF KernelCheckEventFlagMatches

LEMMA ApplyShrinks ==
  ASSUME NEW p, NEW ask
  PROVE  KernelApplyEventFlagMatch(p, ask) \subseteq p
BY DEF KernelApplyEventFlagMatch

\* Nobody has begun to wait for the flag.
LEMMA FlagFitsFewer ==
  ASSUME NEW kk, NEW k2, NEW f, NEW q \in EventFlag, FlagFits(kk, f, q),
         \A u \in Thread : isWaitingFor(k2, u, "EVENTFLAG", f) =>
                             isWaitingFor(kk, u, "EVENTFLAG", f)
  PROVE  FlagFits(k2, f, q)
<1>1. \A i \in 1..Len(q.waiting) : q.waiting[i].thread \in Thread
  BY NamesList DEF EventFlag
<1>2. FlagListed(k2, f, q.waiting)
  BY DEF FlagFits, FlagListed
<1>3. FlagAlive(k2, f, q.exists)
  BY DEF FlagFits, FlagAlive
<1>4. FlagAlone(k2, f, q.multiple)
  BY DEF FlagFits, FlagAlone
<1>5. FlagUnmet(k2, f, q.pattern, q.waiting)
  BY <1>1 DEF FlagFits, FlagUnmet, FlagHeld
<1> QED BY <1>2, <1>3, <1>4, <1>5 DEF FlagFits

LEMMA FlagFitsKept ==
  ASSUME NEW kk, NEW k2, SameWaits(kk, k2, "EVENTFLAG"), NEW f, NEW q \in EventFlag,
         FlagFits(kk, f, q)
  PROVE  FlagFits(k2, f, q)
<1>1. \A u \in Thread : isWaitingFor(k2, u, "EVENTFLAG", f) =>
                          isWaitingFor(kk, u, "EVENTFLAG", f)
  BY DEF SameWaits, isWaitingFor, Waits
<1> QED BY <1>1, FlagFitsFewer

LEMMA FlagKept ==
  ASSUME NEW kk, NEW k2, NEW fl, FlagRight(kk, fl), SameWaits(kk, k2, "EVENTFLAG")
  PROVE  FlagRight(k2, fl)
<1>1. \A f \in Obj : fl[f] \in EventFlag /\ FlagFits(kk, f, fl[f])
  BY DEF FlagRight
<1>2. \A f \in Obj : FlagFits(k2, f, fl[f])
  BY <1>1, FlagFitsKept
<1> QED BY <1>2 DEF FlagRight, SameWaits

\* Only the flag f has been written.
OthersKept(fl, f2, f) == f2 \in [Obj -> EventFlag] /\ \A i \in Obj \ {f} : f2[i] = fl[i]

LEMMA FlagStored ==
  ASSUME NEW kk, NEW k2, NEW fl, FlagRight(kk, fl), SameWaits(kk, k2, "EVENTFLAG"),
         NEW f \in Obj, NEW f2, OthersKept(fl, f2, f), FlagFits(k2, f, f2[f])
  PROVE  FlagRight(k2, f2)
<1>1. FlagRight(k2, fl)
  BY FlagKept
<1>2. \A i \in Obj : FlagFits(k2, i, f2[i])
  BY <1>1 DEF FlagRight, OthersKept
<1> QED BY <1>1, <1>2 DEF FlagRight, OthersKept

-----------------------------------------------------------------------------
(* Letting waiters go. *)

\* The state of a loop over the waiters of a flag.
FlagLetting == [k : Kernel, f : [Obj -> EventFlag], woke : BOOLEAN]

\* y is x after some waiters of f have been let go, and bits have been cleared.
FlagServes(x, y, f) ==
  /\ y \in FlagLetting /\ Freed(x.k, y.k) /\ OthersKept(x.f, y.f, f)
  /\ y.f[f].exists = x.f[f].exists /\ y.f[f].multiple = x.f[f].multiple
  /\ y.f[f].pattern \subseteq x.f[f].pattern

LEMMA FlagServesSelf ==
  ASSUME NEW x \in FlagLetting, KernelInv(x.k), NEW f
  PROVE  FlagServes(x, x, f)
<1>1. x.f \in [Obj -> EventFlag]
  BY DEF FlagLetting
<1> QED BY <1>1, FreedSelf DEF FlagServes, OthersKept

LEMMA FlagServesTransitive ==
  ASSUME NEW x, KernelInv(x.k), NEW y, NEW z, NEW f \in Obj,
         FlagServes(x, y, f), FlagServes(y, z, f)
  PROVE  FlagServes(x, z, f)
<1>1. Freed(x.k, z.k)
  BY FreedTransitive DEF FlagServes
<1> QED BY <1>1 DEF FlagServes, OthersKept

\* KernelUnlockEventFlagForThread(): the entry's thread is let go or has not been
\* waiting, unless its bits are not set.
LEMMA UnlockFlagOne ==
  ASSUME NEW f \in Obj, NEW x \in FlagLetting, KernelInv(x.k), EndShapes(x.k),
         NEW e \in Entry, NEW r \in Result
  PROVE  LET y == KernelUnlockEventFlagForThread(x, f, e, r)
         IN  /\ FlagServes(x, y, f) /\ y.f[f].waiting = x.f[f].waiting
             /\ r # "ok" => y.f = x.f
             /\ Unlocks(x, f, e, r) => ~isWaitingFor(y.k, e.thread, "EVENTFLAG", f)
<1> DEFINE y == KernelUnlockEventFlagForThread(x, f, e, r)
           t == e.thread
<1>1. x.k \in Kernel /\ x.f \in [Obj -> EventFlag] /\ x.woke \in BOOLEAN /\ t \in Thread
  BY DEF FlagLetting, Entry
<1>2. CASE ~VerifyWait(x.k, t, "EVENTFLAG", f)
  <2>1. y = x
    BY <1>2 DEF KernelUnlockEventFlagForThread
  <2>2. ~isWaitingFor(x.k, t, "EVENTFLAG", f)
    BY <1>1, <1>2 DEF isWaitingFor, VerifyWait, KernelGetWaitID, Exists, EndShapes, Gone
  <2> HIDE DEF y
  <2> QED BY <2>1, <2>2, FlagServesSelf DEF y
<1>3. CASE ~Unlocks(x, f, e, r)
  <2>1. y = x
    BY <1>3 DEF KernelUnlockEventFlagForThread
  <2> HIDE DEF y
  <2> QED BY <1>3, <2>1, FlagServesSelf DEF y
<1>4. CASE VerifyWait(x.k, t, "EVENTFLAG", f) /\ Unlocks(x, f, e, r)
  <2> DEFINE k2 == KernelResumeThreadFromWait(StopWaitTimer(x.k, "EVENTFLAG", t), t, r)
             p == IF r = "ok" THEN KernelApplyEventFlagMatch(x.f[f].pattern, e.ask)
                  ELSE x.f[f].pattern
             q == [x.f[f] EXCEPT !.pattern = p]
             f2 == [x.f EXCEPT ![f] = q]
  <2>1. y = [x EXCEPT !.f[f].pattern = p, !.k = k2, !.woke = TRUE]
    BY <1>4 DEF KernelUnlockEventFlagForThread
  <2>2. x.k.wait[t].type = "EVENTFLAG"
    BY <1>4, UidAssumption DEF VerifyWait, KernelGetWaitID
  <2>3. Freed(x.k, k2) /\ ~Waits(k2, t)
    BY <1>1, <2>2, LetGoFreed, FlagType
  <2>4. p \subseteq x.f[f].pattern /\ (r # "ok" => p = x.f[f].pattern)
    BY ApplyShrinks
  <2> HIDE DEF k2, p
  <2>5. y = [k |-> k2, f |-> f2, woke |-> TRUE]
    BY <1>1, <2>1 DEF FlagLetting
  <2> HIDE DEF y
  <2>6. x.f[f] \in EventFlag
    BY <1>1
  <2>7. /\ q \in EventFlag /\ q.pattern = p /\ q.exists = x.f[f].exists
        /\ q.multiple = x.f[f].multiple /\ q.waiting = x.f[f].waiting
        /\ r # "ok" => q = x.f[f]
    BY <2>4, <2>6 DEF EventFlag
  <2> HIDE DEF q
  <2>8. /\ f2 \in [Obj -> EventFlag] /\ f2[f] = q /\ \A i \in Obj \ {f} : f2[i] = x.f[i]
        /\ r # "ok" => f2 = x.f
    BY <1>1, <2>7
  <2> HIDE DEF f2
  <2>9. k2 \in Kernel
    BY <2>3 DEF Freed, KernelInv
  <2>10. y \in FlagLetting /\ y.k = k2 /\ y.f = f2
    BY <2>5, <2>8, <2>9 DEF FlagLetting
  <2>11. FlagServes(x, y, f)
    BY <2>3, <2>4, <2>7, <2>8, <2>10 DEF FlagServes, OthersKept
  <2>12. ~isWaitingFor(y.k, t, "EVENTFLAG", f)
    BY <2>3, <2>10 DEF isWaitingFor, Waits
  <2> QED BY <2>7, <2>8, <2>10, <2>11, <2>12 DEF y
<1> QED BY <1>2, <1>3, <1>4

\* The list of the waiters is replaced.
LEMMA FlagWaitingSet ==
  ASSUME NEW z \in FlagLetting, NEW f \in Obj, NEW w \in Seq(Entry)
  PROVE  LET y == [z EXCEPT !.f[f].waiting = w]
         IN  /\ y \in FlagLetting /\ y.k = z.k /\ OthersKept(z.f, y.f, f)
             /\ y.f[f].waiting = w /\ y.f[f].exists = z.f[f].exists
             /\ y.f[f].multiple = z.f[f].multiple /\ y.f[f].pattern = z.f[f].pattern
<1> DEFINE q == [z.f[f] EXCEPT !.waiting = w]
           f2 == [z.f EXCEPT ![f] = q]
           y == [z EXCEPT !.f[f].waiting = w]
<1>1. z.f \in [Obj -> EventFlag] /\ z.f[f] \in EventFlag /\ z.k \in Kernel /\ z.woke \in BOOLEAN
  BY DEF FlagLetting
<1>2. y = [k |-> z.k, f |-> f2, woke |-> z.woke]
  <2>1. y = [z EXCEPT !.f = f2]
    OBVIOUS
  <2> HIDE DEF f2, y
  <2> QED BY <2>1 DEF FlagLetting
<1> HIDE DEF y
<1>3. /\ q \in EventFlag /\ q.pattern = z.f[f].pattern /\ q.exists = z.f[f].exists
      /\ q.multiple = z.f[f].multiple /\ q.waiting = w
  BY <1>1 DEF EventFlag
<1> HIDE DEF q
<1>4. f2 \in [Obj -> EventFlag] /\ f2[f] = q /\ \A i \in Obj \ {f} : f2[i] = z.f[i]
  BY <1>1, <1>3
<1> HIDE DEF f2
<1>5. y \in FlagLetting /\ y.k = z.k /\ y.f = f2
  BY <1>1, <1>2, <1>4 DEF FlagLetting
<1> QED BY <1>3, <1>4, <1>5 DEF OthersKept, y

-----------------------------------------------------------------------------
(* Deletion and cancellation let everybody go. *)

FlagClearLoop(x, f, result, after) ==
  /\ after[0] = x
  /\ \A i \in 1..Len(x.f[f].waiting) :
       after[i] = KernelUnlockEventFlagForThread(after[i - 1], f, x.f[f].waiting[i], result)
  /\ KernelClearEventFlagThreads(x, f, result) =
       [after[Len(x.f[f].waiting)] EXCEPT !.f[f].waiting = <<>>]

LEMMA FlagClearLoopExists ==
  ASSUME NEW x, NEW f, NEW result, Len(x.f[f].waiting) \in Nat
  PROVE  \E after : FlagClearLoop(x, f, result, after)
<1> DEFINE w == x.f[f].waiting
           n == Len(w)
           Round(y, i) == KernelUnlockEventFlagForThread(y, f, w[i], result)
           IsLoop(h, m) == h = [i \in 0..m |-> IF i = 0 THEN x ELSE Round(h[i - 1], i)]
           after == CHOOSE h : IsLoop(h, n)
<1>1. KernelClearEventFlagThreads(x, f, result) = [after[n] EXCEPT !.f[f].waiting = <<>>]
  BY DEF KernelClearEventFlagThreads
<1>2. n \in Nat
  OBVIOUS
<1>3. after[0] = x /\ \A i \in 1..n : after[i] = Round(after[i - 1], i)
  <2> HIDE DEF w, n, Round
  <2>1. IsLoop(after, n)
    <3> DEFINE G == {m \in 0..n : \E h : IsLoop(h, m)}
    <3>1. 0 \in G
      <4>1. IsLoop([i \in 0..0 |-> x], 0)
        OBVIOUS
      <4> HIDE DEF IsLoop
      <4> QED BY <1>2, <4>1
    <3>2. ASSUME NEW m \in 1..n, m - 1 \in G PROVE m \in G
      <4>1. PICK h : IsLoop(h, m - 1)
        BY <3>2
      <4> DEFINE g == [i \in 0..m |-> IF i < m THEN h[i] ELSE Round(h[m - 1], m)]
      <4>2. ASSUME NEW i \in 0..m
            PROVE  g[i] = IF i = 0 THEN x ELSE Round(g[i - 1], i)
        <5>1. CASE i = 0
          BY <4>1, <5>1
        <5>2. CASE i # 0 /\ i < m
          BY <4>1, <5>2
        <5>3. CASE i = m
          BY <5>3
        <5> QED BY <5>1, <5>2, <5>3
      <4>3. IsLoop(g, m)
        BY <4>2
      <4> HIDE DEF IsLoop, g
      <4> QED BY <4>3
    <3> HIDE DEF G
    <3>3. n \in G
      <4>1. \A m \in 1..n : m - 1 \in G => m \in G
        BY <3>2
      <4>2. \A m \in 0..n : m \in G
        BY <1>2, <3>1, <4>1, SetInduction
      <4> QED BY <1>2, <4>2
    <3> QED BY <3>3 DEF G
  <2> HIDE DEF after
  <2> QED BY <1>2, <2>1
<1> HIDE DEF after
<1> QED BY <1>1, <1>3 DEF FlagClearLoop

\* Nobody waits for f when its waiters have been cleared.
LEMMA FlagClearServes ==
  ASSUME NEW f \in Obj, NEW x \in FlagLetting, KernelInv(x.k), EndShapes(x.k),
         FlagListed(x.k, f, x.f[f].waiting), NEW r \in Result \ {"ok"}
  PROVE  LET y == KernelClearEventFlagThreads(x, f, r)
         IN  /\ FlagServes(x, y, f) /\ y.f[f].waiting = <<>>
             /\ \A u \in Thread : ~isWaitingFor(y.k, u, "EVENTFLAG", f)
<1> DEFINE w == x.f[f].waiting
           n == Len(w)
           y == KernelClearEventFlagThreads(x, f, r)
<1>1. /\ w \in Seq(Entry) /\ n \in Nat /\ x.f[f] \in EventFlag
      /\ \A i \in 1..n : w[i] \in Entry /\ w[i].thread \in Thread /\ Names(w)[i] = w[i].thread
      /\ Len(Names(w)) = n
  BY NamesList DEF FlagLetting, EventFlag
<1>2. PICK after : FlagClearLoop(x, f, r, after)
  BY <1>1, FlagClearLoopExists
<1> DEFINE Done(z, m) ==
             /\ FlagServes(x, z, f)
             /\ \A i \in 1..m : ~isWaitingFor(z.k, w[i].thread, "EVENTFLAG", f)
           G == {m \in 0..n : Done(after[m], m)}
<1>3. 0 \in G
  <2>1. after[0] = x /\ 0 \in 0..n
    <3>1. after[0] = x
      BY <1>2 DEF FlagClearLoop
    <3>2. 0 \in 0..n
      BY <1>1
    <3> QED BY <3>1, <3>2
  <2>2. FlagServes(x, x, f)
    BY FlagServesSelf
  <2> HIDE DEF w, n
  <2>3. \A i \in 1..0 : FALSE
    OBVIOUS
  <2> QED BY <2>1, <2>2, <2>3
<1>4. ASSUME NEW m \in 1..n, m - 1 \in G PROVE m \in G
  <2> DEFINE z == after[m - 1]
             z2 == KernelUnlockEventFlagForThread(z, f, w[m], r)
  <2>1. Done(z, m - 1) /\ after[m] = z2 /\ w[m] \in Entry
    BY <1>1, <1>2, <1>4 DEF FlagClearLoop
  <2> HIDE DEF z, w, n
  <2>2. KernelInv(z.k) /\ EndShapes(z.k) /\ z \in FlagLetting
    BY <2>1, FreedShapes DEF FlagServes, Freed
  <2>3. FlagServes(z, z2, f) /\ ~isWaitingFor(z2.k, w[m].thread, "EVENTFLAG", f)
    BY <2>1, <2>2, UnlockFlagOne DEF Unlocks
  <2> HIDE DEF z2
  <2>4. FlagServes(x, z2, f)
    BY <2>1, <2>3, FlagServesTransitive
  <2>5. ASSUME NEW i \in 1..m PROVE ~isWaitingFor(z2.k, w[i].thread, "EVENTFLAG", f)
    <3>1. CASE i = m
      BY <2>3, <3>1
    <3>2. CASE i # m
      <4>1. w[i].thread \in Thread /\ i \in 1..(m - 1)
        BY <1>1, <3>2
      <4>2. ~isWaitingFor(z.k, w[i].thread, "EVENTFLAG", f)
        BY <2>1, <4>1, SMTT(20)
      <4>3. Kept(z.k, z2.k, w[i].thread)
        BY <2>3, <4>1 DEF FlagServes, Freed, Quiet
      <4> QED BY <4>2, <4>3 DEF Kept, isWaitingFor, Waits
    <3> QED BY <3>1, <3>2
  <2> QED BY <2>1, <2>4, <2>5
<1> HIDE DEF G
<1>5. \A m \in 0..n : m \in G
  <2>1. \A m \in 1..n : m - 1 \in G => m \in G
    BY <1>4
  <2> QED BY <1>1, <1>3, <2>1, SetInduction
<1>6. Done(after[n], n)
  BY <1>1, <1>5, SMTT(20) DEF G
<1> DEFINE z == after[n]
<1>7. y = [z EXCEPT !.f[f].waiting = <<>>]
  BY <1>2 DEF FlagClearLoop
<1> HIDE DEF z, y
<1>8. /\ y \in FlagLetting /\ y.k = z.k /\ OthersKept(z.f, y.f, f)
      /\ y.f[f].waiting = <<>> /\ y.f[f].exists = z.f[f].exists
      /\ y.f[f].multiple = z.f[f].multiple /\ y.f[f].pattern = z.f[f].pattern
  <2>1. z \in FlagLetting
    BY <1>6 DEF FlagServes, z
  <2>2. <<>> \in Seq(Entry)
    OBVIOUS
  <2>3. f \in Obj
    OBVIOUS
  <2> DEFINE y0 == [z EXCEPT !.f[f].waiting = <<>>]
  <2>4. /\ y0 \in FlagLetting /\ y0.k = z.k /\ OthersKept(z.f, y0.f, f)
        /\ y0.f[f].waiting = <<>> /\ y0.f[f].exists = z.f[f].exists
        /\ y0.f[f].multiple = z.f[f].multiple /\ y0.f[f].pattern = z.f[f].pattern
    BY ONLY <2>1, <2>2, <2>3, FlagWaitingSet
  <2> QED BY ONLY <1>7, <2>4
<1>9. ASSUME NEW u \in Thread, isWaitingFor(z.k, u, "EVENTFLAG", f) PROVE FALSE
  <2>1. isWaitingFor(x.k, u, "EVENTFLAG", f)
    BY <1>6, <1>9 DEF FlagServes, Freed, Quiet, Kept, isWaitingFor, Waits, z
  <2>2. PICK i \in 1..n : w[i].thread = u
    BY <1>1, <2>1 DEF FlagListed, Holds
  <2> QED BY <1>6, <1>9, <2>2 DEF z
<1>10. FlagServes(x, y, f)
  BY <1>6, <1>8 DEF FlagServes, OthersKept, z
<1> QED BY <1>8, <1>9, <1>10 DEF y

-----------------------------------------------------------------------------
(* A set unlocks, one after the other, the waiters whose bits are set then. *)

FlagRound(y, f) ==
  LET x == y.x
      i == y.i
      w == x.f[f].waiting
  IN  IF Unlocks(x, f, w[i], "ok")
      THEN [x |-> [KernelUnlockEventFlagForThread(x, f, w[i], "ok")
                     EXCEPT !.f[f].waiting =
                       SubSeq(@, 1, i - 1) \o SubSeq(@, i + 1, Len(@))],
            i |-> i]
      ELSE [x |-> x, i |-> i + 1]

\* after[n] is the state when n entries have been looked at.
FlagSetLoop(x, f, after) ==
  /\ after[0] = [x |-> x, i |-> 1]
  /\ \A n \in 1..Len(x.f[f].waiting) : after[n] = FlagRound(after[n - 1], f)
  /\ UnlockSatisfied(x, f) = after[Len(x.f[f].waiting)].x

LEMMA FlagSetLoopExists ==
  ASSUME NEW x, NEW f, Len(x.f[f].waiting) \in Nat
  PROVE  \E after : FlagSetLoop(x, f, after)
<1> DEFINE n == Len(x.f[f].waiting)
           start == [x |-> x, i |-> 1]
           Round(y) == FlagRound(y, f)
           IsLoop(h, m) == h = [i \in 0..m |-> IF i = 0 THEN start ELSE Round(h[i - 1])]
           after == CHOOSE h : IsLoop(h, n)
<1>1. UnlockSatisfied(x, f) = after[n].x
  BY DEF UnlockSatisfied, FlagRound
<1>2. n \in Nat
  OBVIOUS
<1>3. after[0] = start /\ \A i \in 1..n : after[i] = Round(after[i - 1])
  <2> HIDE DEF n, Round, start
  <2>1. IsLoop(after, n)
    <3> DEFINE G == {m \in 0..n : \E h : IsLoop(h, m)}
    <3>1. 0 \in G
      <4>1. IsLoop([i \in 0..0 |-> start], 0)
        OBVIOUS
      <4> HIDE DEF IsLoop
      <4> QED BY <1>2, <4>1
    <3>2. ASSUME NEW m \in 1..n, m - 1 \in G PROVE m \in G
      <4>1. PICK h : IsLoop(h, m - 1)
        BY <3>2
      <4> DEFINE g == [i \in 0..m |-> IF i < m THEN h[i] ELSE Round(h[m - 1])]
      <4>2. ASSUME NEW i \in 0..m
            PROVE  g[i] = IF i = 0 THEN start ELSE Round(g[i - 1])
        <5>1. CASE i = 0
          BY <4>1, <5>1
        <5>2. CASE i # 0 /\ i < m
          BY <4>1, <5>2
        <5>3. CASE i = m
          BY <5>3
        <5> QED BY <5>1, <5>2, <5>3
      <4>3. IsLoop(g, m)
        BY <4>2
      <4> HIDE DEF IsLoop, g
      <4> QED BY <4>3
    <3> HIDE DEF G
    <3>3. n \in G
      <4>1. \A m \in 1..n : m - 1 \in G => m \in G
        BY <3>2
      <4>2. \A m \in 0..n : m \in G
        BY <1>2, <3>1, <4>1, SetInduction
      <4> QED BY <1>2, <4>2
    <3> QED BY <3>3 DEF G
  <2> HIDE DEF after
  <2> QED BY <1>2, <2>1
<1> HIDE DEF after
<1> QED BY <1>1, <1>3 DEF FlagSetLoop

LEMMA FlagWaitsShrink ==
  ASSUME NEW kk, NEW k2, Freed(kk, k2), NEW f, NEW u \in Thread,
         isWaitingFor(k2, u, "EVENTFLAG", f)
  PROVE  isWaitingFor(kk, u, "EVENTFLAG", f)
BY DEF Freed, Quiet, Kept, isWaitingFor, Waits

\* An entry is cut out of the list.
LEMMA NamesErased ==
  ASSUME NEW w \in Seq(Entry), NEW i \in 1..Len(w), Distinct(Names(w))
  PROVE  /\ DropAt(w, i) \in Seq(Entry) /\ Distinct(Names(DropAt(w, i)))
         /\ \A u : Holds(Names(DropAt(w, i)), u) <=> Holds(Names(w), u) /\ u # w[i].thread
<1> DEFINE d == DropAt(w, i)
<1>1. /\ d \in Seq(Entry) /\ Len(d) = Len(w) - 1 /\ Len(w) \in Nat
      /\ \A j \in 1..(Len(w) - 1) : d[j] = IF j < i THEN w[j] ELSE w[j + 1]
  <2>1. Len(w) \in Nat
    OBVIOUS
  <2> HIDE DEF d
  <2> QED BY <2>1, EraseAt DEF d
<1> HIDE DEF d
<1>2. /\ Names(w) \in Seq(Thread) /\ Len(Names(w)) = Len(w)
      /\ \A j \in 1..Len(w) : Names(w)[j] = w[j].thread
  BY NamesList
<1>3. /\ Names(d) \in Seq(Thread) /\ Len(Names(d)) = Len(d)
      /\ \A j \in 1..Len(d) : Names(d)[j] = d[j].thread
  BY <1>1, NamesList
<1>4. Names(d) = DropAt(Names(w), i)
  <2> DEFINE r == DropAt(Names(w), i)
  <2>1. /\ r \in Seq(Thread) /\ Len(r) = Len(w) - 1
        /\ \A j \in 1..(Len(w) - 1) : r[j] = IF j < i THEN Names(w)[j] ELSE Names(w)[j + 1]
    BY <1>2, EraseAt
  <2> HIDE DEF r
  <2>2. ASSUME NEW j \in 1..(Len(w) - 1) PROVE r[j] = Names(d)[j]
    <3>1. j \in 1..Len(w) /\ j + 1 \in 1..Len(w) /\ j \in 1..Len(d)
      BY <1>1
    <3>2. Names(d)[j] = d[j].thread /\ d[j] = IF j < i THEN w[j] ELSE w[j + 1]
      BY <1>1, <1>3, <3>1
    <3>3. /\ r[j] = IF j < i THEN Names(w)[j] ELSE Names(w)[j + 1]
          /\ Names(w)[j] = w[j].thread /\ Names(w)[j + 1] = w[j + 1].thread
      BY <1>2, <2>1, <3>1
    <3> QED BY <3>2, <3>3
  <2>3. r = Names(d)
    BY <1>1, <1>3, <2>1, <2>2
  <2> QED BY <2>3 DEF r
<1> QED BY <1>1, <1>2, <1>4, DropAtHolds DEF d

\* y is reached from x; left entries are still to be looked at.
FlagSetInv(x, y, f, left) ==
  /\ FlagServes(x, y.x, f) /\ y.i \in Nat \ {0}
  /\ Len(y.x.f[f].waiting) - (y.i - 1) = left
  /\ Distinct(Names(y.x.f[f].waiting)) /\ FlagListed(y.x.k, f, y.x.f[f].waiting)
  /\ \A j \in 1..(y.i - 1) : FlagHeld(y.x.k, f, y.x.f[f].pattern, y.x.f[f].waiting[j])

LEMMA FlagRoundHolds ==
  ASSUME NEW x, KernelInv(x.k), EndShapes(x.k), NEW f \in Obj, NEW y,
         NEW left \in Nat \ {0}, FlagSetInv(x, y, f, left)
  PROVE  FlagSetInv(x, FlagRound(y, f), f, left - 1)
<1> DEFINE z == y.x
           i == y.i
           w == z.f[f].waiting
           p == z.f[f].pattern
           y2 == FlagRound(y, f)
<1>1. /\ z \in FlagLetting /\ KernelInv(z.k) /\ EndShapes(z.k) /\ FlagServes(x, z, f)
      /\ i \in Nat \ {0} /\ Len(w) - (i - 1) = left
  BY FreedShapes DEF FlagSetInv, FlagServes, Freed
<1>2. /\ Distinct(Names(w)) /\ FlagListed(z.k, f, w)
      /\ \A j \in 1..(i - 1) : FlagHeld(z.k, f, p, w[j])
  BY DEF FlagSetInv
<1>3. w \in Seq(Entry) /\ "ok" \in Result
  BY <1>1 DEF FlagLetting, EventFlag, Result
<1>4. /\ Len(w) \in Nat /\ i \in 1..Len(w) /\ w[i] \in Entry
      /\ Len(Names(w)) = Len(w)
      /\ \A j \in 1..Len(w) : w[j].thread \in Thread /\ Names(w)[j] = w[j].thread
  <2>1. Len(w) \in Nat
    BY <1>3, SMTT(20)
  <2>2. i \in 1..Len(w)
    BY <1>1, <2>1, SMTT(20)
  <2> QED BY <1>3, <2>1, <2>2, NamesList
<1>5. CASE ~Unlocks(z, f, w[i], "ok")
  <2>1. y2 = [x |-> z, i |-> i + 1]
    BY <1>5 DEF FlagRound
  <2>2. FlagHeld(z.k, f, p, w[i])
    BY <1>5 DEF Unlocks, FlagHeld
  <2> HIDE DEF z, i, w, p, y2
  <2>3. y2.x = z /\ y2.i = i + 1
    BY <2>1
  <2>4. \A j \in 1..((i + 1) - 1) : FlagHeld(z.k, f, p, w[j])
    BY <1>1, <1>2, <2>2
  <2>5. Len(w) - ((i + 1) - 1) = left - 1 /\ i + 1 \in Nat \ {0}
    BY <1>1, <1>4
  <2> QED BY <1>1, <1>2, <2>3, <2>4, <2>5 DEF FlagSetInv, w, p, y2
<1>6. CASE Unlocks(z, f, w[i], "ok")
  <2> DEFINE v == KernelUnlockEventFlagForThread(z, f, w[i], "ok")
             d == DropAt(w, i)
             v2 == [v EXCEPT !.f[f].waiting = d]
             p2 == v.f[f].pattern
  <2>1. /\ FlagServes(z, v, f) /\ v.f[f].waiting = w
        /\ ~isWaitingFor(v.k, w[i].thread, "EVENTFLAG", f)
    BY <1>1, <1>3, <1>4, <1>6, UnlockFlagOne
  <2>2. y2 = [x |-> [v EXCEPT !.f[f].waiting =
                       SubSeq(@, 1, i - 1) \o SubSeq(@, i + 1, Len(@))], i |-> i]
    BY <1>6 DEF FlagRound
  <2>3. SubSeq(w, 1, i - 1) \o SubSeq(w, i + 1, Len(w)) = d
    BY <1>3, <1>4, EraseAt
  <2> HIDE DEF z, i, w, p, y2, v, d
  <2>4. y2 = [x |-> v2, i |-> i]
    BY <2>1, <2>2, <2>3
  <2>5. /\ d \in Seq(Entry) /\ Distinct(Names(d)) /\ Len(d) = Len(w) - 1
        /\ \A u : Holds(Names(d), u) <=> Holds(Names(w), u) /\ u # w[i].thread
        /\ \A j \in 1..(Len(w) - 1) : d[j] = IF j < i THEN w[j] ELSE w[j + 1]
    <3>1. /\ d \in Seq(Entry) /\ Distinct(Names(d))
          /\ \A u : Holds(Names(d), u) <=> Holds(Names(w), u) /\ u # w[i].thread
      BY <1>2, <1>3, <1>4, NamesErased DEF d
    <3>2. /\ Len(d) = Len(w) - 1
          /\ \A j \in 1..(Len(w) - 1) : d[j] = IF j < i THEN w[j] ELSE w[j + 1]
      BY <1>3, <1>4, EraseAt DEF d
    <3> QED BY <3>1, <3>2
  <2>6. /\ v2 \in FlagLetting /\ v2.k = v.k /\ OthersKept(v.f, v2.f, f)
        /\ v2.f[f].waiting = d /\ v2.f[f].exists = v.f[f].exists
        /\ v2.f[f].multiple = v.f[f].multiple /\ v2.f[f].pattern = p2
    <3>1. v \in FlagLetting
      BY <2>1 DEF FlagServes
    <3>2. d \in Seq(Entry)
      BY <2>5
    <3> QED BY <3>1, <3>2, FlagWaitingSet
  <2> HIDE DEF v2
  <2>7. y2.x = v2 /\ y2.i = i
    BY <2>4
  <2>8. Freed(z.k, v.k) /\ p2 \subseteq p
    BY <2>1 DEF FlagServes, p
  <2>9. FlagServes(x, v2, f)
    <3>1. FlagServes(x, v, f)
      BY <1>1, <2>1, FlagServesTransitive
    <3> QED BY <2>6, <3>1 DEF FlagServes, OthersKept
  <2>10. FlagListed(v.k, f, d)
    <3> SUFFICES ASSUME NEW u \in Thread, isWaitingFor(v.k, u, "EVENTFLAG", f)
                 PROVE  Holds(Names(d), u)
      BY DEF FlagListed
    <3>1. Holds(Names(w), u)
      BY <1>2, <2>8, FlagWaitsShrink DEF FlagListed
    <3>2. u # w[i].thread
      BY <2>1
    <3> QED BY <2>5, <3>1, <3>2
  <2>11. ASSUME NEW j \in 1..(i - 1) PROVE FlagHeld(v.k, f, p2, d[j])
    <3>1. d[j] = w[j] /\ w[j].thread \in Thread /\ FlagHeld(z.k, f, p, w[j])
      <4>1. j \in 1..(Len(w) - 1) /\ j \in 1..Len(w) /\ j < i
        BY <1>1, <1>4
      <4> QED BY <1>2, <1>4, <2>5, <4>1
    <3> SUFFICES ASSUME isWaitingFor(v.k, w[j].thread, "EVENTFLAG", f),
                        KernelCheckEventFlagMatches(p2, w[j].ask)
                 PROVE  FALSE
      BY <3>1 DEF FlagHeld
    <3>2. isWaitingFor(z.k, w[j].thread, "EVENTFLAG", f)
      BY <2>8, <3>1, FlagWaitsShrink
    <3>3. KernelCheckEventFlagMatches(p, w[j].ask)
      BY <2>8, MatchShrinks
    <3> QED BY <3>1, <3>2, <3>3 DEF FlagHeld
  <2>12. Len(d) - (i - 1) = left - 1
    BY <1>1, <1>4, <2>5
  <2>13. v2.f[f].pattern = p2 /\ v2.f[f].waiting = d /\ v2.k = v.k
    BY <2>6
  <2> HIDE DEF p2
  <2> QED BY <1>1, <2>5, <2>7, <2>9, <2>10, <2>11, <2>12, <2>13 DEF FlagSetInv, y2
<1> QED BY <1>5, <1>6

\* After a set nobody waits for bits that are set.
LEMMA FlagSetServes ==
  ASSUME NEW f \in Obj, NEW x \in FlagLetting, KernelInv(x.k), EndShapes(x.k),
         Distinct(Names(x.f[f].waiting)), FlagListed(x.k, f, x.f[f].waiting)
  PROVE  LET y == UnlockSatisfied(x, f)
         IN  /\ FlagServes(x, y, f)
             /\ Distinct(Names(y.f[f].waiting)) /\ FlagListed(y.k, f, y.f[f].waiting)
             /\ FlagUnmet(y.k, f, y.f[f].pattern, y.f[f].waiting)
<1> DEFINE n == Len(x.f[f].waiting)
           start == [x |-> x, i |-> 1]
<1>1. n \in Nat
  BY NamesList DEF FlagLetting, EventFlag
<1>2. PICK after : FlagSetLoop(x, f, after)
  BY <1>1, FlagSetLoopExists
<1> DEFINE G == {m \in 0..n : FlagSetInv(x, after[m], f, n - m)}
<1>3. 0 \in G
  <2>1. start.x = x /\ start.i = 1
    OBVIOUS
  <2>2. after[0] = start
    BY <1>2 DEF FlagSetLoop
  <2>3. FlagServes(x, x, f)
    BY FlagServesSelf
  <2>4. n - (1 - 1) = n - 0 /\ 1..(1 - 1) = {}
    BY <1>1
  <2> HIDE DEF start
  <2>5. FlagSetInv(x, start, f, n - 0)
    BY <2>1, <2>3, <2>4 DEF FlagSetInv
  <2> HIDE DEF n
  <2> QED BY <1>1, <2>2, <2>5
<1>4. ASSUME NEW m \in 1..n, m - 1 \in G PROVE m \in G
  <2> DEFINE left == n - (m - 1)
  <2>1. left \in Nat \ {0} /\ left - 1 = n - m
    BY <1>1
  <2>2. FlagSetInv(x, after[m - 1], f, left) /\ after[m] = FlagRound(after[m - 1], f)
    BY <1>2, <1>4 DEF FlagSetLoop
  <2> HIDE DEF left
  <2>3. FlagSetInv(x, after[m], f, left - 1)
    BY <2>1, <2>2, FlagRoundHolds
  <2> QED BY <1>1, <2>1, <2>3
<1> HIDE DEF G
<1>5. \A m \in 0..n : m \in G
  <2>1. \A m \in 1..n : m - 1 \in G => m \in G
    BY <1>4
  <2> QED BY <1>1, <1>3, <2>1, SetInduction
<1> DEFINE e == after[n]
           y == e.x
           i == e.i
<1>6. FlagSetInv(x, e, f, n - n)
  BY <1>1, <1>5 DEF G
<1>7. y = UnlockSatisfied(x, f)
  BY <1>2 DEF FlagSetLoop
<1> HIDE DEF e
<1>8. /\ FlagServes(x, y, f) /\ y \in FlagLetting /\ i \in Nat \ {0}
      /\ Len(y.f[f].waiting) - (i - 1) = n - n
      /\ Distinct(Names(y.f[f].waiting)) /\ FlagListed(y.k, f, y.f[f].waiting)
      /\ \A j \in 1..(i - 1) : FlagHeld(y.k, f, y.f[f].pattern, y.f[f].waiting[j])
  BY <1>6 DEF FlagSetInv, FlagServes
<1>9. Len(y.f[f].waiting) \in Nat
  BY <1>8, NamesList DEF FlagLetting, EventFlag
<1>10. Len(y.f[f].waiting) = i - 1
  BY <1>1, <1>8, <1>9
<1> QED BY <1>7, <1>8, <1>10 DEF FlagUnmet

-----------------------------------------------------------------------------
(* The steps. *)

LEMMA FlagFacts ==
  ASSUME FlagSound(k, flag), NEW f \in Obj
  PROVE  /\ Inv /\ Sound(k) /\ KernelInv(k) /\ FlagRight(k, flag) /\ EndShapes(k)
         /\ k \in Kernel /\ flag \in [Obj -> EventFlag] /\ flag[f] \in EventFlag
         /\ FlagFits(k, f, flag[f]) /\ flag[f].waiting \in Seq(Entry)
         /\ BeginFlag \in FlagLetting /\ BeginFlag.k = k /\ BeginFlag.f = flag
<1>1. Inv /\ Sound(k) /\ KernelInv(k) /\ FlagRight(k, flag) /\ EndShapes(k) /\ k \in Kernel
  BY SoundShapes DEF FlagSound, Sound, Inv, KernelInv
<1>2. flag \in [Obj -> EventFlag] /\ flag[f] \in EventFlag /\ FlagFits(k, f, flag[f])
  BY <1>1 DEF FlagRight
<1>3. flag[f].waiting \in Seq(Entry)
  BY <1>2 DEF EventFlag
<1>4. BeginFlag \in FlagLetting /\ BeginFlag.k = k /\ BeginFlag.f = flag
  BY <1>1, <1>2 DEF BeginFlag, FlagLetting
<1> QED BY <1>1, <1>2, <1>3, <1>4

\* The flag f is written before its waiters are looked at.
LEMMA FlagBegun ==
  ASSUME FlagSound(k, flag), NEW f \in Obj, NEW p \in SUBSET Bits
  PROVE  LET x == [BeginFlag EXCEPT !.f[f].pattern = p]
         IN  /\ x \in FlagLetting /\ x.k = k /\ OthersKept(flag, x.f, f)
             /\ x.f[f].exists = flag[f].exists /\ x.f[f].multiple = flag[f].multiple
             /\ x.f[f].waiting = flag[f].waiting /\ x.f[f].pattern = p
<1> DEFINE q == [flag[f] EXCEPT !.pattern = p]
           f2 == [flag EXCEPT ![f] = q]
           x == [BeginFlag EXCEPT !.f[f].pattern = p]
<1>1. /\ k \in Kernel /\ flag \in [Obj -> EventFlag] /\ flag[f] \in EventFlag
      /\ BeginFlag.f = flag
  BY FlagFacts
<1>2. x = [k |-> k, f |-> f2, woke |-> FALSE]
  <2>1. x = [BeginFlag EXCEPT !.f = f2]
    BY <1>1
  <2> HIDE DEF f2, x
  <2> QED BY <2>1 DEF BeginFlag
<1> HIDE DEF x
<1>3. /\ q \in EventFlag /\ q.pattern = p /\ q.exists = flag[f].exists
      /\ q.multiple = flag[f].multiple /\ q.waiting = flag[f].waiting
  BY <1>1 DEF EventFlag
<1> HIDE DEF q
<1>4. f2 \in [Obj -> EventFlag] /\ f2[f] = q /\ \A i \in Obj \ {f} : f2[i] = flag[i]
  BY <1>1, <1>3
<1> HIDE DEF f2
<1>5. x \in FlagLetting /\ x.k = k /\ x.f = f2
  BY <1>1, <1>2, <1>4 DEF FlagLetting
<1> QED BY <1>3, <1>4, <1>5 DEF OthersKept, x

\* Nobody is let go by a call that only writes the flag f.
LEMMA FlagWriteSound ==
  ASSUME FlagSound(k, flag), NEW f \in Obj, NEW f2, OthersKept(flag, f2, f),
         FlagFits(k, f, f2[f])
  PROVE  FlagSound(k, f2)
<1>1. Sound(k) /\ FlagRight(k, flag) /\ SameWaits(k, k, "EVENTFLAG")
  BY DEF FlagSound, SameWaits
<1> QED BY <1>1, FlagStored DEF FlagSound

\* The end of a call that has let waiters of f go.
LEMMA FlagFinishSound ==
  ASSUME FlagSound(k, flag), NEW f \in Obj, NEW y \in FlagLetting, Freed(k, y.k),
         OthersKept(flag, y.f, f), FlagFits(y.k, f, y.f[f]), StoreFlag(y)
  PROVE  FlagSound(k', flag')
<1>1. Sound(k) /\ FlagRight(k, flag) /\ y.k \in Kernel /\ y.f[f] \in EventFlag
  BY DEF FlagSound, FlagLetting
<1>2. /\ Sound(y.k) /\ Sound(hleReSchedule(y.k))
      /\ Quiet(k, y.k) /\ Quiet(k, hleReSchedule(y.k))
  BY <1>1, FreedSound DEF Freed
<1>3. (k' = y.k \/ k' = hleReSchedule(y.k)) /\ flag' = y.f
  BY DEF StoreFlag
<1>4. Sound(k') /\ SameWaits(k, k', "EVENTFLAG")
  BY <1>2, <1>3, QuietSameWaits, FlagType
<1>5. SameWaits(y.k, k', "EVENTFLAG")
  <2>1. Quiet(y.k, y.k) /\ Quiet(y.k, hleReSchedule(y.k))
    BY <1>1, SameQuiet, hleReScheduleQuiet
  <2> QED BY <1>3, <2>1, QuietSameWaits, FlagType
<1>6. FlagFits(k', f, flag'[f])
  BY <1>1, <1>3, <1>5, FlagFitsKept
<1> QED BY <1>1, <1>3, <1>4, <1>6, FlagStored DEF FlagSound

\* A flag for which nobody waits, or without an entry.
LEMMA FlagEmptyFits ==
  ASSUME NEW kk, NEW f, NEW q, q.waiting = <<>>,
         \A u \in Thread : ~isWaitingFor(kk, u, "EVENTFLAG", f)
  PROVE  FlagFits(kk, f, q)
<1>1. Distinct(Names(q.waiting)) /\ FlagUnmet(kk, f, q.pattern, q.waiting)
  BY DEF Distinct, Names, FlagUnmet
<1> QED BY <1>1 DEF FlagFits, FlagListed, FlagAlive, FlagAlone

LEMMA CreateFlagStep ==
  ASSUME FlagSound(k, flag), NEW f \in Obj, NEW multiple \in Multiples,
         NEW pattern \in SUBSET Bits, sceKernelCreateEventFlag(f, multiple, pattern)
  PROVE  FlagSound(k', flag')
<1> DEFINE q == [exists |-> TRUE, multiple |-> multiple, pattern |-> pattern,
                 waiting |-> <<>>]
<1>1. /\ ~flag[f].exists /\ k' = k /\ flag' = [flag EXCEPT ![f] = q]
      /\ flag \in [Obj -> EventFlag] /\ FlagFits(k, f, flag[f])
  BY FlagFacts DEF sceKernelCreateEventFlag
<1>2. q \in EventFlag /\ q.waiting = <<>>
  BY FlagAssumption DEF EventFlag
<1> HIDE DEF q
<1>3. \A u \in Thread : ~isWaitingFor(k, u, "EVENTFLAG", f)
  BY <1>1 DEF FlagFits, FlagAlive
<1>4. OthersKept(flag, flag', f) /\ flag'[f] = q
  BY <1>1, <1>2 DEF OthersKept
<1>5. FlagFits(k, f, q)
  BY <1>2, <1>3, FlagEmptyFits
<1> QED BY <1>1, <1>4, <1>5, FlagWriteSound

LEMMA CancelFlagStep ==
  ASSUME FlagSound(k, flag), NEW f \in Obj, NEW pattern \in SUBSET Bits,
         sceKernelCancelEventFlag(f, pattern)
  PROVE  FlagSound(k', flag')
<1> DEFINE x == [BeginFlag EXCEPT !.f[f].pattern = pattern]
           y == KernelClearEventFlagThreads(x, f, "WAIT_CANCEL")
<1>1. KernelInv(k) /\ EndShapes(k) /\ FlagFits(k, f, flag[f])
  BY FlagFacts
<1>2. /\ x \in FlagLetting /\ x.k = k /\ OthersKept(flag, x.f, f)
      /\ x.f[f].waiting = flag[f].waiting
  BY FlagBegun
<1>3. StoreFlag(y)
  BY DEF sceKernelCancelEventFlag
<1> HIDE DEF x
<1>4. /\ FlagServes(x, y, f) /\ y.f[f].waiting = <<>>
      /\ \A u \in Thread : ~isWaitingFor(y.k, u, "EVENTFLAG", f)
  BY <1>1, <1>2, FlagClearServes DEF Result, FlagFits
<1> HIDE DEF y
<1>5. FlagFits(y.k, f, y.f[f])
  BY <1>4, FlagEmptyFits
<1>6. y \in FlagLetting /\ Freed(k, y.k) /\ OthersKept(flag, y.f, f)
  BY <1>2, <1>4 DEF FlagServes, OthersKept
<1> QED BY <1>3, <1>5, <1>6, FlagFinishSound

LEMMA DeleteFlagStep ==
  ASSUME FlagSound(k, flag), NEW f \in Obj, sceKernelDeleteEventFlag(f)
  PROVE  FlagSound(k', flag')
<1> DEFINE y == KernelClearEventFlagThreads(BeginFlag, f, "WAIT_DELETE")
           f2 == [y.f EXCEPT ![f] = NoFlag]
           z == [y EXCEPT !.f[f] = NoFlag]
<1>1. /\ KernelInv(k) /\ EndShapes(k) /\ FlagFits(k, f, flag[f])
      /\ BeginFlag \in FlagLetting /\ BeginFlag.k = k /\ BeginFlag.f = flag
  BY FlagFacts
<1>2. StoreFlag(z)
  BY DEF sceKernelDeleteEventFlag
<1>3. /\ FlagServes(BeginFlag, y, f)
      /\ \A u \in Thread : ~isWaitingFor(y.k, u, "EVENTFLAG", f)
  BY <1>1, FlagClearServes DEF Result, FlagFits
<1> HIDE DEF y
<1>4. NoFlag \in EventFlag /\ NoFlag.waiting = <<>>
  BY DEF NoFlag, EventFlag
<1>5. y \in FlagLetting /\ Freed(k, y.k) /\ OthersKept(flag, y.f, f)
  BY <1>1, <1>3 DEF FlagServes
<1>6. f2 \in [Obj -> EventFlag] /\ f2[f] = NoFlag /\ \A i \in Obj \ {f} : f2[i] = y.f[i]
  BY <1>4, <1>5 DEF OthersKept
<1>7. z = [y EXCEPT !.f = f2]
  OBVIOUS
<1> HIDE DEF f2, z
<1>8. z \in FlagLetting /\ z.k = y.k /\ z.f = f2
  BY <1>5, <1>6, <1>7 DEF FlagLetting
<1>9. OthersKept(flag, z.f, f)
  BY <1>5, <1>6, <1>8 DEF OthersKept
<1>10. FlagFits(z.k, f, z.f[f])
  BY <1>3, <1>4, <1>6, <1>8, FlagEmptyFits
<1> QED BY <1>2, <1>5, <1>8, <1>9, <1>10, FlagFinishSound

LEMMA SetFlagStep ==
  ASSUME FlagSound(k, flag), NEW f \in Obj, NEW bits \in SUBSET Bits,
         sceKernelSetEventFlag(f, bits)
  PROVE  FlagSound(k', flag')
<1> DEFINE p == flag[f].pattern \cup bits
           x0 == [BeginFlag EXCEPT !.f[f].pattern = @ \cup bits]
           x == [BeginFlag EXCEPT !.f[f].pattern = p]
           y == UnlockSatisfied(x, f)
<1>1. /\ KernelInv(k) /\ EndShapes(k) /\ FlagFits(k, f, flag[f]) /\ flag[f] \in EventFlag
      /\ BeginFlag.f = flag
  BY FlagFacts
<1>2. p \in SUBSET Bits
  BY <1>1 DEF EventFlag
<1>3. x0 = x
  BY <1>1
<1>4. StoreFlag(y)
  BY <1>3 DEF sceKernelSetEventFlag
<1> HIDE DEF p, x0
<1>5. /\ x \in FlagLetting /\ x.k = k /\ OthersKept(flag, x.f, f)
      /\ x.f[f].waiting = flag[f].waiting /\ x.f[f].exists = flag[f].exists
      /\ x.f[f].multiple = flag[f].multiple
  BY <1>2, FlagBegun
<1> HIDE DEF x
<1>6. /\ FlagServes(x, y, f)
      /\ Distinct(Names(y.f[f].waiting)) /\ FlagListed(y.k, f, y.f[f].waiting)
      /\ FlagUnmet(y.k, f, y.f[f].pattern, y.f[f].waiting)
  BY <1>1, <1>5, FlagSetServes DEF FlagFits
<1> HIDE DEF y
<1>7. /\ y \in FlagLetting /\ Freed(k, y.k) /\ OthersKept(flag, y.f, f)
      /\ y.f[f].exists = flag[f].exists /\ y.f[f].multiple = flag[f].multiple
  BY <1>5, <1>6 DEF FlagServes, OthersKept
<1>8. FlagAlive(y.k, f, y.f[f].exists)
  BY <1>1, <1>7, FlagWaitsShrink DEF FlagFits, FlagAlive
<1>9. FlagAlone(y.k, f, y.f[f].multiple)
  BY <1>1, <1>7, FlagWaitsShrink DEF FlagFits, FlagAlone
<1>10. FlagFits(y.k, f, y.f[f])
  BY <1>6, <1>8, <1>9 DEF FlagFits
<1> QED BY <1>4, <1>7, <1>10, FlagFinishSound

\* A smaller pattern with the same waiters.
LEMMA FlagPatternFits ==
  ASSUME FlagSound(k, flag), NEW f \in Obj, NEW p \in SUBSET Bits,
         p \subseteq flag[f].pattern, k' = k, flag' = [flag EXCEPT ![f].pattern = p]
  PROVE  FlagSound(k', flag')
<1> DEFINE q == [flag[f] EXCEPT !.pattern = p]
<1>1. /\ flag \in [Obj -> EventFlag] /\ flag[f] \in EventFlag /\ FlagFits(k, f, flag[f])
  BY FlagFacts
<1>2. /\ q \in EventFlag /\ q.pattern = p /\ q.exists = flag[f].exists
      /\ q.multiple = flag[f].multiple /\ q.waiting = flag[f].waiting
  BY <1>1 DEF EventFlag
<1>3. flag' = [flag EXCEPT ![f] = q]
  BY <1>1
<1> HIDE DEF q
<1>4. OthersKept(flag, flag', f) /\ flag'[f] = q
  BY <1>1, <1>2, <1>3 DEF OthersKept
<1>5. FlagUnmet(k, f, q.pattern, q.waiting)
  BY <1>1, <1>2, MatchShrinks DEF FlagFits, FlagUnmet, FlagHeld
<1>6. FlagFits(k, f, q)
  BY <1>1, <1>2, <1>5 DEF FlagFits
<1> QED BY <1>4, <1>6, FlagWriteSound

LEMMA ClearFlagStep ==
  ASSUME FlagSound(k, flag), NEW f \in Obj, NEW bits \in SUBSET Bits,
         sceKernelClearEventFlag(f, bits)
  PROVE  FlagSound(k', flag')
<1> DEFINE p == flag[f].pattern \cap bits
<1>1. k' = k /\ flag' = [flag EXCEPT ![f].pattern = p]
  BY DEF sceKernelClearEventFlag
<1>2. p \in SUBSET Bits /\ p \subseteq flag[f].pattern
  OBVIOUS
<1> HIDE DEF p
<1> QED BY <1>1, <1>2, FlagPatternFits

\* The pattern after a match that lets nobody go.
LEMMA FlagMatchStep ==
  ASSUME FlagSound(k, flag), NEW f \in Obj, NEW ask, k' = k,
         flag' = [flag EXCEPT ![f].pattern = KernelApplyEventFlagMatch(@, ask)]
  PROVE  FlagSound(k', flag')
<1> DEFINE p == KernelApplyEventFlagMatch(flag[f].pattern, ask)
<1>1. flag \in [Obj -> EventFlag] /\ flag[f] \in EventFlag
  BY FlagFacts
<1>2. p \subseteq flag[f].pattern /\ flag[f].pattern \subseteq Bits
  BY <1>1, ApplyShrinks DEF EventFlag
<1>3. flag' = [flag EXCEPT ![f].pattern = p]
  OBVIOUS
<1> HIDE DEF p
<1>4. p \in SUBSET Bits
  BY <1>2
<1> QED BY <1>2, <1>3, <1>4, FlagPatternFits

LEMMA PollFlagStep ==
  ASSUME FlagSound(k, flag), NEW f \in Obj, NEW ask \in Asks, sceKernelPollEventFlag(f, ask)
  PROVE  FlagSound(k', flag')
BY FlagMatchStep DEF sceKernelPollEventFlag

\* The list of the waiters of f is replaced by a part of it.
LEMMA FlagWaitingFits ==
  ASSUME FlagSound(k, flag), NEW f \in Obj, NEW w \in Seq(Entry), Distinct(Names(w)),
         FlagListed(k, f, w),
         \A i \in 1..Len(w) : \E j \in 1..Len(flag[f].waiting) : w[i] = flag[f].waiting[j],
         k' = k, flag' = [flag EXCEPT ![f].waiting = w]
  PROVE  FlagSound(k', flag')
<1> DEFINE q == [flag[f] EXCEPT !.waiting = w]
<1>1. /\ flag \in [Obj -> EventFlag] /\ flag[f] \in EventFlag /\ FlagFits(k, f, flag[f])
  BY FlagFacts
<1>2. /\ q \in EventFlag /\ q.pattern = flag[f].pattern /\ q.exists = flag[f].exists
      /\ q.multiple = flag[f].multiple /\ q.waiting = w
  BY <1>1 DEF EventFlag
<1>3. flag' = [flag EXCEPT ![f] = q]
  BY <1>1
<1> HIDE DEF q
<1>4. OthersKept(flag, flag', f) /\ flag'[f] = q
  BY <1>1, <1>2, <1>3 DEF OthersKept
<1>5. FlagUnmet(k, f, q.pattern, q.waiting)
  BY <1>1, <1>2 DEF FlagFits, FlagUnmet
<1>6. FlagFits(k, f, q)
  BY <1>1, <1>2, <1>5 DEF FlagFits
<1> QED BY <1>1, <1>4, <1>6, FlagWriteSound

\* The entries of the threads other than t.
FlagOthers(w, t) == Without(w, [thread : {t}, ask : Ask])

LEMMA FlagOthersHold ==
  ASSUME NEW w \in Seq(Entry), Distinct(Names(w)), NEW t
  PROVE  LET o == FlagOthers(w, t)
         IN  /\ o \in Seq(Entry) /\ Distinct(Names(o))
             /\ \A u : Holds(Names(o), u) <=> Holds(Names(w), u) /\ u # t
             /\ \A i \in 1..Len(o) : \E j \in 1..Len(w) : o[i] = w[j]
<1> DEFINE o == FlagOthers(w, t)
           E == [thread : {t}, ask : Ask]
<1>1. \A e \in Entry : e \in E <=> e.thread = t
  BY DEF Entry
<1>2. o = Without(w, E)
  BY DEF FlagOthers
<1> HIDE DEF o, E
<1>3. o \in Seq(Entry) /\ \E h : TakenFrom(o, w, E, h)
  BY <1>2, WithoutTakes
<1>4. PICK h : TakenFrom(o, w, E, h)
  BY <1>3
<1>5. /\ Len(Names(w)) = Len(w) /\ Len(w) \in Nat
      /\ \A i \in 1..Len(w) : w[i] \in Entry /\ Names(w)[i] = w[i].thread
      /\ Len(Names(o)) = Len(o) /\ Len(o) \in Nat
      /\ \A i \in 1..Len(o) : o[i] \in Entry /\ Names(o)[i] = o[i].thread
  BY <1>3, NamesList
<1>6. /\ \A i \in 1..Len(o) : h[i] \in 1..Len(w) /\ o[i] = w[h[i]] /\ o[i] \notin E
      /\ \A m \in 1..Len(w) : w[m] \in E \/ \E i \in 1..Len(o) : h[i] = m
  BY <1>4 DEF TakenFrom
<1>7. \A i, j \in 1..Len(o) : i < j => h[i] < h[j]
  BY <1>4 DEF TakenFrom
<1>8. Distinct(Names(o))
  <2> SUFFICES ASSUME NEW i \in 1..Len(o), NEW j \in 1..Len(o), i < j,
                      Names(o)[i] = Names(o)[j]
               PROVE  FALSE
    BY <1>5 DEF Distinct
  <2>1. h[i] \in 1..Len(w) /\ h[j] \in 1..Len(w) /\ h[i] < h[j]
    BY <1>6, <1>7
  <2>2. Names(w)[h[i]] = Names(w)[h[j]]
    <3>1. Names(o)[i] = o[i].thread /\ Names(o)[j] = o[j].thread
      BY <1>5
    <3>2. o[i] = w[h[i]] /\ o[j] = w[h[j]]
      BY <1>6
    <3> QED BY <1>5, <2>1, <3>1, <3>2
  <2>3. h[i] = h[j]
    BY <1>5, <2>1, <2>2 DEF Distinct
  <2> QED BY <2>1, <2>3
<1>9. ASSUME NEW u, Holds(Names(o), u) PROVE Holds(Names(w), u) /\ u # t
  <2>1. PICK i \in 1..Len(o) : Names(o)[i] = u
    BY <1>5, <1>9 DEF Holds
  <2>2. o[i].thread = u /\ o[i] \in Entry /\ o[i] = w[h[i]] /\ o[i] \notin E
        /\ h[i] \in 1..Len(w)
    BY <1>5, <1>6, <2>1
  <2>3. Names(w)[h[i]] = u /\ u # t
    BY <1>1, <1>5, <2>2
  <2> QED BY <1>5, <2>2, <2>3 DEF Holds
<1>10. ASSUME NEW u, Holds(Names(w), u), u # t PROVE Holds(Names(o), u)
  BY <1>1, <1>5, <1>6, <1>10, SMTT(20) DEF Holds
<1> QED BY <1>3, <1>6, <1>8, <1>9, <1>10 DEF o

LEMMA NamesAppend ==
  ASSUME NEW w \in Seq(Entry), NEW e \in Entry, Distinct(Names(w)),
         ~Holds(Names(w), e.thread)
  PROVE  LET s == Append(w, e)
         IN  /\ s \in Seq(Entry) /\ Distinct(Names(s))
             /\ \A u : Holds(Names(s), u) <=> Holds(Names(w), u) \/ u = e.thread
             /\ Len(s) = Len(w) + 1 /\ s[Len(s)] = e /\ \A i \in 1..Len(w) : s[i] = w[i]
<1> DEFINE s == Append(w, e)
<1>1. /\ s \in Seq(Entry) /\ Len(s) = Len(w) + 1 /\ s[Len(s)] = e /\ Len(w) \in Nat
      /\ \A i \in 1..Len(w) : s[i] = w[i]
  OBVIOUS
<1> HIDE DEF s
<1>2. /\ Names(w) \in Seq(Thread) /\ Len(Names(w)) = Len(w)
      /\ \A i \in 1..Len(w) : Names(w)[i] = w[i].thread
  BY NamesList
<1>3. /\ Names(s) \in Seq(Thread) /\ Len(Names(s)) = Len(s)
      /\ \A i \in 1..Len(s) : Names(s)[i] = s[i].thread
  BY <1>1, NamesList
<1> DEFINE c == Append(Names(w), e.thread)
<1>4. c = Names(s)
  <2>1. e.thread \in Thread
    BY DEF Entry
  <2>2. /\ c \in Seq(Thread) /\ Len(c) = Len(w) + 1 /\ c[Len(w) + 1] = e.thread
        /\ \A i \in 1..Len(w) : c[i] = Names(w)[i]
    BY <1>1, <1>2, <2>1
  <2> HIDE DEF c
  <2>3. \A i \in 1..Len(s) : i \in 1..Len(w) \/ i = Len(w) + 1
    BY <1>1
  <2>4. \A i \in 1..Len(s) : c[i] = Names(s)[i]
    BY <1>1, <1>2, <1>3, <2>2, <2>3
  <2> QED BY <1>1, <1>3, <2>2, <2>4
<1>5. e.thread \in Thread
  BY DEF Entry
<1>6. /\ Distinct(c) /\ \A u : Holds(c, u) <=> Holds(Names(w), u) \/ u = e.thread
  BY <1>2, <1>5, AppendHolds
<1> QED BY <1>1, <1>4, <1>6 DEF s

LEMMA WaitFlagStep ==
  ASSUME FlagSound(k, flag), NEW f \in Obj, NEW ask \in Asks, NEW timed \in BOOLEAN,
         sceKernelWaitEventFlag(f, ask, timed)
  PROVE  FlagSound(k', flag')
<1> DEFINE t == k.cur
           w == flag[f].waiting
           o == FlagOthers(w, t)
           e == [thread |-> t, ask |-> ask]
<1>1. /\ Inv /\ Sound(k) /\ FlagRight(k, flag) /\ flag \in [Obj -> EventFlag]
      /\ flag[f] \in EventFlag /\ FlagFits(k, f, flag[f]) /\ w \in Seq(Entry)
  BY FlagFacts
<1>2. /\ Calls("WaitEventFlag") /\ k.disp /\ flag[f].exists
  BY DEF sceKernelWaitEventFlag
<1>3. /\ t \in User /\ t \in Thread /\ k.st[t] \in {{"RUNNING"}, {"READY"}}
  BY <1>1, <1>2, InCall
<1>4. ask \in Ask /\ e \in Entry /\ e.thread = t /\ e.ask = ask
  BY <1>3, FlagAssumption DEF Entry
<1>5. /\ o \in Seq(Entry) /\ Distinct(Names(o))
      /\ \A u : Holds(Names(o), u) <=> Holds(Names(w), u) /\ u # t
      /\ \A i \in 1..Len(o) : \E j \in 1..Len(w) : o[i] = w[j]
  BY <1>1, FlagOthersHold DEF FlagFits
<1>6. CASE KernelCheckEventFlagMatches(flag[f].pattern, ask)
  <2>1. k' = k /\ flag' = [flag EXCEPT ![f].pattern = KernelApplyEventFlagMatch(@, ask)]
    BY <1>6 DEF sceKernelWaitEventFlag
  <2> QED BY <2>1, FlagMatchStep
<1>7. CASE ~KernelCheckEventFlagMatches(flag[f].pattern, ask) /\ o # <<>> /\ ~flag[f].multiple
  <2>1. k' = k /\ flag' = [flag EXCEPT ![f].waiting = o]
    BY <1>7 DEF sceKernelWaitEventFlag, FlagOthers
  <2> HIDE DEF o
  <2>2. FlagListed(k, f, o)
    <3>1. FlagListed(k, f, w)
      BY <1>1 DEF FlagFits
    <3>2. ~isWaitingFor(k, t, "EVENTFLAG", f)
      BY <1>3 DEF isWaitingFor
    <3> QED BY <1>5, <3>1, <3>2 DEF FlagListed
  <2> QED BY <1>5, <2>1, <2>2, FlagWaitingFits
<1>8. CASE /\ ~KernelCheckEventFlagMatches(flag[f].pattern, ask)
           /\ o = <<>> \/ flag[f].multiple
  <2> DEFINE wt == [type |-> "EVENTFLAG", id |-> f, value |-> 0, timed |-> timed]
             k2 == KernelWaitCurThread(SetWaitTimer(k, "EVENTFLAG", timed),
                                       "EVENTFLAG", f, 0, timed)
             s == Append(o, e)
             q == [flag[f] EXCEPT !.waiting = s]
             f2 == [flag EXCEPT ![f] = q]
  <2>1. k' = k2 /\ flag' = [flag EXCEPT ![f].waiting = s]
    BY <1>8 DEF sceKernelWaitEventFlag, FlagOthers
  <2>2. Sound(k2) /\ BeginsWait(k, k2, "EVENTFLAG", wt)
    BY <1>1, <1>2, <1>3, ObjAsleep, FlagType
  <2> HIDE DEF k2, o
  <2>3. ~Holds(Names(o), t)
    BY <1>5
  <2> HIDE DEF e
  <2>4. /\ s \in Seq(Entry) /\ Distinct(Names(s))
        /\ \A u : Holds(Names(s), u) <=> Holds(Names(o), u) \/ u = t
        /\ Len(s) = Len(o) + 1 /\ s[Len(s)] = e /\ \A i \in 1..Len(o) : s[i] = o[i]
    BY <1>4, <1>5, <2>3, NamesAppend
  <2> HIDE DEF s
  <2>5. /\ q \in EventFlag /\ q.pattern = flag[f].pattern /\ q.exists = flag[f].exists
        /\ q.multiple = flag[f].multiple /\ q.waiting = s
    BY <1>1, <2>4 DEF EventFlag
  <2>6. flag' = f2
    BY <1>1, <2>1
  <2> HIDE DEF q
  <2>7. /\ f2 \in [Obj -> EventFlag] /\ f2[f] = q /\ \A i \in Obj \ {f} : f2[i] = flag[i]
    BY <1>1, <2>5
  <2> HIDE DEF f2
  <2>8. /\ k2.wait[t] = wt
        /\ wt.timed => k2.timer["EVENTFLAG"][t] > 0
        /\ \A u \in Thread \ {t} :
             /\ k2.st[u] = k.st[u] /\ k2.wait[u] = k.wait[u]
             /\ k2.timer["EVENTFLAG"][u] = k.timer["EVENTFLAG"][u]
    BY <2>2 DEF BeginsWait
  <2>9. wt.id = f
    OBVIOUS
  <2> HIDE DEF wt, t, w
  <2>10. \A u \in Thread \ {t}, i \in Obj :
           isWaitingFor(k2, u, "EVENTFLAG", i) => isWaitingFor(k, u, "EVENTFLAG", i)
    BY <2>8 DEF isWaitingFor
  <2>11. \A i \in Obj \ {f} : ~isWaitingFor(k2, t, "EVENTFLAG", i)
    BY <2>8, <2>9 DEF isWaitingFor
  <2>12. \A u \in Thread \ {t} : isWaitingFor(k2, u, "EVENTFLAG", f) => Holds(Names(o), u)
    <3>1. FlagListed(k, f, w)
      BY <1>1 DEF FlagFits, w
    <3> QED BY <1>5, <2>10, <3>1 DEF FlagListed
  <2>13. FlagListed(k2, f, s)
    BY <2>4, <2>12 DEF FlagListed
  <2>14. FlagUnmet(k2, f, q.pattern, s)
    <3> SUFFICES ASSUME NEW i \in 1..Len(s), isWaitingFor(k2, s[i].thread, "EVENTFLAG", f),
                        KernelCheckEventFlagMatches(q.pattern, s[i].ask)
                 PROVE  FALSE
      BY DEF FlagUnmet, FlagHeld
    <3>1. CASE i = Len(s)
      BY <1>4, <1>8, <2>4, <2>5, <3>1
    <3>2. CASE i # Len(s)
      <4>1. i \in 1..Len(o) /\ s[i] = o[i]
        BY <1>5, <2>4, <3>2
      <4>2. PICK j \in 1..Len(w) : o[i] = w[j]
        BY <1>5, <4>1
      <4>3. Holds(Names(o), o[i].thread) /\ o[i].thread \in Thread
        BY <1>5, <4>1, NamesList DEF Holds
      <4>4. isWaitingFor(k, w[j].thread, "EVENTFLAG", f)
        BY <1>5, <2>10, <4>1, <4>2, <4>3
      <4>5. ~KernelCheckEventFlagMatches(flag[f].pattern, w[j].ask)
        BY <1>1, <4>4 DEF FlagFits, FlagUnmet, FlagHeld, w
      <4> QED BY <2>5, <4>1, <4>2, <4>5
    <3> QED BY <3>1, <3>2
  <2>15. FlagAlone(k2, f, q.multiple)
    <3>1. ASSUME ~flag[f].multiple, NEW u \in Thread, isWaitingFor(k2, u, "EVENTFLAG", f)
          PROVE  u = t
      <4>1. o = <<>>
        BY <1>8, <3>1
      <4>2. ~Holds(Names(o), u)
        BY <4>1 DEF Holds, Names
      <4> QED BY <2>12, <3>1, <4>2
    <3> QED BY <2>5, <3>1 DEF FlagAlone
  <2>16. FlagFits(k2, f, q)
    BY <1>2, <2>4, <2>5, <2>13, <2>14, <2>15 DEF FlagFits, FlagAlive
  <2>17. ASSUME NEW i \in Obj \ {f} PROVE FlagFits(k2, i, f2[i])
    <3>1. FlagFits(k, i, flag[i]) /\ f2[i] = flag[i] /\ flag[i] \in EventFlag
      BY <1>1, <2>7 DEF FlagRight
    <3>2. \A u \in Thread : isWaitingFor(k2, u, "EVENTFLAG", i) =>
                              isWaitingFor(k, u, "EVENTFLAG", i)
      BY <2>10, <2>11
    <3> QED BY <3>1, <3>2, FlagFitsFewer
  <2>18. ASSUME NEW u \in Thread, Waits(k2, u), k2.wait[u].type = "EVENTFLAG",
                k2.wait[u].timed
         PROVE  k2.timer["EVENTFLAG"][u] > 0
    <3>1. CASE u = t
      BY <2>8, <2>18, <3>1
    <3>2. CASE u # t
      BY <1>1, <2>8, <2>18, <3>2 DEF Waits, FlagRight
    <3> QED BY <3>1, <3>2
  <2>19. FlagRight(k2, f2)
    BY <2>7, <2>16, <2>17, <2>18 DEF FlagRight
  <2> QED BY <2>1, <2>2, <2>6, <2>19 DEF FlagSound
<1> QED BY <1>6, <1>7, <1>8

\* The entries that are left after a cleanup.
LEMMA CleanupEntriesHold ==
  ASSUME NEW kk, NEW f, NEW w \in Seq(Entry), Distinct(Names(w))
  PROVE  LET s == CleanupEntries(kk, f, w)
         IN  /\ s \in Seq(Entry) /\ Distinct(Names(s))
             /\ \A i \in 1..Len(w) : VerifyWait(kk, w[i].thread, "EVENTFLAG", f) =>
                                       Holds(Names(s), w[i].thread)
             /\ \A i \in 1..Len(s) : \E j \in 1..Len(w) : s[i] = w[j]
<1> DEFINE order == CleanupOrder(kk, "EVENTFLAG", f, Names(w))
           m == Len(order)
           s == [n \in 1..m |-> w[order[n]]]
           r == Picked(Names(w), order, m)
<1>1. s = CleanupEntries(kk, f, w)
  BY DEF CleanupEntries, Names
<1>2. /\ Names(w) \in Seq(Thread) /\ Len(Names(w)) = Len(w) /\ Len(w) \in Nat
      /\ \A i \in 1..Len(w) : w[i] \in Entry /\ Names(w)[i] = w[i].thread
  BY NamesList
<1>3. /\ order \in Seq(1..Len(w)) /\ Distinct(order)
      /\ \A v \in 1..Len(w) : VerifyWait(kk, Names(w)[v], "EVENTFLAG", f) => Holds(order, v)
  BY <1>2, CleanupOrderHolds
<1> HIDE DEF order
<1>4. /\ m \in Nat /\ order \in [1..m -> 1..Len(w)]
      /\ \A i, j \in 1..m : order[i] = order[j] => i = j
  BY <1>3 DEF Distinct
<1> HIDE DEF m
<1>5. /\ r \in Seq(Thread) /\ Distinct(r)
      /\ \A i \in 1..Len(w) : Holds(order, i) => Holds(r, Names(w)[i])
  BY <1>2, <1>4, ReorderHolds
<1>6. /\ s \in Seq(Entry) /\ Len(s) = m
      /\ \A i \in 1..m : s[i] = w[order[i]] /\ order[i] \in 1..Len(w)
  <2>1. s \in [1..m -> Entry]
    BY <1>2, <1>4
  <2>2. s \in Seq(Entry) /\ Len(s) = m
    BY <1>4, <2>1, FunctionIsSeq
  <2> QED BY <1>4, <2>2
<1> HIDE DEF s
<1>7. r = Names(s)
  <2>1. \A i \in 1..m : s[i].thread = Names(w)[order[i]]
    BY <1>2, <1>6
  <2>2. r = [i \in 1..m |-> Names(w)[order[i]]]
    BY DEF Picked
  <2>3. Names(s) = [i \in 1..m |-> s[i].thread]
    BY <1>6 DEF Names
  <2> QED BY <2>1, <2>2, <2>3
<1>8. \A i \in 1..Len(s) : \E j \in 1..Len(w) : s[i] = w[j]
  BY <1>6
<1> HIDE DEF r
<1>9. ASSUME NEW i \in 1..Len(w), VerifyWait(kk, w[i].thread, "EVENTFLAG", f)
      PROVE  Holds(Names(s), w[i].thread)
  <2>1. Names(w)[i] = w[i].thread
    BY <1>2
  <2>2. Holds(order, i)
    BY <1>3, <1>9, <2>1
  <2> QED BY <1>5, <1>7, <2>1, <2>2
<1> QED BY <1>1, <1>5, <1>6, <1>7, <1>8, <1>9

LEMMA ReferFlagStep ==
  ASSUME FlagSound(k, flag), NEW f \in Obj, sceKernelReferEventFlagStatus(f)
  PROVE  FlagSound(k', flag')
<1> DEFINE w == flag[f].waiting
           s == CleanupEntries(k, f, w)
<1>1. w \in Seq(Entry) /\ FlagFits(k, f, flag[f]) /\ EndShapes(k)
  BY FlagFacts
<1>2. k' = k /\ flag' = [flag EXCEPT ![f].waiting = s]
  BY DEF sceKernelReferEventFlagStatus
<1>3. /\ s \in Seq(Entry) /\ Distinct(Names(s))
      /\ \A i \in 1..Len(w) : VerifyWait(k, w[i].thread, "EVENTFLAG", f) =>
                                Holds(Names(s), w[i].thread)
      /\ \A i \in 1..Len(s) : \E j \in 1..Len(w) : s[i] = w[j]
  <2>1. w \in Seq(Entry) /\ Distinct(Names(w))
    BY <1>1 DEF FlagFits
  <2> HIDE DEF w
  <2> QED BY <2>1, CleanupEntriesHold
<1> HIDE DEF s
<1>4. FlagListed(k, f, s)
  <2> SUFFICES ASSUME NEW u \in Thread, isWaitingFor(k, u, "EVENTFLAG", f)
               PROVE  Holds(Names(s), u)
    BY DEF FlagListed
  <2>1. PICK i \in 1..Len(w) : w[i].thread = u
    <3>1. Holds(Names(w), u)
      BY <1>1 DEF FlagFits, FlagListed
    <3> QED BY <1>1, <3>1, NamesList DEF Holds
  <2>2. VerifyWait(k, u, "EVENTFLAG", f)
    BY <1>1 DEF isWaitingFor, VerifyWait, KernelGetWaitID, Exists, EndShapes, Gone
  <2> QED BY <1>3, <2>1, <2>2
<1> QED BY <1>2, <1>3, <1>4, FlagWaitingFits

LEMMA FlagMovedOn ==
  ASSUME FlagSound(k, flag), NEW k2, Sound(k2), SameWaits(k, k2, "EVENTFLAG")
  PROVE  FlagSound(k2, flag)
BY FlagKept DEF FlagSound

\* A timer that fires finds the wait it belongs to, or one that has ended.
LEMMA FlagTimeoutStep ==
  ASSUME FlagSound(k, flag), NEW t \in User, KernelEventFlagTimeout(t)
  PROVE  FlagSound(k', flag')
<1> DEFINE fired == PopEvent(k, "EVENTFLAG", t)
           f == KernelGetWaitID(fired, t, "EVENTFLAG")
           w == IF f \in Obj THEN flag[f].waiting ELSE <<>>
           mine == {i \in 1..Len(w) : w[i].thread = t}
           x == [BeginFlag EXCEPT !.k = fired]
           y == KernelUnlockEventFlagForThread(x, f, w[Min(mine)], "WAIT_TIMEOUT")
<1>1. /\ Sound(k) /\ FlagRight(k, flag) /\ EndShapes(k) /\ k \in Kernel /\ t \in Thread
      /\ "EVENTFLAG" \in ObjWait /\ flag \in [Obj -> EventFlag]
  BY SoundShapes, FlagType DEF FlagSound, FlagRight, Sound, KernelInv, Thread
<1>2. /\ k.timer["EVENTFLAG"][t] > 0 /\ flag' = flag
      /\ k' = IF mine # {} THEN y.k ELSE fired
  BY DEF KernelEventFlagTimeout
<1>3. /\ KernelInv(fired) /\ Calm(k, fired) /\ WaitInv(fired)
      /\ OneTimer(k, fired, "EVENTFLAG", t)
  BY <1>1, <1>2, ObjFired
<1>4. f \in Obj => f = fired.wait[t].id /\ fired.wait[t].type = "EVENTFLAG"
  BY UidAssumption DEF KernelGetWaitID
<1> HIDE DEF fired
<1>5. fired.st = k.st /\ fired.wait = k.wait /\ fired \in Kernel /\ EndShapes(fired)
  BY <1>3, SoundShapes DEF OneTimer, KernelInv
<1>6. CASE mine = {}
  <2>1. ~(Waits(k, t) /\ k.wait[t].type = "EVENTFLAG")
    <3> SUFFICES ASSUME Waits(k, t), k.wait[t].type = "EVENTFLAG" PROVE FALSE
      OBVIOUS
    <3>1. Exists(fired, t)
      BY <1>1, <1>5 DEF Exists, EndShapes, Gone, Waits
    <3>2. k.wait[t] \in Wait
      BY <1>1 DEF Kernel
    <3>3. f = k.wait[t].id /\ k.wait[t].id \in Obj
      BY <1>1, <1>5, <3>1, <3>2 DEF KernelGetWaitID, Wait
    <3>4. isWaitingFor(k, t, "EVENTFLAG", f)
      BY <3>3 DEF isWaitingFor, Waits
    <3> HIDE DEF f
    <3>5. f \in Obj /\ w = flag[f].waiting /\ w \in Seq(Entry)
      BY <1>1, <3>3 DEF EventFlag
    <3>6. Holds(Names(w), t)
      BY <1>1, <3>4, <3>5 DEF FlagRight, FlagFits, FlagListed
    <3> HIDE DEF w
    <3>7. \E i \in 1..Len(w) : w[i].thread = t
      BY <3>5, <3>6, NamesList DEF Holds
    <3> QED BY <1>6, <3>7
  <2>2. Sound(fired) /\ SameWaits(k, fired, "EVENTFLAG")
    BY <1>1, <1>2, <2>1, ObjStale DEF fired
  <2> QED BY <1>2, <1>6, <2>2, FlagMovedOn
<1>7. CASE mine # {}
  <2> DEFINE e == w[Min(mine)]
  <2>1. f \in Obj /\ w = flag[f].waiting
    BY <1>7
  <2>2. fired.wait[t].type = "EVENTFLAG" /\ VerifyWait(fired, t, "EVENTFLAG", f)
    BY <1>4, <2>1 DEF VerifyWait
  <2> HIDE DEF f
  <2>3. w \in Seq(Entry) /\ \A i \in 1..Len(w) : w[i] \in Entry
    BY <1>1, <2>1, NamesList DEF EventFlag
  <2> HIDE DEF w
  <2>4. Min(mine) \in mine
    <3> DEFINE M == mine
    <3>1. M \subseteq Nat /\ M # {}
      BY <1>7
    <3> HIDE DEF M
    <3>2. \E m \in M : \A j \in M : m <= j
      BY <3>1, LeastElement
    <3>3. Min(M) \in M
      BY <3>2 DEF Min
    <3> QED BY <3>3 DEF M
  <2>5. e \in Entry /\ e.thread = t
    BY <2>3, <2>4
  <2> HIDE DEF mine, e
  <2>6. x \in FlagLetting /\ x.k = fired
    BY <1>1, <1>5 DEF BeginFlag, FlagLetting
  <2> HIDE DEF x
  <2>7. y = KernelUnlockEventFlagForThread(x, f, e, "WAIT_TIMEOUT")
    BY DEF e
  <2> HIDE DEF y
  <2>8. "WAIT_TIMEOUT" \in Result /\ Unlocks(x, f, e, "WAIT_TIMEOUT")
    BY DEF Result, Unlocks
  <2>9. FlagServes(x, y, f) /\ ~isWaitingFor(y.k, t, "EVENTFLAG", f)
    BY <1>3, <1>5, <2>1, <2>5, <2>6, <2>7, <2>8, UnlockFlagOne
  <2>10. Freed(fired, y.k)
    BY <2>6, <2>9 DEF FlagServes
  <2>11. Sound(fired)
    BY <1>1, <1>3, CalmPhase DEF Sound, Calm
  <2>12. Sound(y.k) /\ Quiet(fired, y.k)
    BY <2>10, <2>11, FreedSound DEF Freed
  <2>13. SameWaits(k, y.k, "EVENTFLAG")
    <3>1. SameWaits(fired, y.k, "EVENTFLAG")
      BY <1>1, <2>12, QuietSameWaits
    <3>2. y.k.wait[t] = fired.wait[t] \/ ~Waits(y.k, t)
      BY <1>1, <2>12 DEF Quiet, Kept
    <3>3. ~(Waits(y.k, t) /\ y.k.wait[t].type = "EVENTFLAG")
      <4>1. fired.wait[t].id = f
        BY <1>4, <2>1
      <4> SUFFICES ASSUME Waits(y.k, t), y.k.wait[t].type = "EVENTFLAG" PROVE FALSE
        OBVIOUS
      <4>2. isWaitingFor(y.k, t, "EVENTFLAG", f)
        BY <3>2, <4>1 DEF isWaitingFor, Waits
      <4> QED BY <2>9, <4>2
    <3> SUFFICES ASSUME NEW u \in Thread, Waits(y.k, u), y.k.wait[u].type = "EVENTFLAG"
                 PROVE  /\ Waits(k, u) /\ y.k.wait[u] = k.wait[u]
                        /\ y.k.timer["EVENTFLAG"][u] = k.timer["EVENTFLAG"][u]
      BY DEF SameWaits
    <3>4. u # t
      BY <3>3
    <3>5. /\ Waits(fired, u) /\ y.k.wait[u] = fired.wait[u]
          /\ y.k.timer["EVENTFLAG"][u] = fired.timer["EVENTFLAG"][u]
      BY <3>1 DEF SameWaits
    <3>6. fired.timer["EVENTFLAG"][u] = k.timer["EVENTFLAG"][u]
      BY <1>3, <3>4, FlagType DEF OneTimer
    <3> QED BY <1>5, <3>5, <3>6 DEF Waits
  <2> QED BY <1>2, <1>7, <2>12, <2>13, FlagMovedOn
<1> QED BY <1>6, <1>7

\* A step of the thread manager alone.
LEMMA FlagManagerStep ==
  ASSUME Disciplined, FlagSound(k, flag), Next, UNCHANGED flag
  PROVE  FlagSound(k', flag')
<1>1. Inv /\ WaitInv(k)
  BY DEF FlagSound, Sound, Inv
<1>2. Good /\ Fine(k, k')
  BY <1>1, UndisturbedFine, ThreadEndFine DEF Next
<1>3. Sound(k') /\ SameWaits(k, k', "EVENTFLAG")
  BY <1>2, FineSameWaits, FlagType DEF Good, Fine, Sound
<1> QED BY <1>3, FlagMovedOn

LEMMA FlagInitSound ==
  ASSUME FlagInit
  PROVE  FlagSound(k, flag)
<1>1. Sound(k)
  BY InitInv, InitWaitInv DEF FlagInit, Inv, Sound
<1>2. PICK root \in User, p \in UserPrio : k = InitKernel(root, p)
  BY DEF FlagInit, Init
<1>3. \A t \in Thread : ~Waits(k, t)
  <2>1. /\ k.st = [t \in Thread |-> IF t = root THEN {"RUNNING"}
                                     ELSE IF t \in Idle THEN {"READY"} ELSE {"DEAD"}]
    BY <1>2 DEF InitKernel
  <2> QED BY <2>1 DEF Waits
<1>4. NoFlag \in EventFlag /\ NoFlag.waiting = <<>>
  BY DEF NoFlag, EventFlag
<1>5. flag \in [Obj -> EventFlag] /\ \A f \in Obj : flag[f] = NoFlag
  BY <1>4 DEF FlagInit
<1>6. \A f \in Obj : FlagFits(k, f, flag[f])
  BY <1>3, <1>4, <1>5, FlagEmptyFits DEF isWaitingFor, Waits
<1> QED BY <1>1, <1>3, <1>5, <1>6 DEF FlagSound, FlagRight

LEMMA FlagStep ==
  ASSUME Disciplined, FlagSound(k, flag), FlagNext
  PROVE  FlagSound(k', flag')
<1>1. CASE FlagCall
  <2>1. PICK f \in Obj :
          \/ \E multiple \in Multiples, pattern \in SUBSET Bits :
               sceKernelCreateEventFlag(f, multiple, pattern)
          \/ \E bits \in SUBSET Bits :
               \/ sceKernelCancelEventFlag(f, bits)
               \/ sceKernelClearEventFlag(f, bits)
               \/ sceKernelSetEventFlag(f, bits)
          \/ sceKernelDeleteEventFlag(f)
          \/ \E ask \in Asks :
               \/ sceKernelPollEventFlag(f, ask)
               \/ \E timed \in BOOLEAN : sceKernelWaitEventFlag(f, ask, timed)
          \/ sceKernelReferEventFlagStatus(f)
    BY <1>1 DEF FlagCall
  <2> QED BY <2>1, CreateFlagStep, CancelFlagStep, ClearFlagStep, SetFlagStep, DeleteFlagStep,
             PollFlagStep, WaitFlagStep, ReferFlagStep
<1>2. CASE \E t \in User : KernelEventFlagTimeout(t)
  BY <1>2, FlagTimeoutStep
<1>3. CASE Next /\ UNCHANGED flag
  BY <1>3, FlagManagerStep
<1> QED BY <1>1, <1>2, <1>3 DEF FlagNext

LEMMA FlagSoundHolds ==
  ASSUME Disciplined
  PROVE  FlagSpec => []FlagSound(k, flag)
<1>1. FlagInit => FlagSound(k, flag)
  BY FlagInitSound
<1>2. FlagSound(k, flag) /\ [FlagNext]_flagvars => FlagSound(k, flag)'
  <2> SUFFICES ASSUME FlagSound(k, flag), [FlagNext]_flagvars
               PROVE  FlagSound(k, flag)'
    OBVIOUS
  <2>1. FlagSound(k', flag')
    <3>1. CASE FlagNext
      BY <3>1, FlagStep
    <3>2. CASE UNCHANGED flagvars
      BY <3>2 DEF flagvars
    <3> QED BY <3>1, <3>2
  <2> QED BY <2>1
<1> QED BY <1>1, <1>2, PTL DEF FlagSpec

-----------------------------------------------------------------------------
\* A list of waiters in which no thread is twice: an entry is the only one of its thread.
LEMMA FlagEntryOnce ==
  ASSUME NEW w \in Seq(Entry), Distinct(Names(w)), NEW t, Holds(Names(w), t)
  PROVE  Cardinality({i \in 1..Len(w) : w[i].thread = t}) = 1
<1> DEFINE E == {i \in 1..Len(w) : w[i].thread = t}
<1>1. /\ Len(Names(w)) = Len(w)
      /\ \A i \in 1..Len(w) : Names(w)[i] = w[i].thread
  BY NamesList
<1>2. PICK i \in 1..Len(w) : Names(w)[i] = t
  BY <1>1 DEF Holds
<1>3. E = {i}
  BY <1>1, <1>2 DEF Distinct
<1> HIDE DEF E
<1>4. Cardinality(E) = 1
  BY <1>3, FS_Singleton
<1> QED BY <1>4 DEF E

LEMMA AtMostOne ==
  ASSUME NEW S, \A u, v \in S : u = v
  PROVE  Cardinality(S) <= 1
<1>1. CASE S = {}
  <2>1. Cardinality(S) = 0
    BY <1>1, FS_EmptySet
  <2> QED BY <2>1
<1>2. CASE S # {}
  <2>1. PICK u \in S : TRUE
    BY <1>2
  <2>2. S = {u}
    BY <2>1
  <2>3. Cardinality(S) = 1
    BY <2>2, FS_Singleton
  <2> QED BY <2>3
<1> QED BY <1>1, <1>2

\* Whatever is created, deleted, cancelled, set, cleared, polled, waited for or timed
\* out, and whatever the thread manager does meanwhile: a thread that waits for an event
\* flag has exactly one entry in the list of that flag, so that it is woken for the bits
\* of this wait; the flag exists; a flag that is not for several waiters has one at most;
\* and a timed wait still has the event that ends it.
THEOREM FlagInvHolds ==
  ASSUME Disciplined
  PROVE  FlagSpec => []FlagInv
<1>1. ASSUME FlagSound(k, flag) PROVE FlagInv
  <2>1. Inv /\ FlagRight(k, flag) /\ flag \in [Obj -> EventFlag]
    BY <1>1 DEF FlagSound, FlagRight, Sound, Inv
  <2>2. \A f \in Obj : flag[f] \in EventFlag /\ flag[f].waiting \in Seq(Entry)
                       /\ FlagFits(k, f, flag[f])
    BY <2>1 DEF FlagRight, EventFlag
  <2>3. FlagTypeOK
    <3> SUFFICES ASSUME NEW f \in Obj, NEW i \in 1..Len(flag[f].waiting),
                        NEW j \in 1..Len(flag[f].waiting),
                        flag[f].waiting[i].thread = flag[f].waiting[j].thread
                 PROVE  i = j
      BY <2>1 DEF FlagTypeOK
    <3> QED BY <2>2, NamesList DEF FlagFits, Distinct
  <2>4. WaitsWithOneEntry
    <3> SUFFICES ASSUME NEW t \in Thread, NEW f \in Obj, isWaitingFor(k, t, "EVENTFLAG", f)
                 PROVE  /\ flag[f].exists
                        /\ Cardinality({i \in 1..Len(flag[f].waiting) :
                                          flag[f].waiting[i].thread = t}) = 1
      BY DEF WaitsWithOneEntry
    <3>1. flag[f].exists
      BY <2>2 DEF FlagFits, FlagAlive
    <3>2. Holds(Names(flag[f].waiting), t) /\ Distinct(Names(flag[f].waiting))
      BY <2>2 DEF FlagFits, FlagListed
    <3> QED BY <2>2, <3>1, <3>2, FlagEntryOnce
  <2>5. OneWaiterUnlessMultiple
    <3> SUFFICES ASSUME NEW f \in Obj, ~flag[f].multiple
                 PROVE  Cardinality({t \in Thread : isWaitingFor(k, t, "EVENTFLAG", f)}) <= 1
      BY DEF OneWaiterUnlessMultiple
    <3> DEFINE S == {t \in Thread : isWaitingFor(k, t, "EVENTFLAG", f)}
    <3>1. \A u, v \in S : u = v
      BY <2>2 DEF FlagFits, FlagAlone
    <3> HIDE DEF S
    <3>2. Cardinality(S) <= 1
      BY <3>1, AtMostOne
    <3> QED BY <3>2 DEF S
  <2>6. TimedFlagWaitHasTimer
    BY <2>1 DEF TimedFlagWaitHasTimer, FlagRight, WaitsFor, Waits
  <2> QED BY <2>1, <2>3, <2>4, <2>5, <2>6 DEF FlagInv
<1> QED BY <1>1, FlagSoundHolds, PTL

\* Nobody waits for bits that are set, however many waiters one set lets go and whatever
\* they clear on the way.
THEOREM NoSatisfiedWaiterHolds ==
  ASSUME Disciplined
  PROVE  FlagSpec => []NoSatisfiedWaiter
<1>1. FlagSound(k, flag) => NoSatisfiedWaiter
  BY DEF FlagSound, FlagRight, FlagFits, FlagUnmet, FlagHeld, NoSatisfiedWaiter
<1> QED BY <1>1, FlagSoundHolds, PTL

-----------------------------------------------------------------------------
(* What a set hands out. *)

\* A waiter t of an object is let go with the result r: what this writes.
LEMMA LetGoTells ==
  ASSUME NEW kk, KernelInv(kk), EndShapes(kk), NEW y \in ObjWait, NEW t \in Thread,
         NEW r \in Result, kk.wait[t].type = y
  PROVE  LET k2 == KernelResumeThreadFromWait(StopWaitTimer(kk, y, t), t, r)
         IN  /\ k2.wait = kk.wait /\ k2.ret = [kk.ret EXCEPT ![t] = r]
             /\ \A u \in Thread \ {t} : k2.st[u] = kk.st[u]
             /\ "RUNNING" \notin k2.st[t] /\ ~Waits(k2, t)
<1> DEFINE k1 == StopWaitTimer(kk, y, t)
           k2 == KernelResumeThreadFromWait(k1, t, r)
<1>1. y \in TimerType /\ kk \in Kernel
  BY ObjTimers DEF KernelInv
<1>2. KernelInv(k1) /\ k1.st = kk.st /\ k1.wait = kk.wait /\ k1.ret = kk.ret
  <2>1. CASE kk.wait[t].timed
    <3>1. k1 = UnscheduleEvent(kk, y, t)
      BY <2>1 DEF StopWaitTimer
    <3>2. k1.ret = kk.ret
      BY <1>1, <3>1 DEF UnscheduleEvent, Kernel
    <3> HIDE DEF k1
    <3> QED BY <1>1, <3>1, <3>2, UnscheduleKept, UnscheduleInv DEF OneTimer
  <2>2. CASE ~kk.wait[t].timed
    BY <2>2 DEF StopWaitTimer
  <2> QED BY <2>1, <2>2
<1>3. k2.wait = kk.wait
  BY LetGoRecord
<1>4. Freed(kk, k2) /\ ~Waits(k2, t)
  BY LetGoFreed
<1> HIDE DEF k1
<1>5. EndShapes(k1) /\ "RUNNING" \notin k1.st[t]
  BY <1>2 DEF EndShapes, Gone, KernelInv, ThreadInv, StatusShape, ObjWait
<1>6. k2.ret = [kk.ret EXCEPT ![t] = r]
  BY <1>2, <1>5, ResumeThreadRecords
<1>7. \A u \in Thread \ {t} : k2.st[u] = kk.st[u]
  <2> DEFINE k3 == resumeFromWait(k1, t)
  <2>0. KernelInv(k1)
    BY <1>2
  <2>1. (\A u \in Thread \ {t} : k3.st[u] = k1.st[u]) /\ KernelInv(k3)
    BY <2>0, ResumeInv
  <2>2. k2 = [k3 EXCEPT !.ret[t] = r]
    BY DEF KernelResumeThreadFromWait
  <2> HIDE DEF k3, k2
  <2>3. k2.st = k3.st
    BY <2>1, <2>2 DEF KernelInv, Kernel
  <2> QED BY <1>2, <2>1, <2>3
<1> HIDE DEF k2
<1>8. "RUNNING" \notin k2.st[t]
  BY <1>3, <1>4 DEF Freed, KernelInv, ThreadInv, StatusShape, ObjWait
<1> QED BY <1>3, <1>4, <1>6, <1>7, <1>8 DEF k1, k2

LEMMA UnlockFlagTells ==
  ASSUME NEW f \in Obj, NEW x \in FlagLetting, KernelInv(x.k), EndShapes(x.k),
         NEW e \in Entry, NEW r \in Result, VerifyWait(x.k, e.thread, "EVENTFLAG", f),
         Unlocks(x, f, e, r)
  PROVE  LET y == KernelUnlockEventFlagForThread(x, f, e, r)
         IN  /\ y.k.wait = x.k.wait /\ y.k.ret = [x.k.ret EXCEPT ![e.thread] = r]
             /\ \A u \in Thread \ {e.thread} : y.k.st[u] = x.k.st[u]
             /\ "RUNNING" \notin y.k.st[e.thread] /\ ~Waits(y.k, e.thread)
             /\ y.f[f].pattern = IF r = "ok"
                                 THEN KernelApplyEventFlagMatch(x.f[f].pattern, e.ask)
                                 ELSE x.f[f].pattern
<1> DEFINE t == e.thread
           k2 == KernelResumeThreadFromWait(StopWaitTimer(x.k, "EVENTFLAG", t), t, r)
           p == IF r = "ok" THEN KernelApplyEventFlagMatch(x.f[f].pattern, e.ask)
                ELSE x.f[f].pattern
           y == KernelUnlockEventFlagForThread(x, f, e, r)
<1>1. y = [x EXCEPT !.f[f].pattern = p, !.k = k2, !.woke = TRUE]
  BY DEF KernelUnlockEventFlagForThread
<1>2. x.k.wait[t].type = "EVENTFLAG" /\ t \in Thread
  BY UidAssumption DEF VerifyWait, KernelGetWaitID, Entry
<1>3. /\ k2.wait = x.k.wait /\ k2.ret = [x.k.ret EXCEPT ![t] = r]
      /\ \A u \in Thread \ {t} : k2.st[u] = x.k.st[u]
      /\ "RUNNING" \notin k2.st[t] /\ ~Waits(k2, t)
  BY <1>2, LetGoTells, FlagType
<1> HIDE DEF k2, p, y
<1>4. y.k = k2 /\ y.f[f].pattern = p
  BY <1>1 DEF FlagLetting, EventFlag
<1> QED BY <1>3, <1>4 DEF p, y

\* Letting go changes the answers of those alone who do not wait any more.
Answers(x, y) ==
  \A u \in Thread :
    /\ "RUNNING" \in y.k.st[u] => "RUNNING" \in x.k.st[u]
    /\ "RUNNING" \in y.k.st[u] \/ Waits(y.k, u) => y.k.ret[u] = x.k.ret[u]

\* The wait of the entry e has been for the flag when x was, and is over in y.
LetGo(x, y, f, e) ==
  isWaitingFor(x.k, e.thread, "EVENTFLAG", f) /\ ~Waits(y.k, e.thread)

\* The pattern p has lost what the match of ask clears.
Spent(p, ask) == (ask.all => p = {}) /\ (ask.clear => p \cap ask.bits = {})

\* One of the bits of b is no bit that the match of a clears.
Apart(a, b) == ~b.or => ~a.all /\ (a.clear => a.bits \cap b.bits = {})

\* y is reached from x, whose list of waiters was w, after m entries of it: the other
\* entries are where they were, their threads and who waits elsewhere as they were;
\* whoever was let go had bits that are set in x, and what it clears is clear.
FlagOnce(x, y, f, w, m) ==
  /\ y.x.k.wait = x.k.wait
  /\ \A j \in (m + 1)..Len(w) : y.x.f[f].waiting[y.i + (j - m - 1)] = w[j]
  /\ \A u \in Thread : (\A i \in 1..m : w[i].thread # u) \/ ~VerifyWait(x.k, u, "EVENTFLAG", f) =>
       y.x.k.st[u] = x.k.st[u] /\ y.x.k.ret[u] = x.k.ret[u]
  /\ Answers(x, y.x)
  /\ \A i \in 1..m : LetGo(x, y.x, f, w[i]) =>
       /\ KernelCheckEventFlagMatches(x.f[f].pattern, w[i].ask)
       /\ Spent(y.x.f[f].pattern, w[i].ask)
       /\ \A j \in 1..m : i < j /\ LetGo(x, y.x, f, w[j]) => Apart(w[i].ask, w[j].ask)

\* What a match finds is not what an earlier one has cleared, and is spent by it.
LEMMA MatchApart ==
  ASSUME NEW p, NEW a \in Ask, NEW b \in Ask, Spent(p, a), KernelCheckEventFlagMatches(p, b)
  PROVE  Apart(a, b)
<1>1. /\ a.all \in BOOLEAN /\ a.clear \in BOOLEAN /\ b.or \in BOOLEAN
      /\ b.bits # {}
  BY DEF Ask
<1> SUFFICES ASSUME ~b.or PROVE ~a.all /\ (a.clear => a.bits \cap b.bits = {})
  BY DEF Apart
<1>2. b.bits \subseteq p
  BY DEF KernelCheckEventFlagMatches
<1>3. a.all => p = {}
  BY DEF Spent
<1>4. a.clear => p \cap a.bits = {}
  BY DEF Spent
<1>5. ~a.all
  BY <1>1, <1>2, <1>3
<1>6. a.clear => a.bits \cap b.bits = {}
  BY <1>2, <1>4
<1> QED BY <1>5, <1>6

LEMMA ApplySpends ==
  ASSUME NEW p, NEW a \in Ask
  PROVE  /\ Spent(KernelApplyEventFlagMatch(p, a), a)
         /\ \A b : Spent(p, b) => Spent(KernelApplyEventFlagMatch(p, a), b)
BY DEF Spent, KernelApplyEventFlagMatch, Ask

\* The next entry stays, or is stale: nobody is let go.
LEMMA FlagOnceKept ==
  ASSUME NEW x, NEW y, NEW f, NEW w, NEW m \in Nat, m < Len(w), Len(w) \in Nat,
         FlagOnce(x, y, f, w, m), NEW y2, y2.x.k = y.x.k,
         y2.x.f[f].pattern = y.x.f[f].pattern,
         \A j \in (m + 2)..Len(w) : y2.x.f[f].waiting[y2.i + (j - m - 2)] = w[j],
         ~LetGo(x, y.x, f, w[m + 1])
  PROVE  FlagOnce(x, y2, f, w, m + 1)
<1>1. \A j : LetGo(x, y2.x, f, w[j]) <=> LetGo(x, y.x, f, w[j])
  BY DEF LetGo
<1>2. Answers(x, y2.x)
  BY DEF Answers, FlagOnce
<1>3. \A j \in ((m + 1) + 1)..Len(w) : y2.x.f[f].waiting[y2.i + (j - (m + 1) - 1)] = w[j]
  <2> TAKE j \in ((m + 1) + 1)..Len(w)
  <2>1. j \in (m + 2)..Len(w) /\ j - (m + 1) - 1 = j - m - 2
    OBVIOUS
  <2> QED BY <2>1
<1>4. \A u \in Thread :
        (\A i \in 1..(m + 1) : w[i].thread # u) \/ ~VerifyWait(x.k, u, "EVENTFLAG", f) =>
          y2.x.k.st[u] = x.k.st[u] /\ y2.x.k.ret[u] = x.k.ret[u]
  <2>1. \A i \in 1..m : i \in 1..(m + 1)
    OBVIOUS
  <2> QED BY <2>1 DEF FlagOnce
<1>5. \A i \in 1..(m + 1) : i \in 1..m \/ i = m + 1
  OBVIOUS
<1>6. \A i \in 1..(m + 1) : LetGo(x, y2.x, f, w[i]) => i \in 1..m
  BY <1>1, <1>5
<1> QED BY <1>1, <1>2, <1>3, <1>4, <1>6 DEF FlagOnce

\* The next entry is let go.
LEMMA FlagOnceMore ==
  ASSUME NEW x, NEW y, NEW f, NEW w \in Seq(Entry), Distinct(Names(w)),
         NEW m \in Nat, m < Len(w), FlagOnce(x, y, f, w, m), NEW y2,
         y.x.f[f].pattern \subseteq x.f[f].pattern,
         KernelCheckEventFlagMatches(y.x.f[f].pattern, w[m + 1].ask),
         y2.x.f[f].pattern = KernelApplyEventFlagMatch(y.x.f[f].pattern, w[m + 1].ask),
         VerifyWait(x.k, w[m + 1].thread, "EVENTFLAG", f), y2.x.k.wait = y.x.k.wait,
         y.x.k.ret \in [Thread -> Result],
         y2.x.k.ret = [y.x.k.ret EXCEPT ![w[m + 1].thread] = "ok"],
         \A u \in Thread \ {w[m + 1].thread} : y2.x.k.st[u] = y.x.k.st[u],
         "RUNNING" \notin y2.x.k.st[w[m + 1].thread], ~Waits(y2.x.k, w[m + 1].thread),
         \A j \in (m + 2)..Len(w) : y2.x.f[f].waiting[y2.i + (j - m - 2)] = w[j]
  PROVE  FlagOnce(x, y2, f, w, m + 1)
<1> DEFINE e == w[m + 1]
           p == y.x.f[f].pattern
           p2 == y2.x.f[f].pattern
<1>1. /\ Len(w) \in Nat /\ \A i \in 1..Len(w) : w[i] \in Entry /\ w[i].thread \in Thread
      /\ \A i \in 1..Len(w) : Names(w)[i] = w[i].thread
      /\ Len(Names(w)) = Len(w)
  BY NamesList
<1>2. /\ m + 1 \in 1..Len(w) /\ m + 1 \in 1..(m + 1)
      /\ \A i \in 1..m : i \in 1..Len(w) /\ i \in 1..(m + 1) /\ i < m + 1 /\ i # m + 1
      /\ \A i \in 1..(m + 1) : i \in 1..m \/ i = m + 1
  BY <1>1
<1>3. \A i \in 1..m : w[i].thread # e.thread
  BY <1>1, <1>2 DEF Distinct
<1>4. \A i \in 1..m : LetGo(x, y2.x, f, w[i]) <=> LetGo(x, y.x, f, w[i])
  BY <1>1, <1>2, <1>3 DEF LetGo, Waits
<1>5. Answers(x, y2.x)
  <2> SUFFICES ASSUME NEW u \in Thread
               PROVE  /\ "RUNNING" \in y2.x.k.st[u] => "RUNNING" \in x.k.st[u]
                      /\ "RUNNING" \in y2.x.k.st[u] \/ Waits(y2.x.k, u) =>
                           y2.x.k.ret[u] = x.k.ret[u]
    BY DEF Answers
  <2>1. CASE u = e.thread
    BY <2>1
  <2>2. CASE u # e.thread
    <3>1. y2.x.k.st[u] = y.x.k.st[u] /\ y2.x.k.ret[u] = y.x.k.ret[u]
      BY <2>2
    <3> QED BY <3>1 DEF FlagOnce, Answers, Waits
  <2> QED BY <2>1, <2>2
<1>6. \A j \in ((m + 1) + 1)..Len(w) : y2.x.f[f].waiting[y2.i + (j - (m + 1) - 1)] = w[j]
  <2> TAKE j \in ((m + 1) + 1)..Len(w)
  <2>1. j \in (m + 2)..Len(w) /\ j - (m + 1) - 1 = j - m - 2
    BY <1>1
  <2> QED BY <2>1
<1>7. ASSUME NEW u \in Thread,
             (\A i \in 1..(m + 1) : w[i].thread # u) \/ ~VerifyWait(x.k, u, "EVENTFLAG", f)
      PROVE  y2.x.k.st[u] = x.k.st[u] /\ y2.x.k.ret[u] = x.k.ret[u]
  <2>1. /\ u # e.thread
        /\ (\A i \in 1..m : w[i].thread # u) \/ ~VerifyWait(x.k, u, "EVENTFLAG", f)
    BY <1>2, <1>7
  <2> QED BY <2>1 DEF FlagOnce
<1>8. e.ask \in Ask /\ \A i \in 1..m : w[i].ask \in Ask
  BY <1>1, <1>2 DEF Entry
<1>9. /\ Spent(p2, e.ask) /\ \A b : Spent(p, b) => Spent(p2, b)
      /\ KernelCheckEventFlagMatches(x.f[f].pattern, e.ask)
  <2>1. KernelCheckEventFlagMatches(x.f[f].pattern, e.ask)
    BY MatchShrinks
  <2> QED BY <1>8, <2>1, ApplySpends
<1>10. ASSUME NEW i \in 1..m, LetGo(x, y.x, f, w[i])
       PROVE  /\ KernelCheckEventFlagMatches(x.f[f].pattern, w[i].ask)
              /\ Spent(p2, w[i].ask) /\ Apart(w[i].ask, e.ask)
              /\ \A j \in 1..m : i < j /\ LetGo(x, y.x, f, w[j]) => Apart(w[i].ask, w[j].ask)
  <2>1. /\ KernelCheckEventFlagMatches(x.f[f].pattern, w[i].ask)
        /\ Spent(p, w[i].ask)
        /\ \A j \in 1..m : i < j /\ LetGo(x, y.x, f, w[j]) => Apart(w[i].ask, w[j].ask)
    BY <1>10 DEF FlagOnce
  <2>2. Apart(w[i].ask, e.ask)
    BY <1>8, <2>1, MatchApart
  <2> QED BY <1>9, <2>1, <2>2
<1>11. \A j \in 1..(m + 1) : ~(m + 1 < j)
  OBVIOUS
<1> HIDE DEF p, p2
<1>12. ASSUME NEW i \in 1..(m + 1), LetGo(x, y2.x, f, w[i])
       PROVE  /\ KernelCheckEventFlagMatches(x.f[f].pattern, w[i].ask)
              /\ Spent(p2, w[i].ask)
              /\ \A j \in 1..(m + 1) : i < j /\ LetGo(x, y2.x, f, w[j]) =>
                                         Apart(w[i].ask, w[j].ask)
  <2>1. CASE i = m + 1
    BY <1>9, <1>11, <2>1
  <2>2. CASE i \in 1..m
    <3>1. LetGo(x, y.x, f, w[i])
      BY <1>4, <1>12, <2>2
    <3> QED BY <1>2, <1>4, <1>10, <2>2, <3>1
  <2> QED BY <1>2, <2>1, <2>2
<1>13. y2.x.k.wait = x.k.wait
  BY DEF FlagOnce
<1> QED BY <1>5, <1>6, <1>7, <1>12, <1>13 DEF FlagOnce, p2

LEMMA FlagRoundOnce ==
  ASSUME NEW x, KernelInv(x.k), EndShapes(x.k), NEW f \in Obj, NEW y,
         NEW w \in Seq(Entry), Distinct(Names(w)), NEW m \in Nat, m < Len(w),
         FlagSetInv(x, y, f, Len(w) - m), FlagOnce(x, y, f, w, m)
  PROVE  FlagOnce(x, FlagRound(y, f), f, w, m + 1)
<1> DEFINE z == y.x
           i == y.i
           v == z.f[f].waiting
           e == w[m + 1]
           y2 == FlagRound(y, f)
<1>1. /\ z \in FlagLetting /\ KernelInv(z.k) /\ EndShapes(z.k) /\ FlagServes(x, z, f)
      /\ i \in Nat \ {0} /\ Len(v) - (i - 1) = Len(w) - m
  BY FreedShapes DEF FlagSetInv, FlagServes, Freed
<1>2. v \in Seq(Entry) /\ "ok" \in Result
  BY <1>1 DEF FlagLetting, EventFlag, Result
<1>3. Len(v) \in Nat /\ Len(w) \in Nat /\ \A j \in 1..Len(w) : w[j] \in Entry
  BY <1>2, NamesList
<1>4. m + 1 \in 1..Len(w) /\ m + 1 \in (m + 1)..Len(w) /\ i \in 1..Len(v)
  <2> HIDE DEF v, i
  <2> QED BY <1>1, <1>3
<1>5. v[i] = e
  <2>1. v[i + ((m + 1) - m - 1)] = e
    BY <1>4 DEF FlagOnce
  <2>2. i + ((m + 1) - m - 1) = i
    BY <1>1
  <2> HIDE DEF v, i, e
  <2> QED BY <2>1, <2>2
<1>6. \A j \in (m + 2)..Len(w) : v[(i + 1) + (j - m - 2)] = w[j]
  <2> TAKE j \in (m + 2)..Len(w)
  <2>0. i \in Nat /\ m \in Nat /\ Len(w) \in Nat /\ j \in Nat
    BY <1>1, <1>3
  <2>1. j \in (m + 1)..Len(w) /\ (i + 1) + (j - m - 2) = i + (j - m - 1)
    <3> HIDE DEF i
    <3> QED BY <2>0
  <2>2. v[i + (j - m - 1)] = w[j]
    BY <2>1 DEF FlagOnce
  <2> HIDE DEF v, i
  <2> QED BY <2>1, <2>2
<1>7. e \in Entry /\ e.thread \in Thread /\ \A j \in 1..m : w[j].thread # e.thread
  <2>1. \A j \in 1..Len(w) : Names(w)[j] = w[j].thread
    BY NamesList
  <2>2. Len(Names(w)) = Len(w)
    BY NamesList
  <2>3. \A j \in 1..m : j \in 1..Len(w) /\ j # m + 1
    BY <1>3, <1>4
  <2> QED BY <1>3, <1>4, <2>1, <2>2, <2>3 DEF Distinct, Entry
<1>8. z.k.st[e.thread] = x.k.st[e.thread] /\ z.k.wait[e.thread] = x.k.wait[e.thread]
  BY <1>7 DEF FlagOnce
<1>8a. VerifyWait(z.k, e.thread, "EVENTFLAG", f) => VerifyWait(x.k, e.thread, "EVENTFLAG", f)
  BY <1>8 DEF VerifyWait, KernelGetWaitID, Exists
<1>9. ~LetGo(x, z, f, e)
  BY <1>8 DEF LetGo, Waits, isWaitingFor
<1>10. CASE ~Unlocks(z, f, e, "ok")
  <2>1. y2 = [x |-> z, i |-> i + 1]
    BY <1>5, <1>10 DEF FlagRound
  <2> HIDE DEF y2
  <2>2. y2.x = z /\ y2.i = i + 1
    BY <2>1
  <2> HIDE DEF z, i, v, e
  <2>3. \A j \in (m + 2)..Len(w) : y2.x.f[f].waiting[y2.i + (j - m - 2)] = w[j]
    BY <1>6, <2>2 DEF v
  <2> QED BY <1>3, <1>9, <2>2, <2>3, FlagOnceKept DEF y2, z, e
<1>11. CASE Unlocks(z, f, e, "ok")
  <2> DEFINE u == KernelUnlockEventFlagForThread(z, f, e, "ok")
             d == DropAt(v, i)
             v2 == [u EXCEPT !.f[f].waiting = d]
  <2>1. u.f[f].waiting = v /\ u \in FlagLetting
    BY <1>1, <1>2, <1>7, UnlockFlagOne DEF FlagServes
  <2>2. y2 = [x |-> [u EXCEPT !.f[f].waiting =
                       SubSeq(@, 1, i - 1) \o SubSeq(@, i + 1, Len(@))], i |-> i]
    BY <1>5, <1>11 DEF FlagRound
  <2>3. /\ SubSeq(v, 1, i - 1) \o SubSeq(v, i + 1, Len(v)) = d /\ d \in Seq(Entry)
        /\ \A j \in 1..(Len(v) - 1) : d[j] = IF j < i THEN v[j] ELSE v[j + 1]
    BY <1>2, <1>4, EraseAt
  <2> HIDE DEF z, i, v, e, y2, u, d
  <2>4. y2 = [x |-> v2, i |-> i]
    BY <2>1, <2>2, <2>3
  <2>5. /\ v2.k = u.k /\ v2.f[f].waiting = d /\ v2.f[f].pattern = u.f[f].pattern
    <3> HIDE DEF v2
    <3>1. u \in FlagLetting /\ d \in Seq(Entry)
      BY <2>1, <2>3
    <3>2. LET y3 == [u EXCEPT !.f[f].waiting = d]
          IN  y3.k = u.k /\ y3.f[f].waiting = d /\ y3.f[f].pattern = u.f[f].pattern
      BY <3>1, FlagWaitingSet
    <3> QED BY <3>2 DEF v2
  <2> HIDE DEF v2
  <2>6. y2.x = v2 /\ y2.i = i
    BY <2>4
  <2>7. \A j \in (m + 2)..Len(w) : y2.x.f[f].waiting[y2.i + (j - m - 2)] = w[j]
    <3> TAKE j \in (m + 2)..Len(w)
    <3>1. /\ i + (j - m - 2) \in 1..(Len(v) - 1) /\ ~(i + (j - m - 2) < i)
          /\ (i + (j - m - 2)) + 1 = (i + 1) + (j - m - 2)
      BY <1>1, <1>3, <1>4
    <3>2. d[i + (j - m - 2)] = v[(i + 1) + (j - m - 2)]
      BY <2>3, <3>1
    <3> QED BY <1>6, <2>5, <2>6, <3>2
  <2>8. CASE VerifyWait(z.k, e.thread, "EVENTFLAG", f)
    <3>1. /\ u.k.wait = z.k.wait /\ u.k.ret = [z.k.ret EXCEPT ![e.thread] = "ok"]
          /\ \A t \in Thread \ {e.thread} : u.k.st[t] = z.k.st[t]
          /\ "RUNNING" \notin u.k.st[e.thread] /\ ~Waits(u.k, e.thread)
          /\ u.f[f].pattern = KernelApplyEventFlagMatch(z.f[f].pattern, e.ask)
      BY <1>1, <1>2, <1>7, <1>11, <2>8, UnlockFlagTells DEF u
    <3>2. KernelCheckEventFlagMatches(z.f[f].pattern, e.ask)
      BY <1>11, <2>8 DEF Unlocks
    <3>3. z.f[f].pattern \subseteq x.f[f].pattern /\ z.k.ret \in [Thread -> Result]
      BY <1>1 DEF FlagServes, FlagLetting, Kernel
    <3>4. y2.x.k = u.k /\ y2.x.f[f].pattern = u.f[f].pattern
      BY <2>5, <2>6
    <3>5. /\ y2.x.f[f].pattern = KernelApplyEventFlagMatch(z.f[f].pattern, e.ask)
          /\ y2.x.k.wait = z.k.wait /\ y2.x.k.ret = [z.k.ret EXCEPT ![e.thread] = "ok"]
          /\ \A t \in Thread \ {e.thread} : y2.x.k.st[t] = z.k.st[t]
          /\ "RUNNING" \notin y2.x.k.st[e.thread] /\ ~Waits(y2.x.k, e.thread)
      BY <3>1, <3>4
    <3> HIDE DEF u, d
    <3>5a. VerifyWait(x.k, e.thread, "EVENTFLAG", f)
      BY <1>8a, <2>8
    <3>6. FlagOnce(x, y2, f, w, m + 1)
      BY <2>7, <3>2, <3>3, <3>5, <3>5a, FlagOnceMore DEF z, e
    <3> QED BY <3>6 DEF y2
  <2>9. CASE ~VerifyWait(z.k, e.thread, "EVENTFLAG", f)
    <3>1. u = z
      BY <2>9 DEF KernelUnlockEventFlagForThread, u
    <3>2. y2.x.k = z.k /\ y2.x.f[f].pattern = z.f[f].pattern
      BY <2>5, <2>6, <3>1
    <3> QED BY <1>3, <1>9, <2>7, <3>2, FlagOnceKept DEF z, e, y2
  <2> QED BY <2>8, <2>9
<1> QED BY <1>10, <1>11

\* The whole loop.
LEMMA FlagSetOnce ==
  ASSUME NEW f \in Obj, NEW x \in FlagLetting, KernelInv(x.k), EndShapes(x.k),
         Distinct(Names(x.f[f].waiting)), FlagListed(x.k, f, x.f[f].waiting)
  PROVE  \E i : FlagOnce(x, [x |-> UnlockSatisfied(x, f), i |-> i], f,
                         x.f[f].waiting, Len(x.f[f].waiting))
<1> DEFINE w == x.f[f].waiting
           n == Len(w)
           start == [x |-> x, i |-> 1]
<1>1. w \in Seq(Entry) /\ n \in Nat
  BY NamesList DEF FlagLetting, EventFlag
<1>2. PICK after : FlagSetLoop(x, f, after)
  BY <1>1, FlagSetLoopExists
<1> DEFINE G == {m \in 0..n : /\ FlagSetInv(x, after[m], f, n - m)
                              /\ FlagOnce(x, after[m], f, w, m)}
<1>3. 0 \in G
  <2>1. start.x = x /\ start.i = 1
    OBVIOUS
  <2>2. after[0] = start
    BY <1>2 DEF FlagSetLoop
  <2>3. FlagServes(x, x, f)
    BY FlagServesSelf
  <2>4. n - (1 - 1) = n - 0 /\ 1..(1 - 1) = {} /\ 1..0 = {}
    BY <1>1
  <2>5. \A j \in (0 + 1)..n : 1 + (j - 0 - 1) = j
    BY <1>1
  <2> HIDE DEF start
  <2>6. FlagSetInv(x, start, f, n - 0)
    BY <2>1, <2>3, <2>4 DEF FlagSetInv
  <2>7. Answers(x, x)
    BY DEF Answers
  <2>8. FlagOnce(x, start, f, w, 0)
    BY <2>1, <2>4, <2>5, <2>7 DEF FlagOnce
  <2> HIDE DEF n, w
  <2> QED BY <1>1, <2>2, <2>6, <2>8
<1>4. ASSUME NEW m \in 1..n, m - 1 \in G PROVE m \in G
  <2> DEFINE left == n - (m - 1)
  <2>1. /\ left \in Nat \ {0} /\ left - 1 = n - m /\ m - 1 \in Nat /\ m - 1 < n
        /\ (m - 1) + 1 = m
    BY <1>1
  <2>2. /\ FlagSetInv(x, after[m - 1], f, left) /\ after[m] = FlagRound(after[m - 1], f)
        /\ FlagOnce(x, after[m - 1], f, w, m - 1)
    BY <1>2, <1>4 DEF FlagSetLoop
  <2>3. FlagOnce(x, after[m], f, w, (m - 1) + 1)
    <3> HIDE DEF w
    <3> QED BY <1>1, <2>1, <2>2, FlagRoundOnce DEF w
  <2> HIDE DEF left
  <2>4. FlagSetInv(x, after[m], f, left - 1)
    BY <2>1, <2>2, FlagRoundHolds
  <2>5. FlagSetInv(x, after[m], f, n - m) /\ FlagOnce(x, after[m], f, w, m)
    <3> HIDE DEF w, n
    <3> QED BY <2>1, <2>3, <2>4
  <2>6. m \in 0..n
    BY <1>1
  <2> HIDE DEF w, n
  <2> QED BY <2>5, <2>6
<1> HIDE DEF G
<1>5. \A m \in 0..n : m \in G
  <2>1. \A m \in 1..n : m - 1 \in G => m \in G
    BY <1>4
  <2> QED BY <1>1, <1>3, <2>1, SetInduction
<1> DEFINE e == after[n]
<1>6. FlagOnce(x, e, f, w, n)
  BY <1>1, <1>5 DEF G
<1>7. e.x = UnlockSatisfied(x, f)
  BY <1>2 DEF FlagSetLoop
<1> HIDE DEF e
<1>8. FlagOnce(x, [x |-> e.x, i |-> e.i], f, w, n)
  BY <1>6 DEF FlagOnce
<1> QED BY <1>7, <1>8

-----------------------------------------------------------------------------
(* No answer is waiting for who has not been let go. *)

\* Who runs, or waits for a flag, has not been told "ok".
Unanswered(kk) ==
  \A u \in Thread :
    "RUNNING" \in kk.st[u] \/ (Waits(kk, u) /\ kk.wait[u].type = "EVENTFLAG") =>
      kk.ret[u] # "ok"

\* Nor has the current thread while it may go on, and its record is clear.
AtEase(kk) ==
  kk.cur # NoThread /\ ~Leaving(kk) => kk.wait[kk.cur].type = "NONE" /\ kk.ret[kk.cur] # "ok"

Unspoken(kk) == Unanswered(kk) /\ AtEase(kk)

\* Nobody has begun to wait for a flag.
FlagWaitsOld(kk, k2) ==
  \A u \in Thread : Waits(k2, u) /\ k2.wait[u].type = "EVENTFLAG" =>
                      Waits(kk, u) /\ kk.wait[u].type = "EVENTFLAG"

\* A step that tells nobody "ok" who waits for a flag.
LEMMA UnspokenKept ==
  ASSUME NEW kk, KernelInv(kk), NEW k2, KernelInv(k2), Unspoken(kk), Told(kk, k2),
         Stays(kk, k2), FlagWaitsOld(kk, k2)
  PROVE  Unspoken(k2)
<1>1. ASSUME NEW u \in Thread, "RUNNING" \in k2.st[u] PROVE k2.ret[u] # "ok"
  <2>1. CASE "RUNNING" \in kk.st[u]
    <3>1. kk.wait[u].type = "NONE"
      BY <2>1 DEF KernelInv, ThreadInv, StatusShape
    <3>2. kk.ret[u] # "ok"
      BY <2>1 DEF Unspoken, Unanswered
    <3> QED BY <3>1, <3>2 DEF Told
  <2>2. CASE "RUNNING" \notin kk.st[u]
    BY <1>1, <2>2 DEF Told
  <2> QED BY <2>1, <2>2
<1>2. ASSUME NEW u \in Thread, Waits(k2, u), k2.wait[u].type = "EVENTFLAG"
      PROVE  k2.ret[u] # "ok"
  <2>1. Waits(kk, u) /\ kk.wait[u].type = "EVENTFLAG"
    BY <1>2 DEF FlagWaitsOld
  <2>2. kk.ret[u] # "ok"
    BY <2>1 DEF Unspoken, Unanswered
  <2> QED BY <2>1, <2>2 DEF Told
<1>3. ASSUME k2.cur # NoThread, ~Leaving(k2)
      PROVE  k2.wait[k2.cur].type = "NONE" /\ k2.ret[k2.cur] # "ok"
  <2>1. k2.cur \in Thread
    BY <1>3 DEF KernelInv, Kernel
  <2>2. CASE "RUNNING" \in k2.st[k2.cur]
    BY <1>1, <2>1, <2>2 DEF KernelInv, ThreadInv, StatusShape
  <2>3. CASE "RUNNING" \notin k2.st[k2.cur]
    <3>1. /\ k2.cur = kk.cur /\ ~Leaving(kk)
          /\ k2.wait[k2.cur].type \in {kk.wait[k2.cur].type, "NONE"}
      BY <1>3, <2>3 DEF Stays
    <3>2. kk.wait[k2.cur].type = "NONE" /\ kk.ret[k2.cur] # "ok"
      BY <1>3, <3>1 DEF Unspoken, AtEase
    <3> QED BY <2>1, <3>1, <3>2 DEF Told
  <2> QED BY <2>2, <2>3
<1> QED BY <1>1, <1>2, <1>3 DEF Unspoken, Unanswered, AtEase

\* A reschedule that is noted answers nobody.
LEMMA UnspokenPending ==
  ASSUME NEW kk \in Kernel, Unspoken(kk)
  PROVE  Unspoken(hleReSchedule(kk))
<1> DEFINE k2 == hleReSchedule(kk)
<1>1. /\ k2.st = kk.st /\ k2.wait = kk.wait /\ k2.ret = kk.ret /\ k2.cur = kk.cur
      /\ k2.disp = kk.disp /\ k2.frames = Append(kk.frames, NoObj)
  BY DEF hleReSchedule, Kernel
<1>2. k2.frames # <<>>
  <2>1. kk.frames \in Seq(Obj \cup {NoObj}) /\ NoObj \in Obj \cup {NoObj}
    BY DEF Kernel
  <2> HIDE DEF k2
  <2> QED BY <1>1, <2>1, AppendSome
<1> HIDE DEF k2
<1>3. Leaving(kk) => Leaving(k2)
  BY <1>1, <1>2 DEF Leaving
<1>4. Unspoken(k2)
  BY <1>1, <1>3 DEF Unspoken, Unanswered, AtEase, Waits
<1> QED BY <1>4 DEF k2

\* Nobody is served by a step that tells nobody "ok" who waits for a flag.
LEMMA ToldServesNone ==
  ASSUME FlagSound(k, flag), Unspoken(k), Told(k, k'), NEW f \in Obj
  PROVE  Served(f) = {}
<1> SUFFICES ASSUME NEW i \in Served(f) PROVE FALSE
  OBVIOUS
<1> DEFINE t == flag[f].waiting[i].thread
<1>1. /\ i \in 1..Len(flag[f].waiting) /\ isWaitingFor(k, t, "EVENTFLAG", f)
      /\ k'.ret[t] = "ok"
  BY DEF Served
<1>2. t \in Thread
  BY <1>1, FlagFacts, NamesList
<1> HIDE DEF t
<1>3. k.ret[t] # "ok" /\ k.wait[t].type = "EVENTFLAG"
  BY <1>1, <1>2 DEF Unspoken, Unanswered, isWaitingFor, Waits
<1> QED BY <1>1, <1>2, <1>3 DEF Told

-----------------------------------------------------------------------------
(* Letting go with an error. *)

LEMMA UnlockFlagSays ==
  ASSUME NEW f \in Obj, NEW x \in FlagLetting, NEW e \in Entry, NEW r \in Result \ {"ok"}
  PROVE  LET y == KernelUnlockEventFlagForThread(x, f, e, r)
         IN  Says(x.k, y.k) /\ Beside(x.k, y.k)
<1> DEFINE t == e.thread
           k1 == StopWaitTimer(x.k, "EVENTFLAG", t)
           k2 == KernelResumeThreadFromWait(k1, t, r)
           p == IF r = "ok" THEN KernelApplyEventFlagMatch(x.f[f].pattern, e.ask)
                ELSE x.f[f].pattern
           y == KernelUnlockEventFlagForThread(x, f, e, r)
<1>1. y = x \/ y = [x EXCEPT !.f[f].pattern = p, !.k = k2, !.woke = TRUE]
  BY DEF KernelUnlockEventFlagForThread
<1>2. Bare(x.k) /\ t \in Thread
  BY BareKernel DEF FlagLetting, Entry
<1>3. Says(x.k, k1) /\ Beside(x.k, k1)
  BY <1>2, EventSays, EventBeside
<1> HIDE DEF k1, t
<1>4. Bare(k1)
  BY <1>3 DEF Beside
<1>5. Says(k1, k2) /\ Beside(k1, k2)
  BY <1>2, <1>4, ResumeThreadSays, ResumeBeside
<1> HIDE DEF k2, p, y
<1>6. Says(x.k, k2) /\ Beside(x.k, k2)
  BY <1>3, <1>5, SaysTransitive, BesideTransitive
<1>7. Says(x.k, x.k) /\ Beside(x.k, x.k)
  BY <1>2, SaysSame DEF Beside
<1>8. y.k = x.k \/ y.k = k2
  BY <1>1 DEF FlagLetting
<1> QED BY <1>6, <1>7, <1>8 DEF y

\* The whole list is.
LEMMA FlagClearSays ==
  ASSUME NEW f \in Obj, NEW x \in FlagLetting, KernelInv(x.k), EndShapes(x.k),
         NEW r \in Result \ {"ok"}
  PROVE  LET y == KernelClearEventFlagThreads(x, f, r)
         IN  Says(x.k, y.k) /\ Beside(x.k, y.k)
<1> DEFINE w == x.f[f].waiting
           n == Len(w)
           y == KernelClearEventFlagThreads(x, f, r)
<1>1. /\ w \in Seq(Entry) /\ n \in Nat /\ \A i \in 1..n : w[i] \in Entry
  BY NamesList DEF FlagLetting, EventFlag
<1>2. PICK after : FlagClearLoop(x, f, r, after)
  BY <1>1, FlagClearLoopExists
<1>3. /\ after[0] = x /\ y = [after[n] EXCEPT !.f[f].waiting = <<>>]
      /\ \A i \in 1..n : after[i] = KernelUnlockEventFlagForThread(after[i - 1], f, w[i], r)
  BY <1>2 DEF FlagClearLoop
<1> HIDE DEF w, n, y
<1> DEFINE Done(z) == FlagServes(x, z, f) /\ Says(x.k, z.k) /\ Beside(x.k, z.k)
           G == {m \in 0..n : Done(after[m])}
<1>4. 0 \in G
  <2>1. FlagServes(x, x, f)
    BY FlagServesSelf
  <2>2. Bare(x.k)
    BY BareKernel DEF FlagLetting
  <2>3. Says(x.k, x.k) /\ Beside(x.k, x.k)
    BY <2>2, SaysSame DEF Beside
  <2> QED BY <1>1, <1>3, <2>1, <2>3
<1>5. ASSUME NEW m \in 1..n, m - 1 \in G PROVE m \in G
  <2> DEFINE z == after[m - 1]
             z2 == KernelUnlockEventFlagForThread(z, f, w[m], r)
  <2>1. Done(z) /\ after[m] = z2 /\ w[m] \in Entry
    BY <1>1, <1>3, <1>5
  <2> HIDE DEF z
  <2>2. KernelInv(z.k) /\ EndShapes(z.k) /\ z \in FlagLetting
    BY <2>1, FreedShapes DEF FlagServes, Freed
  <2>3. FlagServes(z, z2, f)
    BY <2>1, <2>2, UnlockFlagOne DEF Unlocks
  <2>4. Says(z.k, z2.k) /\ Beside(z.k, z2.k)
    BY <2>1, <2>2, UnlockFlagSays
  <2> HIDE DEF z2
  <2>5. FlagServes(x, z2, f)
    BY <2>1, <2>3, FlagServesTransitive
  <2>6. Says(x.k, z2.k) /\ Beside(x.k, z2.k)
    BY <2>1, <2>4, SaysTransitive, BesideTransitive
  <2> QED BY <2>1, <2>5, <2>6
<1> HIDE DEF G
<1>6. \A m \in 0..n : m \in G
  <2>1. \A m \in 1..n : m - 1 \in G => m \in G
    BY <1>5
  <2> QED BY <1>1, <1>4, <2>1, SetInduction
<1>7. Done(after[n])
  BY <1>1, <1>6 DEF G
<1> DEFINE z == after[n]
<1>8. y = [z EXCEPT !.f[f].waiting = <<>>]
  BY <1>3
<1> HIDE DEF z
<1>9. z \in FlagLetting /\ <<>> \in Seq(Entry)
  BY <1>7 DEF FlagServes, z
<1>10. y.k = z.k
  BY <1>8, <1>9, FlagWaitingSet
<1> QED BY <1>7, <1>10 DEF y, z

-----------------------------------------------------------------------------
(* Every step but a set tells nobody "ok" who waits for a flag. *)

\* The end of a call, with the state k1 before the reschedule it may have noted.
LEMMA FlagEndTells ==
  ASSUME FlagSound(k, flag), Unspoken(k), NEW k1, Says(k, k1), Beside(k, k1), Freed(k, k1),
         k' = k1 \/ k' = hleReSchedule(k1)
  PROVE  Told(k, k') /\ Unspoken(k')
<1>1. KernelInv(k) /\ KernelInv(k1) /\ k1 \in Kernel
  BY DEF FlagSound, Sound, Inv, Freed, KernelInv
<1>2. FlagWaitsOld(k, k1)
  BY DEF Freed, Quiet, Kept, FlagWaitsOld
<1>3. Told(k, k1) /\ Stays(k, k1)
  BY SaysTold, BesideStays
<1>4. Unspoken(k1)
  BY <1>1, <1>2, <1>3, UnspokenKept
<1>5. Unspoken(hleReSchedule(k1))
  BY <1>1, <1>4, UnspokenPending
<1>6. Told(k, hleReSchedule(k1))
  BY SaysPending, SaysTold
<1> QED BY <1>3, <1>4, <1>5, <1>6

LEMMA FlagErrorTells ==
  ASSUME FlagSound(k, flag), Unspoken(k), NEW f \in Obj,
         \/ \E pattern \in SUBSET Bits : sceKernelCancelEventFlag(f, pattern)
         \/ sceKernelDeleteEventFlag(f)
  PROVE  Told(k, k') /\ Unspoken(k')
<1>1. /\ KernelInv(k) /\ EndShapes(k) /\ FlagFits(k, f, flag[f])
      /\ BeginFlag \in FlagLetting /\ BeginFlag.k = k /\ BeginFlag.f = flag
  BY FlagFacts
<1>2. ASSUME NEW x \in FlagLetting, x.k = k, x.f[f].waiting = flag[f].waiting,
             NEW r \in Result \ {"ok"},
             LET y == KernelClearEventFlagThreads(x, f, r)
             IN  k' = y.k \/ k' = hleReSchedule(y.k)
      PROVE  Told(k, k') /\ Unspoken(k')
  <2> DEFINE y == KernelClearEventFlagThreads(x, f, r)
  <2>1. Says(k, y.k) /\ Beside(k, y.k)
    BY <1>1, <1>2, FlagClearSays
  <2>2. Freed(k, y.k)
    BY <1>1, <1>2, FlagClearServes DEF FlagFits, FlagServes
  <2> HIDE DEF y
  <2> QED BY <1>2, <2>1, <2>2, FlagEndTells DEF y
<1>3. ASSUME NEW pattern \in SUBSET Bits, sceKernelCancelEventFlag(f, pattern)
      PROVE  Told(k, k') /\ Unspoken(k')
  <2> DEFINE x == [BeginFlag EXCEPT !.f[f].pattern = pattern]
             y == KernelClearEventFlagThreads(x, f, "WAIT_CANCEL")
  <2>1. x \in FlagLetting /\ x.k = k /\ x.f[f].waiting = flag[f].waiting
    BY FlagBegun
  <2>2. k' = y.k \/ k' = hleReSchedule(y.k)
    BY <1>3 DEF sceKernelCancelEventFlag, StoreFlag
  <2> HIDE DEF x
  <2>3. "WAIT_CANCEL" \in Result \ {"ok"}
    BY DEF Result
  <2> QED BY <1>2, <2>1, <2>2, <2>3
<1>4. CASE sceKernelDeleteEventFlag(f)
  <2> DEFINE y == KernelClearEventFlagThreads(BeginFlag, f, "WAIT_DELETE")
             z == [y EXCEPT !.f[f] = NoFlag]
  <2>1. "WAIT_DELETE" \in Result \ {"ok"}
    BY DEF Result
  <2>2. k' = z.k \/ k' = hleReSchedule(z.k)
    BY <1>4 DEF sceKernelDeleteEventFlag, StoreFlag
  <2>3. y \in FlagLetting
    BY <1>1, <2>1, FlagClearServes DEF FlagFits, FlagServes
  <2>4. z.k = y.k
    <3> HIDE DEF y
    <3> QED BY <2>3 DEF FlagLetting
  <2> HIDE DEF z
  <2> QED BY <1>1, <1>2, <2>1, <2>2, <2>4
<1> QED BY <1>3, <1>4

LEMMA FlagTimeoutTells ==
  ASSUME FlagSound(k, flag), Unspoken(k), NEW t \in User, KernelEventFlagTimeout(t)
  PROVE  Told(k, k') /\ Unspoken(k')
<1> DEFINE fired == PopEvent(k, "EVENTFLAG", t)
           f == KernelGetWaitID(fired, t, "EVENTFLAG")
           w == IF f \in Obj THEN flag[f].waiting ELSE <<>>
           mine == {i \in 1..Len(w) : w[i].thread = t}
           x == [BeginFlag EXCEPT !.k = fired]
           y == KernelUnlockEventFlagForThread(x, f, w[Min(mine)], "WAIT_TIMEOUT")
<1>1. /\ Sound(k) /\ FlagRight(k, flag) /\ EndShapes(k) /\ k \in Kernel /\ t \in Thread
      /\ "EVENTFLAG" \in ObjWait /\ flag \in [Obj -> EventFlag] /\ KernelInv(k) /\ Bare(k)
  BY SoundShapes, FlagType, BareKernel DEF FlagSound, FlagRight, Sound, Inv, KernelInv, Thread
<1>2. /\ k.timer["EVENTFLAG"][t] > 0
      /\ k' = IF mine # {} THEN y.k ELSE fired
  BY DEF KernelEventFlagTimeout
<1>3. /\ KernelInv(fired) /\ Calm(k, fired) /\ WaitInv(fired)
      /\ OneTimer(k, fired, "EVENTFLAG", t)
  BY <1>1, <1>2, ObjFired
<1>4. Says(k, fired) /\ Beside(k, fired)
  BY <1>1, EventSays, EventBeside
<1> HIDE DEF fired
<1>5. fired.st = k.st /\ fired.wait = k.wait /\ fired \in Kernel /\ EndShapes(fired)
  BY <1>3, SoundShapes DEF OneTimer, KernelInv
<1>6. ASSUME Says(k, k'), Beside(k, k'), KernelInv(k'),
             \A u \in Thread : Waits(k', u) => Waits(k, u)
      PROVE  Told(k, k') /\ Unspoken(k')
  <2>1. Told(k, k') /\ Stays(k, k')
    BY <1>6, SaysTold, BesideStays
  <2>2. FlagWaitsOld(k, k')
    BY <1>6 DEF FlagWaitsOld, Beside
  <2> QED BY <1>1, <1>6, <2>1, <2>2, UnspokenKept
<1>7. CASE mine = {}
  BY <1>2, <1>3, <1>4, <1>5, <1>6, <1>7 DEF Waits
<1>8. CASE mine # {}
  <2> DEFINE e == w[Min(mine)]
  <2>1. f \in Obj /\ w = flag[f].waiting
    BY <1>8
  <2> HIDE DEF f
  <2>2. w \in Seq(Entry) /\ \A i \in 1..Len(w) : w[i] \in Entry
    BY <1>1, <2>1, NamesList DEF EventFlag
  <2> HIDE DEF w
  <2>3. Min(mine) \in mine
    <3> DEFINE M == mine
    <3>1. M \subseteq Nat /\ M # {}
      BY <1>8
    <3> HIDE DEF M
    <3>2. \E m \in M : \A j \in M : m <= j
      BY <3>1, LeastElement
    <3>3. Min(M) \in M
      BY <3>2 DEF Min
    <3> QED BY <3>3 DEF M
  <2>4. e \in Entry
    BY <2>2, <2>3
  <2> HIDE DEF mine, e
  <2>5. x \in FlagLetting /\ x.k = fired
    BY <1>1, <1>5 DEF BeginFlag, FlagLetting
  <2> HIDE DEF x
  <2>6. y = KernelUnlockEventFlagForThread(x, f, e, "WAIT_TIMEOUT")
    BY DEF e
  <2> HIDE DEF y
  <2>7. "WAIT_TIMEOUT" \in Result \ {"ok"}
    BY DEF Result
  <2>8. Says(fired, y.k) /\ Beside(fired, y.k)
    BY <2>1, <2>4, <2>5, <2>6, <2>7, UnlockFlagSays
  <2>9. Freed(fired, y.k)
    BY <1>3, <1>5, <2>1, <2>4, <2>5, <2>6, <2>7, UnlockFlagOne DEF FlagServes
  <2>10. Says(k, y.k) /\ Beside(k, y.k)
    BY <1>4, <2>8, SaysTransitive, BesideTransitive
  <2>11. KernelInv(y.k) /\ \A u \in Thread : Waits(y.k, u) => Waits(k, u)
    BY <1>5, <2>9 DEF Freed, Quiet, Kept, Waits
  <2> QED BY <1>2, <1>6, <1>8, <2>10, <2>11
<1> QED BY <1>7, <1>8

LEMMA FlagWaitTells ==
  ASSUME FlagSound(k, flag), FlagSound(k', flag'), Unspoken(k), NEW f \in Obj,
         NEW ask \in Asks, NEW timed \in BOOLEAN, sceKernelWaitEventFlag(f, ask, timed)
  PROVE  Told(k, k') /\ Unspoken(k')
<1> DEFINE t == k.cur
           wt == [type |-> "EVENTFLAG", id |-> f, value |-> 0, timed |-> timed]
           armed == SetWaitTimer(k, "EVENTFLAG", timed)
           k2 == KernelWaitCurThread(armed, "EVENTFLAG", f, 0, timed)
<1>1. /\ Inv /\ Sound(k) /\ KernelInv(k) /\ KernelInv(k') /\ k \in Kernel /\ Bare(k)
      /\ k.frames \in Seq(Obj \cup {NoObj})
  BY BareKernel DEF FlagSound, Sound, Inv, KernelInv, Kernel
<1>2. Calls("WaitEventFlag") /\ k.disp /\ k.frames = <<>>
  BY DEF sceKernelWaitEventFlag, Calls
<1>3. /\ t \in User /\ t \in Thread /\ k.st[t] \in {{"RUNNING"}, {"READY"}}
  BY <1>1, <1>2, InCall
<1>4. CASE k' = k
  BY <1>4 DEF Told
<1>5. CASE k' = k2
  <2>1. BeginsWait(k, k2, "EVENTFLAG", wt)
    BY <1>1, <1>2, <1>3, ObjAsleep, FlagType
  <2>2. Says(k, armed) /\ Beside(k, armed)
    <3>1. Says(k, k) /\ Beside(k, k)
      BY <1>1, SaysSame DEF Beside
    <3> QED BY <1>1, <3>1, EventSays, EventBeside DEF SetWaitTimer
  <2> HIDE DEF armed
  <2>3. Bare(armed) /\ armed.disp /\ armed.frames \in Seq(Obj \cup {NoObj})
    BY <1>1, <1>2, <2>2 DEF Beside
  <2>4. Says(armed, k2)
    BY <2>3, WaitCurSays
  <2>5. Leaving(k2)
    BY <2>3, WaitCurLeaves
  <2> HIDE DEF k2, wt
  <2>6. Says(k, k2)
    BY <2>2, <2>4, SaysTransitive
  <2>7. Told(k, k')
    BY <1>5, <2>6, SaysTold
  <2>8. k.ret[t] # "ok"
    BY <1>2, <1>3, UidAssumption DEF Unspoken, AtEase, Leaving
  <2>9. ASSUME NEW u \in Thread, "RUNNING" \in k'.st[u] PROVE k'.ret[u] # "ok"
    <3>1. CASE "RUNNING" \in k.st[u]
      BY <1>5, <2>6, <3>1 DEF Says, Unspoken, Unanswered
    <3>2. CASE "RUNNING" \notin k.st[u]
      BY <1>5, <2>6, <2>9, <3>2 DEF Says
    <3> QED BY <3>1, <3>2
  <2>10. ASSUME NEW u \in Thread, Waits(k', u), k'.wait[u].type = "EVENTFLAG"
         PROVE  k'.ret[u] # "ok"
    <3>1. k.ret[u] # "ok"
      <4>1. CASE u = t
        BY <2>8, <4>1
      <4>2. CASE u # t
        <5>1. k2.st[u] = k.st[u] /\ k2.wait[u] = k.wait[u]
          BY <2>1, <4>2 DEF BeginsWait
        <5> QED BY <1>5, <2>10, <5>1 DEF Unspoken, Unanswered, Waits
      <4> QED BY <4>1, <4>2
    <3> QED BY <1>5, <2>6, <3>1 DEF Says
  <2>11. AtEase(k')
    BY <1>5, <2>5 DEF AtEase
  <2> QED BY <2>7, <2>9, <2>10, <2>11 DEF Unspoken, Unanswered
<1>6. k' = k \/ k' = k2
  BY DEF sceKernelWaitEventFlag
<1> QED BY <1>4, <1>5, <1>6

-----------------------------------------------------------------------------
(* A set. *)

LEMMA FlagSetTells ==
  ASSUME FlagSound(k, flag), Unspoken(k), NEW f \in Obj, NEW bits \in SUBSET Bits,
         sceKernelSetEventFlag(f, bits)
  PROVE  /\ Unspoken(k')
         /\ \A g \in Obj \ {f} : Served(g) = {}
         /\ \A i \in Served(f) :
              /\ KernelCheckEventFlagMatches(flag[f].pattern \cup bits, flag[f].waiting[i].ask)
              /\ \A j \in Served(f) : i < j =>
                   Apart(flag[f].waiting[i].ask, flag[f].waiting[j].ask)
<1> DEFINE p == flag[f].pattern \cup bits
           w == flag[f].waiting
           x0 == [BeginFlag EXCEPT !.f[f].pattern = @ \cup bits]
           x == [BeginFlag EXCEPT !.f[f].pattern = p]
           y == UnlockSatisfied(x, f)
<1>1. /\ KernelInv(k) /\ EndShapes(k) /\ FlagFits(k, f, flag[f]) /\ flag[f] \in EventFlag
      /\ BeginFlag.f = flag /\ \A g \in Obj : flag[g].waiting \in Seq(Entry)
  BY FlagFacts
<1>2. p \in SUBSET Bits
  BY <1>1 DEF EventFlag
<1>3. x0 = x
  BY <1>1
<1>4. StoreFlag(y) /\ k.frames = <<>>
  BY <1>3 DEF sceKernelSetEventFlag, Calls
<1> HIDE DEF x0
<1>5. /\ x \in FlagLetting /\ x.k = k
      /\ x.f[f].waiting = w /\ x.f[f].pattern = p
  BY <1>2, FlagBegun
<1> HIDE DEF x, p, w
<1>6. FlagServes(x, y, f)
  BY <1>1, <1>5, FlagSetServes DEF FlagFits, w
<1>7. PICK last : FlagOnce(x, [x |-> y, i |-> last], f, w, Len(w))
  BY <1>1, <1>5, FlagSetOnce DEF FlagFits, w
<1> HIDE DEF y
<1>8. /\ y.k.wait = k.wait /\ Answers(x, y)
      /\ \A u \in Thread : ~VerifyWait(k, u, "EVENTFLAG", f) =>
           y.k.st[u] = k.st[u] /\ y.k.ret[u] = k.ret[u]
      /\ \A i \in 1..Len(w) : LetGo(x, y, f, w[i]) =>
           /\ KernelCheckEventFlagMatches(p, w[i].ask)
           /\ \A j \in 1..Len(w) : i < j /\ LetGo(x, y, f, w[j]) => Apart(w[i].ask, w[j].ask)
  BY <1>5, <1>7 DEF FlagOnce
<1>9. y.k \in Kernel /\ Freed(k, y.k)
  BY <1>5, <1>6 DEF FlagServes, FlagLetting
<1>10. (k' = y.k \/ k' = hleReSchedule(y.k)) /\ k'.st = y.k.st
  BY <1>4, <1>9 DEF StoreFlag, hleReSchedule, Kernel
<1>11. Unspoken(y.k)
  <2>1. Unanswered(y.k)
    <3> SUFFICES ASSUME NEW u \in Thread,
                        "RUNNING" \in y.k.st[u] \/ (Waits(y.k, u) /\ y.k.wait[u].type = "EVENTFLAG")
                 PROVE  y.k.ret[u] # "ok"
      BY DEF Unanswered
    <3>1. y.k.ret[u] = k.ret[u]
      BY <1>5, <1>8 DEF Answers
    <3>2. k.ret[u] # "ok"
      <4>1. CASE "RUNNING" \in y.k.st[u]
        BY <1>5, <1>8, <4>1 DEF Answers, Unspoken, Unanswered
      <4>2. CASE Waits(y.k, u) /\ y.k.wait[u].type = "EVENTFLAG"
        BY <1>9, <4>2 DEF Freed, Quiet, Kept, Unspoken, Unanswered
      <4> QED BY <4>1, <4>2
    <3> QED BY <3>1, <3>2
  <2>2. AtEase(y.k)
    <3> SUFFICES ASSUME y.k.cur # NoThread
                 PROVE  y.k.wait[y.k.cur].type = "NONE" /\ y.k.ret[y.k.cur] # "ok"
      BY DEF AtEase
    <3>1. y.k.cur = k.cur /\ y.k.cur \in Thread
      BY <1>9 DEF Freed, Calm, Kernel
    <3>2. k.wait[k.cur].type = "NONE" /\ k.ret[k.cur] # "ok"
      BY <1>4, <3>1 DEF Unspoken, AtEase, Leaving
    <3>3. ~VerifyWait(k, k.cur, "EVENTFLAG", f)
      BY <3>2, UidAssumption DEF VerifyWait, KernelGetWaitID
    <3> QED BY <1>8, <3>1, <3>2, <3>3
  <2> QED BY <2>1, <2>2 DEF Unspoken
<1>12. Unspoken(k')
  BY <1>9, <1>10, <1>11, UnspokenPending
<1>13. ASSUME NEW g \in Obj, NEW i \in Served(g)
       PROVE  LET t == flag[g].waiting[i].thread
              IN  /\ i \in 1..Len(flag[g].waiting) /\ t \in Thread
                  /\ isWaitingFor(k, t, "EVENTFLAG", g) /\ ~Waits(y.k, t)
  BY <1>1, <1>10, NamesList DEF Served, Waits
<1>14. ASSUME NEW g \in Obj \ {f}, NEW i \in Served(g) PROVE FALSE
  <2> DEFINE t == flag[g].waiting[i].thread
  <2>1. t \in Thread /\ isWaitingFor(k, t, "EVENTFLAG", g) /\ ~Waits(y.k, t)
    BY <1>13
  <2> HIDE DEF t
  <2>2. ~VerifyWait(k, t, "EVENTFLAG", f)
    BY <2>1, UidAssumption DEF VerifyWait, KernelGetWaitID, isWaitingFor
  <2>3. y.k.st[t] = k.st[t]
    BY <1>8, <2>1, <2>2
  <2> QED BY <2>1, <2>3 DEF isWaitingFor, Waits
<1>15. \A i \in Served(f) : i \in 1..Len(w) /\ LetGo(x, y, f, w[i])
  BY <1>5, <1>13 DEF LetGo, w
<1>16. \A i \in Served(f) :
         /\ KernelCheckEventFlagMatches(p, w[i].ask)
         /\ \A j \in Served(f) : i < j => Apart(w[i].ask, w[j].ask)
  BY <1>8, <1>15
<1> QED BY <1>12, <1>14, <1>16 DEF p, w

-----------------------------------------------------------------------------
\* What a step does for the flag f.
BitsOnce(f) ==
  LET ask(i) == flag[f].waiting[i].ask
  IN  Served(f) # {} => \E bits \in SUBSET Bits :
        /\ sceKernelSetEventFlag(f, bits)
        /\ \A i \in Served(f) :
             /\ KernelCheckEventFlagMatches(flag[f].pattern \cup bits, ask(i))
             /\ \A j \in Served(f) : i < j /\ ~ask(j).or =>
                  ~ask(i).all /\ (ask(i).clear => ask(i).bits \cap ask(j).bits = {})

LEMMA FlagStepTells ==
  ASSUME Disciplined, FlagSound(k, flag), Unspoken(k), FlagNext
  PROVE  Unspoken(k') /\ \A f \in Obj : BitsOnce(f)
<1>1. FlagSound(k', flag') /\ Inv /\ KernelInv(k) /\ KernelInv(k')
  BY FlagStep DEF FlagSound, Sound, Inv
<1>2. ASSUME Told(k, k'), Unspoken(k')
      PROVE  Unspoken(k') /\ \A f \in Obj : BitsOnce(f)
  BY <1>2, ToldServesNone DEF BitsOnce
<1>3. ASSUME k' = k
      PROVE  Told(k, k') /\ Unspoken(k')
  BY <1>3 DEF Told
<1>4. CASE FlagCall
  <2>1. PICK f \in Obj :
          \/ \E multiple \in Multiples, pattern \in SUBSET Bits :
               sceKernelCreateEventFlag(f, multiple, pattern)
          \/ \E bits \in SUBSET Bits :
               \/ sceKernelCancelEventFlag(f, bits)
               \/ sceKernelClearEventFlag(f, bits)
               \/ sceKernelSetEventFlag(f, bits)
          \/ sceKernelDeleteEventFlag(f)
          \/ \E ask \in Asks :
               \/ sceKernelPollEventFlag(f, ask)
               \/ \E timed \in BOOLEAN : sceKernelWaitEventFlag(f, ask, timed)
          \/ sceKernelReferEventFlagStatus(f)
    BY <1>4 DEF FlagCall
  <2>2. CASE \/ \E multiple \in Multiples, pattern \in SUBSET Bits :
                  sceKernelCreateEventFlag(f, multiple, pattern)
             \/ \E bits \in SUBSET Bits : sceKernelClearEventFlag(f, bits)
             \/ \E ask \in Asks : sceKernelPollEventFlag(f, ask)
             \/ sceKernelReferEventFlagStatus(f)
    <3>1. k' = k
      BY <2>2 DEF sceKernelCreateEventFlag, sceKernelClearEventFlag, sceKernelPollEventFlag,
                  sceKernelReferEventFlagStatus
    <3> QED BY <1>2, <1>3, <3>1
  <2>3. CASE \/ \E bits \in SUBSET Bits : sceKernelCancelEventFlag(f, bits)
             \/ sceKernelDeleteEventFlag(f)
    BY <1>2, <2>3, FlagErrorTells
  <2>4. CASE \E ask \in Asks, timed \in BOOLEAN : sceKernelWaitEventFlag(f, ask, timed)
    BY <1>1, <1>2, <2>4, FlagWaitTells
  <2>5. CASE \E bits \in SUBSET Bits : sceKernelSetEventFlag(f, bits)
    <3>1. PICK bits \in SUBSET Bits : sceKernelSetEventFlag(f, bits)
      BY <2>5
    <3>2. /\ Unspoken(k')
          /\ \A g \in Obj \ {f} : Served(g) = {}
          /\ \A i \in Served(f) :
               /\ KernelCheckEventFlagMatches(flag[f].pattern \cup bits, flag[f].waiting[i].ask)
               /\ \A j \in Served(f) : i < j =>
                    Apart(flag[f].waiting[i].ask, flag[f].waiting[j].ask)
      BY <3>1, FlagSetTells
    <3>3. ASSUME NEW g \in Obj \ {f} PROVE BitsOnce(g)
      BY <3>2, <3>3 DEF BitsOnce
    <3>4. BitsOnce(f)
      BY <3>1, <3>2 DEF BitsOnce, Apart
    <3> QED BY <3>2, <3>3, <3>4
  <2> QED BY <2>1, <2>2, <2>3, <2>4, <2>5
<1>5. CASE \E t \in User : KernelEventFlagTimeout(t)
  BY <1>2, <1>5, FlagTimeoutTells
<1>6. CASE Next /\ UNCHANGED flag
  <2>1. Told(k, k') /\ Stays(k, k')
    BY <1>1, <1>6, ManagerTold, ManagerStays
  <2>2. SameWaits(k, k', "EVENTFLAG")
    <3>1. Inv /\ WaitInv(k)
      BY <1>1 DEF FlagSound, Sound
    <3>2. Good /\ Fine(k, k')
      BY <1>6, <3>1, UndisturbedFine, ThreadEndFine DEF Next
    <3> QED BY <3>2, FineSameWaits, FlagType DEF Good, Fine, Sound
  <2>3. FlagWaitsOld(k, k')
    BY <2>2 DEF SameWaits, FlagWaitsOld
  <2>4. Unspoken(k')
    BY <1>1, <2>1, <2>3, UnspokenKept
  <2> QED BY <1>2, <2>1, <2>4
<1> QED BY <1>4, <1>5, <1>6 DEF FlagNext

LEMMA FlagInitTells ==
  ASSUME FlagInit
  PROVE  Unspoken(k)
<1>1. PICK root \in User, p \in UserPrio : k = InitKernel(root, p)
  BY DEF FlagInit, Init
<1>2. /\ \A u \in Thread : k.ret[u] # "ok" /\ k.wait[u].type = "NONE"
      /\ k.cur = root
  BY <1>1 DEF InitKernel, NoWait
<1> QED BY <1>2 DEF Unspoken, Unanswered, AtEase, Thread

\* Only a set answers "ok", it answers the threads whose bits are then set, and gives
\* no bit to two of them of which the first clears it.
THEOREM BitsServeOnceHolds ==
  ASSUME Disciplined
  PROVE  FlagSpec => BitsServeOnce
<1>1. FlagInit => Unspoken(k)
  BY FlagInitTells
<1>2. FlagSound(k, flag) /\ Unspoken(k) /\ [FlagNext]_flagvars => Unspoken(k)'
  <2> SUFFICES ASSUME FlagSound(k, flag), Unspoken(k), [FlagNext]_flagvars
               PROVE  Unspoken(k)'
    OBVIOUS
  <2>1. Unspoken(k')
    <3>1. CASE FlagNext
      BY <3>1, FlagStepTells
    <3>2. CASE UNCHANGED flagvars
      BY <3>2 DEF flagvars
    <3> QED BY <3>1, <3>2
  <2> QED BY <2>1
<1>3. FlagSound(k, flag) /\ Unspoken(k) /\ [FlagNext]_flagvars =>
        [\A f \in Obj : BitsOnce(f)]_flagvars
  <2> SUFFICES ASSUME FlagSound(k, flag), Unspoken(k), FlagNext
               PROVE  \A f \in Obj : BitsOnce(f)
    OBVIOUS
  <2> QED BY FlagStepTells
<1>4. FlagSpec => [][\A f \in Obj : BitsOnce(f)]_flagvars
  BY <1>1, <1>2, <1>3, FlagSoundHolds, PTL DEF FlagSpec
<1> QED BY <1>4 DEF BitsServeOnce, BitsOnce

-----------------------------------------------------------------------------
(* Mutexes. *)

\* What an object of type y knows of a thread u: whether it has ended, and its
\* wait for such an object, or the record that is left of it.

Still(kk, k2, y, u) ==
  /\ Gone(k2, u) => Gone(kk, u)
  /\ k2.wait[u].type = y =>
       /\ k2.wait[u] = kk.wait[u]
       /\ k2.ret[u] = "WAIT_TIMEOUT" => kk.ret[u] = "WAIT_TIMEOUT"
       /\ k2.timer[y][u] <= kk.timer[y][u]
       /\ Waits(k2, u) => Waits(kk, u) /\ k2.timer[y][u] = kk.timer[y][u]

LEMMA KeptStill ==
  ASSUME NEW kk, NEW k2, NEW u \in Thread, NEW y \in ObjWait, Kept(kk, k2, u),
         Records(kk, k2)
  PROVE  Still(kk, k2, y, u)
<1>1. /\ Gone(k2, u) => Gone(kk, u)
      /\ Waits(k2, u) => Waits(kk, u) /\ k2.timer[y][u] = kk.timer[y][u]
  BY ObjTimers DEF Kept, Gone
<1>2. k2.wait[u].type = y => RecordKept(kk, k2, u)
  BY DEF Records, NoWait, ObjWait
<1> QED BY <1>1, <1>2 DEF Still, RecordKept

\* A step of the thread manager but the end of a thread.
LEMMA FineStill ==
  ASSUME NEW kk, NEW k2, Fine(kk, k2), Tidy(kk, k2), NEW u \in Thread, NEW y \in ObjWait
  PROVE  Still(kk, k2, y, u)
<1>1. /\ Gone(k2, u) => Gone(kk, u)
      /\ k2.wait[u].type = y => RecordKept(kk, k2, u)
      /\ Waits(k2, u) /\ k2.wait[u].type = y =>
           Waits(kk, u) /\ k2.timer[y][u] = kk.timer[y][u]
  BY DEF Fine, Tidy, ObjWaits, ObjRecords, Lives
<1> QED BY <1>1 DEF Still, RecordKept

LEMMA StillTransitive ==
  ASSUME NEW k1 \in Kernel, NEW k2 \in Kernel, NEW k3 \in Kernel, NEW u \in Thread,
         NEW y \in ObjWait, Still(k1, k2, y, u), Still(k2, k3, y, u)
  PROVE  Still(k1, k3, y, u)
<1>1. k1.timer[y][u] \in Nat /\ k2.timer[y][u] \in Nat /\ k3.timer[y][u] \in Nat
  BY TimerTypes
<1> QED BY <1>1 DEF Still

\* k2 is kk after some waiters have been let go, and nothing else was written.
Eased(kk, k2) == Freed(kk, k2) /\ Steady(kk, k2)

LEMMA EasedSelf ==
  ASSUME NEW kk, KernelInv(kk)
  PROVE  Eased(kk, kk)
BY FreedSelf, SteadySame DEF Eased, KernelInv

LEMMA EasedTransitive ==
  ASSUME NEW k1, KernelInv(k1), NEW k2, NEW k3, Eased(k1, k2), Eased(k2, k3)
  PROVE  Eased(k1, k3)
BY FreedTransitive, SteadyTransitive DEF Eased, KernelInv

LEMMA EasedStill ==
  ASSUME NEW kk, NEW k2, Eased(kk, k2), NEW u \in Thread, NEW y \in ObjWait
  PROVE  Still(kk, k2, y, u)
BY KeptStill DEF Eased, Freed, Steady, Quiet

LEMMA EasedSettled ==
  ASSUME NEW kk, NEW k2, Settled(kk), Eased(kk, k2)
  PROVE  Settled(k2)
BY SteadySettled DEF Eased, Freed, Calm

\* A waiter t of an object is let go, with a result that is no timeout.
LEMMA LetGoEased ==
  ASSUME NEW kk, KernelInv(kk), EndShapes(kk), NEW y \in ObjWait, NEW t \in Thread,
         NEW r \in Result \ {"WAIT_TIMEOUT"}, kk.wait[t].type = y
  PROVE  LET k2 == KernelResumeThreadFromWait(StopWaitTimer(kk, y, t), t, r)
         IN  /\ Eased(kk, k2) /\ ~Waits(k2, t) /\ k2.ret[t] = r /\ k2.wait = kk.wait
             /\ kk.wait[t].timed => k2.timer[y][t] = 0
<1> DEFINE k1 == StopWaitTimer(kk, y, t)
           k2 == KernelResumeThreadFromWait(k1, t, r)
<1>1. Freed(kk, k2) /\ ~Waits(k2, t)
  BY LetGoFreed
<1>2. y \in TimerType /\ kk \in Kernel
  BY ObjTimers DEF KernelInv
<1>3. /\ KernelInv(k1) /\ k1.st = kk.st /\ k1.wait = kk.wait /\ Steady(kk, k1)
      /\ kk.wait[t].timed => k1.timer[y][t] = 0
  <2>1. CASE kk.wait[t].timed
    <3>1. k1 = UnscheduleEvent(kk, y, t)
      BY <2>1 DEF StopWaitTimer
    <3> HIDE DEF k1
    <3>2. k1.timer[y][t] = 0
      BY <1>2, <3>1 DEF UnscheduleEvent, Kernel
    <3> QED BY <1>2, <3>1, <3>2, UnscheduleKept, TimerSteady DEF OneTimer
  <2>2. CASE ~kk.wait[t].timed
    <3>1. k1 = kk
      BY <2>2 DEF StopWaitTimer
    <3> HIDE DEF k1
    <3> QED BY <1>2, <2>2, <3>1, SteadySame
  <2> QED BY <2>1, <2>2
<1> HIDE DEF k1
<1>4. EndShapes(k1) /\ "RUNNING" \notin k1.st[t]
  BY <1>3 DEF EndShapes, Gone, KernelInv, ThreadInv, StatusShape, ObjWait
<1>5. /\ Steady(k1, k2) /\ k2.wait = k1.wait /\ k2.timer = k1.timer
      /\ k2.ret = [k1.ret EXCEPT ![t] = r]
  BY <1>3, <1>4, ResumeThreadRecords
<1> HIDE DEF k2
<1>6. k2.ret[t] = r
  BY <1>3, <1>5 DEF KernelInv, Kernel
<1>7. Steady(kk, k2)
  BY <1>2, <1>3, <1>5, SteadyTransitive
<1> QED BY <1>1, <1>3, <1>5, <1>6, <1>7 DEF Eased, k1, k2
-----------------------------------------------------------------------------
(* The end of a thread and the records. *)

LEMMA JoinerEased ==
  ASSUME NEW kk, KernelInv(kk), EndShapes(kk), NEW t \in Thread, NEW w \in Thread
  PROVE  Eased(kk, ResumeJoiner(kk, t, w))
<1> DEFINE k2 == ResumeJoiner(kk, t, w)
<1>1. Freed(kk, k2) /\ kk \in Kernel
  BY JoinerInv, JoinerQuiet DEF Freed, KernelInv
<1>2. CASE VerifyWait(kk, w, "THREADEND", t)
  <2> DEFINE k1 == UnscheduleEvent(kk, "THREADEND", w)
  <2>1. "THREADEND" \in TimerType /\ "exited" \in Result
    BY DEF TimerType, Result
  <2>2. k2 = KernelResumeThreadFromWait(k1, w, "exited")
    BY <1>2 DEF ResumeJoiner
  <2>3. Steady(kk, k1) /\ KernelInv(k1) /\ k1.st = kk.st /\ k1.wait = kk.wait
    BY <1>1, <2>1, UnscheduleKept, TimerSteady DEF OneTimer
  <2>4. kk.wait[w].type = "THREADEND"
    BY <1>2, UidAssumption DEF VerifyWait, KernelGetWaitID
  <2> HIDE DEF k1, k2
  <2>5. /\ EndShapes(k1) /\ "RUNNING" \notin k1.st[w]
        /\ k1.wait[w].type \notin ObjWait
    BY <2>3, <2>4 DEF EndShapes, Gone, KernelInv, ThreadInv, StatusShape, ObjWait
  <2>6. Steady(k1, k2)
    BY <2>1, <2>2, <2>3, <2>5, ResumeThreadRecords
  <2> QED BY <1>1, <2>3, <2>6, SteadyTransitive DEF Eased, k2
<1>3. CASE ~VerifyWait(kk, w, "THREADEND", t)
  <2>1. k2 = kk
    BY <1>3 DEF ResumeJoiner
  <2> HIDE DEF k2
  <2> QED BY <2>1, EasedSelf DEF k2
<1> QED BY <1>2, <1>3

LEMMA EasedShapes ==
  ASSUME NEW kk, NEW k2, EndShapes(kk), Eased(kk, k2)
  PROVE  EndShapes(k2)
BY FreedShapes DEF Eased

LEMMA JoinersEased ==
  ASSUME NEW kk, KernelInv(kk), EndShapes(kk), NEW t \in Thread
  PROVE  Eased(kk, ResumeJoiners(kk, t))
<1> DEFINE s == kk.joiners[t]
           n == Len(s)
<1>1. n \in Nat /\ (\A i \in 1..n : s[i] \in Thread)
  BY DEF KernelInv, Kernel
<1>2. PICK after : JoinersLoop(kk, t, after)
  BY <1>1, JoinersLoopExists
<1>3. /\ after[0] = kk /\ ResumeJoiners(kk, t) = after[n]
      /\ \A i \in 1..n : after[i] = ResumeJoiner(after[i - 1], t, s[i])
  BY <1>2 DEF JoinersLoop
<1> HIDE DEF s, n
<1> DEFINE G == {m \in 0..n : Eased(kk, after[m])}
<1>4. 0 \in G
  BY <1>1, <1>3, EasedSelf
<1>5. ASSUME NEW m \in 1..n, m - 1 \in G PROVE m \in G
  <2> DEFINE a == after[m - 1]
  <2>1. Eased(kk, a) /\ after[m] = ResumeJoiner(a, t, s[m]) /\ s[m] \in Thread
    BY <1>1, <1>3, <1>5
  <2> HIDE DEF a
  <2>2. KernelInv(a) /\ EndShapes(a)
    BY <2>1, EasedShapes DEF Eased, Freed
  <2>3. Eased(a, after[m])
    BY <2>1, <2>2, JoinerEased
  <2> QED BY <2>1, <2>3, EasedTransitive
<1> HIDE DEF G
<1>6. \A m \in 1..n : m - 1 \in G => m \in G
  BY <1>5
<1>7. n \in G
  <2>1. \A m \in 0..n : m \in G
    BY <1>1, <1>4, <1>6, SetInduction
  <2> QED BY <1>1, <2>1
<1> QED BY <1>3, <1>7 DEF G

\* __KernelStopThread() up to the listeners.
LEMMA StopBeginRecords ==
  ASSUME NEW kk, KernelInv(kk), NEW t \in User
  PROVE  Records(kk, KernelStopThreadBegin(kk, t))
<1> DEFINE unready == KernelChangeReadyState(kk, t, FALSE)
           dormant == [unready EXCEPT !.st[t] = {"DORMANT"}]
           timed == UnscheduleEvent(dormant, "DELAY", t)
           fired == UnscheduleEvent(timed, "THREADEND", t)
<1>1. t \in Thread /\ kk \in Kernel /\ "DELAY" \in TimerType /\ "THREADEND" \in TimerType
  BY DEF Thread, KernelInv, TimerType
<1>2. unready \in Kernel /\ unready = [kk EXCEPT !.rq = unready.rq]
  BY <1>1, UnreadyOff DEF InvBut
<1>3. fired = KernelStopThreadBegin(kk, t)
  BY DEF KernelStopThreadBegin, KernelFireThreadEnd
<1> HIDE DEF unready
<1>4. /\ dormant \in Kernel /\ dormant.wait = kk.wait /\ dormant.ret = kk.ret
      /\ dormant.timer = kk.timer
  BY <1>1, <1>2 DEF Kernel, StatusBits
<1> HIDE DEF dormant
<1>5. Steady(dormant, timed)
  BY <1>1, <1>4, TimerSteady
<1>6. timed \in Kernel
  BY <1>5 DEF Steady
<1> HIDE DEF timed
<1>7. Steady(timed, fired)
  BY <1>1, <1>6, TimerSteady
<1> HIDE DEF fired
<1>8. Records(kk, dormant)
  BY <1>1, <1>4, RecordsSame
<1>9. Records(kk, timed)
  BY <1>1, <1>4, <1>5, <1>6, <1>8, RecordsTransitive DEF Steady
<1> QED BY <1>1, <1>3, <1>6, <1>7, <1>9, RecordsTransitive DEF Steady

\* A record is cleared or overwritten by a result that is no timeout.
LEMMA RecordsBut ==
  ASSUME NEW kk \in Kernel, NEW k2 \in Kernel, k2.timer = kk.timer,
         \A u \in Thread : k2.wait[u] = NoWait \/ k2.wait[u] = kk.wait[u],
         \A u \in Thread : k2.ret[u] = "WAIT_TIMEOUT" => kk.ret[u] = "WAIT_TIMEOUT"
  PROVE  Records(kk, k2)
<1>1. \A u \in Thread, y \in ObjWait : k2.timer[y][u] <= kk.timer[y][u]
  BY TimerTypes
<1> QED BY <1>1 DEF Records, RecordKept

\* The rest of it.
LEMMA StopEndRecords ==
  ASSUME NEW kk, KernelInv(kk), EndShapes(kk), NEW t \in User, kk.st[t] = {"DORMANT"}
  PROVE  LET k2 == KernelStopThreadEnd(kk, t)
         IN  Records(kk, k2) /\ k2.wait[t] = NoWait
<1> DEFINE k1 == ResumeJoiners(kk, t)
           k2 == KernelStopThreadEnd(kk, t)
<1>1. Eased(kk, k1) /\ t \in Thread
  BY JoinersEased DEF Thread
<1>2. KernelInv(k2) /\ k2 = [k1 EXCEPT !.joiners[t] = <<>>, !.wait[t] = NoWait]
  BY StopEndInv DEF KernelStopThreadEnd
<1> HIDE DEF k1, k2
<1>3. k1 \in Kernel /\ k2 \in Kernel /\ kk \in Kernel
  BY <1>1, <1>2 DEF Eased, Freed, KernelInv
<1>4. /\ k2.timer = k1.timer /\ k2.ret = k1.ret
      /\ k2.wait = [k1.wait EXCEPT ![t] = NoWait]
  BY <1>2, <1>3 DEF Kernel
<1>5. \A u \in Thread : k2.wait[u] = IF u = t THEN NoWait ELSE k1.wait[u]
  BY <1>1, <1>3, <1>4 DEF Kernel
<1>6. Records(k1, k2)
  <2>1. /\ \A u \in Thread : k2.wait[u] = NoWait \/ k2.wait[u] = k1.wait[u]
        /\ \A u \in Thread : k2.ret[u] = "WAIT_TIMEOUT" => k1.ret[u] = "WAIT_TIMEOUT"
    BY <1>4, <1>5
  <2> QED BY <1>3, <1>4, <2>1, RecordsBut
<1>7. Records(kk, k2)
  BY <1>1, <1>3, <1>6, RecordsTransitive DEF Eased, Steady
<1> QED BY <1>1, <1>5, <1>7 DEF k2

LEMMA DeletedRecords ==
  ASSUME NEW stopped, KernelInv(stopped), NEW t \in User, stopped.st[t] = {"DORMANT"}
  PROVE  LET k2 == KernelDeleteThread(stopped, t)
         IN  Records(stopped, k2) /\ k2.wait = stopped.wait
<1> DEFINE removed == remove(stopped, stopped.prio[t], t)
           k2 == KernelDeleteThread(stopped, t)
<1>1. KernelInv(k2) /\ k2 \in Kernel /\ stopped \in Kernel /\ t \in Thread
  BY DeletedInv DEF KernelInv, Thread
<1>2. k2 = [removed EXCEPT !.cur = IF @ = t THEN NoThread ELSE @,
                           !.st[t] = {"DEAD"}, !.wakeup[t] = 0, !.ret[t] = "none"]
  BY DEF KernelDeleteThread
<1>3. removed = [stopped EXCEPT !.rq = removed.rq]
  BY <1>1 DEF remove, Kernel
<1> HIDE DEF removed, k2
<1>4. /\ k2.wait = stopped.wait /\ k2.timer = stopped.timer
      /\ k2.ret = [stopped.ret EXCEPT ![t] = "none"]
  BY <1>1, <1>2, <1>3 DEF Kernel
<1>5. \A u \in Thread : k2.ret[u] = IF u = t THEN "none" ELSE stopped.ret[u]
  BY <1>1, <1>4 DEF Kernel
<1>6. Records(stopped, k2)
  <2>1. /\ \A u \in Thread : k2.wait[u] = NoWait \/ k2.wait[u] = stopped.wait[u]
        /\ \A u \in Thread :
             k2.ret[u] = "WAIT_TIMEOUT" => stopped.ret[u] = "WAIT_TIMEOUT"
    BY <1>4, <1>5
  <2> QED BY <1>1, <1>4, <2>1, RecordsBut
<1> QED BY <1>4, <1>6 DEF k2
\* What is left of the records when t has ended.  k1 is the kernel when the objects
\* that listen to the end of t have acted.
LEMMA EndRecords ==
  ASSUME Disciplined, Inv, WaitInv(k), NEW t \in User, NEW k1,
         Eased(KernelStopThreadBegin(k, t), k1),
         ThreadEnds(t, KernelStopThreadEnd(k1, t))
  PROVE  /\ Good /\ Fine(k, k')
         /\ Records(k1, k') /\ k'.wait[t] = NoWait /\ k'.st[t] \in {{"DORMANT"}, {"DEAD"}}
         /\ \A u \in Thread \ {t} : Kept(k1, k', u)
<1> DEFINE fired == KernelStopThreadBegin(k, t)
           stopped == KernelStopThreadEnd(k1, t)
           deleted == KernelDeleteThread(stopped, t)
<1>1. /\ KernelInv(k) /\ k \in Kernel /\ EndShapes(k) /\ t \in Thread
      /\ KernelInv(k1) /\ Calm(fired, k1) /\ Quiet(fired, k1)
  BY SoundShapes DEF Inv, KernelInv, Thread, Eased, Freed
<1>2. Stops(k, stopped, t) /\ Leaves(k, stopped, t)
  BY <1>1, HeardInv, HeardKept
<1>3. Good /\ Fine(k, k')
  BY <1>2, EndFine
<1>4. k1.st[t] = {"DORMANT"} /\ EndShapes(k1)
  <2>1. fired.st[t] = {"DORMANT"} /\ EndShapes(fired)
    BY <1>1, StopBeginInv, StopBeginKept
  <2> HIDE DEF fired
  <2> QED BY <1>1, <2>1, EndShapesKept DEF Calm, Quiet
<1>5. /\ Records(k1, stopped) /\ stopped.wait[t] = NoWait
      /\ \A u \in Thread \ {t} : Kept(k1, stopped, u)
  BY <1>1, <1>4, StopEndRecords, StopEndKept
<1>6. KernelInv(stopped) /\ stopped.st[t] = {"DORMANT"}
  BY <1>2 DEF Stops
<1>7. \/ k' = hleReSchedule(stopped)
      \/ k' = hleReSchedule(deleted)
      \/ k' = deleted
      \/ k' = [stopped EXCEPT !.prio[t] = k.initp[t]]
  BY EndCases
<1> HIDE DEF stopped
<1>8. /\ Records(stopped, deleted) /\ deleted.wait = stopped.wait
      /\ deleted.st[t] = {"DEAD"} /\ KernelInv(deleted)
      /\ \A u \in Thread \ {t} : Kept(stopped, deleted, u)
  BY <1>6, DeletedRecords, DeletedKept, DeletedInv
<1> HIDE DEF deleted
<1>9. /\ k1 \in Kernel /\ stopped \in Kernel /\ deleted \in Kernel /\ k' \in Kernel
  BY <1>1, <1>3, <1>6, <1>8 DEF KernelInv, Good
<1>10. Records(k1, deleted) /\ \A u \in Thread \ {t} : Kept(k1, deleted, u)
  BY <1>5, <1>8, <1>9, RecordsTransitive, KeptTransitive
<1>11. ASSUME NEW k2 \in {stopped, deleted},
              Records(k2, k'), Quiet(k2, k'), k'.wait = k2.wait, k'.st = k2.st
       PROVE  /\ Records(k1, k') /\ k'.wait[t] = NoWait
              /\ k'.st[t] \in {{"DORMANT"}, {"DEAD"}}
              /\ \A u \in Thread \ {t} : Kept(k1, k', u)
  <2>1. /\ k2 \in Kernel /\ Records(k1, k2) /\ k2.wait[t] = NoWait
        /\ k2.st[t] \in {{"DORMANT"}, {"DEAD"}}
        /\ \A u \in Thread \ {t} : Kept(k1, k2, u)
    BY <1>5, <1>6, <1>8, <1>9, <1>10
  <2>2. \A u \in Thread \ {t} : Kept(k1, k', u)
    BY <1>9, <1>11, <2>1, KeptTransitive DEF Quiet
  <2> QED BY <1>9, <1>11, <2>1, <2>2, RecordsTransitive
<1>12. CASE \/ k' = hleReSchedule(stopped)
            \/ k' = hleReSchedule(deleted)
  <2>1. PICK k2 \in {stopped, deleted} : k' = hleReSchedule(k2)
    BY <1>12
  <2>2. k2 \in Kernel
    BY <1>9
  <2>3. Steady(k2, k') /\ Quiet(k2, k') /\ k'.wait = k2.wait /\ k'.st = k2.st
    BY <1>9, <2>1, <2>2, hleReScheduleSteady, hleReScheduleQuiet DEF hleReSchedule, Kernel
  <2> QED BY <1>3, <1>11, <2>3 DEF Steady
<1>13. CASE k' = deleted
  BY <1>3, <1>5, <1>8, <1>10, <1>13
<1>14. CASE k' = [stopped EXCEPT !.prio[t] = k.initp[t]]
  <2>1. /\ k'.st = stopped.st /\ k'.wait = stopped.wait /\ k'.timer = stopped.timer
        /\ k'.wakeup = stopped.wakeup /\ k'.joiners = stopped.joiners
        /\ k'.ret = stopped.ret
    BY <1>9, <1>14 DEF Kernel
  <2>2. Quiet(stopped, k') /\ Records(stopped, k')
    BY <1>9, <2>1, SameQuiet, RecordsSame
  <2> QED BY <1>3, <1>11, <2>1, <2>2
<1> QED BY <1>7, <1>12, <1>13, <1>14

\* What an object finds of the other threads, when it hears of the end of t and
\* when that is over.
LEMMA EndStill ==
  ASSUME Disciplined, Inv, WaitInv(k), NEW t \in User, NEW k1,
         Eased(KernelStopThreadBegin(k, t), k1),
         ThreadEnds(t, KernelStopThreadEnd(k1, t)), NEW u \in Thread \ {t},
         NEW y \in ObjWait
  PROVE  Still(k, KernelStopThreadBegin(k, t), y, u) /\ Still(k1, k', y, u)
<1>1. KernelInv(k) /\ EndShapes(k)
  BY SoundShapes DEF Inv
<1>2. Records(k, KernelStopThreadBegin(k, t)) /\ Kept(k, KernelStopThreadBegin(k, t), u)
  BY <1>1, StopBeginRecords, StopBeginKept
<1>3. Records(k1, k') /\ Kept(k1, k', u)
  BY EndRecords
<1> QED BY <1>2, <1>3, KeptStill

LEMMA EndSettled ==
  ASSUME Disciplined, Inv, WaitInv(k), Settled(k), NEW t \in User, NEW k1,
         Eased(KernelStopThreadBegin(k, t), k1),
         ThreadEnds(t, KernelStopThreadEnd(k1, t))
  PROVE  Settled(k')
<1> DEFINE fired == KernelStopThreadBegin(k, t)
           stopped == KernelStopThreadEnd(k1, t)
<1>1. Records(k1, k') /\ k'.wait[t] = NoWait /\ Good
  BY EndRecords
<1>2. Records(k, fired) /\ Records(fired, k1)
  BY StopBeginRecords DEF Inv, Eased, Steady
<1>3. KernelInv(k) /\ KernelInv(k1) /\ Calm(fired, k1) /\ KernelInv(fired)
  BY StopBeginInv DEF Inv, Eased, Freed
<1>4. Stops(k, stopped, t)
  BY <1>3, HeardInv
<1>5. k \in Kernel /\ fired \in Kernel /\ k1 \in Kernel /\ k' \in Kernel
  BY <1>1, <1>3 DEF Good, KernelInv
<1> HIDE DEF fired
<1>6. Records(k, k')
  BY <1>1, <1>2, <1>5, RecordsTransitive
<1>7. k.frames = <<>> /\ k.cur \in Thread
  BY DEF ThreadEnds, KernelReturnFromThread, sceKernelExitThread, sceKernelExitDeleteThread,
         sceKernelDeleteThread, sceKernelTerminateDeleteThread, sceKernelTerminateThread,
         Calls, Thread
<1>8. k.wait[k.cur].type = "NONE"
  BY <1>7 DEF Settled
<1>9. k'.cur = k.cur \/ k'.cur = NoThread
  <2> DEFINE deleted == KernelDeleteThread(stopped, t)
  <2>1. stopped.cur = k.cur /\ (deleted.cur = k.cur \/ deleted.cur = NoThread)
    BY <1>4, DeletedInv DEF Stops
  <2>2. stopped \in Kernel /\ deleted \in Kernel
    BY <1>4, DeletedInv DEF Stops, KernelInv
  <2>3. \/ k' = hleReSchedule(stopped)
        \/ k' = hleReSchedule(deleted)
        \/ k' = deleted
        \/ k' = [stopped EXCEPT !.prio[t] = k.initp[t]]
    BY EndCases
  <2> HIDE DEF stopped, deleted
  <2>4. k'.cur = stopped.cur \/ k'.cur = deleted.cur
    BY <2>2, <2>3 DEF hleReSchedule, Kernel
  <2> QED BY <2>1, <2>4
<1>10. k'.cur \in Thread => k'.wait[k'.cur].type = "NONE"
  BY <1>6, <1>7, <1>8, <1>9, UidAssumption DEF Records, RecordKept, NoWait
<1> QED BY <1>10 DEF Settled
-----------------------------------------------------------------------------
(* The invariant. *)

\* A record of a wait for a mutex belongs to a thread that has not ended, names the
\* count that the thread gets with the mutex, and a timed wait has its event.
RecordRight(kk, t) ==
  kk.wait[t].type = "MUTEX" =>
    /\ kk.wait[t].value > 0 /\ ~Gone(kk, t)
    /\ Waits(kk, t) /\ kk.wait[t].timed => kk.timer["MUTEX"][t] > 0

\* Whoever waits for the mutex q with the UID m is listed, and another owns it.
WaiterRight(kk, q, m, t) ==
  isWaitingFor(kk, t, "MUTEX", m) =>
    q.exists /\ q.owner \notin {NoThread, t} /\ Holds(q.waiting, t)

\* Nothing will tell an owner that its wait for q has timed out.
HandedRight(kk, q, m, t) ==
  q.owner = t /\ kk.wait[t].type = "MUTEX" /\ kk.wait[t].id = m /\ kk.wait[t].timed =>
    kk.timer["MUTEX"][t] = 0 /\ kk.ret[t] # "WAIT_TIMEOUT"

\* q with the UID m, given the thread manager kk and the held locks h.
MutexFits(kk, h, m, q) ==
  /\ Distinct(q.waiting)
  /\ q.level > 0 <=> q.owner # NoThread
  /\ q.owner # NoThread => q.exists /\ ~Gone(kk, q.owner)
  /\ \A t \in Thread : h[t][m] = IF q.owner = t THEN 1 ELSE 0
  /\ \A t \in Thread : WaiterRight(kk, q, m, t) /\ HandedRight(kk, q, m, t)

\* A state of the kernel, the mutexes and the held locks, as Store() writes it.
Locks == [k : Kernel, m : [Obj -> Mutex], held : [Thread -> [Obj -> Nat]], woke : BOOLEAN]

\* The inductive invariant.
MutexSound(kk, mx, h) ==
  /\ Sound(kk) /\ Settled(kk)
  /\ mx \in [Obj -> Mutex] /\ h \in [Thread -> [Obj -> Nat]]
  /\ \A t \in Thread : RecordRight(kk, t)
  /\ \A m \in Obj : MutexFits(kk, h, m, mx[m])

LEMMA MutexType == "MUTEX" \in ObjWait /\ "MUTEX" \in TimerType
BY DEF ObjWait, TimerType

LEMMA RecordStill ==
  ASSUME NEW kk, NEW k2, NEW t, RecordRight(kk, t), Still(kk, k2, "MUTEX", t)
  PROVE  RecordRight(k2, t)
BY DEF RecordRight, Still

\* The mutex is the same, and of the threads nothing has changed that matters to it.
LEMMA FitsStill ==
  ASSUME NEW kk \in Kernel, NEW k2 \in Kernel, NEW h, NEW m \in Obj, NEW q \in Mutex,
         MutexFits(kk, h, m, q),
         \A t \in Thread : \/ Still(kk, k2, "MUTEX", t)
                           \/ ~Waits(k2, t) /\ q.owner # t
  PROVE  MutexFits(k2, h, m, q)
<1>1. q.owner # NoThread => q.exists /\ ~Gone(k2, q.owner)
  BY DEF MutexFits, Still, Mutex
<1>2. ASSUME NEW t \in Thread PROVE WaiterRight(k2, q, m, t)
  BY DEF MutexFits, WaiterRight, Still, isWaitingFor, Waits
<1>3. ASSUME NEW t \in Thread PROVE HandedRight(k2, q, m, t)
  <2>1. k2.timer["MUTEX"][t] \in Nat /\ kk.timer["MUTEX"][t] \in Nat
    BY TimerTypes, MutexType
  <2> QED BY <2>1 DEF MutexFits, HandedRight, Still
<1> QED BY <1>1, <1>2, <1>3 DEF MutexFits

-----------------------------------------------------------------------------
(* Writing a mutex and the held locks. *)

\* Nothing but m has been written.
Elsewhere(x, y, m) ==
  /\ y \in Locks
  /\ \A i \in Obj \ {m} :
       y.m[i] = x.m[i] /\ \A t \in Thread : y.held[t][i] = x.held[t][i]

LEMMA ElsewhereTransitive ==
  ASSUME NEW x, NEW y, NEW z, NEW m, Elsewhere(x, y, m), Elsewhere(y, z, m)
  PROVE  Elsewhere(x, z, m)
BY DEF Elsewhere

Put(x, m, q) == [x EXCEPT !.m = [x.m EXCEPT ![m] = q]]

LEMMA PutLocks ==
  ASSUME NEW x \in Locks, NEW m \in Obj, NEW q \in Mutex
  PROVE  LET y == Put(x, m, q)
         IN  /\ Elsewhere(x, y, m) /\ y.m[m] = q
             /\ y.k = x.k /\ y.held = x.held /\ y.woke = x.woke
<1> DEFINE mx == [x.m EXCEPT ![m] = q]
           y == [x EXCEPT !.m = mx]
<1>1. /\ mx \in [Obj -> Mutex] /\ mx[m] = q /\ \A i \in Obj \ {m} : mx[i] = x.m[i]
  BY DEF Locks
<1> HIDE DEF mx
<1>2. y \in Locks /\ y.m = mx /\ y.k = x.k /\ y.held = x.held /\ y.woke = x.woke
  BY <1>1 DEF Locks
<1> HIDE DEF y
<1>3. Elsewhere(x, y, m) /\ y.m[m] = q
  BY <1>1, <1>2 DEF Elsewhere
<1> QED BY <1>2, <1>3 DEF Put, y, mx

\* p is the mutex q with another level and owner.
Locked(q, p, level, owner) ==
  p.exists = q.exists /\ p.waiting = q.waiting /\ p.level = level /\ p.owner = owner

\* __KernelMutexAcquireLock().
LEMMA AcquireLocks ==
  ASSUME NEW x \in Locks, NEW m \in Obj, NEW count \in Nat, NEW t \in Thread
  PROVE  LET y == KernelMutexAcquireLock(x, m, count, t)
         IN  /\ Elsewhere(x, y, m) /\ y.k = x.k /\ y.woke = x.woke
             /\ Locked(x.m[m], y.m[m], count, t)
             /\ \A u \in Thread :
                  y.held[u][m] = x.held[u][m] + (IF u = t THEN 1 ELSE 0)
<1> DEFINE q == [x.m[m] EXCEPT !.level = count, !.owner = t]
           h == [x.held EXCEPT ![t] = [x.held[t] EXCEPT ![m] = x.held[t][m] + 1]]
           p == Put(x, m, q)
           y == [p EXCEPT !.held = h]
<1>1. y = KernelMutexAcquireLock(x, m, count, t)
  BY DEF KernelMutexAcquireLock, Put, Locks
<1>2. q \in Mutex /\ Locked(x.m[m], q, count, t)
  BY DEF Locks, Mutex, Locked
<1> HIDE DEF q
<1>3. /\ Elsewhere(x, p, m) /\ p.m[m] = q /\ p.k = x.k /\ p.held = x.held /\ p.woke = x.woke
  BY <1>2, PutLocks
<1> HIDE DEF p
<1>4. /\ h \in [Thread -> [Obj -> Nat]]
      /\ \A u \in Thread : h[u][m] = x.held[u][m] + (IF u = t THEN 1 ELSE 0)
      /\ \A u \in Thread, i \in Obj \ {m} : h[u][i] = x.held[u][i]
  BY DEF Locks
<1> HIDE DEF h
<1>5. y \in Locks /\ y.m = p.m /\ y.k = p.k /\ y.woke = p.woke /\ y.held = h
  BY <1>3, <1>4 DEF Elsewhere, Locks
<1> HIDE DEF y
<1>6. Elsewhere(x, y, m)
  BY <1>3, <1>4, <1>5 DEF Elsewhere
<1> QED BY <1>1, <1>2, <1>3, <1>4, <1>5, <1>6

\* __KernelMutexEraseLock() of a mutex whose owner, and nobody else, is listed with it.
LEMMA EraseLocks ==
  ASSUME NEW x \in Locks, NEW m \in Obj,
         \A t \in Thread : x.held[t][m] = IF x.m[m].owner = t THEN 1 ELSE 0
  PROVE  LET y == KernelMutexEraseLock(x, m)
         IN  /\ Elsewhere(x, y, m) /\ y.k = x.k /\ y.woke = x.woke
             /\ Locked(x.m[m], y.m[m], x.m[m].level, NoThread)
             /\ \A u \in Thread : y.held[u][m] = 0
<1> DEFINE owner == x.m[m].owner
           h == [x.held EXCEPT ![owner] = [x.held[owner] EXCEPT ![m] = x.held[owner][m] - 1]]
           erased == IF owner # NoThread /\ x.held[owner][m] > 0
                     THEN [x EXCEPT !.held = h] ELSE x
           q == [x.m[m] EXCEPT !.owner = NoThread]
           y == Put(erased, m, q)
<1>1. /\ q \in Mutex /\ owner \in Thread \cup {NoThread} /\ x.m[m] \in Mutex
      /\ Locked(x.m[m], q, x.m[m].level, NoThread)
  BY DEF Locks, Mutex, Locked
<1>2. /\ erased \in Locks /\ erased.m = x.m /\ erased.k = x.k /\ erased.woke = x.woke
      /\ \A u \in Thread : erased.held[u][m] = 0
      /\ \A u \in Thread, i \in Obj \ {m} : erased.held[u][i] = x.held[u][i]
  <2>1. CASE owner = NoThread
    BY <2>1, UidAssumption
  <2>2. CASE owner # NoThread
    <3>1. owner \in Thread /\ x.held[owner][m] = 1
      BY <1>1, <2>2
    <3> HIDE DEF owner
    <3>2. /\ h \in [Thread -> [Obj -> Nat]]
          /\ \A u \in Thread : h[u][m] = 0
          /\ \A u \in Thread, i \in Obj \ {m} : h[u][i] = x.held[u][i]
      BY <3>1 DEF Locks, owner
    <3>3. erased = [x EXCEPT !.held = h]
      BY <2>2, <3>1
    <3> HIDE DEF h, erased
    <3>4. erased \in Locks /\ erased.m = x.m /\ erased.k = x.k /\ erased.woke = x.woke
          /\ erased.held = h
      BY <3>2, <3>3 DEF Locks
    <3> QED BY <3>2, <3>4
  <2> QED BY <2>1, <2>2
<1>3. KernelMutexEraseLock(x, m) = y
  <2>1. [x EXCEPT !.held[owner][m] = @ - 1] = [x EXCEPT !.held = h]
    BY DEF Locks
  <2>2. KernelMutexEraseLock(x, m) = [erased EXCEPT !.m[m].owner = NoThread]
    BY <2>1 DEF KernelMutexEraseLock
  <2> HIDE DEF erased
  <2> QED BY <1>2, <2>2 DEF Put, Locks
<1> HIDE DEF erased, q
<1>4. /\ Elsewhere(erased, y, m) /\ y.m[m] = q
      /\ y.k = erased.k /\ y.held = erased.held /\ y.woke = erased.woke
  BY <1>1, <1>2, PutLocks
<1> HIDE DEF y
<1>5. Elsewhere(x, y, m)
  BY <1>2, <1>4 DEF Elsewhere
<1> QED BY <1>1, <1>2, <1>3, <1>4, <1>5

-----------------------------------------------------------------------------
(* Letting one waiter go. *)

\* The id of a thread that does not wait is passed over.
LEMMA PassedOver ==
  ASSUME NEW x, EndShapes(x.k), NEW m, NEW t \in Thread, NEW r,
         ~VerifyWait(x.k, t, "MUTEX", m)
  PROVE  KernelUnlockMutexForThread(x, m, t, r) = x /\ ~isWaitingFor(x.k, t, "MUTEX", m)
BY DEF KernelUnlockMutexForThread, isWaitingFor, VerifyWait, KernelGetWaitID, Exists,
       EndShapes, Gone

\* A waiter whose wait ends with an error.
LEMMA LetGoOne ==
  ASSUME NEW x \in Locks, KernelInv(x.k), EndShapes(x.k), NEW m \in Obj, NEW t \in Thread,
         VerifyWait(x.k, t, "MUTEX", m), NEW r \in Result \ {"ok", "WAIT_TIMEOUT"}
  PROVE  LET y == KernelUnlockMutexForThread(x, m, t, r)
         IN  /\ y \in Locks /\ y.m = x.m /\ y.held = x.held /\ Eased(x.k, y.k)
             /\ ~Waits(y.k, t)
<1> DEFINE k2 == KernelResumeThreadFromWait(StopWaitTimer(x.k, "MUTEX", t), t, r)
           y == KernelUnlockMutexForThread(x, m, t, r)
<1>1. y = [x EXCEPT !.k = k2, !.woke = TRUE]
  BY DEF KernelUnlockMutexForThread
<1>2. x.k.wait[t].type = "MUTEX"
  BY UidAssumption DEF VerifyWait, KernelGetWaitID
<1>3. Eased(x.k, k2) /\ ~Waits(k2, t)
  BY <1>2, LetGoEased, MutexType
<1> HIDE DEF k2, y
<1>4. k2 \in Kernel
  BY <1>3 DEF Eased, Freed, KernelInv
<1> QED BY <1>1, <1>3, <1>4 DEF Locks, y

\* A waiter that gets the mutex.
LEMMA GiveOne ==
  ASSUME NEW x \in Locks, KernelInv(x.k), EndShapes(x.k), NEW m \in Obj, NEW t \in Thread,
         VerifyWait(x.k, t, "MUTEX", m)
  PROVE  LET y == KernelUnlockMutexForThread(x, m, t, "ok")
         IN  /\ Elsewhere(x, y, m) /\ Eased(x.k, y.k) /\ y.woke
             /\ ~Waits(y.k, t) /\ y.k.ret[t] = "ok" /\ y.k.wait = x.k.wait
             /\ x.k.wait[t].timed => y.k.timer["MUTEX"][t] = 0
             /\ Locked(x.m[m], y.m[m], x.k.wait[t].value, t)
             /\ \A u \in Thread :
                  y.held[u][m] = x.held[u][m] + (IF u = t THEN 1 ELSE 0)
<1> DEFINE k2 == KernelResumeThreadFromWait(StopWaitTimer(x.k, "MUTEX", t), t, "ok")
           v == x.k.wait[t].value
           g == KernelMutexAcquireLock(x, m, v, t)
           y == KernelUnlockMutexForThread(x, m, t, "ok")
<1>1. x.k \in Kernel /\ v \in Nat /\ "ok" \in Result \ {"WAIT_TIMEOUT"}
  BY DEF Locks, Kernel, Wait, Result
<1>2. /\ Elsewhere(x, g, m) /\ g.k = x.k /\ g.woke = x.woke
      /\ Locked(x.m[m], g.m[m], v, t)
      /\ \A u \in Thread : g.held[u][m] = x.held[u][m] + (IF u = t THEN 1 ELSE 0)
  <2> HIDE DEF v, k2, y
  <2> QED BY <1>1, AcquireLocks
<1>3. y = [g EXCEPT !.k = k2, !.woke = TRUE]
  <2>1. y = [g EXCEPT !.k = KernelResumeThreadFromWait(StopWaitTimer(@, "MUTEX", t), t, "ok"),
                      !.woke = TRUE]
    BY DEF KernelUnlockMutexForThread
  <2> HIDE DEF g, y
  <2> QED BY <1>2, <2>1
<1>4. x.k.wait[t].type = "MUTEX"
  BY UidAssumption DEF VerifyWait, KernelGetWaitID
<1>5. /\ Eased(x.k, k2) /\ ~Waits(k2, t) /\ k2.ret[t] = "ok" /\ k2.wait = x.k.wait
      /\ x.k.wait[t].timed => k2.timer["MUTEX"][t] = 0
  BY <1>1, <1>4, LetGoEased, MutexType
<1> HIDE DEF k2, g, y
<1>6. k2 \in Kernel /\ g \in Locks
  BY <1>2, <1>5 DEF Eased, Freed, KernelInv, Elsewhere
<1>7. y \in Locks /\ y.k = k2 /\ y.m = g.m /\ y.held = g.held /\ y.woke
  BY <1>3, <1>6 DEF Locks
<1>8. Elsewhere(x, y, m)
  BY <1>2, <1>7 DEF Elsewhere
<1> QED BY <1>2, <1>5, <1>7, <1>8 DEF y

\* The search for the best waiter finds a place in the list.
LEMMA FindPriorityHolds ==
  ASSUME NEW kk \in Kernel, NEW w \in Seq(Thread), w # <<>>
  PROVE  KernelMutexFindPriority(kk, w) \in 1..Len(w)
<1> DEFINE prio(i) == IF Exists(kk, w[i]) THEN kk.prio[w[i]] ELSE 0
           n == Len(w)
           Best(i) == \A j \in 1..n : prio(i) < prio(j) \/ (prio(i) = prio(j) /\ i <= j)
<1>1. n \in Nat /\ 1 \in 1..n /\ \A i \in 1..n : prio(i) \in Nat
  <2>1. Prio \subseteq Nat /\ \A t \in Thread : kk.prio[t] \in Prio
    BY PrioAssumption DEF Kernel, Prio
  <2>2. n \in Nat /\ 1 \in 1..n /\ \A i \in 1..n : w[i] \in Thread
    OBVIOUS
  <2> QED BY <2>1, <2>2
<1>2. KernelMutexFindPriority(kk, w) = CHOOSE i \in 1..n : Best(i)
  BY DEF KernelMutexFindPriority
<1> HIDE DEF prio, n
<1>3. \E i \in 1..n : Best(i)
  <2> DEFINE P == {prio(i) : i \in 1..n}
  <2>1. P \subseteq Nat /\ P # {}
    BY <1>1
  <2>2. PICK p \in P : \A r \in P : p <= r
    <3> HIDE DEF P
    <3> QED BY <2>1, LeastElement
  <2> DEFINE I == {i \in 1..n : prio(i) = p}
  <2>3. I \subseteq Nat /\ I # {}
    BY <1>1, <2>2
  <2>4. PICK i \in I : \A j \in I : i <= j
    <3> HIDE DEF I
    <3> QED BY <2>3, LeastElement
  <2>5. ASSUME NEW j \in 1..n PROVE prio(i) < prio(j) \/ (prio(i) = prio(j) /\ i <= j)
    <3>1. prio(j) \in P /\ prio(j) \in Nat /\ prio(i) = p /\ p \in Nat
      BY <1>1, <2>4
    <3>2. p <= prio(j) /\ (prio(j) = p => i <= j)
      BY <2>2, <2>4, <3>1
    <3> QED BY <3>1, <3>2
  <2> QED BY <2>4, <2>5
<1> QED BY <1>2, <1>3 DEF n

-----------------------------------------------------------------------------
(* Handing a mutex over. *)

\* The place i leaves the list of m, and the lock is as it was.
Unlist(y, m, i) == [y EXCEPT !.m[m].waiting = DropAt(@, i)]
SameLock(q, p) == p.exists = q.exists /\ p.level = q.level /\ p.owner = q.owner

\* The place that is tried next, and the list without it.
NextWaiter(y, m) ==
  IF y.m[m].priority THEN KernelMutexFindPriority(y.k, y.m[m].waiting) ELSE 1
TryNext(y, m) ==
  IF y.woke \/ y.m[m].waiting = <<>> THEN y
  ELSE Unlist(KernelUnlockMutexForThread(y, m, y.m[m].waiting[NextWaiter(y, m)], "ok"),
              m, NextWaiter(y, m))

\* Nobody has been given m yet: x is the state when its lock has been erased.
Freeing(x, y, m) ==
  /\ Elsewhere(x, y, m) /\ y.k = x.k /\ ~y.woke
  /\ y.m[m].exists /\ y.m[m].owner = NoThread /\ y.m[m].level = 0
  /\ \A t \in Thread : y.held[t][m] = 0
  /\ Distinct(y.m[m].waiting)
  /\ \A t \in Thread : isWaitingFor(y.k, t, "MUTEX", m) => Holds(y.m[m].waiting, t)
  /\ \A t \in Thread : Holds(y.m[m].waiting, t) => Holds(x.m[m].waiting, t)

\* One of the waiters owns it.
Handed(x, y, m) ==
  /\ Elsewhere(x, y, m) /\ Eased(x.k, y.k) /\ y.woke
  /\ MutexFits(y.k, y.held, m, y.m[m])
  /\ y.m[m].owner \in Thread /\ Holds(x.m[m].waiting, y.m[m].owner)
  /\ VerifyWait(x.k, y.m[m].owner, "MUTEX", m)

\* Those whom m may be handed to have a record that can be used.
Takers(x, m) ==
  \A t \in Thread : Holds(x.m[m].waiting, t) /\ VerifyWait(x.k, t, "MUTEX", m) =>
                      RecordRight(x.k, t)

\* The list of m gets shorter.
Unlisted(y, z, m, i) ==
  LET w == y.m[m].waiting
      d == z.m[m].waiting
  IN  /\ Elsewhere(y, z, m) /\ z.k = y.k /\ z.held = y.held /\ z.woke = y.woke
      /\ SameLock(y.m[m], z.m[m])
      /\ Distinct(d) /\ Len(d) = Len(w) - 1
      /\ \A u : Holds(d, u) <=> Holds(w, u) /\ u # w[i]

LEMMA ListedLess ==
  ASSUME NEW y \in Locks, NEW m \in Obj, NEW i \in 1..Len(y.m[m].waiting),
         Distinct(y.m[m].waiting)
  PROVE  Unlisted(y, Unlist(y, m, i), m, i)
<1> DEFINE w == y.m[m].waiting
           d == DropAt(w, i)
           q == [y.m[m] EXCEPT !.waiting = d]
           z == Unlist(y, m, i)
<1>1. y.m[m] \in Mutex /\ w \in Seq(Thread)
  BY DEF Locks, Mutex
<1>2. /\ d \in Seq(Thread) /\ Distinct(d) /\ Len(d) = Len(w) - 1
      /\ \A u : Holds(d, u) <=> Holds(w, u) /\ u # w[i]
  <2> HIDE DEF w
  <2>1. w \in Seq(Thread) /\ i \in 1..Len(w) /\ Distinct(w)
    BY <1>1 DEF w
  <2>2. /\ d \in Seq(Thread) /\ Distinct(d)
        /\ \A u : Holds(d, u) <=> Holds(w, u) /\ u # w[i]
    BY <2>1, DropAtHolds
  <2>3. Len(d) = Len(w) - 1
    BY <2>1, EraseAt
  <2> QED BY <2>2, <2>3
<1>3. z = Put(y, m, q)
  BY DEF Put, Locks, Unlist
<1> HIDE DEF z, d
<1>4. q \in Mutex /\ q.waiting = d /\ SameLock(y.m[m], q)
  BY <1>1, <1>2 DEF Mutex, SameLock
<1> HIDE DEF q
<1>5. Elsewhere(y, z, m) /\ z.m[m] = q /\ z.k = y.k /\ z.held = y.held /\ z.woke = y.woke
  BY <1>3, <1>4, PutLocks
<1>6. z.m[m].waiting = d /\ SameLock(y.m[m], z.m[m])
  BY <1>4, <1>5
<1> HIDE DEF w
<1>7. w = y.m[m].waiting
  BY DEF w
<1>8. Unlisted(y, z, m, i)
  BY <1>2, <1>5, <1>6, <1>7 DEF Unlisted
<1> QED BY <1>8 DEF z

\* m is handed to t, which is in the list.
LEMMA GiveFits ==
  ASSUME NEW x \in Locks, KernelInv(x.k), EndShapes(x.k), NEW m \in Obj, Takers(x, m),
         NEW y, Freeing(x, y, m), NEW i \in 1..Len(y.m[m].waiting),
         VerifyWait(y.k, y.m[m].waiting[i], "MUTEX", m)
  PROVE  Handed(x, Unlist(KernelUnlockMutexForThread(y, m, y.m[m].waiting[i], "ok"), m, i), m)
<1> DEFINE w == y.m[m].waiting
           t == w[i]
           g == KernelUnlockMutexForThread(y, m, t, "ok")
           z == Unlist(g, m, i)
<1>1. /\ y \in Locks /\ y.k = x.k /\ y.m[m] \in Mutex /\ w \in Seq(Thread) /\ t \in Thread
      /\ Holds(w, t) /\ Distinct(w)
  <2>1. y \in Locks /\ y.k = x.k /\ Distinct(w)
    BY DEF Freeing, Elsewhere
  <2>2. y.m[m] \in Mutex
    BY <2>1 DEF Locks
  <2>3. w \in Seq(Thread)
    BY <2>2 DEF Mutex
  <2> QED BY <2>1, <2>2, <2>3 DEF Holds
<1>2. /\ VerifyWait(x.k, t, "MUTEX", m) /\ Holds(x.m[m].waiting, t) /\ RecordRight(x.k, t)
      /\ VerifyWait(y.k, t, "MUTEX", m) /\ y.m[m].exists /\ y.m[m].owner = NoThread
  BY <1>1 DEF Takers, Freeing
<1>3. x.k.wait[t].type = "MUTEX" /\ x.k.wait[t].id = m
  BY <1>2, UidAssumption DEF VerifyWait, KernelGetWaitID
<1> HIDE DEF t, w, g, z
<1>4. /\ Elsewhere(y, g, m) /\ Eased(y.k, g.k) /\ g.woke
      /\ ~Waits(g.k, t) /\ g.k.ret[t] = "ok" /\ g.k.wait = y.k.wait
      /\ y.k.wait[t].timed => g.k.timer["MUTEX"][t] = 0
      /\ Locked(y.m[m], g.m[m], y.k.wait[t].value, t)
      /\ \A u \in Thread : g.held[u][m] = y.held[u][m] + (IF u = t THEN 1 ELSE 0)
  <2>1. KernelInv(y.k) /\ EndShapes(y.k)
    BY <1>1
  <2> QED BY <1>1, <1>2, <2>1, GiveOne DEF g
<1>5. /\ g.m[m].waiting = w /\ g.m[m].exists /\ g.m[m].owner = t
      /\ g.m[m].level = x.k.wait[t].value
  BY <1>1, <1>2, <1>4 DEF Locked, w
<1>6. g \in Locks /\ i \in 1..Len(g.m[m].waiting)
  BY <1>4, <1>5 DEF Elsewhere, w
<1>7. /\ Elsewhere(g, z, m) /\ z.k = g.k /\ z.held = g.held /\ z.woke = g.woke
      /\ SameLock(g.m[m], z.m[m])
      /\ Distinct(z.m[m].waiting) /\ \A u : Holds(z.m[m].waiting, u) <=> Holds(w, u) /\ u # t
  <2>1. Distinct(g.m[m].waiting)
    BY <1>1, <1>5
  <2>2. Unlisted(g, z, m, i)
    BY <1>6, <2>1, ListedLess DEF z
  <2> QED BY <1>5, <2>2 DEF Unlisted, t
<1>8. z.m[m].exists /\ z.m[m].owner = t /\ z.m[m].level = x.k.wait[t].value
  BY <1>5, <1>7 DEF SameLock
<1>9. Elsewhere(x, z, m)
  BY <1>4, <1>7, ElsewhereTransitive DEF Freeing
<1>10. MutexFits(z.k, z.held, m, z.m[m])
  <2>1. x.k.wait[t].value > 0 /\ ~Gone(x.k, t)
    BY <1>2, <1>3 DEF RecordRight
  <2>2. ~Gone(g.k, t)
    BY <1>1, <1>4, <2>1 DEF Eased, Steady, Lives
  <2>3. \A u \in Thread : z.held[u][m] = IF u = t THEN 1 ELSE 0
    BY <1>4, <1>7 DEF Freeing
  <2>4. ASSUME NEW u \in Thread PROVE WaiterRight(z.k, z.m[m], m, u)
    <3> SUFFICES ASSUME isWaitingFor(g.k, u, "MUTEX", m)
                 PROVE  Holds(z.m[m].waiting, u) /\ t \notin {NoThread, u}
      BY <1>7, <1>8 DEF WaiterRight
    <3>1. isWaitingFor(y.k, u, "MUTEX", m) /\ u # t
      BY <1>4 DEF Eased, Freed, Quiet, Kept, isWaitingFor, Waits
    <3>2. Holds(w, u)
      BY <3>1 DEF Freeing, w
    <3> QED BY <1>1, <1>7, <3>1, <3>2, UidAssumption
  <2>5. ASSUME NEW u \in Thread PROVE HandedRight(z.k, z.m[m], m, u)
    BY <1>4, <1>7, <1>8 DEF HandedRight
  <2>6. t # NoThread
    BY <1>1, UidAssumption
  <2> QED BY <1>7, <1>8, <2>1, <2>2, <2>3, <2>4, <2>5, <2>6 DEF MutexFits
<1> QED BY <1>1, <1>2, <1>4, <1>7, <1>8, <1>9, <1>10 DEF Handed, z, g, t, w

\* One more id is tried.
LEMMA TryNextHolds ==
  ASSUME NEW x \in Locks, KernelInv(x.k), EndShapes(x.k), NEW m \in Obj, Takers(x, m),
         NEW y, Freeing(x, y, m), y.m[m].waiting # <<>>
  PROVE  LET z == TryNext(y, m)
         IN  \/ Handed(x, z, m)
             \/ /\ Freeing(x, z, m)
                /\ Len(z.m[m].waiting) = Len(y.m[m].waiting) - 1
<1> DEFINE w == y.m[m].waiting
           i == NextWaiter(y, m)
           t == w[i]
           g == KernelUnlockMutexForThread(y, m, t, "ok")
           z == Unlist(g, m, i)
<1>1. y \in Locks /\ y.k = x.k /\ y.m[m] \in Mutex /\ w \in Seq(Thread) /\ Distinct(w)
  <2>1. y \in Locks /\ y.k = x.k /\ Distinct(w)
    BY DEF Freeing, Elsewhere
  <2> QED BY <2>1 DEF Locks, Mutex
<1>2. i \in 1..Len(w)
  <2>1. y.k \in Kernel /\ 1 \in 1..Len(w)
    BY <1>1 DEF Locks
  <2> HIDE DEF w
  <2>2. KernelMutexFindPriority(y.k, w) \in 1..Len(w)
    BY <1>1, <2>1, FindPriorityHolds DEF w
  <2> QED BY <2>1, <2>2 DEF NextWaiter, w
<1>3. TryNext(y, m) = z
  BY DEF TryNext, Freeing
<1> HIDE DEF i
<1>4. CASE VerifyWait(y.k, t, "MUTEX", m)
  <2> HIDE DEF z
  <2> QED BY <1>2, <1>3, <1>4, GiveFits DEF z, g, t, w
<1>5. CASE ~VerifyWait(y.k, t, "MUTEX", m)
  <2>1. t \in Thread
    BY <1>1, <1>2
  <2>2. g = y /\ ~isWaitingFor(y.k, t, "MUTEX", m)
    BY <1>1, <1>5, <2>1, PassedOver
  <2> DEFINE z2 == Unlist(y, m, i)
  <2> HIDE DEF t, g, z, z2
  <2>3. Unlisted(y, z2, m, i)
    BY <1>1, <1>2, ListedLess DEF z2
  <2>4. z = z2
    BY <2>2 DEF z, z2
  <2>5. z2.m[m].exists /\ z2.m[m].owner = NoThread /\ z2.m[m].level = 0
    BY <2>3 DEF SameLock, Unlisted, Freeing
  <2>6. /\ \A u \in Thread : isWaitingFor(z2.k, u, "MUTEX", m) => Holds(z2.m[m].waiting, u)
        /\ \A u \in Thread : Holds(z2.m[m].waiting, u) => Holds(x.m[m].waiting, u)
    BY <2>2, <2>3 DEF Freeing, Unlisted, t
  <2>7. Elsewhere(x, z2, m)
    BY <2>3, ElsewhereTransitive DEF Freeing, Unlisted
  <2>8. z2.k = x.k /\ ~z2.woke /\ \A u \in Thread : z2.held[u][m] = 0
    BY <2>3 DEF Freeing, Unlisted
  <2>9. Distinct(z2.m[m].waiting) /\ Len(z2.m[m].waiting) = Len(w) - 1
    BY <2>3 DEF Unlisted
  <2>10. Freeing(x, z2, m)
    BY <2>5, <2>6, <2>7, <2>8, <2>9 DEF Freeing
  <2> QED BY <1>3, <2>4, <2>9, <2>10
<1> QED BY <1>4, <1>5

-----------------------------------------------------------------------------
(* __KernelUnlockMutex(). *)

\* m can be unlocked: its level is 0 already, its owner is still listed with it.
Unlockable(x, m) ==
  /\ x.m[m].exists /\ x.m[m].level = 0
  /\ \A t \in Thread : x.held[t][m] = IF x.m[m].owner = t THEN 1 ELSE 0
  /\ Distinct(x.m[m].waiting)
  /\ \A t \in Thread : isWaitingFor(x.k, t, "MUTEX", m) => Holds(x.m[m].waiting, t)
  /\ Takers(x, m)

\* m is free with nobody waiting, or one of those who waited for it owns it.
Unlocked(x, z, m) ==
  /\ Elsewhere(x, z, m) /\ Eased(x.k, z.k)
  /\ MutexFits(z.k, z.held, m, z.m[m])
  /\ z.m[m].owner # NoThread =>
       Holds(x.m[m].waiting, z.m[m].owner) /\ VerifyWait(x.k, z.m[m].owner, "MUTEX", m)

\* after[i] is the state after i rounds.
MutexUnlockLoop(x, m, after) ==
  /\ after[0] = [KernelMutexEraseLock(x, m) EXCEPT !.woke = FALSE]
  /\ \A i \in 1..Len(x.m[m].waiting) : after[i] = TryNext(after[i - 1], m)
  /\ KernelUnlockMutex(x, m) = after[Len(x.m[m].waiting)]

LEMMA MutexUnlockLoopExists ==
  ASSUME NEW x, NEW m, Len(x.m[m].waiting) \in Nat
  PROVE  \E after : MutexUnlockLoop(x, m, after)
<1> DEFINE n == Len(x.m[m].waiting)
           start == [KernelMutexEraseLock(x, m) EXCEPT !.woke = FALSE]
           IsLoop(f, l) ==
             f = [i \in 0..l |-> IF i = 0 THEN start ELSE TryNext(f[i - 1], m)]
           after == CHOOSE f : IsLoop(f, n)
<1>1. KernelUnlockMutex(x, m) = after[n]
  BY DEF KernelUnlockMutex, TryNext, Unlist, NextWaiter
<1>2. n \in Nat
  OBVIOUS
<1>3. after[0] = start /\ \A i \in 1..n : after[i] = TryNext(after[i - 1], m)
  <2> HIDE DEF n, start
  <2>1. IsLoop(after, n)
    <3> DEFINE G == {l \in 0..n : \E f : IsLoop(f, l)}
    <3>1. 0 \in G
      <4>1. IsLoop([i \in 0..0 |-> start], 0)
        OBVIOUS
      <4> HIDE DEF IsLoop
      <4> QED BY <1>2, <4>1
    <3>2. ASSUME NEW l \in 1..n, l - 1 \in G PROVE l \in G
      <4>1. PICK f : IsLoop(f, l - 1)
        BY <3>2
      <4> DEFINE g == [i \in 0..l |-> IF i < l THEN f[i] ELSE TryNext(f[l - 1], m)]
      <4>2. ASSUME NEW i \in 0..l
            PROVE  g[i] = IF i = 0 THEN start ELSE TryNext(g[i - 1], m)
        <5>1. CASE i = 0
          BY <4>1, <5>1
        <5>2. CASE i # 0 /\ i < l
          BY <4>1, <5>2
        <5>3. CASE i = l
          BY <5>3
        <5> QED BY <5>1, <5>2, <5>3
      <4>3. IsLoop(g, l)
        BY <4>2
      <4> HIDE DEF IsLoop, g
      <4> QED BY <4>3
    <3> HIDE DEF G
    <3>3. n \in G
      <4>1. \A l \in 1..n : l - 1 \in G => l \in G
        BY <3>2
      <4>2. \A l \in 0..n : l \in G
        BY <1>2, <3>1, <4>1, SetInduction
      <4> QED BY <1>2, <4>2
    <3> QED BY <3>3 DEF G
  <2> HIDE DEF after
  <2> QED BY <1>2, <2>1
<1> HIDE DEF after
<1> QED BY <1>1, <1>3 DEF MutexUnlockLoop

LEMMA UnlockHolds ==
  ASSUME NEW x \in Locks, KernelInv(x.k), EndShapes(x.k), NEW m \in Obj, Unlockable(x, m)
  PROVE  Unlocked(x, KernelUnlockMutex(x, m), m)
<1> DEFINE n == Len(x.m[m].waiting)
           e == KernelMutexEraseLock(x, m)
           start == [e EXCEPT !.woke = FALSE]
           On(y, i) == \/ Handed(x, y, m)
                       \/ Freeing(x, y, m) /\ Len(y.m[m].waiting) <= n - i
<1>1. n \in Nat /\ x.m[m].waiting \in Seq(Thread) /\ x.k \in Kernel
  BY DEF Locks, Mutex
<1>2. PICK after : MutexUnlockLoop(x, m, after)
  BY <1>1, MutexUnlockLoopExists
<1>3. On(start, 0)
  <2>1. /\ Elsewhere(x, e, m) /\ e.k = x.k
        /\ Locked(x.m[m], e.m[m], x.m[m].level, NoThread)
        /\ \A u \in Thread : e.held[u][m] = 0
    BY EraseLocks DEF Unlockable
  <2> HIDE DEF e
  <2>2. start \in Locks /\ start.m = e.m /\ start.k = e.k /\ start.held = e.held /\ ~start.woke
    BY <2>1 DEF Elsewhere, Locks
  <2> HIDE DEF start
  <2>3. Elsewhere(x, start, m)
    BY <2>1, <2>2 DEF Elsewhere
  <2>4. start.m[m].waiting = x.m[m].waiting
    BY <2>1, <2>2 DEF Locked
  <2>5. start.m[m].exists /\ start.m[m].owner = NoThread /\ start.m[m].level = 0
    BY <2>1, <2>2 DEF Locked, Unlockable
  <2>6. Freeing(x, start, m)
    BY <2>1, <2>2, <2>3, <2>4, <2>5 DEF Freeing, Unlockable
  <2> QED BY <1>1, <2>4, <2>6
<1> DEFINE G == {i \in 0..n : On(after[i], i)}
<1>4. 0 \in G
  <2> HIDE DEF On, start
  <2> QED BY <1>1, <1>2, <1>3 DEF MutexUnlockLoop, start
<1>5. ASSUME NEW i \in 1..n, i - 1 \in G PROVE i \in G
  <2> DEFINE y == after[i - 1]
             z == TryNext(y, m)
  <2>1. On(y, i - 1) /\ after[i] = z
    BY <1>2, <1>5 DEF MutexUnlockLoop
  <2> SUFFICES On(z, i)
    BY <2>1, SMTT(20)
  <2> HIDE DEF y, z, G, n
  <2>2. CASE Handed(x, y, m)
    BY <2>1, <2>2 DEF TryNext, Handed, z
  <2>3. CASE Freeing(x, y, m) /\ Len(y.m[m].waiting) <= n - (i - 1)
    <3>1. y.m[m].waiting \in Seq(Thread) /\ Len(y.m[m].waiting) \in Nat
      BY <2>3 DEF Freeing, Elsewhere, Locks, Mutex
    <3>2. CASE y.m[m].waiting = <<>>
      <4>1. z = y /\ 0 <= n - i
        BY <1>1, <3>2 DEF TryNext, z
      <4> QED BY <2>3, <3>2, <4>1
    <3>3. CASE y.m[m].waiting # <<>>
      <4>1. \/ Handed(x, z, m)
            \/ Freeing(x, z, m) /\ Len(z.m[m].waiting) = Len(y.m[m].waiting) - 1
        BY <2>3, <3>3, TryNextHolds DEF Unlockable, z
      <4> QED BY <1>1, <2>1, <2>3, <3>1, <4>1, SMTT(20)
    <3> QED BY <3>2, <3>3
  <2> QED BY <2>1, <2>2, <2>3
<1>6. On(after[n], n)
  <2> HIDE DEF G
  <2>1. \A i \in 1..n : i - 1 \in G => i \in G
    BY <1>5
  <2>2. \A i \in 0..n : i \in G
    BY <1>1, <1>4, <2>1, SetInduction
  <2>3. n \in G
    BY <1>1, <2>2
  <2> QED BY <2>3 DEF G
<1> DEFINE z == after[n]
<1>7. KernelUnlockMutex(x, m) = z
  BY <1>2 DEF MutexUnlockLoop
<1> HIDE DEF z
<1>8. CASE Handed(x, z, m)
  BY <1>7, <1>8 DEF Handed, Unlocked
<1>9. CASE Freeing(x, z, m) /\ Len(z.m[m].waiting) <= n - n
  <2>1. z.m[m].waiting = <<>> /\ z.m[m].level = 0 /\ z.m[m].owner = NoThread
    <3>1. z.m[m].waiting \in Seq(Thread)
      BY <1>9 DEF Freeing, Elsewhere, Locks, Mutex
    <3> QED BY <1>1, <1>9, <3>1 DEF Freeing
  <2>2. \A t \in Thread : WaiterRight(z.k, z.m[m], m, t)
    BY <1>9, <2>1 DEF WaiterRight, Freeing, Holds
  <2>3. \A t \in Thread : HandedRight(z.k, z.m[m], m, t)
    BY <2>1, UidAssumption DEF HandedRight
  <2>4. \A t \in Thread : z.held[t][m] = IF z.m[m].owner = t THEN 1 ELSE 0
    BY <1>9, <2>1, UidAssumption DEF Freeing
  <2>5. MutexFits(z.k, z.held, m, z.m[m])
    BY <1>9, <2>1, <2>2, <2>3, <2>4 DEF MutexFits, Freeing
  <2>6. Eased(x.k, z.k)
    BY <1>9, EasedSelf DEF Freeing
  <2> QED BY <1>7, <1>9, <2>1, <2>5, <2>6 DEF Unlocked, Freeing
<1> QED BY <1>6, <1>8, <1>9 DEF z

-----------------------------------------------------------------------------
(* A deletion or a cancellation lets everybody go. *)

MutexClearLoop(x, m, result, after) ==
  /\ after[0] = x
  /\ \A i \in 1..Len(x.m[m].waiting) :
       after[i] = KernelUnlockMutexForThread(after[i - 1], m, x.m[m].waiting[i], result)
  /\ ClearMutexThreads(x, m, result) =
       [KernelMutexEraseLock(after[Len(x.m[m].waiting)], m) EXCEPT !.m[m].waiting = <<>>]

LEMMA MutexClearLoopExists ==
  ASSUME NEW x, NEW m, NEW result, Len(x.m[m].waiting) \in Nat
  PROVE  \E after : MutexClearLoop(x, m, result, after)
<1> DEFINE w == x.m[m].waiting
           n == Len(w)
           Round(y, i) == KernelUnlockMutexForThread(y, m, w[i], result)
           IsLoop(f, l) == f = [i \in 0..l |-> IF i = 0 THEN x ELSE Round(f[i - 1], i)]
           after == CHOOSE f : IsLoop(f, n)
<1>1. ClearMutexThreads(x, m, result) =
        [KernelMutexEraseLock(after[n], m) EXCEPT !.m[m].waiting = <<>>]
  BY DEF ClearMutexThreads
<1>2. n \in Nat
  OBVIOUS
<1>3. after[0] = x /\ \A i \in 1..n : after[i] = Round(after[i - 1], i)
  <2> HIDE DEF w, n, Round
  <2>1. IsLoop(after, n)
    <3> DEFINE G == {l \in 0..n : \E f : IsLoop(f, l)}
    <3>1. 0 \in G
      <4>1. IsLoop([i \in 0..0 |-> x], 0)
        OBVIOUS
      <4> HIDE DEF IsLoop
      <4> QED BY <1>2, <4>1
    <3>2. ASSUME NEW l \in 1..n, l - 1 \in G PROVE l \in G
      <4>1. PICK f : IsLoop(f, l - 1)
        BY <3>2
      <4> DEFINE g == [i \in 0..l |-> IF i < l THEN f[i] ELSE Round(f[l - 1], l)]
      <4>2. ASSUME NEW i \in 0..l
            PROVE  g[i] = IF i = 0 THEN x ELSE Round(g[i - 1], i)
        <5>1. CASE i = 0
          BY <4>1, <5>1
        <5>2. CASE i # 0 /\ i < l
          BY <4>1, <5>2
        <5>3. CASE i = l
          BY <5>3
        <5> QED BY <5>1, <5>2, <5>3
      <4>3. IsLoop(g, l)
        BY <4>2
      <4> HIDE DEF IsLoop, g
      <4> QED BY <4>3
    <3> HIDE DEF G
    <3>3. n \in G
      <4>1. \A l \in 1..n : l - 1 \in G => l \in G
        BY <3>2
      <4>2. \A l \in 0..n : l \in G
        BY <1>2, <3>1, <4>1, SetInduction
      <4> QED BY <1>2, <4>2
    <3> QED BY <3>3 DEF G
  <2> HIDE DEF after
  <2> QED BY <1>2, <2>1
<1> HIDE DEF after
<1> QED BY <1>1, <1>3 DEF MutexClearLoop

\* Nobody owns m and nobody waits for it.
Cleared(x, z, m) ==
  /\ Elsewhere(x, z, m) /\ Eased(x.k, z.k)
  /\ z.m[m].waiting = <<>>
  /\ z.m[m].exists = x.m[m].exists /\ z.m[m].level = x.m[m].level
  /\ z.m[m].owner = NoThread
  /\ \A t \in Thread : z.held[t][m] = 0 /\ ~isWaitingFor(z.k, t, "MUTEX", m)

LEMMA ClearHolds ==
  ASSUME NEW x \in Locks, KernelInv(x.k), EndShapes(x.k), NEW m \in Obj,
         NEW result \in Result \ {"ok", "WAIT_TIMEOUT"},
         \A t \in Thread : x.held[t][m] = IF x.m[m].owner = t THEN 1 ELSE 0,
         \A t \in Thread : isWaitingFor(x.k, t, "MUTEX", m) => Holds(x.m[m].waiting, t)
  PROVE  Cleared(x, ClearMutexThreads(x, m, result), m)
<1> DEFINE w == x.m[m].waiting
           n == Len(w)
           On(y, i) == /\ y \in Locks /\ y.m = x.m /\ y.held = x.held /\ Eased(x.k, y.k)
                       /\ \A j \in 1..i : ~isWaitingFor(y.k, w[j], "MUTEX", m)
<1>1. n \in Nat /\ w \in Seq(Thread) /\ x.k \in Kernel
  BY DEF Locks, Mutex
<1>2. PICK after : MutexClearLoop(x, m, result, after)
  BY <1>1, MutexClearLoopExists
<1> DEFINE G == {i \in 0..n : On(after[i], i)}
<1>3. 0 \in G
  <2>1. after[0] = x /\ 0 \in 0..n
    <3>1. after[0] = x
      BY <1>2 DEF MutexClearLoop
    <3>2. 0 \in 0..n
      BY <1>1
    <3> QED BY <3>1, <3>2
  <2>2. Eased(x.k, x.k)
    BY EasedSelf
  <2> HIDE DEF n, w
  <2>3. \A j \in 1..0 : FALSE
    OBVIOUS
  <2>4. On(x, 0)
    BY <2>2, <2>3
  <2> QED BY <2>1, <2>4
<1>4. ASSUME NEW i \in 1..n, i - 1 \in G PROVE i \in G
  <2> DEFINE y == after[i - 1]
             t == w[i]
             z == KernelUnlockMutexForThread(y, m, t, result)
  <2>0. after[i] = z
    BY <1>2 DEF MutexClearLoop
  <2>1. On(y, i - 1) /\ after[i] = z /\ t \in Thread
    <3> HIDE DEF z
    <3>1. t \in Thread
      BY <1>1
    <3> HIDE DEF n, w, t
    <3> QED BY <1>4, <2>0, <3>1
  <2> SUFFICES On(z, i)
    BY <2>1
  <2> HIDE DEF y, z, t, n, G, w
  <2>2. /\ z \in Locks /\ z.m = y.m /\ z.held = y.held /\ Eased(y.k, z.k)
        /\ ~isWaitingFor(z.k, t, "MUTEX", m)
    <3>1. y \in Locks /\ KernelInv(y.k) /\ EndShapes(y.k)
      BY <2>1, EasedShapes DEF Eased, Freed
    <3>2. CASE VerifyWait(y.k, t, "MUTEX", m)
      BY <2>1, <3>1, <3>2, LetGoOne DEF isWaitingFor, Waits, z
    <3>3. CASE ~VerifyWait(y.k, t, "MUTEX", m)
      BY <2>1, <3>1, <3>3, PassedOver, EasedSelf DEF z
    <3> QED BY <3>2, <3>3
  <2>3. Eased(x.k, z.k)
    BY <2>1, <2>2, EasedTransitive
  <2>4. ASSUME NEW j \in 1..i PROVE ~isWaitingFor(z.k, w[j], "MUTEX", m)
    <3>1. CASE j = i
      BY <2>2, <3>1 DEF t
    <3>2. CASE j # i
      <4>1. j \in 1..(i - 1) /\ w[j] \in Thread
        BY <1>1, <3>2 DEF n
      <4>2. ~isWaitingFor(y.k, w[j], "MUTEX", m)
        BY <2>1, <4>1
      <4> QED BY <2>2, <4>1, <4>2 DEF Eased, Freed, Quiet, Kept, isWaitingFor, Waits
    <3> QED BY <3>1, <3>2
  <2> QED BY <2>1, <2>2, <2>3, <2>4
<1> DEFINE y == after[n]
<1>5. On(y, n)
  <2> HIDE DEF G
  <2>1. \A i \in 1..n : i - 1 \in G => i \in G
    BY <1>4
  <2>2. \A i \in 0..n : i \in G
    BY <1>1, <1>3, <2>1, SetInduction
  <2>3. n \in G
    BY <1>1, <2>2
  <2> QED BY <2>3 DEF G
<1> DEFINE e == KernelMutexEraseLock(y, m)
           q == [e.m[m] EXCEPT !.waiting = <<>>]
           z == Put(e, m, q)
<1>6. ClearMutexThreads(x, m, result) = [e EXCEPT !.m[m].waiting = <<>>]
  BY <1>2 DEF MutexClearLoop
<1> HIDE DEF y, G
<1>7. /\ Elsewhere(y, e, m) /\ e.k = y.k
      /\ Locked(y.m[m], e.m[m], y.m[m].level, NoThread)
      /\ \A u \in Thread : e.held[u][m] = 0
  BY <1>5, EraseLocks
<1> HIDE DEF e
<1>8. e \in Locks /\ e.m[m] \in Mutex
  BY <1>7 DEF Elsewhere, Locks
<1>9. [e EXCEPT !.m[m].waiting = <<>>] = z
  BY <1>8 DEF Put, Locks
<1>10. q \in Mutex /\ q.waiting = <<>> /\ SameLock(e.m[m], q)
  <2>1. <<>> \in Seq(Thread)
    OBVIOUS
  <2> QED BY <1>8, <2>1 DEF Mutex, SameLock
<1> HIDE DEF q
<1>11. Elsewhere(e, z, m) /\ z.m[m] = q /\ z.k = e.k /\ z.held = e.held
  BY <1>8, <1>10, PutLocks
<1> HIDE DEF z
<1>12. Elsewhere(x, z, m)
  BY <1>5, <1>7, <1>11 DEF Elsewhere
<1>13. ASSUME NEW t \in Thread PROVE ~isWaitingFor(z.k, t, "MUTEX", m)
  <2> SUFFICES ASSUME isWaitingFor(y.k, t, "MUTEX", m) PROVE FALSE
    BY <1>7, <1>11
  <2>1. isWaitingFor(x.k, t, "MUTEX", m)
    BY <1>5 DEF Eased, Freed, Quiet, Kept, isWaitingFor, Waits
  <2> QED BY <1>5, <2>1 DEF Holds
<1>14. /\ z.m[m].exists = x.m[m].exists /\ z.m[m].level = x.m[m].level
       /\ z.m[m].owner = NoThread /\ z.m[m].waiting = <<>>
  BY <1>5, <1>7, <1>10, <1>11 DEF Locked, SameLock
<1>15. Cleared(x, z, m)
  BY <1>5, <1>7, <1>11, <1>12, <1>13, <1>14 DEF Cleared
<1> QED BY <1>6, <1>9, <1>15

-----------------------------------------------------------------------------
(* Calls. *)

\* What a mutex call starts from.
LEMMA CallFacts ==
  ASSUME MutexSound(k, mutex, held), NEW name, Calls(name)
  PROVE  /\ KernelInv(k) /\ EndShapes(k) /\ k \in Kernel /\ Sound(k) /\ Settled(k)
         /\ k.frames = <<>> /\ k.cur \in User /\ k.cur \in Thread
         /\ k.st[k.cur] \in {{"RUNNING"}, {"READY"}}
         /\ k.wait[k.cur].type = "NONE" /\ ~Gone(k, k.cur)
<1>1. Inv /\ Sound(k) /\ Settled(k) /\ EndShapes(k)
  BY SoundShapes DEF MutexSound, Sound, Inv
<1>2. /\ KernelInv(k) /\ k \in Kernel /\ k.frames = <<>>
      /\ k.cur \in User /\ k.cur \in Thread /\ k.st[k.cur] \in {{"RUNNING"}, {"READY"}}
  BY <1>1, InCall
<1> QED BY <1>1, <1>2 DEF Settled, Gone

LEMMA BeginLocks ==
  ASSUME MutexSound(k, mutex, held)
  PROVE  /\ BeginMutex \in Locks /\ BeginMutex.k = k /\ BeginMutex.m = mutex
         /\ BeginMutex.held = held /\ ~BeginMutex.woke /\ k \in Kernel
BY DEF MutexSound, Sound, KernelInv, BeginMutex, Locks

\* What a call needs to know of the mutex m.
LEMMA MutexFacts ==
  ASSUME MutexSound(k, mutex, held), NEW m \in Obj
  PROVE  /\ mutex[m] \in Mutex /\ mutex[m].waiting \in Seq(Thread)
         /\ mutex[m].level \in Nat /\ mutex[m].owner \in Thread \cup {NoThread}
         /\ MutexFits(k, held, m, mutex[m])
  BY DEF MutexSound, Mutex

\* Only what the held locks say of m matters to it.
LEMMA FitsHeld ==
  ASSUME NEW kk, NEW h, NEW m, NEW q, MutexFits(kk, h, m, q), NEW h2,
         \A t \in Thread : h2[t][m] = h[t][m]
  PROVE  MutexFits(kk, h2, m, q)
BY DEF MutexFits

\* Nobody owns q, nobody waits for it.
LEMMA FreeFits ==
  ASSUME NEW kk, NEW h, NEW m, NEW q, Distinct(q.waiting), q.level = 0,
         q.owner = NoThread,
         \A t \in Thread : h[t][m] = 0,
         \A t \in Thread : ~isWaitingFor(kk, t, "MUTEX", m)
  PROVE  MutexFits(kk, h, m, q)
<1>1. \A t \in Thread : t # NoThread
  BY UidAssumption
<1> QED BY <1>1 DEF MutexFits, WaiterRight, HandedRight

\* t, which has no record of a wait for a mutex, owns q, and nobody waits for it.
LEMMA OwnedFits ==
  ASSUME NEW kk, NEW h, NEW m, NEW q, Distinct(q.waiting), q.level > 0, q.exists,
         NEW t \in Thread, q.owner = t, ~Gone(kk, t), kk.wait[t].type # "MUTEX",
         \A u \in Thread : h[u][m] = IF u = t THEN 1 ELSE 0,
         \A u \in Thread : ~isWaitingFor(kk, u, "MUTEX", m)
  PROVE  MutexFits(kk, h, m, q)
<1>1. t # NoThread
  BY UidAssumption
<1> QED BY <1>1 DEF MutexFits, WaiterRight, HandedRight

\* The current thread, that has no record, gets none while others are let go.
LEMMA EasedCur ==
  ASSUME NEW kk, NEW k2, Eased(kk, k2), NEW t \in Thread, kk.wait[t].type = "NONE",
         ~Gone(kk, t)
  PROVE  k2.wait[t].type # "MUTEX" /\ ~Gone(k2, t)
BY DEF Eased, Steady, Records, RecordKept, NoWait, Lives

\* A call has written at most the mutex m.
OthersStay(m) == \A i \in Obj \ {m} : mutex'[i] = mutex[i]

\* The end of a call that has written m and let waiters go.
LEMMA StoreSound ==
  ASSUME MutexSound(k, mutex, held), k.frames = <<>>, NEW m \in Obj, NEW y,
         Elsewhere(BeginMutex, y, m), Eased(k, y.k), MutexFits(y.k, y.held, m, y.m[m]),
         Store(y)
  PROVE  MutexSound(k', mutex', held') /\ OthersStay(m)
<1>1. /\ Sound(k) /\ k \in Kernel /\ Settled(k) /\ y \in Locks /\ y.k \in Kernel
      /\ Freed(k, y.k) /\ Steady(k, y.k) /\ KernelInv(k) /\ KernelInv(y.k)
  BY BeginLocks DEF MutexSound, Elsewhere, Locks, Eased, Sound, Freed
<1>2. /\ Sound(y.k) /\ Sound(hleReSchedule(y.k))
  BY <1>1, FreedSound
<1>3. Quiet(y.k, hleReSchedule(y.k)) /\ Steady(y.k, hleReSchedule(y.k))
  BY <1>1, <1>2, FreedSelf, FreedSound, hleReScheduleSteady
<1>4. Quiet(y.k, y.k) /\ Steady(y.k, y.k)
  BY <1>1, FreedSelf, SteadySame DEF Freed
<1>5. k' = y.k \/ k' = hleReSchedule(y.k)
  BY DEF Store
<1>6. Sound(k') /\ Quiet(y.k, k') /\ Steady(y.k, k')
  BY <1>2, <1>3, <1>4, <1>5
<1>7. Steady(k, k')
  BY <1>1, <1>6, SteadyTransitive
<1>8. Settled(k')
  BY <1>1, <1>7, CallTidy DEF Tidy
<1>9. k' \in Kernel
  BY <1>7 DEF Steady
<1>10. ASSUME NEW t \in Thread
       PROVE  Still(k, k', "MUTEX", t) /\ Still(y.k, k', "MUTEX", t)
  <2>1. Still(y.k, k', "MUTEX", t)
    BY <1>6, KeptStill, MutexType DEF Quiet, Steady
  <2>2. Still(k, y.k, "MUTEX", t)
    BY EasedStill, MutexType
  <2> QED BY <1>1, <1>9, <2>1, <2>2, StillTransitive, MutexType
<1>11. mutex' = y.m /\ held' = y.held
  BY DEF Store
<1>12. mutex' \in [Obj -> Mutex] /\ held' \in [Thread -> [Obj -> Nat]]
  BY <1>1, <1>11 DEF Locks
<1>13. ASSUME NEW t \in Thread PROVE RecordRight(k', t)
  BY <1>10, RecordStill DEF MutexSound
<1>14. ASSUME NEW i \in Obj PROVE MutexFits(k', held', i, mutex'[i])
  <2>1. CASE i = m
    <3>1. MutexFits(k', y.held, m, y.m[m])
      BY <1>1, <1>9, <1>10, <1>11, <1>12, FitsStill
    <3> QED BY <1>11, <2>1, <3>1
  <2>2. CASE i # m
    <3>1. MutexFits(k, held, i, mutex[i]) /\ mutex[i] \in Mutex
      BY MutexFacts
    <3>2. MutexFits(k', held, i, mutex[i])
      BY <1>1, <1>9, <1>10, <3>1, FitsStill
    <3>3. mutex'[i] = mutex[i] /\ \A t \in Thread : held'[t][i] = held[t][i]
      BY <1>11, <2>2, BeginLocks DEF Elsewhere
    <3> QED BY <3>2, <3>3, FitsHeld
  <2> QED BY <2>1, <2>2
<1>15. OthersStay(m)
  BY <1>11, BeginLocks DEF Elsewhere, OthersStay
<1> QED BY <1>6, <1>8, <1>12, <1>13, <1>14, <1>15 DEF MutexSound

\* sceKernelCreateMutex().
LEMMA CreateMutexStep ==
  ASSUME MutexSound(k, mutex, held), NEW m \in Obj, NEW priority \in Priorities,
         NEW recursive \in Recursives, NEW count \in {0} \cup LockCounts,
         sceKernelCreateMutex(m, priority, recursive, count)
  PROVE  MutexSound(k', mutex', held') /\ OthersStay(m)
<1> DEFINE q == [NoMutex EXCEPT !.exists = TRUE, !.priority = priority,
                                !.recursive = recursive]
           made == Put(BeginMutex, m, q)
           y == IF count = 0 THEN made ELSE KernelMutexAcquireLock(made, m, count, k.cur)
<1>1. /\ Calls("CreateMutex") /\ ~mutex[m].exists
      /\ Store(IF count = 0 THEN [BeginMutex EXCEPT !.m[m] = q]
               ELSE KernelMutexAcquireLock([BeginMutex EXCEPT !.m[m] = q], m, count, k.cur))
  BY DEF sceKernelCreateMutex
<1>2. /\ k \in Kernel /\ KernelInv(k) /\ k.frames = <<>> /\ k.cur \in Thread
      /\ k.wait[k.cur].type = "NONE" /\ ~Gone(k, k.cur)
  BY <1>1, CallFacts
<1>3. BeginMutex \in Locks /\ BeginMutex.k = k /\ BeginMutex.m = mutex /\ BeginMutex.held = held
  BY BeginLocks
<1>4. /\ q \in Mutex /\ q.exists /\ q.level = 0 /\ q.owner = NoThread /\ q.waiting = <<>>
  <2>1. priority \in BOOLEAN /\ recursive \in BOOLEAN /\ <<>> \in Seq(Thread) /\ 0 \in Nat
    BY MutexAssumption
  <2>2. /\ NoMutex \in Mutex /\ NoMutex.level = 0 /\ NoMutex.owner = NoThread
        /\ NoMutex.waiting = <<>>
    BY <2>1 DEF Mutex, NoMutex
  <2> QED BY <2>1, <2>2 DEF Mutex
<1> HIDE DEF q
<1>5. [BeginMutex EXCEPT !.m[m] = q] = made
  BY <1>3 DEF Put, Locks
<1>6. Elsewhere(BeginMutex, made, m) /\ made.m[m] = q /\ made.k = k /\ made.held = held
  BY <1>3, <1>4, PutLocks
<1> HIDE DEF made
<1>7. Store(y)
  BY <1>1, <1>5
<1>8. \A t \in Thread : held[t][m] = 0 /\ ~isWaitingFor(k, t, "MUTEX", m)
  BY <1>1, MutexFacts, UidAssumption DEF MutexFits, WaiterRight
<1>9. Distinct(q.waiting)
  BY <1>4 DEF Distinct
<1>10. CASE count = 0
  <2>1. MutexFits(made.k, made.held, m, made.m[m])
    BY <1>4, <1>6, <1>8, <1>9, FreeFits
  <2> QED BY <1>2, <1>6, <1>7, <1>10, <2>1, StoreSound, EasedSelf
<1>11. CASE count # 0
  <2>1. count \in Nat /\ count > 0 /\ made \in Locks
    <3>1. count \in LockCounts
      BY <1>11
    <3>2. count \in Nat /\ count > 0
      BY <3>1, MutexAssumption
    <3> QED BY <1>6, <3>2 DEF Elsewhere
  <2> DEFINE z == KernelMutexAcquireLock(made, m, count, k.cur)
  <2>2. /\ Elsewhere(made, z, m) /\ z.k = made.k
        /\ Locked(made.m[m], z.m[m], count, k.cur)
        /\ \A u \in Thread :
             z.held[u][m] = made.held[u][m] + (IF u = k.cur THEN 1 ELSE 0)
    BY <1>2, <2>1, AcquireLocks
  <2> HIDE DEF z
  <2>3. \A u \in Thread : z.held[u][m] = IF u = k.cur THEN 1 ELSE 0
    BY <1>6, <1>8, <2>2
  <2>4. /\ z.m[m].exists /\ z.m[m].level > 0 /\ z.m[m].owner = k.cur
        /\ Distinct(z.m[m].waiting)
    BY <1>4, <1>6, <1>9, <2>1, <2>2 DEF Locked
  <2>5. MutexFits(z.k, z.held, m, z.m[m])
    BY <1>2, <1>6, <1>8, <2>2, <2>3, <2>4, OwnedFits
  <2>6. Store(z)
    BY <1>7, <1>11 DEF z
  <2>7. Elsewhere(BeginMutex, z, m) /\ Eased(k, z.k)
    BY <1>2, <1>6, <2>2, ElsewhereTransitive, EasedSelf
  <2> QED BY <1>2, <2>5, <2>6, <2>7, StoreSound
<1> QED BY <1>10, <1>11

\* sceKernelDeleteMutex().
LEMMA DeleteMutexStep ==
  ASSUME MutexSound(k, mutex, held), NEW m \in Obj, sceKernelDeleteMutex(m)
  PROVE  MutexSound(k', mutex', held') /\ OthersStay(m)
<1> DEFINE y == ClearMutexThreads(BeginMutex, m, "WAIT_DELETE")
           z == Put(y, m, NoMutex)
<1>1. /\ Calls("DeleteMutex") /\ Store([y EXCEPT !.m[m] = NoMutex])
  BY DEF sceKernelDeleteMutex
<1>2. KernelInv(k) /\ EndShapes(k) /\ k.frames = <<>>
  BY <1>1, CallFacts
<1>3. BeginMutex \in Locks /\ BeginMutex.k = k /\ BeginMutex.m = mutex /\ BeginMutex.held = held
  BY BeginLocks
<1>4. MutexFits(k, held, m, mutex[m])
  BY MutexFacts
<1>5. Cleared(BeginMutex, y, m)
  <2>1. \A t \in Thread : BeginMutex.held[t][m] = IF BeginMutex.m[m].owner = t THEN 1 ELSE 0
    BY <1>3, <1>4 DEF MutexFits
  <2>2. \A t \in Thread :
          isWaitingFor(BeginMutex.k, t, "MUTEX", m) => Holds(BeginMutex.m[m].waiting, t)
    BY <1>3, <1>4 DEF MutexFits, WaiterRight
  <2>3. KernelInv(BeginMutex.k) /\ EndShapes(BeginMutex.k)
        /\ "WAIT_DELETE" \in Result \ {"ok", "WAIT_TIMEOUT"}
    BY <1>2, <1>3 DEF Result
  <2> QED BY <1>3, <2>1, <2>2, <2>3, ClearHolds
<1> HIDE DEF y
<1>6. y \in Locks
  BY <1>5 DEF Cleared, Elsewhere
<1>7. [y EXCEPT !.m[m] = NoMutex] = z
  BY <1>6 DEF Put, Locks
<1>8. /\ NoMutex \in Mutex /\ NoMutex.level = 0 /\ NoMutex.owner = NoThread
      /\ Distinct(NoMutex.waiting)
  BY DEF Mutex, NoMutex, Distinct
<1>9. Elsewhere(y, z, m) /\ z.m[m] = NoMutex /\ z.k = y.k /\ z.held = y.held
  BY <1>6, <1>8, PutLocks
<1> HIDE DEF z
<1>10. Elsewhere(BeginMutex, z, m) /\ Eased(k, z.k)
  BY <1>3, <1>5, <1>9, ElsewhereTransitive DEF Cleared
<1>11. MutexFits(z.k, z.held, m, z.m[m])
  BY <1>5, <1>8, <1>9, FreeFits DEF Cleared
<1> QED BY <1>1, <1>2, <1>7, <1>10, <1>11, StoreSound

\* A lock that succeeds at once.
LEMMA LockAtOnceStep ==
  ASSUME MutexSound(k, mutex, held), NEW m \in Obj, NEW count \in LockCounts,
         NEW name, Calls(name), mutex[m].exists, Lockable(m), KernelLockMutex(m, count)
  PROVE  MutexSound(k', mutex', held') /\ OthersStay(m)
<1>1. /\ k \in Kernel /\ KernelInv(k) /\ k.frames = <<>> /\ k.cur \in Thread
      /\ k.wait[k.cur].type = "NONE" /\ ~Gone(k, k.cur)
  BY CallFacts
<1>2. BeginMutex \in Locks /\ BeginMutex.k = k /\ BeginMutex.m = mutex /\ BeginMutex.held = held
  BY BeginLocks
<1>3. /\ MutexFits(k, held, m, mutex[m]) /\ mutex[m] \in Mutex /\ mutex[m].level \in Nat
      /\ mutex[m].owner \in Thread \cup {NoThread}
      /\ count \in Nat /\ count > 0
  BY MutexFacts, MutexAssumption
<1>4. CASE mutex[m].level = 0
  <2> DEFINE z == KernelMutexAcquireLock(BeginMutex, m, count, k.cur)
  <2>1. /\ Elsewhere(BeginMutex, z, m) /\ z.k = k
        /\ Locked(mutex[m], z.m[m], count, k.cur)
        /\ \A u \in Thread :
             z.held[u][m] = held[u][m] + (IF u = k.cur THEN 1 ELSE 0)
    BY <1>1, <1>2, <1>3, AcquireLocks
  <2>2. Store(z)
    BY <1>4 DEF KernelLockMutex
  <2> HIDE DEF z
  <2>3. mutex[m].owner = NoThread
    BY <1>3, <1>4 DEF MutexFits
  <2>4. \A t \in Thread : held[t][m] = 0 /\ ~isWaitingFor(k, t, "MUTEX", m)
    BY <1>3, <2>3, UidAssumption DEF MutexFits, WaiterRight
  <2>5. \A u \in Thread : z.held[u][m] = IF u = k.cur THEN 1 ELSE 0
    BY <2>1, <2>4
  <2>6. /\ z.m[m].exists /\ z.m[m].level > 0 /\ z.m[m].owner = k.cur
        /\ Distinct(z.m[m].waiting)
    BY <1>3, <2>1 DEF Locked, MutexFits
  <2>7. MutexFits(z.k, z.held, m, z.m[m])
    BY <1>1, <2>1, <2>4, <2>5, <2>6, OwnedFits
  <2> QED BY <1>1, <2>1, <2>2, <2>7, StoreSound, EasedSelf
<1>5. CASE mutex[m].level # 0
  <2> DEFINE q == [mutex[m] EXCEPT !.level = @ + count]
             z == Put(BeginMutex, m, q)
  <2>1. Store([BeginMutex EXCEPT !.m[m].level = @ + count])
    BY <1>5 DEF KernelLockMutex
  <2>2. [BeginMutex EXCEPT !.m[m].level = @ + count] = z
    BY <1>2 DEF Put, Locks
  <2>3. /\ q \in Mutex /\ q.level > 0 /\ q.owner = mutex[m].owner
        /\ q.waiting = mutex[m].waiting /\ q.exists
    BY <1>3 DEF Mutex
  <2> HIDE DEF q
  <2>4. Elsewhere(BeginMutex, z, m) /\ z.m[m] = q /\ z.k = k /\ z.held = held
    BY <1>2, <2>3, PutLocks
  <2> HIDE DEF z
  <2>5. mutex[m].owner # NoThread
    BY <1>3, <1>5 DEF MutexFits
  <2>6. MutexFits(z.k, z.held, m, z.m[m])
    BY <1>3, <2>3, <2>4, <2>5 DEF MutexFits, WaiterRight, HandedRight
  <2> QED BY <1>1, <2>1, <2>2, <2>4, <2>6, StoreSound, EasedSelf
<1> QED BY <1>4, <1>5

\* sceKernelUnlockMutex().
LEMMA UnlockMutexStep ==
  ASSUME MutexSound(k, mutex, held), NEW m \in Obj, NEW count \in LockCounts,
         sceKernelUnlockMutex(m, count)
  PROVE  MutexSound(k', mutex', held') /\ OthersStay(m)
<1> DEFINE l == mutex[m].level - count
           q == [mutex[m] EXCEPT !.level = l]
           x == Put(BeginMutex, m, q)
<1>1. /\ Calls("UnlockMutex") /\ mutex[m].owner = k.cur /\ mutex[m].level >= count
  BY DEF sceKernelUnlockMutex
<1>2. /\ KernelInv(k) /\ EndShapes(k) /\ k.frames = <<>> /\ k.cur \in Thread
  BY <1>1, CallFacts
<1>3. BeginMutex \in Locks /\ BeginMutex.k = k /\ BeginMutex.m = mutex /\ BeginMutex.held = held
  BY BeginLocks
<1>4. /\ MutexFits(k, held, m, mutex[m]) /\ mutex[m] \in Mutex /\ mutex[m].level \in Nat
      /\ count \in Nat /\ l \in Nat /\ mutex[m].owner # NoThread
  BY <1>1, <1>2, MutexFacts, MutexAssumption, UidAssumption
<1>5. [BeginMutex EXCEPT !.m[m].level = @ - count] = x
  BY <1>3 DEF Put, Locks
<1> HIDE DEF l
<1>6. /\ q \in Mutex /\ q.level = l /\ q.owner = k.cur /\ q.waiting = mutex[m].waiting
      /\ q.exists
  BY <1>1, <1>4 DEF Mutex, MutexFits
<1> HIDE DEF q
<1>7. Elsewhere(BeginMutex, x, m) /\ x.m[m] = q /\ x.k = k /\ x.held = held
  BY <1>3, <1>6, PutLocks
<1> HIDE DEF x
<1>8. Store(IF l = 0 THEN KernelUnlockMutex(x, m) ELSE x)
  BY <1>5, <1>6, <1>7 DEF sceKernelUnlockMutex
<1>9. CASE l = 0
  <2> DEFINE z == KernelUnlockMutex(x, m)
  <2>1. Takers(x, m)
    BY <1>7 DEF Takers, MutexSound
  <2>2. Unlockable(x, m)
    BY <1>1, <1>4, <1>6, <1>7, <1>9, <2>1 DEF Unlockable, MutexFits, WaiterRight
  <2>3. Unlocked(x, z, m)
    BY <1>2, <1>7, <2>2, UnlockHolds DEF Elsewhere
  <2>4. Store(z)
    BY <1>8, <1>9
  <2> HIDE DEF z
  <2>5. Elsewhere(BeginMutex, z, m) /\ Eased(k, z.k) /\ MutexFits(z.k, z.held, m, z.m[m])
    BY <1>7, <2>3, ElsewhereTransitive DEF Unlocked
  <2> QED BY <1>2, <2>4, <2>5, StoreSound
<1>10. CASE l # 0
  <2>1. MutexFits(x.k, x.held, m, x.m[m])
    BY <1>1, <1>4, <1>6, <1>7, <1>10 DEF MutexFits, WaiterRight, HandedRight
  <2> QED BY <1>2, <1>7, <1>8, <1>10, <2>1, StoreSound, EasedSelf
<1> QED BY <1>9, <1>10

\* sceKernelCancelMutex().
LEMMA CancelMutexStep ==
  ASSUME MutexSound(k, mutex, held), NEW m \in Obj, NEW count \in {0} \cup LockCounts,
         sceKernelCancelMutex(m, count)
  PROVE  MutexSound(k', mutex', held') /\ OthersStay(m)
<1> DEFINE w == CleanupWaitingThreads(k, "MUTEX", m, mutex[m].waiting)
           q == [mutex[m] EXCEPT !.waiting = w]
           x == Put(BeginMutex, m, q)
           y == ClearMutexThreads(x, m, "WAIT_CANCEL")
           p == [y.m[m] EXCEPT !.level = 0]
           z == IF count = 0 THEN Put(y, m, p)
                ELSE KernelMutexAcquireLock(y, m, count, k.cur)
<1>1. Calls("CancelMutex") /\ mutex[m].exists
  BY DEF sceKernelCancelMutex
<1>2. /\ KernelInv(k) /\ EndShapes(k) /\ k.frames = <<>> /\ k.cur \in Thread
      /\ k.wait[k.cur].type = "NONE" /\ ~Gone(k, k.cur)
  BY <1>1, CallFacts
<1>3. BeginMutex \in Locks /\ BeginMutex.k = k /\ BeginMutex.m = mutex /\ BeginMutex.held = held
  BY BeginLocks
<1>4. /\ MutexFits(k, held, m, mutex[m]) /\ mutex[m] \in Mutex
      /\ mutex[m].waiting \in Seq(Thread) /\ Distinct(mutex[m].waiting)
  BY MutexFacts DEF MutexFits
<1>5. /\ w \in Seq(Thread) /\ Distinct(w)
      /\ \A u : Holds(mutex[m].waiting, u) /\ VerifyWait(k, u, "MUTEX", m) => Holds(w, u)
  BY <1>4, CleanupHolds
<1>6. [BeginMutex EXCEPT !.m[m].waiting = CleanupWaitingThreads(k, "MUTEX", m, @)] = x
  BY <1>3 DEF Put, Locks
<1> HIDE DEF w
<1>7. /\ q \in Mutex /\ q.waiting = w /\ q.owner = mutex[m].owner /\ q.exists
  BY <1>1, <1>4, <1>5 DEF Mutex
<1> HIDE DEF q
<1>8. Elsewhere(BeginMutex, x, m) /\ x.m[m] = q /\ x.k = k /\ x.held = held
  BY <1>3, <1>7, PutLocks
<1> HIDE DEF x
<1>9. Cleared(x, y, m)
  <2>1. \A t \in Thread : x.held[t][m] = IF x.m[m].owner = t THEN 1 ELSE 0
    BY <1>4, <1>7, <1>8 DEF MutexFits
  <2>2. ASSUME NEW t \in Thread, isWaitingFor(x.k, t, "MUTEX", m)
        PROVE  Holds(x.m[m].waiting, t)
    <3>1. VerifyWait(k, t, "MUTEX", m)
      BY <1>2, <1>8, <2>2
         DEF isWaitingFor, VerifyWait, KernelGetWaitID, Exists, EndShapes, Gone
    <3>2. Holds(mutex[m].waiting, t)
      BY <1>4, <1>8, <2>2 DEF MutexFits, WaiterRight
    <3> QED BY <1>5, <1>7, <1>8, <3>1, <3>2
  <2>3. /\ x \in Locks /\ KernelInv(x.k) /\ EndShapes(x.k)
        /\ "WAIT_CANCEL" \in Result \ {"ok", "WAIT_TIMEOUT"}
    BY <1>2, <1>8 DEF Result, Elsewhere
  <2> QED BY <2>1, <2>2, <2>3, ClearHolds
<1> HIDE DEF y
<1>10. /\ y \in Locks /\ y.m[m] \in Mutex /\ y.m[m].exists /\ y.m[m].owner = NoThread
       /\ y.m[m].waiting = <<>> /\ Elsewhere(BeginMutex, y, m) /\ Eased(k, y.k)
       /\ \A t \in Thread : y.held[t][m] = 0 /\ ~isWaitingFor(y.k, t, "MUTEX", m)
  <2>1. y \in Locks
    BY <1>9 DEF Cleared, Elsewhere
  <2> QED BY <1>7, <1>8, <1>9, <2>1, ElsewhereTransitive DEF Cleared, Locks
<1>11. Store(IF count = 0 THEN [y EXCEPT !.m[m].level = 0]
             ELSE KernelMutexAcquireLock(y, m, count, k.cur))
  BY <1>6 DEF sceKernelCancelMutex, y
<1>12. [y EXCEPT !.m[m].level = 0] = Put(y, m, p)
  BY <1>10 DEF Put, Locks
<1> HIDE DEF p
<1>13. Store(z)
  BY <1>11, <1>12
<1>14. Distinct(<<>>)
  BY DEF Distinct
<1>15. CASE count = 0
  <2> DEFINE v == Put(y, m, p)
  <2>1. /\ p \in Mutex /\ p.level = 0 /\ p.owner = NoThread /\ p.waiting = <<>>
    BY <1>10 DEF Mutex, p
  <2>2. Elsewhere(y, v, m) /\ v.m[m] = p /\ v.k = y.k /\ v.held = y.held
    BY <1>10, <2>1, PutLocks
  <2>3. Store(v)
    BY <1>13, <1>15
  <2> HIDE DEF v
  <2>4. MutexFits(v.k, v.held, m, v.m[m])
    BY <1>10, <1>14, <2>1, <2>2, FreeFits
  <2> QED BY <1>2, <1>10, <2>2, <2>3, <2>4, StoreSound, ElsewhereTransitive
<1>16. CASE count # 0
  <2> DEFINE v == KernelMutexAcquireLock(y, m, count, k.cur)
  <2>1. count \in Nat /\ count > 0
    <3>1. count \in LockCounts
      BY <1>16
    <3> QED BY <3>1, MutexAssumption
  <2>2. Store(v)
    BY <1>13, <1>16
  <2>3. /\ Elsewhere(y, v, m) /\ v.k = y.k
        /\ Locked(y.m[m], v.m[m], count, k.cur)
        /\ \A u \in Thread : v.held[u][m] = y.held[u][m] + (IF u = k.cur THEN 1 ELSE 0)
    BY <1>2, <1>10, <2>1, AcquireLocks
  <2> HIDE DEF v, z
  <2>4. \A u \in Thread : v.held[u][m] = IF u = k.cur THEN 1 ELSE 0
    BY <1>10, <2>3
  <2>5. /\ v.m[m].exists /\ v.m[m].level > 0 /\ v.m[m].owner = k.cur
        /\ Distinct(v.m[m].waiting)
    BY <1>10, <1>14, <2>1, <2>3 DEF Locked
  <2>6. v.k.wait[k.cur].type # "MUTEX" /\ ~Gone(v.k, k.cur)
    BY <1>2, <1>10, <2>3, EasedCur
  <2>7. MutexFits(v.k, v.held, m, v.m[m])
    BY <1>2, <1>10, <2>3, <2>4, <2>5, <2>6, OwnedFits
  <2> QED BY <1>2, <1>10, <2>2, <2>3, <2>7, StoreSound, ElsewhereTransitive
<1> QED BY <1>15, <1>16

\* sceKernelReferMutexStatus().
LEMMA ReferMutexStep ==
  ASSUME MutexSound(k, mutex, held), NEW m \in Obj, sceKernelReferMutexStatus(m)
  PROVE  MutexSound(k', mutex', held') /\ OthersStay(m)
<1> DEFINE w == CleanupWaitingThreads(k, "MUTEX", m, mutex[m].waiting)
           q == [mutex[m] EXCEPT !.waiting = w]
<1>1. /\ Calls("ReferMutexStatus") /\ mutex[m].exists /\ UNCHANGED <<k, held>>
      /\ mutex' = [mutex EXCEPT ![m].waiting = w]
  BY DEF sceKernelReferMutexStatus
<1>2. EndShapes(k)
  BY <1>1, CallFacts
<1>3. /\ MutexFits(k, held, m, mutex[m]) /\ mutex[m] \in Mutex
      /\ mutex[m].waiting \in Seq(Thread) /\ Distinct(mutex[m].waiting)
  BY MutexFacts DEF MutexFits
<1>4. /\ w \in Seq(Thread) /\ Distinct(w)
      /\ \A u : Holds(mutex[m].waiting, u) /\ VerifyWait(k, u, "MUTEX", m) => Holds(w, u)
  BY <1>3, CleanupHolds
<1> HIDE DEF w
<1>5. mutex' = [mutex EXCEPT ![m] = q] /\ mutex \in [Obj -> Mutex]
  BY <1>1 DEF MutexSound
<1>6. /\ q \in Mutex /\ q.waiting = w /\ q.owner = mutex[m].owner
      /\ q.exists = mutex[m].exists /\ q.level = mutex[m].level
  BY <1>3, <1>4 DEF Mutex
<1> HIDE DEF q
<1>7. /\ mutex' \in [Obj -> Mutex] /\ mutex'[m] = q
      /\ \A i \in Obj \ {m} : mutex'[i] = mutex[i]
  BY <1>5, <1>6
<1>8. ASSUME NEW t \in Thread PROVE WaiterRight(k, q, m, t)
  <2> SUFFICES ASSUME isWaitingFor(k, t, "MUTEX", m)
               PROVE  q.exists /\ q.owner \notin {NoThread, t} /\ Holds(q.waiting, t)
    BY DEF WaiterRight
  <2>1. VerifyWait(k, t, "MUTEX", m)
    BY <1>2 DEF isWaitingFor, VerifyWait, KernelGetWaitID, Exists, EndShapes, Gone
  <2>2. /\ mutex[m].exists /\ mutex[m].owner \notin {NoThread, t}
        /\ Holds(mutex[m].waiting, t)
    BY <1>3 DEF MutexFits, WaiterRight
  <2> QED BY <1>4, <1>6, <2>1, <2>2
<1>9. ASSUME NEW t \in Thread PROVE HandedRight(k, q, m, t)
  BY <1>3, <1>6 DEF MutexFits, HandedRight
<1>10. MutexFits(k, held, m, q)
  BY <1>3, <1>4, <1>6, <1>8, <1>9 DEF MutexFits
<1>11. \A i \in Obj : MutexFits(k, held, i, mutex'[i])
  BY <1>7, <1>10, MutexFacts
<1> QED BY <1>1, <1>7, <1>11 DEF MutexSound, OthersStay

\* sceKernelLockMutex() of a mutex that another thread owns.
LEMMA WaitMutexStep ==
  ASSUME MutexSound(k, mutex, held), NEW m \in Obj, NEW count \in LockCounts,
         NEW timed \in BOOLEAN, Calls("LockMutex"), k.disp, mutex[m].exists, ~Lockable(m),
         mutex' = [mutex EXCEPT ![m].waiting = ListOnce(@, k.cur)],
         k' = KernelWaitCurThread(SetWaitTimer(k, "MUTEX", timed), "MUTEX", m, count, timed),
         UNCHANGED held
  PROVE  MutexSound(k', mutex', held') /\ OthersStay(m)
<1> DEFINE c == k.cur
           w == ListOnce(mutex[m].waiting, c)
           q == [mutex[m] EXCEPT !.waiting = w]
           wt == [type |-> "MUTEX", id |-> m, value |-> count, timed |-> timed]
<1>1. /\ Sound(k) /\ k \in Kernel /\ c \in Thread /\ c \in User
      /\ k.st[c] \in {{"RUNNING"}, {"READY"}} /\ ~Gone(k, c)
  BY CallFacts
<1>2. /\ MutexFits(k, held, m, mutex[m]) /\ mutex[m] \in Mutex
      /\ mutex[m].waiting \in Seq(Thread) /\ Distinct(mutex[m].waiting)
      /\ mutex[m].level \in Nat /\ count \in Nat /\ count > 0
  BY MutexFacts, MutexAssumption DEF MutexFits
<1>3. mutex[m].owner \notin {c, NoThread}
  BY <1>2 DEF Lockable, MutexFits
<1>4. Sound(k') /\ BeginsWait(k, k', "MUTEX", wt)
  BY <1>1, <1>2, ObjAsleep, MutexType
<1>5. /\ Waits(k', c) /\ k'.wait[c] = wt /\ (timed => k'.timer["MUTEX"][c] > 0)
      /\ k'.ret = k.ret /\ k'.cur = c /\ k'.disp /\ k'.frames # <<>>
      /\ \A u \in Thread \ {c} : /\ k'.st[u] = k.st[u] /\ k'.wait[u] = k.wait[u]
                                 /\ k'.timer["MUTEX"][u] = k.timer["MUTEX"][u]
  BY <1>4 DEF BeginsWait
<1>6. k' \in Kernel /\ Settled(k')
  BY <1>4, <1>5 DEF Sound, KernelInv, Settled
<1>7. ~Gone(k', c)
  <2>1. EndShapes(k')
    BY <1>4, SoundShapes DEF Sound
  <2> QED BY <1>1, <1>5, <2>1 DEF EndShapes, Waits
<1>8. ASSUME NEW u \in Thread \ {c} PROVE Still(k, k', "MUTEX", u)
  <2>1. k'.timer["MUTEX"][u] \in Nat
    BY <1>6, TimerTypes, MutexType
  <2> QED BY <1>5, <2>1 DEF Still, Gone, Waits
<1>9. /\ w \in Seq(Thread) /\ Distinct(w)
      /\ \A u : Holds(w, u) <=> Holds(mutex[m].waiting, u) \/ u = c
  BY <1>1, <1>2, ListOnceHolds, Zenon
<1>10. mutex' = [mutex EXCEPT ![m] = q] /\ mutex \in [Obj -> Mutex]
  BY DEF MutexSound
<1> HIDE DEF w
<1>11. /\ q \in Mutex /\ q.waiting = w /\ q.owner = mutex[m].owner
       /\ q.exists = mutex[m].exists /\ q.level = mutex[m].level
  BY <1>2, <1>9 DEF Mutex
<1> HIDE DEF q
<1>12. /\ mutex' \in [Obj -> Mutex] /\ mutex'[m] = q
       /\ \A i \in Obj \ {m} : mutex'[i] = mutex[i]
  BY <1>10, <1>11
<1>13. wt.type = "MUTEX" /\ wt.id = m /\ wt.value = count /\ wt.timed = timed
  OBVIOUS
<1> HIDE DEF wt, c
<1>14. ASSUME NEW u \in Thread PROVE RecordRight(k', u)
  <2>1. CASE u = c
    BY <1>2, <1>5, <1>7, <1>13, <2>1 DEF RecordRight
  <2>2. CASE u # c
    BY <1>8, <2>2, RecordStill DEF MutexSound
  <2> QED BY <2>1, <2>2
<1>15. ASSUME NEW i \in Obj PROVE MutexFits(k', held, i, mutex'[i])
  <2>1. MutexFits(k, held, i, mutex[i]) /\ mutex[i] \in Mutex
    BY MutexFacts
  <2>2. /\ Distinct(mutex'[i].waiting)
        /\ mutex'[i].level = mutex[i].level /\ mutex'[i].owner = mutex[i].owner
        /\ mutex'[i].exists = mutex[i].exists
        /\ \A u \in Thread : Holds(mutex'[i].waiting, u) <=>
             Holds(mutex[i].waiting, u) \/ (i = m /\ u = c)
    <3>1. CASE i = m
      BY <1>9, <1>11, <1>12, <3>1
    <3>2. CASE i # m
      BY <1>12, <2>1, <3>2 DEF MutexFits
    <3> QED BY <3>1, <3>2
  <2>3. mutex[i].owner # NoThread => ~Gone(k', mutex[i].owner)
    <3>1. mutex[i].owner = c \/ mutex[i].owner = NoThread \/ mutex[i].owner \in Thread \ {c}
      BY <2>1 DEF Mutex
    <3> QED BY <1>7, <1>8, <2>1, <3>1 DEF MutexFits, Still
  <2>4. ASSUME NEW u \in Thread PROVE WaiterRight(k', mutex'[i], i, u)
    <3>1. CASE u = c
      <4>1. i = m \/ ~isWaitingFor(k', u, "MUTEX", i)
        BY <1>5, <1>13, <3>1 DEF isWaitingFor
      <4> QED BY <1>3, <2>2, <3>1, <4>1 DEF WaiterRight, c
    <3>2. CASE u # c
      <4>1. isWaitingFor(k', u, "MUTEX", i) => isWaitingFor(k, u, "MUTEX", i)
        BY <1>5, <3>2 DEF isWaitingFor
      <4>2. WaiterRight(k, mutex[i], i, u)
        BY <2>1 DEF MutexFits
      <4> QED BY <2>2, <4>1, <4>2 DEF WaiterRight
    <3> QED BY <3>1, <3>2
  <2>5. ASSUME NEW u \in Thread PROVE HandedRight(k', mutex'[i], i, u)
    <3>1. CASE u = c
      <4>1. i # m \/ mutex'[i].owner # u
        BY <1>3, <2>2, <3>1
      <4> QED BY <1>5, <1>13, <3>1, <4>1 DEF HandedRight
    <3>2. CASE u # c
      <4>1. HandedRight(k, mutex[i], i, u)
        BY <2>1 DEF MutexFits
      <4> QED BY <1>5, <2>2, <3>2, <4>1 DEF HandedRight
    <3> QED BY <3>1, <3>2
  <2> QED BY <2>1, <2>2, <2>3, <2>4, <2>5 DEF MutexFits
<1> QED BY <1>4, <1>6, <1>12, <1>14, <1>15 DEF MutexSound, OthersStay

\* sceKernelLockMutex().
LEMMA LockMutexStep ==
  ASSUME MutexSound(k, mutex, held), NEW m \in Obj, NEW count \in LockCounts,
         NEW timed \in BOOLEAN, sceKernelLockMutex(m, count, timed)
  PROVE  MutexSound(k', mutex', held') /\ OthersStay(m)
<1>1. Calls("LockMutex") /\ k.disp /\ mutex[m].exists
  BY DEF sceKernelLockMutex
<1>2. CASE Lockable(m)
  <2>1. KernelLockMutex(m, count)
    BY <1>2 DEF sceKernelLockMutex
  <2> QED BY <1>1, <1>2, <2>1, LockAtOnceStep
<1>3. CASE ~Lockable(m)
  <2>1. /\ mutex' = [mutex EXCEPT ![m].waiting = ListOnce(@, k.cur)]
        /\ k' = KernelWaitCurThread(SetWaitTimer(k, "MUTEX", timed),
                                    "MUTEX", m, count, timed)
        /\ UNCHANGED held
    BY <1>3 DEF sceKernelLockMutex
  <2> QED BY <1>1, <1>3, <2>1, WaitMutexStep
<1> QED BY <1>2, <1>3

\* sceKernelTryLockMutex().
LEMMA TryLockMutexStep ==
  ASSUME MutexSound(k, mutex, held), NEW m \in Obj, NEW count \in LockCounts,
         sceKernelTryLockMutex(m, count)
  PROVE  MutexSound(k', mutex', held') /\ OthersStay(m)
BY LockAtOnceStep DEF sceKernelTryLockMutex

\* The thread manager has moved on: nobody waits for a mutex who did not wait already,
\* and the records are as they were.
LEMMA MutexMoved ==
  ASSUME MutexSound(k, mutex, held), NEW k2, Sound(k2), Settled(k2),
         \A t \in Thread : RecordRight(k2, t),
         \A t \in Thread : Still(k, k2, "MUTEX", t)
  PROVE  MutexSound(k2, mutex, held)
<1>1. k \in Kernel /\ k2 \in Kernel
  BY DEF MutexSound, Sound, KernelInv
<1>2. \A i \in Obj : MutexFits(k2, held, i, mutex[i])
  BY <1>1, MutexFacts, FitsStill
<1> QED BY <1>2 DEF MutexSound

-----------------------------------------------------------------------------
(* The timeout. *)

\* A wait that times out leaves its record, and the other threads as they were.
LEMMA TimedOutRecords ==
  ASSUME NEW kk, Sound(kk), NEW y \in ObjWait, NEW t \in Thread, kk.timer[y][t] > 0,
         kk.wait[t].type = y, NEW rest \in Obj \cup {NoObj}
  PROVE  LET k2 == WaitExecTimeout(PopEvent(kk, y, t), t, rest)
         IN  /\ Sound(k2) /\ Quiet(kk, k2) /\ k2.wait = kk.wait /\ ~Waits(k2, t)
             /\ Lives(kk, k2) /\ k2.cur = kk.cur /\ k2.disp = kk.disp /\ k2.frames # <<>>
             /\ \A u \in Thread \ {t} : Still(kk, k2, y, u)
<1> DEFINE f == PopEvent(kk, y, t)
           k1 == KernelResumeThreadFromWait(f, t, "WAIT_TIMEOUT")
           k2 == WaitExecTimeout(f, t, rest)
<1>1. /\ KernelInv(kk) /\ kk \in Kernel /\ y \in TimerType
  BY ObjTimers DEF Sound, KernelInv
<1>2. /\ KernelInv(f) /\ WaitInv(f) /\ OneTimer(kk, f, y, t) /\ f.frames = kk.frames
      /\ Steady(kk, f) /\ f.disp = kk.disp
  BY <1>1, ObjFired, TimerSteady
<1>3. Sound(k2) /\ Quiet(kk, k2)
  BY ObjTimedOut
<1>4. k2 = [k1 EXCEPT !.frames = Append(@, rest)]
  BY DEF WaitExecTimeout
<1> HIDE DEF f, k2
<1>5. /\ EndShapes(f) /\ "RUNNING" \notin f.st[t] /\ "WAIT_TIMEOUT" \in Result
      /\ f.wait = kk.wait
  BY <1>2, SoundShapes
     DEF OneTimer, KernelInv, ThreadInv, StatusShape, ObjWait, Result
<1>6. /\ k1 \in Kernel /\ Lives(f, k1) /\ k1.cur = f.cur /\ k1.disp = f.disp
      /\ k1.frames = f.frames /\ k1.wait = f.wait /\ k1.timer = f.timer
      /\ k1.ret = [f.ret EXCEPT ![t] = "WAIT_TIMEOUT"]
  BY <1>2, <1>5, ResumeThreadRecords
<1>7. ~Waits(k1, t)
  BY <1>2, <1>5, ResumeThreadQuiet DEF EndShapes
<1> HIDE DEF k1
<1>8. /\ k2.cur = k1.cur /\ k2.disp = k1.disp /\ k2.wait = k1.wait /\ k2.st = k1.st
      /\ k2.timer = k1.timer /\ k2.ret = k1.ret /\ k2.frames = Append(k1.frames, rest)
  BY <1>4, <1>6 DEF Kernel
<1>9. k2.frames # <<>>
  <2>1. k1.frames \in Seq(Obj \cup {NoObj})
    BY <1>6 DEF Kernel
  <2>2. Append(k1.frames, rest) # <<>>
    BY <2>1
  <2> QED BY <1>8, <2>2
<1>10. ASSUME NEW u \in Thread \ {t} PROVE Still(kk, k2, y, u)
  <2>1. Kept(kk, k2, u)
    BY <1>3 DEF Quiet
  <2>2. k2.wait[u] = kk.wait[u] /\ k2.ret[u] = kk.ret[u] /\ k2.timer[y][u] = kk.timer[y][u]
    BY <1>1, <1>2, <1>5, <1>6, <1>8 DEF OneTimer, Kernel
  <2>3. k2.timer[y][u] \in Nat
    BY <1>1, <2>2, TimerTypes
  <2> QED BY <2>1, <2>2, <2>3 DEF Still, Kept, Gone
<1>11. Lives(kk, k2) /\ ~Waits(k2, t)
  BY <1>2, <1>6, <1>7, <1>8 DEF Lives, Gone, Waits, Steady
<1> QED BY <1>2, <1>3, <1>5, <1>6, <1>8, <1>9, <1>10, <1>11 DEF Steady, f, k2

\* A timer that fires finds the wait it belongs to, or one that has ended.  An owner
\* has no such timer.
LEMMA MutexTimeoutStep ==
  ASSUME MutexSound(k, mutex, held), NEW t \in User, KernelMutexTimeout(t)
  PROVE  MutexSound(k', mutex', held')
<1> DEFINE f == PopEvent(k, "MUTEX", t)
           uid == KernelGetWaitID(f, t, "MUTEX")
<1>1. /\ Sound(k) /\ Settled(k) /\ EndShapes(k) /\ k \in Kernel /\ t \in Thread
      /\ "MUTEX" \in ObjWait /\ "MUTEX" \in TimerType
  BY SoundShapes, MutexType DEF MutexSound, Sound, KernelInv, Thread
<1>2. /\ k.timer["MUTEX"][t] > 0 /\ mutex' = mutex /\ held' = held
      /\ k' = IF uid # NoObj /\ mutex[uid].exists THEN WaitExecTimeout(f, t, NoObj) ELSE f
  BY DEF KernelMutexTimeout
<1>3. OneTimer(k, f, "MUTEX", t) /\ f.frames = k.frames
  BY <1>1, <1>2, ObjFired
<1>4. k.wait[t] \in Wait
  BY <1>1 DEF Kernel
<1>5. CASE uid # NoObj /\ mutex[uid].exists
  <2> HIDE DEF f
  <2>1. k.wait[t].type = "MUTEX"
    BY <1>3, <1>5 DEF KernelGetWaitID, OneTimer
  <2> HIDE DEF uid
  <2>2. /\ Sound(k') /\ Quiet(k, k') /\ k'.wait = k.wait /\ ~Waits(k', t)
        /\ Lives(k, k') /\ k'.cur = k.cur /\ k'.disp = k.disp /\ k'.frames # <<>>
        /\ \A u \in Thread \ {t} : Still(k, k', "MUTEX", u)
    BY <1>1, <1>2, <1>5, <2>1, TimedOutRecords DEF f
  <2>3. Settled(k') /\ k' \in Kernel
    BY <1>1, <2>2 DEF Settled, Sound, KernelInv
  <2>4. ASSUME NEW u \in Thread PROVE RecordRight(k', u)
    <3>1. CASE u = t
      BY <1>1, <2>2, <3>1 DEF MutexSound, RecordRight, Lives
    <3>2. CASE u # t
      BY <2>2, <3>2, RecordStill DEF MutexSound
    <3> QED BY <3>1, <3>2
  <2>5. ASSUME NEW i \in Obj PROVE MutexFits(k', held, i, mutex[i])
    <3>1. MutexFits(k, held, i, mutex[i]) /\ mutex[i] \in Mutex
      BY MutexFacts
    <3>2. mutex[i].owner # NoThread => ~Gone(k', mutex[i].owner)
      BY <2>2, <3>1 DEF MutexFits, Lives, Mutex
    <3>3. ASSUME NEW u \in Thread PROVE WaiterRight(k', mutex[i], i, u)
      BY <2>2, <3>1 DEF MutexFits, WaiterRight, isWaitingFor, Quiet, Kept, Waits
    <3>4. ASSUME NEW u \in Thread PROVE HandedRight(k', mutex[i], i, u)
      <4>1. HandedRight(k, mutex[i], i, u)
        BY <3>1 DEF MutexFits
      <4>2. CASE u = t
        BY <1>2, <2>2, <4>1, <4>2 DEF HandedRight
      <4>3. CASE u # t
        <5>1. Still(k, k', "MUTEX", u)
          BY <2>2, <4>3
        <5>2. k'.timer["MUTEX"][u] \in Nat /\ k.timer["MUTEX"][u] \in Nat
          BY <1>1, <2>3, TimerTypes
        <5> QED BY <4>1, <5>1, <5>2 DEF HandedRight, Still
      <4> QED BY <4>2, <4>3
    <3> QED BY <3>1, <3>2, <3>3, <3>4 DEF MutexFits
  <2> QED BY <1>2, <2>2, <2>3, <2>4, <2>5 DEF MutexSound
<1>6. CASE ~(uid # NoObj /\ mutex[uid].exists)
  <2>1. ~(Waits(k, t) /\ k.wait[t].type = "MUTEX")
    <3> SUFFICES ASSUME Waits(k, t), k.wait[t].type = "MUTEX" PROVE FALSE
      OBVIOUS
    <3>1. Exists(k, t) /\ Exists(f, t)
      BY <1>1, <1>3 DEF Exists, EndShapes, Gone, Waits, OneTimer
    <3> HIDE DEF f
    <3>2. uid = k.wait[t].id /\ k.wait[t].id \in Obj
      BY <1>1, <1>3, <1>4, <3>1 DEF KernelGetWaitID, Wait, OneTimer
    <3> HIDE DEF uid
    <3>3. uid # NoObj
      BY <3>2, UidAssumption
    <3>4. WaiterRight(k, mutex[uid], uid, t)
      BY <1>1, <3>2, MutexFacts DEF MutexFits
    <3>5. mutex[uid].exists
      BY <3>2, <3>4 DEF WaiterRight, isWaitingFor, Waits
    <3> QED BY <1>6, <3>3, <3>5
  <2>2. Sound(f) /\ k' = f
    BY <1>1, <1>2, <1>6, <2>1, ObjStale
  <2>3. Steady(k, f) /\ f.disp = k.disp
    BY <1>1, <1>2, TimerSteady
  <2> HIDE DEF f, uid
  <2>4. Settled(f)
    BY <1>1, <1>3, <2>3, SteadySettled DEF Settled, Steady, Records, RecordKept, NoWait
  <2>5. ASSUME NEW u \in Thread PROVE Still(k, f, "MUTEX", u)
    <3>1. f.wait = k.wait /\ f.ret = k.ret /\ f.st = k.st
      BY <1>3 DEF OneTimer
    <3>2. f.timer["MUTEX"][u] <= k.timer["MUTEX"][u] \/ f.wait[u].type # "MUTEX"
      BY <1>1, <2>3 DEF Steady, Records, RecordKept, NoWait
    <3>3. u # t => f.timer["MUTEX"][u] = k.timer["MUTEX"][u]
      BY <1>1, <1>3 DEF OneTimer
    <3> QED BY <2>1, <3>1, <3>2, <3>3 DEF Still, Gone, Waits
  <2>6. \A u \in Thread : RecordRight(f, u)
    BY <2>5, RecordStill DEF MutexSound
  <2> QED BY <1>2, <2>2, <2>4, <2>5, <2>6, MutexMoved
<1> QED BY <1>5, <1>6

-----------------------------------------------------------------------------
(* The thread manager. *)

LEMMA MutexUndisturbedStep ==
  ASSUME Disciplined, MutexSound(k, mutex, held), Undisturbed, UNCHANGED <<mutex, held>>
  PROVE  MutexSound(k', mutex', held')
<1>1. Inv /\ WaitInv(k) /\ Settled(k)
  BY DEF MutexSound, Sound, Inv
<1>2. Good /\ Fine(k, k') /\ Tidy(k, k')
  BY <1>1, UndisturbedFine, UndisturbedTidy
<1>3. Sound(k') /\ Settled(k')
  BY <1>2 DEF Good, Fine, Sound, Tidy
<1>4. \A t \in Thread : Still(k, k', "MUTEX", t)
  BY <1>2, FineStill, MutexType
<1>5. \A t \in Thread : RecordRight(k', t)
  BY <1>4, RecordStill DEF MutexSound
<1> QED BY <1>3, <1>4, <1>5, MutexMoved

-----------------------------------------------------------------------------
(* The end of a thread. *)

\* The order in which the hash table enumerates the mutexes has each of them once.
LEMMA OrderHolds ==
  ASSUME NEW S, IsFiniteSet(S), NEW order \in SetToSeqs(S)
  PROVE  /\ Len(order) \in Nat
         /\ \A i \in 1..Len(order) : order[i] \in S
         /\ \A i, j \in 1..Len(order) : order[i] = order[j] => i = j
         /\ \A m \in S : \E i \in 1..Len(order) : order[i] = m
<1> DEFINE n == Cardinality(S)
<1>1. n \in Nat
  BY FS_CardinalityType
<1>2. /\ order \in [1..n -> S]
      /\ \A i, j \in 1..n : i # j => order[i] # order[j]
  BY DEF SetToSeqs
<1> HIDE DEF n
<1>3. Len(order) = n
  BY <1>1, <1>2
<1>4. order \in Injection(1..n, S)
  BY <1>2 DEF Injection, IsInjective
<1>5. Cardinality(1..n) = n
  BY <1>1, FS_Interval
<1>6. order \in Surjection(1..n, S)
  BY <1>4, <1>5, FS_Injection DEF n
<1> QED BY <1>1, <1>2, <1>3, <1>6 DEF Surjection

\* What the end of t begins with: t is in no list in which its record could be used.
LeftList(x, t) ==
  LET uid == KernelGetWaitID(x.k, t, "MUTEX")
  IN  IF uid # NoObj /\ x.m[uid].exists
      THEN [x EXCEPT !.m[uid].waiting = RemoveWaitingThread(@, t)] ELSE x

LEMMA LeftHolds ==
  ASSUME NEW x \in Locks, NEW t \in Thread, "DEAD" \notin x.k.st[t],
         \A m \in Obj : Distinct(x.m[m].waiting)
  PROVE  LET y == LeftList(x, t)
         IN  /\ y \in Locks /\ y.k = x.k /\ y.held = x.held
             /\ \A m \in Obj :
                  /\ SameLock(x.m[m], y.m[m]) /\ Distinct(y.m[m].waiting)
                  /\ \A u : u # t => (Holds(y.m[m].waiting, u) <=> Holds(x.m[m].waiting, u))
                  /\ x.m[m].exists /\ VerifyWait(x.k, t, "MUTEX", m)
                       => ~Holds(y.m[m].waiting, t)
<1> DEFINE uid == KernelGetWaitID(x.k, t, "MUTEX")
           y == LeftList(x, t)
<1>1. x.k.wait[t] \in Wait
  BY DEF Locks, Kernel
<1>2. \A m \in Obj : VerifyWait(x.k, t, "MUTEX", m) => m = uid /\ uid # NoObj
  BY UidAssumption DEF VerifyWait
<1>3. CASE uid # NoObj /\ x.m[uid].exists
  <2> DEFINE w == RemoveWaitingThread(x.m[uid].waiting, t)
             q == [x.m[uid] EXCEPT !.waiting = w]
  <2>1. uid \in Obj
    BY <1>1, <1>3, MutexType DEF KernelGetWaitID, Wait
  <2>2. y = [x EXCEPT !.m[uid].waiting = RemoveWaitingThread(@, t)]
    BY <1>3 DEF LeftList
  <2> HIDE DEF uid, y
  <2>3. y = Put(x, uid, q)
    BY <2>1, <2>2 DEF Put, Locks
  <2>4. x.m[uid] \in Mutex /\ x.m[uid].waiting \in Seq(Thread)
    BY <2>1 DEF Locks, Mutex
  <2>5. /\ w \in Seq(Thread) /\ Distinct(w)
        /\ \A u : Holds(w, u) <=> Holds(x.m[uid].waiting, u) /\ u # t
    BY <2>1, <2>4, WithoutHolds DEF RemoveWaitingThread
  <2> HIDE DEF w
  <2>6. q \in Mutex /\ q.waiting = w /\ SameLock(x.m[uid], q)
    BY <2>4, <2>5 DEF Mutex, SameLock
  <2> HIDE DEF q
  <2>7. Elsewhere(x, y, uid) /\ y.m[uid] = q /\ y.k = x.k /\ y.held = x.held
    BY <2>1, <2>3, <2>6, PutLocks
  <2>8. ASSUME NEW m \in Obj
        PROVE  /\ SameLock(x.m[m], y.m[m]) /\ Distinct(y.m[m].waiting)
               /\ \A u : u # t => (Holds(y.m[m].waiting, u) <=> Holds(x.m[m].waiting, u))
               /\ x.m[m].exists /\ VerifyWait(x.k, t, "MUTEX", m)
                    => ~Holds(y.m[m].waiting, t)
    <3>1. CASE m = uid
      BY <2>5, <2>6, <2>7, <3>1
    <3>2. CASE m # uid
      <4>1. y.m[m] = x.m[m]
        BY <2>7, <3>2 DEF Elsewhere
      <4> QED BY <1>2, <3>2, <4>1 DEF SameLock, uid
    <3> QED BY <3>1, <3>2
  <2>9. y \in Locks
    BY <2>7 DEF Elsewhere
  <2> QED BY <2>7, <2>8, <2>9 DEF y
<1>4. CASE ~(uid # NoObj /\ x.m[uid].exists)
  <2>1. y = x
    BY <1>4 DEF LeftList
  <2> HIDE DEF y, uid
  <2> QED BY <1>2, <1>4, <2>1 DEF SameLock, y
<1> QED BY <1>3, <1>4

\* t, which has ended, gives up m.
GiveUp(y, m) == KernelUnlockMutex([y EXCEPT !.m[m].level = 0], m)

\* m is one of the mutexes that t holds in x, where t has ended.
GivenBy(x, t, m) ==
  /\ x.m[m].exists /\ x.m[m].owner = t
  /\ \A u \in Thread : x.held[u][m] = IF u = t THEN 1 ELSE 0
  /\ Distinct(x.m[m].waiting)
  /\ \A u \in Thread : isWaitingFor(x.k, u, "MUTEX", m) => Holds(x.m[m].waiting, u)
  /\ ~(VerifyWait(x.k, t, "MUTEX", m) /\ Holds(x.m[m].waiting, t))

\* The mutexes of done fit and are not t's, the others are what they were in x.
GivenUp(x, y, t, done) ==
  /\ y \in Locks /\ Eased(x.k, y.k)
  /\ \A m \in done : MutexFits(y.k, y.held, m, y.m[m]) /\ y.m[m].owner # t
  /\ \A m \in Obj \ done : y.m[m] = x.m[m] /\ \A u \in Thread : y.held[u][m] = x.held[u][m]
  /\ \A m \in Obj : x.m[m].owner # t => y.m[m].owner = x.m[m].owner

LEMMA GiveUpHolds ==
  ASSUME NEW x \in Locks, KernelInv(x.k), EndShapes(x.k), NEW t \in Thread, Exists(x.k, t),
         \A u \in Thread \ {t} : RecordRight(x.k, u),
         NEW done \in SUBSET Obj, NEW y, GivenUp(x, y, t, done),
         NEW m \in Obj \ done, GivenBy(x, t, m)
  PROVE  GivenUp(x, GiveUp(y, m), t, done \cup {m})
<1> DEFINE q == [y.m[m] EXCEPT !.level = 0]
           l == Put(y, m, q)
           z == GiveUp(y, m)
<1>1. /\ y \in Locks /\ Eased(x.k, y.k) /\ y.m[m] = x.m[m] /\ y.m[m] \in Mutex
      /\ \A u \in Thread : y.held[u][m] = x.held[u][m]
  BY DEF GivenUp, Locks
<1>2. KernelInv(y.k) /\ EndShapes(y.k)
  BY <1>1, EasedShapes DEF Eased, Freed
<1>3. [y EXCEPT !.m[m].level = 0] = l
  BY <1>1 DEF Put, Locks
<1>4. /\ q \in Mutex /\ q.level = 0 /\ q.owner = t /\ q.exists
      /\ q.waiting = x.m[m].waiting
  BY <1>1 DEF Mutex, GivenBy
<1> HIDE DEF q
<1>5. Elsewhere(y, l, m) /\ l.m[m] = q /\ l.k = y.k /\ l.held = y.held
  BY <1>1, <1>4, PutLocks
<1> HIDE DEF l
<1>6. \A u \in Thread : isWaitingFor(l.k, u, "MUTEX", m) => Holds(q.waiting, u)
  BY <1>1, <1>4, <1>5
     DEF GivenBy, Eased, Freed, Quiet, Kept, isWaitingFor, Waits
<1>7. ASSUME VerifyWait(l.k, t, "MUTEX", m) PROVE ~Holds(q.waiting, t)
  <2>1. l.k.wait[t].type = "MUTEX" /\ l.k.wait[t].id = m /\ Exists(l.k, t)
    BY <1>7, UidAssumption DEF VerifyWait, KernelGetWaitID
  <2>2. l.k.wait[t] = x.k.wait[t]
    BY <1>1, <1>5, <2>1 DEF Eased, Steady, Records, RecordKept, NoWait
  <2>3. VerifyWait(x.k, t, "MUTEX", m)
    BY <2>1, <2>2 DEF VerifyWait, KernelGetWaitID
  <2> QED BY <1>4, <2>3 DEF GivenBy
<1>8. \A u \in Thread \ {t} : RecordRight(l.k, u)
  BY <1>1, <1>5, EasedStill, RecordStill, MutexType
<1>9. Takers(l, m)
  BY <1>5, <1>7, <1>8 DEF Takers
<1>10. Unlockable(l, m)
  BY <1>1, <1>4, <1>5, <1>6, <1>9 DEF Unlockable, GivenBy
<1>11. Unlocked(l, z, m)
  BY <1>2, <1>3, <1>5, <1>10, UnlockHolds DEF Elsewhere, GiveUp
<1> HIDE DEF z
<1>12. /\ z \in Locks /\ Eased(y.k, z.k) /\ MutexFits(z.k, z.held, m, z.m[m])
       /\ \A i \in Obj \ {m} : /\ z.m[i] = y.m[i]
                               /\ \A u \in Thread : z.held[u][i] = y.held[u][i]
  BY <1>5, <1>11 DEF Unlocked, Elsewhere
<1>13. z.m[m].owner # t
  BY <1>5, <1>7, <1>11, UidAssumption DEF Unlocked
<1>14. Eased(x.k, z.k)
  BY <1>1, <1>12, EasedTransitive
<1>15. ASSUME NEW i \in done PROVE MutexFits(z.k, z.held, i, z.m[i]) /\ z.m[i].owner # t
  <2>1. i \in Obj /\ i # m /\ z.m[i] = y.m[i]
        /\ \A u \in Thread : z.held[u][i] = y.held[u][i]
    BY <1>12
  <2>2. MutexFits(y.k, y.held, i, y.m[i]) /\ y.m[i].owner # t /\ y.m[i] \in Mutex
    BY <1>1, <2>1 DEF GivenUp, Locks
  <2>3. y.k \in Kernel /\ z.k \in Kernel
    BY <1>1, <1>12 DEF Locks
  <2>4. MutexFits(z.k, y.held, i, y.m[i])
    BY <1>12, <2>1, <2>2, <2>3, FitsStill, EasedStill, MutexType
  <2> QED BY <2>1, <2>2, <2>4, FitsHeld
<1>16. ASSUME NEW i \in Obj \ (done \cup {m})
       PROVE  z.m[i] = x.m[i] /\ \A u \in Thread : z.held[u][i] = x.held[u][i]
  BY <1>12 DEF GivenUp
<1>17. ASSUME NEW i \in Obj, x.m[i].owner # t PROVE z.m[i].owner = x.m[i].owner
  BY <1>12, <1>17 DEF GivenUp, GivenBy
<1> QED BY <1>12, <1>13, <1>14, <1>15, <1>16, <1>17 DEF GivenUp, z

\* after[i] is the state when i mutexes have been given up.
GiveUpLoop(x, t, order, after) ==
  /\ after[0] = LeftList(x, t)
  /\ \A i \in 1..Len(order) : after[i] = GiveUp(after[i - 1], order[i])
  /\ KernelMutexThreadEnd(x, t, order) = after[Len(order)]

LEMMA GiveUpLoopExists ==
  ASSUME NEW x, NEW t, NEW order, Len(order) \in Nat
  PROVE  \E after : GiveUpLoop(x, t, order, after)
<1> DEFINE n == Len(order)
           start == LeftList(x, t)
           Round(y, i) == GiveUp(y, order[i])
           IsLoop(f, l) ==
             f = [i \in 0..l |-> IF i = 0 THEN start ELSE Round(f[i - 1], i)]
           after == CHOOSE f : IsLoop(f, n)
<1>1. KernelMutexThreadEnd(x, t, order) = after[n]
  BY DEF KernelMutexThreadEnd, LeftList, GiveUp
<1>2. n \in Nat
  OBVIOUS
<1>3. after[0] = start /\ \A i \in 1..n : after[i] = Round(after[i - 1], i)
  <2> HIDE DEF n, start, Round
  <2>1. IsLoop(after, n)
    <3> DEFINE G == {l \in 0..n : \E f : IsLoop(f, l)}
    <3>1. 0 \in G
      <4>1. IsLoop([i \in 0..0 |-> start], 0)
        OBVIOUS
      <4> HIDE DEF IsLoop
      <4> QED BY <1>2, <4>1
    <3>2. ASSUME NEW l \in 1..n, l - 1 \in G PROVE l \in G
      <4>1. PICK f : IsLoop(f, l - 1)
        BY <3>2
      <4> DEFINE g == [i \in 0..l |-> IF i < l THEN f[i] ELSE Round(f[l - 1], l)]
      <4>2. ASSUME NEW i \in 0..l
            PROVE  g[i] = IF i = 0 THEN start ELSE Round(g[i - 1], i)
        <5>1. CASE i = 0
          BY <4>1, <5>1
        <5>2. CASE i # 0 /\ i < l
          BY <4>1, <5>2
        <5>3. CASE i = l
          BY <5>3
        <5> QED BY <5>1, <5>2, <5>3
      <4>3. IsLoop(g, l)
        BY <4>2
      <4> HIDE DEF IsLoop, g
      <4> QED BY <4>3
    <3> HIDE DEF G
    <3>3. n \in G
      <4>1. \A l \in 1..n : l - 1 \in G => l \in G
        BY <3>2
      <4>2. \A l \in 0..n : l \in G
        BY <1>2, <3>1, <4>1, SetInduction
      <4> QED BY <1>2, <4>2
    <3> QED BY <3>3 DEF G
  <2> HIDE DEF after
  <2> QED BY <1>2, <2>1
<1> HIDE DEF after
<1> QED BY <1>1, <1>3 DEF GiveUpLoop

\* All that t holds in x is given up, as listed in held for t.
LEMMA GiveUpAllHolds ==
  ASSUME NEW x \in Locks, NEW t \in Thread, NEW order,
         order \in SetToSeqs({m \in Obj : x.held[t][m] > 0}),
         NEW l, l = LeftList(x, t), l \in Locks, KernelInv(l.k), EndShapes(l.k),
         Exists(l.k, t), \A u \in Thread \ {t} : RecordRight(l.k, u),
         \A m \in Obj : x.held[t][m] > 0 => GivenBy(l, t, m),
         \A m \in Obj : x.held[t][m] = 0 =>
                          MutexFits(l.k, l.held, m, l.m[m]) /\ l.m[m].owner # t
  PROVE  GivenUp(l, KernelMutexThreadEnd(x, t, order), t, Obj)
<1> DEFINE S == {m \in Obj : x.held[t][m] > 0}
           n == Len(order)
           Done(i) == {m \in Obj : \A j \in (i + 1)..n : order[j] # m}
<1>1. IsFiniteSet(S)
  <2>1. S \in SUBSET Obj
    OBVIOUS
  <2> HIDE DEF S
  <2> QED BY <2>1, PoolAssumption, FS_Subset
<1>2. /\ n \in Nat /\ \A i \in 1..n : order[i] \in S
      /\ \A i, j \in 1..n : order[i] = order[j] => i = j
      /\ \A m \in S : \E i \in 1..n : order[i] = m
  <2> HIDE DEF S
  <2> QED BY <1>1, OrderHolds, SMTT(20) DEF S
<1> HIDE DEF n
<1>3. PICK after : GiveUpLoop(x, t, order, after)
  BY <1>2, GiveUpLoopExists DEF n
<1>4. /\ after[0] = l /\ KernelMutexThreadEnd(x, t, order) = after[n]
      /\ \A i \in 1..n : after[i] = GiveUp(after[i - 1], order[i])
  BY <1>3 DEF GiveUpLoop, n
<1> DEFINE G == {i \in 0..n : GivenUp(l, after[i], t, Done(i))}
<1>5. 0 \in G
  <2>1. ASSUME NEW m \in Done(0) PROVE MutexFits(l.k, l.held, m, l.m[m]) /\ l.m[m].owner # t
    <3>1. m \notin S /\ x.held[t][m] \in Nat
      BY <1>2 DEF Locks
    <3>2. x.held[t][m] = 0
      BY <3>1
    <3> QED BY <3>2
  <2> HIDE DEF Done
  <2>2. GivenUp(l, l, t, Done(0))
    BY <2>1, EasedSelf DEF GivenUp
  <2> QED BY <1>2, <1>4, <2>2
<1>6. ASSUME NEW i \in 1..n, i - 1 \in G PROVE i \in G
  <2>1. GivenUp(l, after[i - 1], t, Done(i - 1)) /\ after[i] = GiveUp(after[i - 1], order[i])
    BY <1>4, <1>6
  <2>2. order[i] \in S /\ order[i] \notin Done(i - 1)
    BY <1>2
  <2>3. order[i] \in Obj \ Done(i - 1) /\ GivenBy(l, t, order[i])
    BY <2>2
  <2>4. Done(i) = Done(i - 1) \cup {order[i]}
    <3>1. ASSUME NEW j \in (i + 1)..n PROVE order[j] # order[i]
      <4>1. j \in 1..n /\ j # i
        BY <1>2
      <4> QED BY <1>2, <4>1
    <3>2. \A j \in ((i - 1) + 1)..n : j = i \/ j \in (i + 1)..n
      BY <1>2
    <3>3. \A j \in (i + 1)..n : j \in ((i - 1) + 1)..n
      BY <1>2
    <3> QED BY <2>2, <3>1, <3>2, <3>3
  <2>5. Done(i - 1) \in SUBSET Obj
    OBVIOUS
  <2> HIDE DEF Done, S, n
  <2>6. GivenUp(l, after[i], t, Done(i - 1) \cup {order[i]})
    <3> DEFINE d == Done(i - 1)
               y == after[i - 1]
               m == order[i]
    <3>1. d \in SUBSET Obj /\ m \in Obj \ d /\ GivenBy(l, t, m) /\ GivenUp(l, y, t, d)
      BY <2>1, <2>3, <2>5
    <3> HIDE DEF d, y, m
    <3>2. GivenUp(l, GiveUp(y, m), t, d \cup {m})
      BY <3>1, GiveUpHolds
    <3> QED BY <2>1, <3>2 DEF d, y, m
  <2>7. GivenUp(l, after[i], t, Done(i))
    BY <2>4, <2>6
  <2>8. i \in 0..n
    BY <1>2
  <2> QED BY <2>7, <2>8
<1>7. GivenUp(l, after[n], t, Done(n))
  <2> HIDE DEF G
  <2>1. \A i \in 1..n : i - 1 \in G => i \in G
    BY <1>6
  <2>2. \A i \in 0..n : i \in G
    BY <1>2, <1>5, <2>1, SetInduction
  <2>3. n \in G
    BY <1>2, <2>2
  <2> QED BY <2>3 DEF G
<1>8. Done(n) = Obj
  BY <1>2
<1> QED BY <1>4, <1>7, <1>8

\* Only t, which does not wait, has left the list.
LEMMA LeftFits ==
  ASSUME NEW kk, NEW h, NEW m, NEW q, MutexFits(kk, h, m, q), NEW t, ~Waits(kk, t),
         NEW p, SameLock(q, p), Distinct(p.waiting),
         \A u : u # t => (Holds(p.waiting, u) <=> Holds(q.waiting, u))
  PROVE  MutexFits(kk, h, m, p)
<1>1. \A u \in Thread : WaiterRight(kk, p, m, u)
  BY DEF MutexFits, WaiterRight, SameLock, isWaitingFor, Waits
<1>2. \A u \in Thread : HandedRight(kk, p, m, u)
  BY DEF MutexFits, HandedRight, SameLock
<1> QED BY <1>1, <1>2 DEF MutexFits, SameLock

\* What the mutexes hear of the end of t.
Heard(t) == [BeginMutex EXCEPT !.k = KernelStopThreadBegin(k, t)]

LEMMA HeardHolds ==
  ASSUME MutexSound(k, mutex, held), NEW t \in User
  PROVE  LET x == Heard(t)
         IN  /\ x \in Locks /\ x.k = KernelStopThreadBegin(k, t)
             /\ x.m = mutex /\ x.held = held
             /\ KernelInv(x.k) /\ EndShapes(x.k) /\ x.k.st[t] = {"DORMANT"}
             /\ \A u \in Thread \ {t} : Still(k, x.k, "MUTEX", u)
<1> DEFINE fired == KernelStopThreadBegin(k, t)
<1>1. KernelInv(k) /\ EndShapes(k)
  BY SoundShapes DEF MutexSound, Sound
<1>2. /\ KernelInv(fired) /\ fired.st[t] = {"DORMANT"} /\ EndShapes(fired)
      /\ \A u \in Thread \ {t} : Kept(k, fired, u)
  BY <1>1, StopBeginInv, StopBeginKept
<1>3. Records(k, fired)
  BY <1>1, StopBeginRecords
<1> HIDE DEF fired
<1>4. \A u \in Thread \ {t} : Still(k, fired, "MUTEX", u)
  BY <1>2, <1>3, KeptStill, MutexType
<1>5. Heard(t) = [BeginMutex EXCEPT !.k = fired]
  BY DEF Heard, fired
<1>6. fired \in Kernel
  BY <1>2 DEF KernelInv
<1>7. /\ Heard(t) \in Locks /\ Heard(t).k = fired
      /\ Heard(t).m = mutex /\ Heard(t).held = held
  BY <1>5, <1>6, BeginLocks DEF Locks
<1> QED BY <1>2, <1>4, <1>7 DEF fired

\* t gives up its mutexes.
LEMMA HeardGivenUp ==
  ASSUME MutexSound(k, mutex, held), NEW t \in User,
         NEW order, order \in SetToSeqs({m \in Obj : held[t][m] > 0}),
         NEW l, l = LeftList(Heard(t), t)
  PROVE  /\ l \in Locks /\ l.k = KernelStopThreadBegin(k, t) /\ l.held = held
         /\ \A m \in Obj : l.m[m].owner = mutex[m].owner
         /\ GivenUp(l, KernelMutexThreadEnd(Heard(t), t, order), t, Obj)
<1> DEFINE x == Heard(t)
<1>1. /\ x \in Locks /\ x.k = KernelStopThreadBegin(k, t)
      /\ x.m = mutex /\ x.held = held /\ t \in Thread
      /\ KernelInv(x.k) /\ EndShapes(x.k) /\ x.k.st[t] = {"DORMANT"}
      /\ \A u \in Thread \ {t} : Still(k, x.k, "MUTEX", u)
  BY HeardHolds DEF Thread
<1> HIDE DEF x
<1>2. "DEAD" \notin x.k.st[t] /\ ~Waits(x.k, t) /\ Exists(x.k, t)
  BY <1>1 DEF Waits, Exists
<1>3. \A m \in Obj : Distinct(x.m[m].waiting)
  BY <1>1, MutexFacts DEF MutexFits
<1>4. l = LeftList(x, t)
  BY DEF x
<1>5. /\ l \in Locks /\ l.k = x.k /\ l.held = x.held
      /\ \A m \in Obj :
           /\ SameLock(x.m[m], l.m[m]) /\ Distinct(l.m[m].waiting)
           /\ \A u : u # t => (Holds(l.m[m].waiting, u) <=> Holds(x.m[m].waiting, u))
           /\ x.m[m].exists /\ VerifyWait(x.k, t, "MUTEX", m)
                => ~Holds(l.m[m].waiting, t)
  <2> DEFINE y == LeftList(x, t)
  <2>1. x \in Locks /\ t \in Thread /\ "DEAD" \notin x.k.st[t]
    BY <1>1, <1>2
  <2>2. /\ y \in Locks /\ y.k = x.k /\ y.held = x.held
        /\ \A m \in Obj :
             /\ SameLock(x.m[m], y.m[m]) /\ Distinct(y.m[m].waiting)
             /\ \A u : u # t => (Holds(y.m[m].waiting, u) <=> Holds(x.m[m].waiting, u))
             /\ x.m[m].exists /\ VerifyWait(x.k, t, "MUTEX", m)
                  => ~Holds(y.m[m].waiting, t)
    BY ONLY <1>3, <2>1, LeftHolds
  <2>3. l = y
    BY <1>4
  <2> HIDE DEF y
  <2> QED BY <2>2, <2>3
<1>6. \A u \in Thread \ {t} : RecordRight(l.k, u)
  BY <1>1, <1>5, RecordStill DEF MutexSound
<1>7. ASSUME NEW m \in Obj, x.held[t][m] > 0 PROVE GivenBy(l, t, m)
  <2>1. MutexFits(k, held, m, mutex[m]) /\ x.m[m] = mutex[m] /\ l.held = held
    BY <1>1, <1>5, MutexFacts
  <2>2. mutex[m].owner = t /\ t # NoThread
    BY <1>1, <1>7, <2>1, UidAssumption DEF MutexFits
  <2>3. /\ mutex[m].exists
        /\ \A u \in Thread : held[u][m] = IF u = t THEN 1 ELSE 0
    BY <2>1, <2>2 DEF MutexFits
  <2>4. ASSUME NEW u \in Thread, isWaitingFor(l.k, u, "MUTEX", m)
        PROVE  Holds(l.m[m].waiting, u)
    <3>1. Waits(x.k, u) /\ x.k.wait[u].type = "MUTEX" /\ x.k.wait[u].id = m
      BY <1>5, <2>4 DEF isWaitingFor, Waits
    <3>2. u # t
      BY <1>2, <3>1
    <3>3. Still(k, x.k, "MUTEX", u)
      BY <1>1, <3>2
    <3>4. isWaitingFor(k, u, "MUTEX", m)
      BY <3>1, <3>3 DEF Still, isWaitingFor, Waits
    <3>5. Holds(mutex[m].waiting, u)
      BY <2>1, <3>4 DEF MutexFits, WaiterRight
    <3> QED BY <1>5, <2>1, <3>2, <3>5
  <2> QED BY <1>5, <2>1, <2>2, <2>3, <2>4 DEF GivenBy, SameLock
<1>8. ASSUME NEW m \in Obj, x.held[t][m] = 0
      PROVE  MutexFits(l.k, l.held, m, l.m[m]) /\ l.m[m].owner # t
  <2>1. /\ MutexFits(k, held, m, mutex[m]) /\ x.m[m] = mutex[m] /\ mutex[m] \in Mutex
        /\ l.held = held
    BY <1>1, <1>5, MutexFacts
  <2>2. mutex[m].owner # t
    BY <1>1, <1>8, <2>1 DEF MutexFits
  <2>3. k \in Kernel /\ x.k \in Kernel
    BY <1>1, BeginLocks DEF Locks
  <2>4. \A u \in Thread : \/ Still(k, x.k, "MUTEX", u)
                          \/ ~Waits(x.k, u) /\ mutex[m].owner # u
    BY <1>1, <1>2, <2>2
  <2>5. MutexFits(x.k, held, m, mutex[m])
    BY <2>1, <2>3, <2>4, FitsStill
  <2>6. /\ SameLock(mutex[m], l.m[m]) /\ Distinct(l.m[m].waiting)
        /\ \A u : u # t => (Holds(l.m[m].waiting, u) <=> Holds(mutex[m].waiting, u))
    BY <1>5, <2>1
  <2>7. MutexFits(x.k, held, m, l.m[m])
    BY <1>2, <2>5, <2>6, LeftFits
  <2> QED BY <1>5, <2>1, <2>2, <2>6, <2>7 DEF SameLock
<1>9. /\ KernelInv(l.k) /\ EndShapes(l.k) /\ Exists(l.k, t)
      /\ order \in SetToSeqs({m \in Obj : x.held[t][m] > 0})
  BY <1>1, <1>2, <1>5
<1>10. /\ \A m \in Obj : x.held[t][m] > 0 => GivenBy(l, t, m)
       /\ \A m \in Obj : x.held[t][m] = 0 =>
                           MutexFits(l.k, l.held, m, l.m[m]) /\ l.m[m].owner # t
  BY <1>7, <1>8
<1>11. GivenUp(l, KernelMutexThreadEnd(x, t, order), t, Obj)
  BY <1>1, <1>4, <1>5, <1>6, <1>9, <1>10, GiveUpAllHolds
<1>12. \A m \in Obj : l.m[m].owner = mutex[m].owner
  BY <1>1, <1>5 DEF SameLock
<1> QED BY <1>1, <1>5, <1>11, <1>12 DEF x

LEMMA MutexThreadEndStep ==
  ASSUME Disciplined, MutexSound(k, mutex, held), MutexThreadEnd
  PROVE  /\ MutexSound(k', mutex', held')
         /\ \A m \in Obj : \/ mutex'[m].owner = mutex[m].owner
                           \/ k'.st[mutex[m].owner] \in {{"DORMANT"}, {"DEAD"}}
<1>1. PICK t \in User : \E order \in SetToSeqs({m \in Obj : held[t][m] > 0}) :
        LET x == KernelMutexThreadEnd(Heard(t), t, order)
        IN  ThreadEnds(t, KernelStopThreadEnd(x.k, t)) /\ mutex' = x.m /\ held' = x.held
  BY DEF MutexThreadEnd, Heard
<1>0. PICK order \in SetToSeqs({m \in Obj : held[t][m] > 0}) :
        LET x == KernelMutexThreadEnd(Heard(t), t, order)
        IN  ThreadEnds(t, KernelStopThreadEnd(x.k, t)) /\ mutex' = x.m /\ held' = x.held
  BY <1>1
<1> DEFINE z == KernelMutexThreadEnd(Heard(t), t, order)
           l == LeftList(Heard(t), t)
           fired == KernelStopThreadBegin(k, t)
<1>2. /\ l \in Locks /\ l.k = fired /\ GivenUp(l, z, t, Obj)
      /\ \A m \in Obj : l.m[m].owner = mutex[m].owner
  BY HeardGivenUp
<1>3. ThreadEnds(t, KernelStopThreadEnd(z.k, t)) /\ mutex' = z.m /\ held' = z.held
  BY <1>0
<1> HIDE DEF z, l, fired
<1>4. /\ z \in Locks /\ Eased(fired, z.k) /\ t \in Thread
      /\ \A m \in Obj : MutexFits(z.k, z.held, m, z.m[m]) /\ z.m[m].owner # t
      /\ \A m \in Obj : mutex[m].owner # t => z.m[m].owner = mutex[m].owner
  BY <1>2 DEF GivenUp, Thread
<1>5. Inv /\ WaitInv(k) /\ Settled(k) /\ Eased(KernelStopThreadBegin(k, t), z.k)
  BY <1>4 DEF MutexSound, Sound, Inv, fired
<1>6. /\ Good /\ Fine(k, k')
      /\ k'.wait[t] = NoWait /\ k'.st[t] \in {{"DORMANT"}, {"DEAD"}}
  BY <1>3, <1>5, EndRecords
<1>7. Settled(k')
  BY <1>3, <1>5, EndSettled
<1>8. Sound(k') /\ k' \in Kernel /\ z.k \in Kernel /\ fired \in Kernel /\ k \in Kernel
  <2>1. Sound(k')
    BY <1>5, <1>6 DEF Good, Fine, Sound
  <2>2. l.k \in Kernel /\ z.k \in Kernel
    BY <1>2, <1>4 DEF Locks
  <2> QED BY <1>2, <2>1, <2>2, BeginLocks DEF Sound, KernelInv
<1>9. ASSUME NEW u \in Thread \ {t}
      PROVE  Still(z.k, k', "MUTEX", u) /\ Still(k, k', "MUTEX", u)
  <2>1. Still(k, fired, "MUTEX", u) /\ Still(z.k, k', "MUTEX", u)
    BY <1>3, <1>5, EndStill, MutexType DEF fired
  <2>2. Still(fired, z.k, "MUTEX", u)
    BY <1>4, EasedStill, MutexType
  <2>3. Still(fired, k', "MUTEX", u)
    BY <1>8, <2>1, <2>2, StillTransitive, MutexType
  <2> QED BY <1>8, <2>1, <2>3, StillTransitive, MutexType
<1>10. ASSUME NEW u \in Thread PROVE RecordRight(k', u)
  <2>1. CASE u = t
    BY <1>6, <2>1 DEF RecordRight, NoWait
  <2>2. CASE u # t
    BY <1>9, <2>2, RecordStill DEF MutexSound
  <2> QED BY <2>1, <2>2
<1>11. ASSUME NEW m \in Obj PROVE MutexFits(k', held', m, mutex'[m])
  <2>1. MutexFits(z.k, z.held, m, z.m[m]) /\ z.m[m].owner # t /\ z.m[m] \in Mutex
    BY <1>4 DEF Locks
  <2>2. ~Waits(k', t)
    BY <1>6 DEF Waits
  <2>3. \A u \in Thread : \/ Still(z.k, k', "MUTEX", u)
                          \/ ~Waits(k', u) /\ z.m[m].owner # u
    BY <1>9, <2>1, <2>2
  <2>4. MutexFits(k', z.held, m, z.m[m])
    BY <1>8, <2>1, <2>3, FitsStill
  <2> QED BY <1>3, <2>4
<1>12. mutex' \in [Obj -> Mutex] /\ held' \in [Thread -> [Obj -> Nat]]
  BY <1>3, <1>4 DEF Locks
<1>13. \A m \in Obj : \/ mutex'[m].owner = mutex[m].owner
                      \/ k'.st[mutex[m].owner] \in {{"DORMANT"}, {"DEAD"}}
  BY <1>3, <1>4, <1>6
<1> QED BY <1>7, <1>8, <1>10, <1>11, <1>12, <1>13 DEF MutexSound

-----------------------------------------------------------------------------
(* The invariant holds. *)

LEMMA MutexInitSound ==
  ASSUME MutexInit
  PROVE  MutexSound(k, mutex, held)
<1>1. Sound(k)
  BY InitInv, InitWaitInv DEF MutexInit, Inv, Sound
<1>2. PICK root \in User, p \in UserPrio : k = InitKernel(root, p)
  BY DEF MutexInit, Init
<1>3. /\ k.st = [t \in Thread |-> IF t = root THEN {"RUNNING"}
                                  ELSE IF t \in Idle THEN {"READY"} ELSE {"DEAD"}]
      /\ k.wait = [t \in Thread |-> NoWait]
  BY <1>2 DEF InitKernel
<1>4. \A t \in Thread : k.wait[t] = NoWait /\ ~Waits(k, t)
  BY <1>3 DEF Waits
<1>5. Settled(k)
  BY <1>4 DEF Settled, NoWait
<1>6. \A t \in Thread : RecordRight(k, t)
  BY <1>4 DEF RecordRight, NoWait
<1>7. NoMutex \in Mutex /\ Distinct(NoMutex.waiting)
  BY DEF NoMutex, Mutex, Distinct
<1>8. /\ mutex = [m \in Obj |-> NoMutex]
      /\ held = [t \in Thread |-> [m \in Obj |-> 0]]
  BY DEF MutexInit
<1>9. mutex \in [Obj -> Mutex] /\ held \in [Thread -> [Obj -> Nat]]
  BY <1>7, <1>8
<1>10. ASSUME NEW m \in Obj PROVE MutexFits(k, held, m, mutex[m])
  <2>1. mutex[m] = NoMutex /\ \A t \in Thread : held[t][m] = 0
    BY <1>8
  <2>2. NoMutex.level = 0 /\ NoMutex.owner = NoThread
    BY DEF NoMutex
  <2>3. \A t \in Thread : ~isWaitingFor(k, t, "MUTEX", m)
    BY <1>4 DEF isWaitingFor, Waits
  <2> QED BY <1>7, <2>1, <2>2, <2>3, FreeFits
<1> QED BY <1>1, <1>5, <1>6, <1>9, <1>10 DEF MutexSound

LEMMA MutexStep ==
  ASSUME Disciplined, MutexSound(k, mutex, held), MutexNext
  PROVE  MutexSound(k', mutex', held')
<1>1. CASE MutexCall
  <2>1. PICK m \in Obj :
          \/ \E priority \in Priorities, recursive \in Recursives,
                count \in {0} \cup LockCounts :
               sceKernelCreateMutex(m, priority, recursive, count)
          \/ sceKernelDeleteMutex(m)
          \/ \E count \in LockCounts :
               \/ \E timed \in BOOLEAN : sceKernelLockMutex(m, count, timed)
               \/ sceKernelTryLockMutex(m, count)
               \/ sceKernelUnlockMutex(m, count)
          \/ \E count \in {0} \cup LockCounts : sceKernelCancelMutex(m, count)
          \/ sceKernelReferMutexStatus(m)
    BY <1>1 DEF MutexCall
  <2> QED BY <2>1, CreateMutexStep, DeleteMutexStep, LockMutexStep, TryLockMutexStep,
             UnlockMutexStep, CancelMutexStep, ReferMutexStep
<1>2. CASE \E t \in User : KernelMutexTimeout(t)
  BY <1>2, MutexTimeoutStep
<1>3. CASE MutexThreadEnd
  BY <1>3, MutexThreadEndStep
<1>4. CASE Undisturbed /\ UNCHANGED <<mutex, held>>
  BY <1>4, MutexUndisturbedStep
<1> QED BY <1>1, <1>2, <1>3, <1>4 DEF MutexNext

LEMMA MutexSoundHolds ==
  ASSUME Disciplined
  PROVE  MutexSpec => []MutexSound(k, mutex, held)
<1>1. MutexInit => MutexSound(k, mutex, held)
  BY MutexInitSound
<1>2. MutexSound(k, mutex, held) /\ [MutexNext]_mutexvars => MutexSound(k, mutex, held)'
  <2> SUFFICES ASSUME MutexSound(k, mutex, held), [MutexNext]_mutexvars
               PROVE  MutexSound(k, mutex, held)'
    OBVIOUS
  <2>1. MutexSound(k', mutex', held')
    <3>1. CASE MutexNext
      BY <3>1, MutexStep
    <3>2. CASE UNCHANGED mutexvars
      BY <3>2 DEF mutexvars
    <3> QED BY <3>1, <3>2
  <2> QED BY <2>1
<1> QED BY <1>1, <1>2, PTL DEF MutexSpec

-----------------------------------------------------------------------------
\* Whatever is created, deleted, locked, unlocked, cancelled or timed out, and whichever
\* thread ends: a mutex has a level exactly when it has an owner, mutexHeldLocks lists
\* exactly the owners, no owner is dead or dormant, and once a mutex has been handed
\* over no event is left that would tell its new owner that the wait has timed out.
THEOREM MutexInvHolds ==
  ASSUME Disciplined
  PROVE  MutexSpec => []MutexInv
<1>1. MutexSound(k, mutex, held) => MutexInv
  <2> SUFFICES ASSUME MutexSound(k, mutex, held) PROVE MutexInv
    OBVIOUS
  <2>1. \A m \in Obj : MutexFits(k, held, m, mutex[m]) /\ mutex[m] \in Mutex
    BY MutexFacts
  <2>2. MutexTypeOK
    <3>1. \A t \in Thread, m \in Obj : held[t][m] \in 0..1
      BY <2>1 DEF MutexFits
    <3>2. mutex \in [Obj -> Mutex] /\ held \in [Thread -> [Obj -> Nat]]
      BY DEF MutexSound
    <3> QED BY <3>1, <3>2 DEF MutexTypeOK
  <2>3. Inv
    BY DEF MutexSound, Sound, Inv
  <2>4. OwnersExact
    BY <2>1 DEF OwnersExact, MutexFits
  <2>5. OwnerAlive
    BY <2>1 DEF OwnerAlive, MutexFits, Gone, Exists, Stopped
  <2>6. HandOverStopsTimer
    <3> SUFFICES ASSUME NEW t \in Thread, NEW m \in Obj,
                        VerifyWait(k, t, "MUTEX", m), k.wait[t].timed
                 PROVE  IF "WAIT" \in k.st[t] THEN k.timer["MUTEX"][t] > 0
                        ELSE mutex[m].owner = t =>
                               k.timer["MUTEX"][t] = 0 /\ k.ret[t] # "WAIT_TIMEOUT"
      BY DEF HandOverStopsTimer
    <3>1. k.wait[t].type = "MUTEX" /\ k.wait[t].id = m
      BY UidAssumption DEF VerifyWait, KernelGetWaitID
    <3>2. RecordRight(k, t) /\ HandedRight(k, mutex[m], m, t)
      BY <2>1 DEF MutexSound, MutexFits
    <3> QED BY <3>1, <3>2 DEF RecordRight, HandedRight, Waits
  <2> QED BY <2>2, <2>3, <2>4, <2>5, <2>6 DEF MutexInv
<1> QED BY <1>1, MutexSoundHolds, PTL

\* Nobody waits for a free mutex, nor for one that he owns, and whoever waits is in the
\* list from which an unlock takes the next owner.
THEOREM WaitsOnlyIfLockedHolds ==
  ASSUME Disciplined
  PROVE  MutexSpec => []WaitsOnlyIfLocked
<1>1. MutexSound(k, mutex, held) => WaitsOnlyIfLocked
  BY DEF MutexSound, MutexFits, WaiterRight, WaitsOnlyIfLocked
<1> QED BY <1>1, MutexSoundHolds, PTL

-----------------------------------------------------------------------------
(* Who may take a mutex from its owner. *)

\* The mutexes that keep their owner.
OwnerStays(m) == mutex'[m].owner = mutex[m].owner

LEMMA CallOwners ==
  ASSUME MutexSound(k, mutex, held), NEW n \in Obj,
         \/ \E priority \in Priorities, recursive \in Recursives,
               count \in {0} \cup LockCounts :
              sceKernelCreateMutex(n, priority, recursive, count)
         \/ \E count \in LockCounts :
              \/ \E timed \in BOOLEAN : sceKernelLockMutex(n, count, timed)
              \/ sceKernelTryLockMutex(n, count)
              \/ sceKernelUnlockMutex(n, count)
         \/ sceKernelDeleteMutex(n)
         \/ \E count \in {0} \cup LockCounts : sceKernelCancelMutex(n, count)
         \/ sceKernelReferMutexStatus(n),
         NEW m \in Obj, mutex[m].owner # NoThread
  PROVE  \/ OwnerStays(m)
         \/ k.cur = mutex[m].owner /\ k.frames = <<>>
         \/ sceKernelDeleteMutex(m)
         \/ \E count \in {0} \cup LockCounts : sceKernelCancelMutex(m, count)
<1>1. OthersStay(n)
  BY CreateMutexStep, LockMutexStep, TryLockMutexStep, UnlockMutexStep, DeleteMutexStep,
     CancelMutexStep, ReferMutexStep
<1>2. CASE m # n
  BY <1>1, <1>2 DEF OthersStay, OwnerStays
<1>3. CASE m = n
  <2>1. /\ MutexFits(k, held, m, mutex[m]) /\ mutex[m].exists /\ mutex[m].level # 0
        /\ mutex \in [Obj -> Mutex]
    BY MutexFacts DEF MutexFits, MutexSound
  <2>2. ASSUME NEW name, Calls(name), mutex[m].owner = k.cur
        PROVE  k.cur = mutex[m].owner /\ k.frames = <<>>
    BY <2>2, CallFacts
  <2>3. CASE \E priority \in Priorities, recursive \in Recursives,
                count \in {0} \cup LockCounts :
               sceKernelCreateMutex(n, priority, recursive, count)
    BY <1>3, <2>1, <2>3 DEF sceKernelCreateMutex
  <2>4. ASSUME NEW w, mutex' = [mutex EXCEPT ![m].waiting = w]
        PROVE  OwnerStays(m)
    BY <2>1, <2>4 DEF OwnerStays, Mutex
  <2>5. ASSUME NEW count \in LockCounts, NEW timed \in BOOLEAN,
               sceKernelLockMutex(n, count, timed)
        PROVE  OwnerStays(m) \/ (k.cur = mutex[m].owner /\ k.frames = <<>>)
    <3>1. CASE Lockable(n)
      <4>1. mutex[m].owner = k.cur /\ Calls("LockMutex")
        BY <1>3, <2>1, <2>5, <3>1 DEF Lockable, sceKernelLockMutex
      <4> QED BY <2>2, <4>1
    <3>2. CASE ~Lockable(n)
      <4>1. mutex' = [mutex EXCEPT ![m].waiting = ListOnce(mutex[m].waiting, k.cur)]
        BY <1>3, <2>5, <3>2 DEF sceKernelLockMutex
      <4> QED BY <2>4, <4>1
    <3> QED BY <3>1, <3>2
  <2>6. ASSUME NEW count \in LockCounts, sceKernelTryLockMutex(n, count)
        PROVE  k.cur = mutex[m].owner /\ k.frames = <<>>
    <3>1. mutex[m].owner = k.cur /\ Calls("TryLockMutex")
      BY <1>3, <2>1, <2>6 DEF Lockable, sceKernelTryLockMutex
    <3> QED BY <2>2, <3>1
  <2>7. ASSUME NEW count \in LockCounts, sceKernelUnlockMutex(n, count)
        PROVE  k.cur = mutex[m].owner /\ k.frames = <<>>
    <3>1. mutex[m].owner = k.cur /\ Calls("UnlockMutex")
      BY <1>3, <2>7 DEF sceKernelUnlockMutex
    <3> QED BY <2>2, <3>1
  <2>8. CASE sceKernelReferMutexStatus(n)
    <3>1. mutex' = [mutex EXCEPT ![m].waiting =
                      CleanupWaitingThreads(k, "MUTEX", m, mutex[m].waiting)]
      BY <1>3, <2>8 DEF sceKernelReferMutexStatus
    <3> QED BY <2>4, <3>1
  <2> QED BY <1>3, <2>3, <2>5, <2>6, <2>7, <2>8
<1> QED BY <1>2, <1>3

LEMMA StepOwners ==
  ASSUME Disciplined, MutexSound(k, mutex, held), MutexNext,
         NEW m \in Obj, mutex[m].owner # NoThread
  PROVE  \/ OwnerStays(m)
         \/ k.cur = mutex[m].owner /\ k.frames = <<>>
         \/ sceKernelDeleteMutex(m)
         \/ \E n \in {0} \cup LockCounts : sceKernelCancelMutex(m, n)
         \/ k'.st[mutex[m].owner] \in {{"DORMANT"}, {"DEAD"}}
<1>1. CASE MutexCall
  BY <1>1, CallOwners DEF MutexCall
<1>2. CASE \E t \in User : KernelMutexTimeout(t)
  BY <1>2 DEF KernelMutexTimeout, OwnerStays
<1>3. CASE MutexThreadEnd
  BY <1>3, MutexThreadEndStep DEF OwnerStays
<1>4. CASE Undisturbed /\ UNCHANGED <<mutex, held>>
  BY <1>4 DEF OwnerStays
<1> QED BY <1>1, <1>2, <1>3, <1>4 DEF MutexNext

\* An unlock is refused to anyone but the owner, a timeout frees nothing, and the end of
\* a thread takes only its own mutexes: a mutex leaves its owner by a call of the owner
\* itself, by a cancel or a delete of that mutex, or by the end of the owner.
THEOREM OnlyOwnerGivesUpHolds ==
  ASSUME Disciplined
  PROVE  MutexSpec => OnlyOwnerGivesUp
<1>1. ASSUME MutexSound(k, mutex, held), MutexNext,
             NEW m \in Obj, mutex[m].owner # NoThread, mutex'[m].owner # mutex[m].owner
      PROVE  \/ k.cur = mutex[m].owner /\ k.frames = <<>>
             \/ sceKernelDeleteMutex(m)
             \/ \E n \in {0} \cup LockCounts : sceKernelCancelMutex(m, n)
             \/ k'.st[mutex[m].owner] \in {{"DORMANT"}, {"DEAD"}}
  BY <1>1, StepOwners DEF OwnerStays
<1>2. MutexSound(k, mutex, held) /\ [MutexNext]_mutexvars =>
        [\A m \in Obj :
           LET owner == mutex[m].owner
           IN  owner # NoThread /\ mutex'[m].owner # owner =>
                 \/ k.cur = owner /\ k.frames = <<>>
                 \/ sceKernelDeleteMutex(m) \/ \E n \in {0} \cup LockCounts : sceKernelCancelMutex(m, n)
                 \/ k'.st[owner] \in {{"DORMANT"}, {"DEAD"}}]_mutexvars
  BY <1>1
<1> QED BY <1>2, MutexSoundHolds, PTL DEF MutexSpec, OnlyOwnerGivesUp
=============================================================================
