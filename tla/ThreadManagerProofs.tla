----------------------- MODULE ThreadManagerProofs -----------------------
(***************************************************************************)
(* Proofs about the pool of host threads, for any number of workers,       *)
(* callers, priorities and tasks: no task is lost or run twice, the sizes  *)
(* are exact, and workers do not sleep on work.                            *)
(*                                                                         *)
(* The proof looks at a state through what it tells of tasks: which ones   *)
(* each queue holds, and which one each caller and worker has.  The first  *)
(* part says what the queue operations do to these sets, the second how a  *)
(* task may move, the third takes the actions one by one.                  *)
(***************************************************************************)
EXTENDS ThreadManager, UidListProofs, FiniteSetTheorems

-----------------------------------------------------------------------------
(* Queues. *)

QueueType == [Prio -> Seq(Task)]

\* A queue holds a task once at most, in the list of its own priority.
QueueOK(q) ==
  /\ q \in QueueType
  /\ \A p \in Prio : Distinct(q[p]) /\ \A i \in 1..Len(q[p]) : PriorityOf[q[p][i]] = p
  /\ IsFiniteSet(Queued(q))

LEMMA QueuedHolds ==
  ASSUME NEW q \in QueueType, NEW t
  PROVE  t \in Queued(q) <=> \E p \in Prio : Holds(q[p], t)
<1>1. ASSUME NEW p \in Prio PROVE t \in Range(q[p]) <=> Holds(q[p], t)
  <2>1. q[p] \in Seq(Task)
    BY DEF QueueType
  <2>2. DOMAIN q[p] = 1..Len(q[p])
    BY <2>1
  <2> QED BY <2>2 DEF Range, Holds
<1> QED BY <1>1 DEF Queued

LEMMA QueuedTasks ==
  ASSUME NEW q, QueueOK(q)
  PROVE  /\ Queued(q) \subseteq Task /\ Cardinality(Queued(q)) \in Nat
         /\ \A p \in Prio : \A t : Holds(q[p], t) => t \in Task /\ PriorityOf[t] = p
<1>1. q \in QueueType
  BY DEF QueueOK
<1>2. ASSUME NEW p \in Prio, NEW t, Holds(q[p], t) PROVE t \in Task /\ PriorityOf[t] = p
  <2>1. PICK i \in 1..Len(q[p]) : q[p][i] = t
    BY <1>2 DEF Holds
  <2>2. q[p] \in Seq(Task)
    BY <1>1 DEF QueueType
  <2> QED BY <2>1, <2>2 DEF QueueOK
<1>3. Cardinality(Queued(q)) \in Nat
  BY FS_CardinalityType DEF QueueOK
<1> QED BY <1>1, <1>2, <1>3, QueuedHolds

LEMMA NoWorkOK == QueueOK(NoWork) /\ Queued(NoWork) = {}
<1>1. NoWork \in QueueType /\ \A p \in Prio : NoWork[p] = <<>>
  BY DEF NoWork, QueueType
<1>2. \A p \in Prio : \A t : ~Holds(NoWork[p], t)
  BY <1>1 DEF Holds
<1>3. Queued(NoWork) = {}
  BY <1>1, <1>2, QueuedHolds
<1> QED BY <1>1, <1>3, FS_EmptySet DEF QueueOK, Distinct

\* push_back().
LEMMA PushOK ==
  ASSUME NEW q, QueueOK(q), NEW t \in Task, t \notin Queued(q)
  PROVE  LET q2 == [q EXCEPT ![PriorityOf[t]] = Append(@, t)]
         IN  /\ QueueOK(q2) /\ Queued(q2) = Queued(q) \cup {t}
             /\ Cardinality(Queued(q2)) = Cardinality(Queued(q)) + 1
<1> DEFINE r == PriorityOf[t]
           q2 == [q EXCEPT ![r] = Append(@, t)]
<1>1. r \in Prio /\ q \in QueueType /\ q[r] \in Seq(Task)
  BY TaskAssumption DEF QueueOK, QueueType
<1>2. ~Holds(q[r], t)
  BY <1>1, QueuedHolds
<1>3. /\ Append(q[r], t) \in Seq(Task) /\ Distinct(Append(q[r], t))
      /\ \A x : Holds(Append(q[r], t), x) <=> Holds(q[r], x) \/ x = t
  BY <1>1, <1>2, AppendHolds DEF QueueOK
<1>4. \A i \in 1..Len(Append(q[r], t)) : PriorityOf[Append(q[r], t)[i]] = r
  <2> SUFFICES ASSUME NEW i \in 1..Len(Append(q[r], t))
               PROVE  PriorityOf[Append(q[r], t)[i]] = r
    OBVIOUS
  <2>1. Holds(Append(q[r], t), Append(q[r], t)[i])
    BY DEF Holds
  <2> QED BY <1>1, <1>3, <2>1, QueuedTasks
<1>5. q2 \in QueueType /\ \A p \in Prio : q2[p] = IF p = r THEN Append(q[r], t) ELSE q[p]
  BY <1>1, <1>3 DEF QueueType
<1> HIDE DEF q2
<1>6. \A x : x \in Queued(q2) <=> x \in Queued(q) \cup {t}
  BY <1>1, <1>3, <1>5, QueuedHolds
<1>7. Queued(q2) = Queued(q) \cup {t}
  BY <1>6
<1>8. \A p \in Prio : Distinct(q2[p]) /\ \A i \in 1..Len(q2[p]) : PriorityOf[q2[p][i]] = p
  BY <1>3, <1>4, <1>5 DEF QueueOK
<1>9. IsFiniteSet(Queued(q2)) /\ Cardinality(Queued(q2)) = Cardinality(Queued(q)) + 1
  BY <1>7, FS_AddElement DEF QueueOK
<1>10. QueueOK(q2)
  BY <1>5, <1>8, <1>9 DEF QueueOK
<1> QED BY <1>7, <1>9, <1>10 DEF q2, r

\* front() and pop_front().
LEMMA PopOK ==
  ASSUME NEW q, QueueOK(q), NEW r \in Prio, q[r] # <<>>
  PROVE  LET q2 == [q EXCEPT ![r] = Tail(@)]
             t == Head(q[r])
         IN  /\ t \in Task /\ t \in Queued(q)
             /\ QueueOK(q2) /\ Queued(q2) = Queued(q) \ {t}
             /\ Cardinality(Queued(q2)) = Cardinality(Queued(q)) - 1
<1> DEFINE t == Head(q[r])
           q2 == [q EXCEPT ![r] = Tail(@)]
<1>1. q \in QueueType /\ q[r] \in Seq(Task)
  BY DEF QueueOK, QueueType
<1>2. /\ Tail(q[r]) \in Seq(Task) /\ Distinct(Tail(q[r])) /\ t \in Task /\ Holds(q[r], t)
      /\ \A x : Holds(Tail(q[r]), x) <=> Holds(q[r], x) /\ x # t
  BY <1>1, TailHolds DEF QueueOK
<1> HIDE DEF t
<1>3. \A i \in 1..Len(Tail(q[r])) : PriorityOf[Tail(q[r])[i]] = r
  <2> SUFFICES ASSUME NEW i \in 1..Len(Tail(q[r]))
               PROVE  PriorityOf[Tail(q[r])[i]] = r
    OBVIOUS
  <2>1. Holds(Tail(q[r]), Tail(q[r])[i])
    BY DEF Holds
  <2> QED BY <1>1, <1>2, <2>1, QueuedTasks
<1>4. q2 \in QueueType /\ \A p \in Prio : q2[p] = IF p = r THEN Tail(q[r]) ELSE q[p]
  BY <1>1, <1>2 DEF QueueType
<1> HIDE DEF q2
<1>5. \A p \in Prio : Holds(q[p], t) => p = r
  BY <1>2, QueuedTasks
<1>6. \A x : x \in Queued(q2) <=> x \in Queued(q) \ {t}
  BY <1>1, <1>2, <1>4, <1>5, QueuedHolds
<1>7. Queued(q2) = Queued(q) \ {t} /\ t \in Queued(q)
  BY <1>1, <1>2, <1>6, QueuedHolds
<1>8. \A p \in Prio : Distinct(q2[p]) /\ \A i \in 1..Len(q2[p]) : PriorityOf[q2[p][i]] = p
  BY <1>2, <1>3, <1>4 DEF QueueOK
<1>9. IsFiniteSet(Queued(q2)) /\ Cardinality(Queued(q2)) = Cardinality(Queued(q)) - 1
  BY <1>7, FS_RemoveElement DEF QueueOK
<1>10. QueueOK(q2)
  BY <1>4, <1>8, <1>9 DEF QueueOK
<1> QED BY <1>2, <1>7, <1>9, <1>10 DEF q2, t

\* Remaining() keeps what may not be cancelled, in order; here, that each such task
\* is kept once.
LEMMA RemainingHolds ==
  ASSUME NEW s \in Seq(Task), Distinct(s)
  PROVE  /\ Remaining(s) \in Seq(Task) /\ Distinct(Remaining(s))
         /\ \A x : Holds(Remaining(s), x) <=> Holds(s, x) /\ x \notin Cancellable
<1> DEFINE n == Len(s)
           Step(r, i) == IF s[i] \in Cancellable THEN r ELSE Append(r, s[i])
           IsLoop(f, m) == f = [i \in 0..m |-> IF i = 0 THEN <<>> ELSE Step(f[i - 1], i)]
           left == CHOOSE f : IsLoop(f, n)
<1>1. Remaining(s) = left[n] /\ n \in Nat
  <2> DEFINE loop == CHOOSE f : f = [i \in 0..n |->
                       IF i = 0 THEN <<>>
                       ELSE IF s[i] \in Cancellable THEN f[i - 1]
                       ELSE Append(f[i - 1], s[i])]
  <2>1. Remaining(s) = loop[n]
    BY DEF Remaining
  <2>2. loop = left
    OBVIOUS
  <2> QED BY <2>1, <2>2
<1>2. left[0] = <<>> /\ \A i \in 1..n : left[i] = Step(left[i - 1], i)
  <2> HIDE DEF n, Step
  <2>1. IsLoop(left, n)
    <3> DEFINE G == {m \in 0..n : \E f : IsLoop(f, m)}
    <3>1. 0 \in G
      <4>1. IsLoop([i \in 0..0 |-> <<>>], 0)
        OBVIOUS
      <4> HIDE DEF IsLoop
      <4> QED BY <1>1, <4>1
    <3>2. ASSUME NEW m \in 1..n, m - 1 \in G PROVE m \in G
      <4>1. PICK f : IsLoop(f, m - 1)
        BY <3>2
      <4> DEFINE g == [i \in 0..m |-> IF i < m THEN f[i] ELSE Step(f[m - 1], m)]
      <4>2. ASSUME NEW i \in 0..m
            PROVE  g[i] = IF i = 0 THEN <<>> ELSE Step(g[i - 1], i)
        <5>1. CASE i = 0
          BY <4>1, <5>1
        <5>2. CASE i # 0 /\ i < m
          BY <4>1, <5>2
        <5>3. CASE i = m
          BY <5>3
        <5> QED BY <5>1, <5>2, <5>3
      <4>3. IsLoop(g, m)
        BY <4>2
      <4> HIDE DEF IsLoop, g
      <4> QED BY <4>3
    <3> HIDE DEF G
    <3>3. \A m \in 1..n : m - 1 \in G => m \in G
      BY <3>2
    <3>4. \A m \in 0..n : m \in G
      BY <1>1, <3>1, <3>3, SetInduction
    <3>5. n \in G
      BY <1>1, <3>4
    <3> QED BY <3>5 DEF G
  <2> HIDE DEF left
  <2> QED BY <1>1, <2>1
<1> HIDE DEF left
\* What the first i elements of s leave.
<1> DEFINE Seen(i, x) == \E j \in 1..i : s[j] = x
           Good(i) == /\ left[i] \in Seq(Task) /\ Distinct(left[i])
                      /\ \A x : Holds(left[i], x) <=> Seen(i, x) /\ x \notin Cancellable
           G == {i \in 0..n : Good(i)}
<1>3. Good(0)
  BY <1>2 DEF Holds, Distinct
<1>4. ASSUME NEW i \in 1..n, Good(i - 1) PROVE Good(i)
  <2>1. i - 1 \in 0..n /\ s[i] \in Task
    BY <1>1
  <2>2. \A x : Seen(i, x) <=> Seen(i - 1, x) \/ x = s[i]
    BY <2>1
  <2>3. CASE s[i] \in Cancellable
    <3>1. left[i] = left[i - 1]
      BY <1>2, <2>3
    <3> HIDE DEF Seen
    <3> QED BY <1>4, <2>2, <2>3, <3>1
  <2>4. CASE s[i] \notin Cancellable
    <3>1. left[i] = Append(left[i - 1], s[i])
      BY <1>2, <2>4
    <3>2. ~Seen(i - 1, s[i])
      BY <1>1, <2>1 DEF Distinct
    <3> HIDE DEF Seen
    <3>3. ~Holds(left[i - 1], s[i])
      BY <1>4, <3>2
    <3>4. /\ left[i] \in Seq(Task) /\ Distinct(left[i])
          /\ \A x : Holds(left[i], x) <=> Holds(left[i - 1], x) \/ x = s[i]
      BY <1>4, <2>1, <3>1, <3>3, AppendHolds
    <3> QED BY <1>4, <2>2, <2>4, <3>4
  <2> QED BY <2>3, <2>4
<1>5. 0 \in G /\ \A i \in 1..n : i - 1 \in G => i \in G
  <2> HIDE DEF Good
  <2> QED BY <1>1, <1>3, <1>4
<1>6. n \in G
  <2> HIDE DEF G
  <2>1. \A i \in 0..n : i \in G
    BY <1>1, <1>5, SetInduction
  <2> QED BY <1>1, <2>1
<1>7. \A x : Seen(n, x) <=> Holds(s, x)
  BY DEF Holds
<1> HIDE DEF Seen
<1> QED BY <1>1, <1>6, <1>7

LEMMA RemainingOK ==
  ASSUME NEW q, QueueOK(q)
  PROVE  LET q2 == [p \in Prio |-> Remaining(q[p])]
         IN  QueueOK(q2) /\ Queued(q2) = Queued(q) \ Cancellable
<1> DEFINE q2 == [p \in Prio |-> Remaining(q[p])]
<1>1. \A p \in Prio : q[p] \in Seq(Task) /\ Distinct(q[p])
  BY DEF QueueOK, QueueType
<1>2. /\ q2 \in QueueType
      /\ \A p \in Prio : /\ Distinct(q2[p])
                         /\ \A x : Holds(q2[p], x) <=> Holds(q[p], x) /\ x \notin Cancellable
  BY <1>1, RemainingHolds DEF QueueType
<1> HIDE DEF q2
<1>3. \A x : x \in Queued(q2) <=> x \in Queued(q) \ Cancellable
  BY <1>2, QueuedHolds DEF QueueOK
<1>4. Queued(q2) = Queued(q) \ Cancellable
  BY <1>3
<1>5. IsFiniteSet(Queued(q2))
  BY <1>4, FS_Subset DEF QueueOK
<1>6. ASSUME NEW p \in Prio, NEW i \in 1..Len(q2[p]) PROVE PriorityOf[q2[p][i]] = p
  <2>1. Holds(q2[p], q2[p][i])
    BY DEF Holds
  <2>2. Holds(q[p], q2[p][i])
    BY <1>2, <2>1
  <2> QED BY <2>2, QueuedTasks
<1>7. QueueOK(q2)
  BY <1>2, <1>5, <1>6 DEF QueueOK
<1> QED BY <1>4, <1>7 DEF q2

LEMMA ConcatHolds ==
  ASSUME NEW s \in Seq(Task), NEW r \in Seq(Task)
  PROVE  /\ s \o r \in Seq(Task)
         /\ \A x : Holds(s \o r, x) <=> Holds(s, x) \/ Holds(r, x)
         /\ Distinct(s) /\ Distinct(r) /\ (\A x : ~(Holds(s, x) /\ Holds(r, x)))
              => Distinct(s \o r)
<1> DEFINE u == s \o r
<1>1. /\ u \in Seq(Task) /\ Len(u) = Len(s) + Len(r)
      /\ Len(s) \in Nat /\ Len(r) \in Nat
      /\ \A i \in 1..Len(s) : u[i] = s[i]
      /\ \A i \in 1..Len(r) : u[Len(s) + i] = r[i]
  OBVIOUS
<1> HIDE DEF u
<1>2. \A i \in 1..Len(u) : \/ i \in 1..Len(s) /\ u[i] = s[i]
                           \/ i - Len(s) \in 1..Len(r) /\ u[i] = r[i - Len(s)]
  BY <1>1
<1>3. ASSUME NEW x PROVE Holds(u, x) <=> Holds(s, x) \/ Holds(r, x)
  <2>1. Holds(u, x) => Holds(s, x) \/ Holds(r, x)
    BY <1>2 DEF Holds
  <2>2. Holds(s, x) => Holds(u, x)
    BY <1>1 DEF Holds
  <2>3. Holds(r, x) => Holds(u, x)
    <3> SUFFICES ASSUME NEW i \in 1..Len(r), r[i] = x PROVE Holds(u, x)
      BY DEF Holds
    <3>1. Len(s) + i \in 1..Len(u) /\ u[Len(s) + i] = x
      BY <1>1
    <3> QED BY <3>1 DEF Holds
  <2> QED BY <2>1, <2>2, <2>3
<1>4. ASSUME Distinct(s), Distinct(r), \A x : ~(Holds(s, x) /\ Holds(r, x)),
             NEW i \in 1..Len(u), NEW j \in 1..Len(u), u[i] = u[j]
      PROVE  i = j
  <2>1. CASE i \in 1..Len(s) /\ u[i] = s[i] /\ j \in 1..Len(s) /\ u[j] = s[j]
    BY <1>4, <2>1 DEF Distinct
  <2>2. CASE /\ i - Len(s) \in 1..Len(r) /\ u[i] = r[i - Len(s)]
             /\ j - Len(s) \in 1..Len(r) /\ u[j] = r[j - Len(s)]
    <3>1. i - Len(s) = j - Len(s)
      BY <1>4, <2>2 DEF Distinct
    <3> QED BY <1>1, <3>1
  <2>3. ~(\E k \in 1..Len(s), l \in 1..Len(r) : s[k] = r[l])
    BY <1>4 DEF Holds
  <2> QED BY <1>2, <1>4, <2>1, <2>2, <2>3
<1>5. Distinct(s) /\ Distinct(r) /\ (\A x : ~(Holds(s, x) /\ Holds(r, x))) => Distinct(u)
  BY <1>4 DEF Distinct
<1> QED BY <1>1, <1>3, <1>5 DEF u

\* What the teardown hands back to the global queue.
LEMMA HandBackOK ==
  ASSUME NEW q, QueueOK(q), NEW q1, QueueOK(q1), Queued(q) \cap Queued(q1) = {}
  PROVE  LET q2 == [p \in Prio |-> q[p] \o q1[p]]
         IN  /\ QueueOK(q2) /\ Queued(q2) = Queued(q) \cup Queued(q1)
             /\ Cardinality(Queued(q2)) = Cardinality(Queued(q)) + Cardinality(Queued(q1))
<1> DEFINE q2 == [p \in Prio |-> q[p] \o q1[p]]
<1>1. /\ q \in QueueType /\ q1 \in QueueType
      /\ \A p \in Prio : /\ q[p] \in Seq(Task) /\ q1[p] \in Seq(Task)
                         /\ Distinct(q[p]) /\ Distinct(q1[p])
  BY DEF QueueOK, QueueType
<1>2. \A p \in Prio : \A x : ~(Holds(q[p], x) /\ Holds(q1[p], x))
  BY <1>1, QueuedHolds
<1>3. /\ q2 \in QueueType
      /\ \A p \in Prio : /\ Distinct(q2[p])
                         /\ \A x : Holds(q2[p], x) <=> Holds(q[p], x) \/ Holds(q1[p], x)
  BY <1>1, <1>2, ConcatHolds DEF QueueType
<1> HIDE DEF q2
<1>4. \A x : x \in Queued(q2) <=> x \in Queued(q) \cup Queued(q1)
  BY <1>1, <1>3, QueuedHolds
<1>5. Queued(q2) = Queued(q) \cup Queued(q1)
  BY <1>4
<1>6. /\ IsFiniteSet(Queued(q2))
      /\ Cardinality(Queued(q2)) = Cardinality(Queued(q)) + Cardinality(Queued(q1))
  <2>1. /\ Cardinality(Queued(q) \cap Queued(q1)) = 0
        /\ Cardinality(Queued(q)) \in Nat /\ Cardinality(Queued(q1)) \in Nat
    BY FS_EmptySet, QueuedTasks
  <2>2. IsFiniteSet(Queued(q)) /\ IsFiniteSet(Queued(q1))
    BY DEF QueueOK
  <2>3. /\ IsFiniteSet(Queued(q) \cup Queued(q1))
        /\ Cardinality(Queued(q) \cup Queued(q1)) =
             Cardinality(Queued(q)) + Cardinality(Queued(q1))
             - Cardinality(Queued(q) \cap Queued(q1))
    BY <2>2, FS_Union
  <2> QED BY <1>5, <2>1, <2>3
<1>7. ASSUME NEW p \in Prio, NEW i \in 1..Len(q2[p]) PROVE PriorityOf[q2[p][i]] = p
  <2>1. Holds(q2[p], q2[p][i])
    BY DEF Holds
  <2>2. Holds(q[p], q2[p][i]) \/ Holds(q1[p], q2[p][i])
    BY <1>3, <2>1
  <2> QED BY <2>2, QueuedTasks
<1>8. QueueOK(q2)
  BY <1>3, <1>6, <1>7 DEF QueueOK
<1> QED BY <1>5, <1>6, <1>8 DEF q2

-----------------------------------------------------------------------------
(* How a task may move.  G is what the global queue holds, P[w] the private *)
(* queue of w, C[c] what c is enqueuing, R[w] what w runs, tk the task's    *)
(* state.                                                                   *)

OnePlace(G, P, C, R, tk) ==
  \A t \in Task :
    /\ tk[t] = "enqueued" <=> \/ t \in G \/ \E w \in Worker : t \in P[w]
                              \/ \E c \in Client : C[c] = t
    /\ tk[t] = "running" <=> \E w \in Worker : R[w] = t
    /\ \A w \in Worker : t \in P[w] => t \notin G
    /\ \A w, v \in Worker : t \in P[w] /\ t \in P[v] => w = v
    /\ \A c \in Client : C[c] = t => t \notin G /\ \A w \in Worker : t \notin P[w]
    /\ \A c, d \in Client : C[c] = t /\ C[d] = t => c = d
    /\ \A w, v \in Worker : R[w] = t /\ R[v] = t => w = v

\* f with v at x, over the set S.
IsUpdate(S, f2, f, x, v) == \A y \in S : f2[y] = IF y = x THEN v ELSE f[y]

LEMMA CallerTakes ==
  ASSUME NEW G, NEW P, NEW C, NEW R, NEW tk, OnePlace(G, P, C, R, tk),
         NEW c \in Client, NEW t \in Task, tk[t] = "new", C[c] = NoTask,
         NEW C2, IsUpdate(Client, C2, C, c, t),
         NEW tk2, IsUpdate(Task, tk2, tk, t, "enqueued")
  PROVE  OnePlace(G, P, C2, R, tk2)
BY TaskAssumption DEF OnePlace, IsUpdate

LEMMA CallerPushesPrivate ==
  ASSUME NEW G, NEW P, NEW C, NEW R, NEW tk, OnePlace(G, P, C, R, tk),
         NEW c \in Client, NEW w \in Worker, C[c] \in Task,
         NEW C2, IsUpdate(Client, C2, C, c, NoTask),
         NEW P2, IsUpdate(Worker, P2, P, w, P[w] \cup {C[c]})
  PROVE  OnePlace(G, P2, C2, R, tk)
BY TaskAssumption DEF OnePlace, IsUpdate

LEMMA CallerPushesGlobal ==
  ASSUME NEW G, NEW P, NEW C, NEW R, NEW tk, OnePlace(G, P, C, R, tk),
         NEW c \in Client, C[c] \in Task,
         NEW C2, IsUpdate(Client, C2, C, c, NoTask)
  PROVE  OnePlace(G \cup {C[c]}, P, C2, R, tk)
BY TaskAssumption DEF OnePlace, IsUpdate

LEMMA TakenFromGlobal ==
  ASSUME NEW G, NEW P, NEW C, NEW R, NEW tk, OnePlace(G, P, C, R, tk),
         NEW w \in Worker, NEW t \in Task, t \in G, R[w] = NoTask,
         NEW R2, IsUpdate(Worker, R2, R, w, t),
         NEW tk2, IsUpdate(Task, tk2, tk, t, "running")
  PROVE  OnePlace(G \ {t}, P, C, R2, tk2)
BY TaskAssumption DEF OnePlace, IsUpdate

LEMMA TakenFromPrivate ==
  ASSUME NEW G, NEW P, NEW C, NEW R, NEW tk, OnePlace(G, P, C, R, tk),
         NEW w \in Worker, NEW t \in Task, t \in P[w], R[w] = NoTask,
         NEW P2, IsUpdate(Worker, P2, P, w, P[w] \ {t}),
         NEW R2, IsUpdate(Worker, R2, R, w, t),
         NEW tk2, IsUpdate(Task, tk2, tk, t, "running")
  PROVE  OnePlace(G, P2, C, R2, tk2)
BY TaskAssumption DEF OnePlace, IsUpdate

LEMMA TaskEnds ==
  ASSUME NEW G, NEW P, NEW C, NEW R, NEW tk, OnePlace(G, P, C, R, tk),
         NEW w \in Worker, R[w] \in Task,
         NEW R2, IsUpdate(Worker, R2, R, w, NoTask),
         NEW tk2, IsUpdate(Task, tk2, tk, R[w], "ended")
  PROVE  OnePlace(G, P, C, R2, tk2)
BY TaskAssumption DEF OnePlace, IsUpdate

LEMMA CancelledGlobal ==
  ASSUME NEW G, NEW P, NEW C, NEW R, NEW tk, OnePlace(G, P, C, R, tk),
         NEW tk2, \A t \in Task : tk2[t] = IF t \in Cancellable \cap G THEN "cancelled" ELSE tk[t]
  PROVE  OnePlace(G \ Cancellable, P, C, R, tk2)
BY DEF OnePlace

LEMMA HandedBack ==
  ASSUME NEW G, NEW P, NEW C, NEW R, NEW tk, OnePlace(G, P, C, R, tk),
         NEW w \in Worker,
         NEW P2, IsUpdate(Worker, P2, P, w, {}),
         NEW tk2, \A t \in Task : tk2[t] = IF t \in Cancellable \cap P[w] THEN "cancelled" ELSE tk[t]
  PROVE  OnePlace(G \cup (P[w] \ Cancellable), P2, C, R, tk2)
BY DEF OnePlace, IsUpdate

-----------------------------------------------------------------------------
(* The inductive invariant. *)

InPrivate == [w \in Worker |-> Queued(private_queue[w])]
CallerHas == [c \in Client |-> client[c].task]
WorkerHas == [w \in Worker |-> worker[w].task]
OnePlaceNow == OnePlace(Queued(compute_queue), InPrivate, CallerHas, WorkerHas, task)

Shape ==
  /\ QueueOK(compute_queue)
  /\ private_queue \in [Worker -> QueueType]
  /\ \A w \in Worker : QueueOK(private_queue[w])
  /\ queue_size \in [Worker -> Nat] /\ cancelled \in [Worker -> BOOLEAN]
  /\ roundRobin \in Worker
  /\ worker \in [Worker -> WorkerState] /\ client \in [Client -> ClientState]
  /\ main \in MainState /\ task \in [Task -> TaskState]

\* Who has a task in hand, and that a joined thread has ended.
Roles ==
  /\ \A c \in Client : client[c].task # NoTask
                         <=> client[c].pc \in {"scan", "private", "global", "onThread"}
  /\ \A w \in Worker : worker[w].task # NoTask <=> worker[w].pc = "run"
  /\ \A w \in Worker : Joined(w) => worker[w].pc = "exit"

\* SleepersHaveNoWork, from the decision to sleep on: the worker keeps its mutex
\* until cond.wait() releases it.
Asleep(w) == worker[w].pc \in {"wait", "waiting"}
SleepOK ==
  /\ \A w \in Worker : Asleep(w) => Queued(private_queue[w]) = {} /\ ~cancelled[w]
  /\ compute_queue_size > 0 /\ main.pc = "up" =>
       \/ \E w \in Worker : ~Asleep(w)
       \/ \E c \in Client : client[c].pc \in {"choose", "notify"}

PoolIInv == Shape /\ Roles /\ OnePlaceNow /\ QueueSizesExact /\ SleepOK

WorkerPC == {"while", "size", "lock", "global", "private", "wait", "waiting",
             "run", "done", "exit"}
ClientPC == {"idle", "scan", "private", "global", "choose", "notify", "onThread"}

\* wk2 is wk but for w, which is at pc and has t.
WorkerUpdate(wk2, wk, w, pc, t) ==
  /\ wk2 \in [Worker -> WorkerState]
  /\ \A v \in Worker : /\ wk2[v].task = IF v = w THEN t ELSE wk[v].task
                       /\ wk2[v].pc = IF v = w THEN pc ELSE wk[v].pc

LEMMA Going ==
  ASSUME NEW wk \in [Worker -> WorkerState], NEW w \in Worker, NEW pc \in WorkerPC
  PROVE  WorkerUpdate([wk EXCEPT ![w].pc = pc], wk, w, pc, wk[w].task)
BY DEF WorkerState, WorkerPC, WorkerUpdate

LEMMA GoingTo ==
  ASSUME NEW wk \in [Worker -> WorkerState], NEW w \in Worker, NEW pc \in WorkerPC,
         NEW p \in Prio
  PROVE  WorkerUpdate([wk EXCEPT ![w].pc = pc, ![w].p = p], wk, w, pc, wk[w].task)
BY DEF WorkerState, WorkerPC, WorkerUpdate

LEMMA GoingOn ==
  ASSUME NEW wk \in [Worker -> WorkerState], NEW w \in Worker, NEW p \in Prio
  PROVE  WorkerUpdate([wk EXCEPT ![w].p = p], wk, w, wk[w].pc, wk[w].task)
BY DEF WorkerState, WorkerUpdate

LEMMA Taking ==
  ASSUME NEW wk \in [Worker -> WorkerState], NEW w \in Worker,
         NEW t \in Task \cup {NoTask}, NEW pc \in WorkerPC
  PROVE  WorkerUpdate([wk EXCEPT ![w].pc = pc, ![w].task = t], wk, w, pc, t)
BY DEF WorkerState, WorkerPC, WorkerUpdate

LEMMA Notifying ==
  ASSUME NEW wk \in [Worker -> WorkerState], NEW w \in Worker,
         NEW wk2, wk2 = Notified(wk, w)
  PROVE  /\ wk2 \in [Worker -> WorkerState]
         /\ \A v \in Worker :
              /\ wk2[v].task = wk[v].task
              /\ wk2[v].pc = IF v = w /\ wk[v].pc = "waiting" THEN "while" ELSE wk[v].pc
BY DEF Notified, WorkerState

\* cl2 is cl but for c, which is at pc, with the thread w and the task t.
CallerUpdate(cl2, cl, c, pc, w, t) ==
  /\ cl2 \in [Client -> ClientState]
  /\ \A d \in Client : /\ cl2[d].task = IF d = c THEN t ELSE cl[d].task
                       /\ cl2[d].pc = IF d = c THEN pc ELSE cl[d].pc
                       /\ cl2[d].thread = IF d = c THEN w ELSE cl[d].thread

LEMMA CallerGoing ==
  ASSUME NEW cl \in [Client -> ClientState], NEW c \in Client, NEW pc \in ClientPC,
         NEW w \in Worker
  PROVE  CallerUpdate([cl EXCEPT ![c].pc = pc, ![c].thread = w], cl, c, pc, w, cl[c].task)
BY DEF ClientState, ClientPC, CallerUpdate

LEMMA CallerBecomes ==
  ASSUME NEW cl \in [Client -> ClientState], NEW c \in Client, NEW pc \in ClientPC,
         NEW w \in Worker, NEW t \in Task \cup {NoTask}
  PROVE  CallerUpdate([cl EXCEPT ![c] = [pc |-> pc, thread |-> w, task |-> t]],
                      cl, c, pc, w, t)
BY DEF ClientState, ClientPC, CallerUpdate

\* The callers about to push to w.
Pushing(w) == {c \in Client : AtClient(c, "onThread") /\ client[c].thread = w}
Busy(w) == worker[w].pc \in {"run", "done"}

LEMMA PushingFinite ==
  ASSUME NEW w PROVE IsFiniteSet(Pushing(w)) /\ Cardinality(Pushing(w)) \in Nat
BY ClientAssumption, FS_Subset, FS_CardinalityType DEF Pushing

\* A step that moves no task.
LEMMA NothingMoves ==
  ASSUME PoolIInv,
         UNCHANGED <<compute_queue, compute_queue_size, privates, task>>,
         \A w \in Worker : /\ worker'[w].task = worker[w].task
                           /\ Busy(w)' <=> Busy(w)
                           /\ Joined(w) => Joined(w)'
                           /\ Pushing(w)' = Pushing(w),
         \A c \in Client : client'[c].task = client[c].task
  PROVE  OnePlaceNow' /\ QueueSizesExact'
<1>1. OnePlaceNow'
  BY DEF PoolIInv, OnePlaceNow, privates, InPrivate, CallerHas, WorkerHas
<1>2. QueueSizesExact'
  <2>1. compute_queue_size' = Cardinality(Queued(compute_queue'))
    BY DEF PoolIInv, QueueSizesExact
  <2>2. ASSUME NEW w \in Worker, ~Joined(w)'
        PROVE  queue_size'[w] = Cardinality(Queued(private_queue'[w]))
                 + (IF Busy(w)' THEN 1 ELSE 0) + Cardinality(Pushing(w)')
    BY <2>2 DEF PoolIInv, QueueSizesExact, privates, Pushing, Busy
  <2> QED BY <2>1, <2>2 DEF QueueSizesExact, Pushing, Busy
<1> QED BY <1>1, <1>2

LEMMA NumPrioFact == NumPrio \in Nat /\ NumPrio \notin Prio /\ NumWorkers \in Nat
BY PrioAssumption, WorkerAssumption, FS_CardinalityType DEF NumPrio, NumWorkers

LEMMA FirstPrivateOK ==
  ASSUME Shape, NEW w \in Worker
  PROVE  /\ FirstPrivate(w) \in Prio => private_queue[w][FirstPrivate(w)] # <<>>
         /\ FirstPrivate(w) \notin Prio => Queued(private_queue[w]) = {}
         /\ Queued(private_queue[w]) = {} => FirstPrivate(w) = NumPrio
<1> DEFINE q == private_queue[w]
           has == {p \in Prio : q[p] # <<>>}
<1>1. q \in QueueType /\ \A p \in Prio : q[p] \in Seq(Task)
  BY DEF Shape, QueueType
<1>2. FirstPrivate(w) = IF has = {} THEN NumPrio ELSE Min(has)
  BY DEF FirstPrivate
<1>3. has \subseteq Nat
  BY PrioAssumption, NumPrioFact
<1>4. CASE has = {}
  <2>1. \A p \in Prio : \A t : ~Holds(q[p], t)
    BY <1>1, <1>4 DEF Holds
  <2>2. Queued(q) = {}
    BY <1>1, <2>1, QueuedHolds
  <2> QED BY <1>2, <1>4, <2>2, NumPrioFact
<1>5. CASE has # {}
  <2>1. \E x \in has : \A y \in has : x <= y
    <3> HIDE DEF has
    <3> QED BY <1>3, <1>5, LeastElement
  <2>2. Min(has) \in has
    BY <2>1 DEF Min
  <2>3. q[Min(has)] # <<>> /\ Min(has) \in Prio
    BY <2>2
  <2>4. Holds(q[Min(has)], q[Min(has)][1])
    <3> HIDE DEF has, q
    <3>1. 1 \in 1..Len(q[Min(has)])
      BY <1>1, <2>3
    <3> QED BY <3>1 DEF Holds
  <2>5. Queued(q) # {}
    BY <1>1, <2>3, <2>4, QueuedHolds
  <2> HIDE DEF has, q
  <2> QED BY <1>2, <1>5, <2>3, <2>5 DEF q
<1> QED BY <1>4, <1>5

-----------------------------------------------------------------------------
(* WorkerThreadFunc(). *)

\* A worker goes on from one of its steps to another and touches no queue.
LEMMA WorkerGoes ==
  ASSUME PoolIInv, NEW w \in Worker, NEW pc \in WorkerPC,
         worker[w].pc \notin {"run", "done", "exit"}, pc \notin {"run", "done"},
         WorkerUpdate(worker', worker, w, pc, worker[w].task),
         pc \in {"wait", "waiting"} =>
           \/ Asleep(w)
           \/ /\ Queued(private_queue[w]) = {} /\ ~cancelled[w]
              /\ ~(compute_queue_size > 0),
         UNCHANGED <<globals, privates, cancelled, client, main, task>>
  PROVE  PoolIInv'
<1>1. /\ worker' \in [Worker -> WorkerState]
      /\ \A v \in Worker : /\ worker'[v].task = worker[v].task
                           /\ worker'[v].pc = IF v = w THEN pc ELSE worker[v].pc
  BY DEF WorkerUpdate
<1>2. Shape'
  BY <1>1 DEF PoolIInv, Shape, globals, privates
<1>3. \A v \in Worker : Joined(v)' <=> Joined(v)
  BY DEF Joined
<1>4. Roles'
  BY <1>1, <1>3 DEF PoolIInv, Roles
<1>5. OnePlaceNow' /\ QueueSizesExact'
  <2>1. \A v \in Worker : (Busy(v)' <=> Busy(v)) /\ Pushing(v)' = Pushing(v)
    BY <1>1 DEF Busy, Pushing, AtClient
  <2> QED BY <1>1, <1>3, <2>1, NothingMoves DEF globals
<1>6. SleepOK'
  <2>1. ASSUME NEW v \in Worker, Asleep(v)'
        PROVE  Queued(private_queue'[v]) = {} /\ ~cancelled'[v]
    <3>1. Asleep(v) \/ (v = w /\ pc \in {"wait", "waiting"})
      BY <1>1, <2>1 DEF Asleep
    <3> QED BY <3>1 DEF PoolIInv, SleepOK, privates
  <2>2. ASSUME compute_queue_size' > 0, main'.pc = "up"
        PROVE  \/ \E v \in Worker : ~Asleep(v)'
               \/ \E c \in Client : client'[c].pc \in {"choose", "notify"}
    <3>1. \/ \E v \in Worker : ~Asleep(v)
          \/ \E c \in Client : client[c].pc \in {"choose", "notify"}
      BY <2>2 DEF PoolIInv, SleepOK, globals
    <3>2. ASSUME NEW v \in Worker, ~Asleep(v) PROVE ~Asleep(v)'
      BY <1>1, <2>2, <3>2 DEF Asleep, globals
    <3> QED BY <3>1, <3>2
  <2> QED BY <2>1, <2>2 DEF SleepOK
<1> QED BY <1>2, <1>4, <1>5, <1>6 DEF PoolIInv

LEMMA WhileInv == ASSUME PoolIInv, NEW w \in Worker, While(w) PROVE PoolIInv'
<1> DEFINE pc == IF cancelled[w] THEN "exit" ELSE "size"
<1>1. pc \in WorkerPC /\ worker \in [Worker -> WorkerState]
  BY DEF WorkerPC, PoolIInv, Shape
<1>2. WorkerUpdate(worker', worker, w, pc, worker[w].task)
  BY <1>1, Going DEF While, Goto
<1> QED BY <1>1, <1>2, WorkerGoes DEF While, AtWorker

LEMMA LookAtGlobalSizeInv ==
  ASSUME PoolIInv, NEW w \in Worker, LookAtGlobalSize(w) PROVE PoolIInv'
<1> DEFINE pc == IF compute_queue_size > 0 THEN "lock" ELSE "private"
<1>1. pc \in WorkerPC /\ worker \in [Worker -> WorkerState]
  BY DEF WorkerPC, PoolIInv, Shape
<1>2. WorkerUpdate(worker', worker, w, pc, worker[w].task)
  BY <1>1, Going DEF LookAtGlobalSize, Goto
<1> QED BY <1>1, <1>2, WorkerGoes DEF LookAtGlobalSize, AtWorker

LEMMA LockGlobalInv ==
  ASSUME PoolIInv, NEW w \in Worker, LockGlobal(w) PROVE PoolIInv'
<1>1. "global" \in WorkerPC /\ worker \in [Worker -> WorkerState]
  BY DEF WorkerPC, PoolIInv, Shape
<1>2. WorkerUpdate(worker', worker, w, "global", worker[w].task)
  BY <1>1, GoingTo, PrioAssumption DEF LockGlobal
<1> QED BY <1>1, <1>2, WorkerGoes DEF LockGlobal, AtWorker

LEMMA CondWaitInv ==
  ASSUME PoolIInv, NEW w \in Worker, CondWait(w) PROVE PoolIInv'
<1>1. "waiting" \in WorkerPC /\ worker \in [Worker -> WorkerState]
  BY DEF WorkerPC, PoolIInv, Shape
<1>2. WorkerUpdate(worker', worker, w, "waiting", worker[w].task)
  BY <1>1, Going DEF CondWait, Goto
<1> QED BY <1>1, <1>2, WorkerGoes DEF CondWait, AtWorker, Asleep

\* The worker takes the first task of one of its own lists.
LEMMA PopPrivateInv ==
  ASSUME PoolIInv, NEW w \in Worker, NEW p \in Prio, private_queue[w][p] # <<>>,
         worker[w].pc \notin {"run", "done", "exit"}, PopPrivate(w, p),
         UNCHANGED <<globals, queue_size, cancelled, client, main>>
  PROVE  PoolIInv'
<1> DEFINE q == private_queue[w]
           t == Head(q[p])
           q2 == [q EXCEPT ![p] = Tail(@)]
<1>1. /\ QueueOK(q) /\ q \in QueueType /\ worker \in [Worker -> WorkerState]
      /\ private_queue \in [Worker -> QueueType]
      /\ task \in [Task -> TaskState] /\ Cardinality(Queued(q)) \in Nat
      /\ worker[w].task = NoTask
  BY QueuedTasks DEF PoolIInv, Shape, Roles
<1>2. /\ t \in Task /\ t \in Queued(q) /\ QueueOK(q2) /\ Queued(q2) = Queued(q) \ {t}
      /\ Cardinality(Queued(q2)) = Cardinality(Queued(q)) - 1
  BY <1>1, PopOK
<1>3. /\ worker' = [worker EXCEPT ![w].pc = "run", ![w].task = t]
      /\ task' = [task EXCEPT ![t] = "running"]
  BY DEF PopPrivate, Take
<1>4. private_queue' = [private_queue EXCEPT ![w] = q2]
  BY <1>1 DEF PopPrivate
<1> HIDE DEF t, q2
<1>5. /\ worker' \in [Worker -> WorkerState]
      /\ \A v \in Worker : /\ worker'[v].task = IF v = w THEN t ELSE worker[v].task
                           /\ worker'[v].pc = IF v = w THEN "run" ELSE worker[v].pc
  <2>1. t \in Task \cup {NoTask} /\ "run" \in WorkerPC
    BY <1>2 DEF WorkerPC
  <2>2. WorkerUpdate(worker', worker, w, "run", t)
    BY <1>1, <1>3, <2>1, Taking
  <2> QED BY <2>2 DEF WorkerUpdate
<1>6. \A v \in Worker : private_queue'[v] = IF v = w THEN q2 ELSE private_queue[v]
  BY <1>1, <1>4
<1>7. /\ task' \in [Task -> TaskState]
      /\ \A u \in Task : task'[u] = IF u = t THEN "running" ELSE task[u]
  BY <1>1, <1>2, <1>3 DEF TaskState
<1>8. Shape'
  <2>1. private_queue' \in [Worker -> QueueType]
    BY <1>1, <1>2, <1>4 DEF QueueOK
  <2> QED BY <1>2, <1>5, <1>6, <1>7, <2>1 DEF PoolIInv, Shape, globals
<1>9. \A v \in Worker : Joined(v)' <=> Joined(v)
  BY DEF Joined
<1>10. Roles'
  BY <1>2, <1>5, <1>9, TaskAssumption DEF PoolIInv, Roles
<1>11. OnePlaceNow'
  <2>1. /\ IsUpdate(Worker, InPrivate', InPrivate, w, InPrivate[w] \ {t})
        /\ t \in InPrivate[w]
    BY <1>2, <1>6 DEF IsUpdate, InPrivate
  <2>2. IsUpdate(Worker, WorkerHas', WorkerHas, w, t) /\ WorkerHas[w] = NoTask
    BY <1>1, <1>5 DEF IsUpdate, WorkerHas
  <2>3. IsUpdate(Task, task', task, t, "running")
    BY <1>7 DEF IsUpdate
  <2>4. Queued(compute_queue)' = Queued(compute_queue) /\ CallerHas' = CallerHas
    BY DEF globals, CallerHas
  <2>5. OnePlace(Queued(compute_queue), InPrivate, CallerHas, WorkerHas, task)
    BY DEF PoolIInv, OnePlaceNow
  <2>6. OnePlace(Queued(compute_queue), InPrivate', CallerHas, WorkerHas', task')
    BY <1>2, <2>1, <2>2, <2>3, <2>5, TakenFromPrivate
  <2> QED BY <2>4, <2>6 DEF OnePlaceNow
<1>12. QueueSizesExact'
  <2>1. compute_queue_size' = Cardinality(Queued(compute_queue'))
    BY DEF PoolIInv, QueueSizesExact, globals
  <2>2. ASSUME NEW v \in Worker, ~Joined(v)'
        PROVE  queue_size'[v] = Cardinality(Queued(private_queue'[v]))
                 + (IF Busy(v)' THEN 1 ELSE 0) + Cardinality(Pushing(v)')
    <3>1. queue_size[v] = Cardinality(Queued(private_queue[v]))
                 + (IF Busy(v) THEN 1 ELSE 0) + Cardinality(Pushing(v))
      BY <1>9, <2>2 DEF PoolIInv, QueueSizesExact, Busy, Pushing
    <3>2. Pushing(v)' = Pushing(v)
      BY DEF Pushing, AtClient
    <3>3. v = w => Busy(v)' /\ ~Busy(v)
      BY <1>5 DEF Busy
    <3>4. v # w => (Busy(v)' <=> Busy(v))
      BY <1>5 DEF Busy
    <3>5. Cardinality(Pushing(v)) \in Nat
      BY PushingFinite
    <3>6. CASE v = w
      <4>1. (IF Busy(v)' THEN 1 ELSE 0) = 1 /\ (IF Busy(v) THEN 1 ELSE 0) = 0
        BY <3>3, <3>6
      <4>2. Cardinality(Queued(private_queue'[v])) = Cardinality(Queued(private_queue[v])) - 1
        BY <1>2, <1>6, <3>6
      <4>3. Cardinality(Queued(private_queue[v])) \in Nat /\ queue_size'[v] = queue_size[v]
        BY <1>1, <3>6
      <4> QED BY <3>1, <3>2, <3>5, <4>1, <4>2, <4>3
    <3>7. CASE v # w
      BY <1>6, <3>1, <3>2, <3>4, <3>7
    <3> QED BY <3>6, <3>7
  <2> QED BY <2>1, <2>2 DEF QueueSizesExact, Pushing, Busy
<1>13. SleepOK'
  <2>1. \A v \in Worker : Asleep(v)' => Asleep(v) /\ v # w
    BY <1>5 DEF Asleep
  <2>2. \A v \in Worker : Asleep(v)' => Queued(private_queue'[v]) = {} /\ ~cancelled'[v]
    BY <1>6, <2>1 DEF PoolIInv, SleepOK
  <2> QED BY <2>1, <2>2 DEF SleepOK
<1> QED BY <1>8, <1>10, <1>11, <1>12, <1>13 DEF PoolIInv

LEMMA LookInPrivateInv ==
  ASSUME PoolIInv, NEW w \in Worker, LookInPrivate(w) PROVE PoolIInv'
<1>1. worker[w].pc = "private" /\ Shape /\ worker \in [Worker -> WorkerState]
  BY DEF LookInPrivate, AtWorker, PoolIInv, Shape
<1>2. CASE FirstPrivate(w) \in Prio
  BY <1>1, <1>2, FirstPrivateOK, PopPrivateInv DEF LookInPrivate
<1>3. CASE FirstPrivate(w) \notin Prio
  <2> DEFINE pc == IF cancelled[w] \/ compute_queue_size > 0 THEN "while" ELSE "wait"
  <2>1. /\ worker' = [worker EXCEPT ![w].pc = pc]
        /\ UNCHANGED <<globals, privates, cancelled, client, main, task>>
    BY <1>3 DEF LookInPrivate, Goto, privates
  <2>2. /\ Queued(private_queue[w]) = {} /\ pc \in WorkerPC /\ pc \notin {"run", "done"}
        /\ pc \in {"wait", "waiting"} => ~cancelled[w] /\ ~(compute_queue_size > 0)
    BY <1>1, <1>3, FirstPrivateOK DEF WorkerPC
  <2> HIDE DEF pc
  <2>3. WorkerUpdate(worker', worker, w, pc, worker[w].task)
    BY <1>1, <2>1, <2>2, Going
  <2> QED BY <1>1, <2>1, <2>2, <2>3, WorkerGoes
<1> QED BY <1>2, <1>3

\* The worker takes a global task and counts it as its own.
LEMMA PopGlobalInv ==
  ASSUME PoolIInv, NEW w \in Worker, NEW p \in Prio, compute_queue[p] # <<>>,
         worker[w].pc \notin {"run", "done", "exit"}, Take(w, Head(compute_queue[p])),
         compute_queue' = [compute_queue EXCEPT ![p] = Tail(@)],
         compute_queue_size' = compute_queue_size - 1,
         queue_size' = [queue_size EXCEPT ![w] = @ + 1],
         UNCHANGED <<private_queue, roundRobin, cancelled, client, main>>
  PROVE  PoolIInv'
<1> DEFINE q == compute_queue
           t == Head(q[p])
<1>1. /\ QueueOK(q) /\ worker \in [Worker -> WorkerState]
      /\ task \in [Task -> TaskState] /\ queue_size \in [Worker -> Nat]
      /\ Cardinality(Queued(q)) \in Nat /\ worker[w].task = NoTask
  BY QueuedTasks DEF PoolIInv, Shape, Roles
<1>2. /\ t \in Task /\ t \in Queued(q) /\ QueueOK(q') /\ Queued(q') = Queued(q) \ {t}
      /\ Cardinality(Queued(q')) = Cardinality(Queued(q)) - 1
  BY <1>1, PopOK
<1>3. /\ worker' = [worker EXCEPT ![w].pc = "run", ![w].task = t]
      /\ task' = [task EXCEPT ![t] = "running"]
  BY DEF Take
<1> HIDE DEF t
<1>5. /\ worker' \in [Worker -> WorkerState]
      /\ \A v \in Worker : /\ worker'[v].task = IF v = w THEN t ELSE worker[v].task
                           /\ worker'[v].pc = IF v = w THEN "run" ELSE worker[v].pc
  <2>1. t \in Task \cup {NoTask} /\ "run" \in WorkerPC
    BY <1>2 DEF WorkerPC
  <2>2. WorkerUpdate(worker', worker, w, "run", t)
    BY <1>1, <1>3, <2>1, Taking
  <2> QED BY <2>2 DEF WorkerUpdate
<1>6. /\ task' \in [Task -> TaskState]
      /\ \A u \in Task : task'[u] = IF u = t THEN "running" ELSE task[u]
  BY <1>1, <1>2, <1>3 DEF TaskState
<1>7. /\ queue_size' \in [Worker -> Nat]
      /\ \A v \in Worker : queue_size'[v] = IF v = w THEN queue_size[v] + 1 ELSE queue_size[v]
  BY <1>1
<1>8. Shape'
  BY <1>2, <1>5, <1>6, <1>7 DEF PoolIInv, Shape
<1>9. \A v \in Worker : Joined(v)' <=> Joined(v)
  BY DEF Joined
<1>10. Roles'
  BY <1>2, <1>5, <1>9, TaskAssumption DEF PoolIInv, Roles
<1>11. OnePlaceNow'
  <2>1. IsUpdate(Worker, WorkerHas', WorkerHas, w, t) /\ WorkerHas[w] = NoTask
    BY <1>1, <1>5 DEF IsUpdate, WorkerHas
  <2>2. IsUpdate(Task, task', task, t, "running")
    BY <1>6 DEF IsUpdate
  <2>3. InPrivate' = InPrivate /\ CallerHas' = CallerHas
    BY DEF InPrivate, CallerHas
  <2>4. OnePlace(Queued(q), InPrivate, CallerHas, WorkerHas, task)
    BY DEF PoolIInv, OnePlaceNow
  <2>5. OnePlace(Queued(q) \ {t}, InPrivate, CallerHas, WorkerHas', task')
    BY <1>2, <2>1, <2>2, <2>4, TakenFromGlobal
  <2> QED BY <1>2, <2>3, <2>5 DEF OnePlaceNow
<1>12. QueueSizesExact'
  <2>1. compute_queue_size' = Cardinality(Queued(compute_queue'))
    BY <1>2 DEF PoolIInv, QueueSizesExact
  <2>2. ASSUME NEW v \in Worker, ~Joined(v)'
        PROVE  queue_size'[v] = Cardinality(Queued(private_queue'[v]))
                 + (IF Busy(v)' THEN 1 ELSE 0) + Cardinality(Pushing(v)')
    <3>1. queue_size[v] = Cardinality(Queued(private_queue[v]))
                 + (IF Busy(v) THEN 1 ELSE 0) + Cardinality(Pushing(v))
      BY <1>9, <2>2 DEF PoolIInv, QueueSizesExact, Busy, Pushing
    <3>2. Pushing(v)' = Pushing(v)
      BY DEF Pushing, AtClient
    <3>3. v = w => Busy(v)' /\ ~Busy(v)
      BY <1>5 DEF Busy
    <3>4. v # w => (Busy(v)' <=> Busy(v))
      BY <1>5 DEF Busy
    <3>5. Cardinality(Pushing(v)) \in Nat /\ Cardinality(Queued(private_queue[v])) \in Nat
      BY PushingFinite, QueuedTasks DEF PoolIInv, Shape
    <3>6. CASE v = w
      <4>1. (IF Busy(v)' THEN 1 ELSE 0) = 1 /\ (IF Busy(v) THEN 1 ELSE 0) = 0
        BY <3>3, <3>6
      <4> QED BY <1>7, <3>1, <3>2, <3>5, <3>6, <4>1
    <3>7. CASE v # w
      BY <1>7, <3>1, <3>2, <3>4, <3>7
    <3> QED BY <3>6, <3>7
  <2> QED BY <2>1, <2>2 DEF QueueSizesExact, Pushing, Busy
<1>13. SleepOK'
  <2>1. \A v \in Worker : Asleep(v)' => Asleep(v) /\ v # w
    BY <1>5 DEF Asleep
  <2>2. \A v \in Worker : Asleep(v)' => Queued(private_queue'[v]) = {} /\ ~cancelled'[v]
    BY <2>1 DEF PoolIInv, SleepOK
  <2> QED BY <2>1, <2>2 DEF SleepOK
<1> QED BY <1>8, <1>10, <1>11, <1>12, <1>13 DEF PoolIInv

LEMMA LookInGlobalInv ==
  ASSUME PoolIInv, NEW w \in Worker, LookInGlobal(w) PROVE PoolIInv'
<1> DEFINE p == worker[w].p
<1>1. p \in Prio /\ worker[w].pc = "global" /\ worker \in [Worker -> WorkerState]
  BY DEF LookInGlobal, AtWorker, PoolIInv, Shape, WorkerState
<1>2. CASE compute_queue[p] # <<>>
  BY <1>1, <1>2, PopGlobalInv DEF LookInGlobal
<1>3. CASE compute_queue[p] = <<>> /\ queue_size[w] # 0 /\ private_queue[w][p] # <<>>
  BY <1>1, <1>3, PopPrivateInv DEF LookInGlobal, globals
<1>4. CASE compute_queue[p] = <<>> /\ ~(queue_size[w] # 0 /\ private_queue[w][p] # <<>>)
  <2>1. UNCHANGED <<globals, privates, cancelled, client, main, task>>
    BY <1>4 DEF LookInGlobal, globals, privates
  <2>2. worker' = IF p + 1 \in Prio THEN [worker EXCEPT ![w].p = p + 1]
                  ELSE [worker EXCEPT ![w].pc = "private"]
    BY <1>4 DEF LookInGlobal
  <2>3. CASE p + 1 \in Prio
    <3>1. WorkerUpdate(worker', worker, w, "global", worker[w].task)
      BY <1>1, <2>2, <2>3, GoingOn
    <3> QED BY <1>1, <2>1, <3>1, WorkerGoes DEF WorkerPC
  <2>4. CASE p + 1 \notin Prio
    <3>1. "private" \in WorkerPC
      BY DEF WorkerPC
    <3>2. WorkerUpdate(worker', worker, w, "private", worker[w].task)
      BY <1>1, <2>2, <2>4, <3>1, Going
    <3> QED BY <1>1, <2>1, <3>1, <3>2, WorkerGoes
  <2> QED BY <2>3, <2>4
<1> QED BY <1>2, <1>3, <1>4

LEMMA RunEndsInv ==
  ASSUME PoolIInv, NEW w \in Worker, RunEnds(w) PROVE PoolIInv'
<1> DEFINE t == worker[w].task
<1>1. /\ worker[w].pc = "run" /\ worker \in [Worker -> WorkerState]
      /\ task \in [Task -> TaskState] /\ t \in Task
  BY DEF RunEnds, AtWorker, PoolIInv, Shape, Roles, WorkerState
<1>2. /\ worker' \in [Worker -> WorkerState]
      /\ \A v \in Worker : /\ worker'[v].task = IF v = w THEN NoTask ELSE worker[v].task
                           /\ worker'[v].pc = IF v = w THEN "done" ELSE worker[v].pc
  <2>1. NoTask \in Task \cup {NoTask} /\ "done" \in WorkerPC
    BY DEF WorkerPC
  <2>2. WorkerUpdate(worker', worker, w, "done", NoTask)
    BY <1>1, <2>1, Taking DEF RunEnds
  <2> QED BY <2>2 DEF WorkerUpdate
<1>3. /\ task' \in [Task -> TaskState]
      /\ \A u \in Task : task'[u] = IF u = t THEN "ended" ELSE task[u]
  BY <1>1 DEF RunEnds, TaskState
<1> HIDE DEF t
<1>4. Shape'
  BY <1>2, <1>3 DEF RunEnds, PoolIInv, Shape, globals, privates
<1>5. \A v \in Worker : Joined(v)' <=> Joined(v)
  BY DEF RunEnds, Joined
<1>6. Roles'
  <2>1. ~Joined(w)
    BY <1>1 DEF PoolIInv, Roles
  <2> QED BY <1>2, <1>5, <2>1 DEF RunEnds, PoolIInv, Roles
<1>7. OnePlaceNow'
  <2>1. IsUpdate(Worker, WorkerHas', WorkerHas, w, NoTask) /\ WorkerHas[w] = t
    BY <1>2 DEF IsUpdate, WorkerHas, t
  <2>2. IsUpdate(Task, task', task, t, "ended")
    BY <1>3 DEF IsUpdate
  <2>3. /\ InPrivate' = InPrivate /\ CallerHas' = CallerHas
        /\ Queued(compute_queue') = Queued(compute_queue)
    BY DEF RunEnds, InPrivate, CallerHas, globals, privates
  <2>4. OnePlace(Queued(compute_queue), InPrivate, CallerHas, WorkerHas, task)
    BY DEF PoolIInv, OnePlaceNow
  <2>5. OnePlace(Queued(compute_queue), InPrivate, CallerHas, WorkerHas', task')
    BY <1>1, <2>1, <2>2, <2>4, TaskEnds
  <2> QED BY <2>3, <2>5 DEF OnePlaceNow
<1>8. QueueSizesExact'
  <2>1. compute_queue_size' = Cardinality(Queued(compute_queue'))
    BY DEF RunEnds, PoolIInv, QueueSizesExact, globals
  <2>2. ASSUME NEW v \in Worker, ~Joined(v)'
        PROVE  queue_size'[v] = Cardinality(Queued(private_queue'[v]))
                 + (IF Busy(v)' THEN 1 ELSE 0) + Cardinality(Pushing(v)')
    <3>1. queue_size[v] = Cardinality(Queued(private_queue[v]))
                 + (IF Busy(v) THEN 1 ELSE 0) + Cardinality(Pushing(v))
      BY <1>5, <2>2 DEF PoolIInv, QueueSizesExact, Busy, Pushing
    <3>2. Pushing(v)' = Pushing(v)
      BY DEF RunEnds, Pushing, AtClient
    <3>3. Busy(v)' <=> Busy(v)
      BY <1>1, <1>2 DEF Busy
    <3> QED BY <3>1, <3>2, <3>3 DEF RunEnds, privates
  <2> QED BY <2>1, <2>2 DEF QueueSizesExact, Pushing, Busy
<1>9. SleepOK'
  <2>1. \A v \in Worker : Asleep(v)' => Asleep(v) /\ v # w
    BY <1>2 DEF Asleep
  <2>2. \A v \in Worker : Asleep(v)' => Queued(private_queue'[v]) = {} /\ ~cancelled'[v]
    BY <2>1 DEF RunEnds, PoolIInv, SleepOK, privates
  <2> QED BY <2>1, <2>2 DEF SleepOK
<1> QED BY <1>4, <1>6, <1>7, <1>8, <1>9 DEF PoolIInv

LEMMA ReduceQueueSizeInv ==
  ASSUME PoolIInv, NEW w \in Worker, ReduceQueueSize(w) PROVE PoolIInv'
<1>1. /\ worker[w].pc = "done" /\ worker \in [Worker -> WorkerState]
      /\ queue_size \in [Worker -> Nat]
  BY DEF ReduceQueueSize, AtWorker, PoolIInv, Shape
<1>2. /\ worker' \in [Worker -> WorkerState]
      /\ \A v \in Worker : /\ worker'[v].task = worker[v].task
                           /\ worker'[v].pc = IF v = w THEN "while" ELSE worker[v].pc
  <2>1. "while" \in WorkerPC
    BY DEF WorkerPC
  <2>2. WorkerUpdate(worker', worker, w, "while", worker[w].task)
    BY <1>1, <2>1, Going DEF ReduceQueueSize, Goto
  <2> QED BY <2>2 DEF WorkerUpdate
<1>3. \A v \in Worker : Joined(v)' <=> Joined(v)
  BY DEF ReduceQueueSize, Joined
<1>4. /\ ~Joined(w) /\ \A v \in Worker : Pushing(v)' = Pushing(v)
  BY <1>1 DEF PoolIInv, Roles, ReduceQueueSize, Pushing, AtClient
<1>5. \A v \in Worker : /\ Cardinality(Pushing(v)) \in Nat
                        /\ Cardinality(Queued(private_queue[v])) \in Nat
  BY PushingFinite, QueuedTasks DEF PoolIInv, Shape
<1>6. queue_size[w] = Cardinality(Queued(private_queue[w])) + 1 + Cardinality(Pushing(w))
  BY <1>1, <1>4 DEF PoolIInv, QueueSizesExact, Pushing
<1>7. /\ queue_size' \in [Worker -> Nat]
      /\ \A v \in Worker : queue_size'[v] = IF v = w THEN queue_size[v] - 1 ELSE queue_size[v]
  <2>1. queue_size[w] - 1 \in Nat
    BY <1>5, <1>6
  <2> QED BY <1>1, <2>1 DEF ReduceQueueSize
<1>8. Shape'
  BY <1>2, <1>7 DEF ReduceQueueSize, PoolIInv, Shape, globals
<1>9. Roles'
  BY <1>1, <1>2, <1>3, <1>4 DEF ReduceQueueSize, PoolIInv, Roles
<1>10. OnePlaceNow'
  <2>1. WorkerHas' = WorkerHas
    BY <1>2 DEF WorkerHas
  <2> QED BY <2>1 DEF ReduceQueueSize, PoolIInv, OnePlaceNow, InPrivate, CallerHas, globals
<1>11. QueueSizesExact'
  <2>1. compute_queue_size' = Cardinality(Queued(compute_queue'))
    BY DEF ReduceQueueSize, PoolIInv, QueueSizesExact, globals
  <2>2. ASSUME NEW v \in Worker, ~Joined(v)'
        PROVE  queue_size'[v] = Cardinality(Queued(private_queue'[v]))
                 + (IF Busy(v)' THEN 1 ELSE 0) + Cardinality(Pushing(v)')
    <3>1. private_queue' = private_queue
      BY DEF ReduceQueueSize
    <3>2. CASE v = w
      <4>1. (IF Busy(v)' THEN 1 ELSE 0) = 0
        BY <1>2, <3>2 DEF Busy
      <4> QED BY <1>4, <1>5, <1>6, <1>7, <3>1, <3>2, <4>1
    <3>3. CASE v # w
      <4>1. Busy(v)' <=> Busy(v)
        BY <1>2, <3>3 DEF Busy
      <4>2. queue_size[v] = Cardinality(Queued(private_queue[v]))
                 + (IF Busy(v) THEN 1 ELSE 0) + Cardinality(Pushing(v))
        BY <1>3, <2>2 DEF PoolIInv, QueueSizesExact, Busy, Pushing
      <4> QED BY <1>4, <1>7, <3>1, <3>3, <4>1, <4>2
    <3> QED BY <3>2, <3>3
  <2> QED BY <2>1, <2>2 DEF QueueSizesExact, Pushing, Busy
<1>12. SleepOK'
  <2>1. \A v \in Worker : Asleep(v)' => Asleep(v) /\ v # w
    BY <1>2 DEF Asleep
  <2>2. \A v \in Worker : Asleep(v)' => Queued(private_queue'[v]) = {} /\ ~cancelled'[v]
    BY <2>1 DEF ReduceQueueSize, PoolIInv, SleepOK
  <2> QED BY <2>1, <2>2 DEF SleepOK
<1> QED BY <1>8, <1>9, <1>10, <1>11, <1>12 DEF PoolIInv

LEMMA WorkerStepInv ==
  ASSUME PoolIInv, NEW w \in Worker, WorkerStep(w) PROVE PoolIInv'
BY WhileInv, LookAtGlobalSizeInv, LockGlobalInv, LookInGlobalInv, LookInPrivateInv,
   CondWaitInv, RunEndsInv, ReduceQueueSizeInv
   DEF WorkerStep

-----------------------------------------------------------------------------
(* EnqueueTask() and EnqueueTaskOnThread(). *)

\* Both begin with the caller taking a task in hand.
LEMMA CallerTakesInv ==
  ASSUME PoolIInv, NEW c \in Client, NEW t \in Task, NEW w \in Worker,
         NEW pc \in {"scan", "onThread"}, AtClient(c, "idle"), task[t] = "new",
         client' = [client EXCEPT ![c] = [pc |-> pc, thread |-> w, task |-> t]],
         task' = [task EXCEPT ![t] = "enqueued"],
         UNCHANGED <<globals, private_queue, cancelled, worker, main>>,
         queue_size' \in [Worker -> Nat],
         \A v \in Worker : queue_size'[v] =
           IF v = w /\ pc = "onThread" THEN queue_size[v] + 1 ELSE queue_size[v]
  PROVE  PoolIInv'
<1>1. /\ client[c].pc = "idle" /\ client[c].task = NoTask /\ pc \in ClientPC
      /\ client \in [Client -> ClientState] /\ task \in [Task -> TaskState]
  BY DEF AtClient, PoolIInv, Shape, Roles, ClientPC
<1>2. /\ client' \in [Client -> ClientState]
      /\ \A d \in Client : /\ client'[d].task = IF d = c THEN t ELSE client[d].task
                           /\ client'[d].pc = IF d = c THEN pc ELSE client[d].pc
                           /\ client'[d].thread = IF d = c THEN w ELSE client[d].thread
  <2>1. CallerUpdate(client', client, c, pc, w, t)
    BY <1>1, CallerBecomes
  <2> QED BY <2>1 DEF CallerUpdate
<1>3. /\ task' \in [Task -> TaskState]
      /\ \A u \in Task : task'[u] = IF u = t THEN "enqueued" ELSE task[u]
  BY <1>1 DEF TaskState
<1>4. Shape'
  BY <1>2, <1>3 DEF PoolIInv, Shape, globals
<1>5. Roles'
  BY <1>2, TaskAssumption DEF PoolIInv, Roles, Joined
<1>6. OnePlaceNow'
  <2>1. IsUpdate(Client, CallerHas', CallerHas, c, t) /\ CallerHas[c] = NoTask
    BY <1>1, <1>2 DEF IsUpdate, CallerHas
  <2>2. IsUpdate(Task, task', task, t, "enqueued")
    BY <1>3 DEF IsUpdate
  <2>3. /\ InPrivate' = InPrivate /\ WorkerHas' = WorkerHas
        /\ Queued(compute_queue') = Queued(compute_queue)
    BY DEF InPrivate, WorkerHas, globals
  <2>4. OnePlace(Queued(compute_queue), InPrivate, CallerHas, WorkerHas, task)
    BY DEF PoolIInv, OnePlaceNow
  <2>5. OnePlace(Queued(compute_queue), InPrivate, CallerHas', WorkerHas, task')
    BY <2>1, <2>2, <2>4, CallerTakes
  <2> QED BY <2>3, <2>5 DEF OnePlaceNow
<1>7. QueueSizesExact'
  <2>1. compute_queue_size' = Cardinality(Queued(compute_queue'))
    BY DEF PoolIInv, QueueSizesExact, globals
  <2>2. ASSUME NEW v \in Worker, ~Joined(v)'
        PROVE  queue_size'[v] = Cardinality(Queued(private_queue'[v]))
                 + (IF Busy(v)' THEN 1 ELSE 0) + Cardinality(Pushing(v)')
    <3>1. queue_size[v] = Cardinality(Queued(private_queue[v]))
                 + (IF Busy(v) THEN 1 ELSE 0) + Cardinality(Pushing(v))
      BY <2>2 DEF PoolIInv, QueueSizesExact, Busy, Pushing, Joined
    <3>2. (Busy(v)' <=> Busy(v)) /\ private_queue' = private_queue
      BY DEF Busy
    <3>3. CASE v = w /\ pc = "onThread"
      <4>1. c \notin Pushing(v) /\ Pushing(v)' = Pushing(v) \cup {c}
        BY <1>1, <1>2, <3>3 DEF Pushing, AtClient
      <4>2. Cardinality(Pushing(v)') = Cardinality(Pushing(v)) + 1
        BY <4>1, PushingFinite, FS_AddElement
      <4>3. Cardinality(Pushing(v)) \in Nat /\ Cardinality(Queued(private_queue[v])) \in Nat
        BY PushingFinite, QueuedTasks DEF PoolIInv, Shape
      <4> QED BY <3>1, <3>2, <3>3, <4>2, <4>3
    <3>4. CASE ~(v = w /\ pc = "onThread")
      <4>1. Pushing(v)' = Pushing(v)
        BY <1>1, <1>2, <3>4 DEF Pushing, AtClient
      <4> QED BY <3>1, <3>2, <3>4, <4>1
    <3> QED BY <3>3, <3>4
  <2> QED BY <2>1, <2>2 DEF QueueSizesExact, Pushing, Busy
<1>8. SleepOK'
  BY <1>1, <1>2 DEF PoolIInv, SleepOK, Asleep, globals
<1> QED BY <1>4, <1>5, <1>6, <1>7, <1>8 DEF PoolIInv

LEMMA EnqueueTaskInv ==
  ASSUME PoolIInv, NEW c \in Client, NEW t \in Task, EnqueueTask(c, t) PROVE PoolIInv'
<1>1. 0 \in Worker /\ queue_size' = queue_size /\ queue_size \in [Worker -> Nat]
  BY WorkerAssumption DEF EnqueueTask, privates, PoolIInv, Shape
<1> QED BY <1>1, CallerTakesInv DEF EnqueueTask, privates

LEMMA EnqueueTaskOnThreadInv ==
  ASSUME PoolIInv, NEW c \in Client, NEW t \in Task, NEW w \in Worker,
         EnqueueTaskOnThread(c, w, t)
  PROVE  PoolIInv'
<1>1. queue_size \in [Worker -> Nat]
  BY DEF PoolIInv, Shape
<1>2. /\ queue_size' \in [Worker -> Nat]
      /\ \A v \in Worker : queue_size'[v] = IF v = w THEN queue_size[v] + 1 ELSE queue_size[v]
  BY <1>1 DEF EnqueueTaskOnThread
<1> QED BY <1>2, CallerTakesInv DEF EnqueueTaskOnThread

\* A caller goes on, with the same task in hand, or none; the workers stay.
LEMMA CallerGoesInv ==
  ASSUME PoolIInv, NEW c \in Client, NEW w \in Worker, NEW pc \in ClientPC,
         client[c].pc # "onThread", pc # "onThread",
         client[c].pc \in {"scan", "private", "global"}
           <=> pc \in {"scan", "private", "global"},
         client[c].pc \in {"choose", "notify"} => pc \in {"choose", "notify"},
         client' = [client EXCEPT ![c].pc = pc, ![c].thread = w],
         roundRobin' \in Worker,
         UNCHANGED <<compute_queue, compute_queue_size, privates, cancelled, worker,
                     main, task>>
  PROVE  PoolIInv'
<1>1. client \in [Client -> ClientState]
  BY DEF PoolIInv, Shape
<1>2. /\ client' \in [Client -> ClientState]
      /\ \A d \in Client : /\ client'[d].task = client[d].task
                           /\ client'[d].pc = IF d = c THEN pc ELSE client[d].pc
                           /\ client'[d].thread = IF d = c THEN w ELSE client[d].thread
  <2>1. CallerUpdate(client', client, c, pc, w, client[c].task)
    BY <1>1, CallerGoing
  <2> QED BY <2>1 DEF CallerUpdate
<1>3. Shape'
  BY <1>2 DEF PoolIInv, Shape, privates
<1>4. Roles'
  BY <1>2 DEF PoolIInv, Roles, Joined
<1>5. OnePlaceNow' /\ QueueSizesExact'
  <2>1. \A v \in Worker : (Busy(v)' <=> Busy(v)) /\ (Joined(v)' <=> Joined(v))
    BY DEF Busy, Joined
  <2>2. \A v \in Worker : Pushing(v)' = Pushing(v)
    BY <1>2 DEF Pushing, AtClient
  <2> QED BY <1>2, <2>1, <2>2, NothingMoves
<1>6. SleepOK'
  BY <1>2 DEF PoolIInv, SleepOK, Asleep, privates
<1> QED BY <1>3, <1>4, <1>5, <1>6 DEF PoolIInv

LEMMA ScanThreadInv ==
  ASSUME PoolIInv, NEW c \in Client, ScanThread(c) PROVE PoolIInv'
<1> DEFINE w == client[c].thread
<1>1. w \in Worker /\ client[c].pc = "scan" /\ roundRobin \in Worker
  BY DEF ScanThread, AtClient, PoolIInv, Shape, ClientState
<1>2. /\ {"private", "scan", "global"} \subseteq ClientPC
      /\ UNCHANGED <<compute_queue, compute_queue_size, roundRobin, privates, cancelled,
                     worker, main, task>>
  BY DEF ClientPC, ScanThread, globals
<1>3. CASE queue_size[w] = 0
  BY <1>1, <1>2, <1>3, CallerGoesInv DEF ScanThread, ClientGoto
<1>4. CASE queue_size[w] # 0 /\ w + 1 \in Worker
  BY <1>1, <1>2, <1>4, CallerGoesInv DEF ScanThread, ClientGoto
<1>5. CASE queue_size[w] # 0 /\ w + 1 \notin Worker
  BY <1>1, <1>2, <1>5, CallerGoesInv, WorkerAssumption DEF ScanThread, ClientGoto
<1> QED BY <1>3, <1>4, <1>5

LEMMA ChooseThreadInv ==
  ASSUME PoolIInv, NEW c \in Client, ChooseThread(c) PROVE PoolIInv'
<1>1. client[c].pc = "choose" /\ roundRobin \in Worker /\ "notify" \in ClientPC
  BY DEF ChooseThread, AtClient, PoolIInv, Shape, ClientPC
<1>2. roundRobin' \in Worker
  BY <1>1, WorkerAssumption, NumPrioFact DEF ChooseThread
<1> QED BY <1>1, <1>2, CallerGoesInv DEF ChooseThread, ClientGoto

\* Return() of a caller that has no task in hand any more.
LEMMA ReturnOK ==
  ASSUME PoolIInv, NEW c \in Client, Return(c)
  PROVE  CallerUpdate(client', client, c, "idle", 0, NoTask)
<1>1. "idle" \in ClientPC /\ 0 \in Worker /\ NoTask \in Task \cup {NoTask}
  BY WorkerAssumption DEF ClientPC
<1>2. client \in [Client -> ClientState]
  BY DEF PoolIInv, Shape
<1> QED BY <1>1, <1>2, CallerBecomes DEF Return

LEMMA NotifyThreadInv ==
  ASSUME PoolIInv, NEW c \in Client, NotifyThread(c) PROVE PoolIInv'
<1>0. PICK w \in Worker : w = client[c].thread
  BY DEF NotifyThread, PoolIInv, Shape, ClientState
<1>1. /\ worker \in [Worker -> WorkerState]
      /\ client[c].pc = "notify" /\ client[c].task = NoTask
  BY DEF NotifyThread, AtClient, PoolIInv, Shape, Roles, ClientState
<1>2. /\ worker' \in [Worker -> WorkerState]
      /\ \A v \in Worker :
           /\ worker'[v].task = worker[v].task
           /\ worker'[v].pc = IF v = w /\ worker[v].pc = "waiting" THEN "while"
                              ELSE worker[v].pc
  BY <1>0, <1>1, Notifying DEF NotifyThread
<1>3. CallerUpdate(client', client, c, "idle", 0, NoTask)
  BY ReturnOK DEF NotifyThread
<1>4. worker[w].pc # "wait"
  BY <1>0 DEF NotifyThread, MutexFree
<1>5. Shape'
  BY <1>2, <1>3 DEF NotifyThread, PoolIInv, Shape, CallerUpdate, globals, privates
<1>6. Roles'
  BY <1>1, <1>2, <1>3 DEF NotifyThread, PoolIInv, Roles, CallerUpdate, Joined
<1>7. OnePlaceNow' /\ QueueSizesExact'
  <2>1. \A v \in Worker : (Busy(v)' <=> Busy(v)) /\ (Joined(v)' <=> Joined(v))
    BY <1>2 DEF NotifyThread, Busy, Joined
  <2>2. \A v \in Worker : Pushing(v)' = Pushing(v)
    BY <1>1, <1>3 DEF Pushing, AtClient, CallerUpdate
  <2>3. \A d \in Client : client'[d].task = client[d].task
    BY <1>1, <1>3 DEF CallerUpdate
  <2> QED BY <1>2, <2>1, <2>2, <2>3, NothingMoves DEF NotifyThread, globals
<1>8. SleepOK'
  <2>1. ~Asleep(w)' /\ \A v \in Worker : Asleep(v)' => Asleep(v)
    BY <1>1, <1>2, <1>4 DEF Asleep
  <2>2. \A v \in Worker : Asleep(v)' => Queued(private_queue'[v]) = {} /\ ~cancelled'[v]
    BY <2>1 DEF NotifyThread, PoolIInv, SleepOK, privates
  <2> QED BY <2>1, <2>2 DEF SleepOK
<1> QED BY <1>5, <1>6, <1>7, <1>8 DEF PoolIInv

LEMMA PushGlobalInv ==
  ASSUME PoolIInv, NEW c \in Client, PushGlobal(c) PROVE PoolIInv'
<1> DEFINE t == client[c].task
           q == compute_queue
<1>1. /\ client[c].pc = "global" /\ t \in Task /\ client[c].thread \in Worker
      /\ client \in [Client -> ClientState] /\ QueueOK(q)
  BY DEF PushGlobal, AtClient, PoolIInv, Shape, Roles, ClientState
<1>2. OnePlace(Queued(q), InPrivate, CallerHas, WorkerHas, task) /\ CallerHas[c] = t
  BY DEF PoolIInv, OnePlaceNow, CallerHas
<1>3. t \notin Queued(q)
  BY <1>1, <1>2 DEF OnePlace
<1>4. /\ QueueOK(q') /\ Queued(q') = Queued(q) \cup {t}
      /\ Cardinality(Queued(q')) = Cardinality(Queued(q)) + 1
  BY <1>1, <1>3, PushOK DEF PushGlobal
<1>5. /\ client' \in [Client -> ClientState]
      /\ \A d \in Client : /\ client'[d].task = IF d = c THEN NoTask ELSE client[d].task
                           /\ client'[d].pc = IF d = c THEN "choose" ELSE client[d].pc
                           /\ client'[d].thread = client[d].thread
  BY <1>1 DEF PushGlobal, ClientState
<1> HIDE DEF t
<1>6. Shape'
  BY <1>4, <1>5 DEF PushGlobal, PoolIInv, Shape, privates
<1>7. Roles'
  BY <1>5 DEF PushGlobal, PoolIInv, Roles, Joined
<1>8. OnePlaceNow'
  <2>1. IsUpdate(Client, CallerHas', CallerHas, c, NoTask)
    BY <1>5 DEF IsUpdate, CallerHas
  <2>2. InPrivate' = InPrivate /\ WorkerHas' = WorkerHas /\ task' = task
    BY DEF PushGlobal, InPrivate, WorkerHas, privates
  <2>3. OnePlace(Queued(q) \cup {t}, InPrivate, CallerHas', WorkerHas, task)
    BY <1>1, <1>2, <2>1, CallerPushesGlobal
  <2> QED BY <1>4, <2>2, <2>3 DEF OnePlaceNow
<1>9. QueueSizesExact'
  <2>1. compute_queue_size' = Cardinality(Queued(compute_queue'))
    BY <1>4 DEF PushGlobal, PoolIInv, QueueSizesExact
  <2>2. ASSUME NEW v \in Worker, ~Joined(v)'
        PROVE  queue_size'[v] = Cardinality(Queued(private_queue'[v]))
                 + (IF Busy(v)' THEN 1 ELSE 0) + Cardinality(Pushing(v)')
    <3>1. queue_size[v] = Cardinality(Queued(private_queue[v]))
                 + (IF Busy(v) THEN 1 ELSE 0) + Cardinality(Pushing(v))
      BY <2>2 DEF PushGlobal, PoolIInv, QueueSizesExact, Busy, Pushing, Joined
    <3>2. Pushing(v)' = Pushing(v)
      BY <1>1, <1>5 DEF Pushing, AtClient
    <3>3. Busy(v)' <=> Busy(v)
      BY DEF PushGlobal, Busy
    <3> QED BY <3>1, <3>2, <3>3 DEF PushGlobal, privates
  <2> QED BY <2>1, <2>2 DEF QueueSizesExact, Pushing, Busy
<1>10. SleepOK'
  BY <1>5 DEF PushGlobal, PoolIInv, SleepOK, Asleep, privates
<1> QED BY <1>6, <1>7, <1>8, <1>9, <1>10 DEF PoolIInv

\* The caller pushes its task to the private queue of a worker and wakes it.
LEMMA PushedInv ==
  ASSUME PoolIInv, NEW c \in Client, NEW w \in Worker, w = client[c].thread,
         client[c].pc \in {"private", "onThread"}, MutexFree(w),
         private_queue' = [private_queue EXCEPT
                             ![w][PriorityOf[client[c].task]] = Append(@, client[c].task)],
         queue_size' \in [Worker -> Nat],
         \A v \in Worker : queue_size'[v] =
           IF v = w /\ client[c].pc = "private" THEN queue_size[v] + 1 ELSE queue_size[v],
         worker' = Notified(worker, w), Return(c),
         UNCHANGED <<globals, cancelled, main, task>>
  PROVE  PoolIInv'
<1> DEFINE t == client[c].task
           q == private_queue[w]
           q2 == [q EXCEPT ![PriorityOf[t]] = Append(@, t)]
<1>1. /\ t \in Task /\ client \in [Client -> ClientState] /\ QueueOK(q)
      /\ worker \in [Worker -> WorkerState] /\ private_queue \in [Worker -> QueueType]
      /\ worker[w].pc # "wait"
  BY DEF PoolIInv, Shape, Roles, ClientState, MutexFree
<1>2. /\ OnePlace(Queued(compute_queue), InPrivate, CallerHas, WorkerHas, task)
      /\ CallerHas[c] = t /\ InPrivate[w] = Queued(q)
  BY DEF PoolIInv, OnePlaceNow, CallerHas, InPrivate
<1>3. t \notin Queued(q)
  BY <1>1, <1>2 DEF OnePlace
<1>4. /\ QueueOK(q2) /\ Queued(q2) = Queued(q) \cup {t}
      /\ Cardinality(Queued(q2)) = Cardinality(Queued(q)) + 1
  BY <1>1, <1>3, PushOK
<1>5. private_queue' = [private_queue EXCEPT ![w] = q2]
  BY <1>1
<1>6. CallerUpdate(client', client, c, "idle", 0, NoTask)
  BY ReturnOK
<1>7. /\ worker' \in [Worker -> WorkerState]
      /\ \A v \in Worker :
           /\ worker'[v].task = worker[v].task
           /\ worker'[v].pc = IF v = w /\ worker[v].pc = "waiting" THEN "while"
                              ELSE worker[v].pc
  BY <1>1, Notifying
<1> HIDE DEF q2, t, q
<1>8. \A v \in Worker : private_queue'[v] = IF v = w THEN q2 ELSE private_queue[v]
  BY <1>1, <1>5
<1>9. Shape'
  <2>1. private_queue' \in [Worker -> QueueType]
    BY <1>1, <1>4, <1>5 DEF QueueOK
  <2> QED BY <1>4, <1>6, <1>7, <1>8, <2>1 DEF PoolIInv, Shape, CallerUpdate, globals
<1>10. Roles'
  <2>1. \A d \in Client : client'[d].task # NoTask
          <=> client'[d].pc \in {"scan", "private", "global", "onThread"}
    BY <1>6 DEF PoolIInv, Roles, CallerUpdate
  <2>2. \A v \in Worker : worker'[v].task # NoTask <=> worker'[v].pc = "run"
    BY <1>7, SMTT(20) DEF PoolIInv, Roles
  <2>3. \A v \in Worker : Joined(v)' => worker'[v].pc = "exit"
    BY <1>7 DEF PoolIInv, Roles, Joined
  <2> QED BY <2>1, <2>2, <2>3 DEF Roles
<1>11. OnePlaceNow'
  <2>1. IsUpdate(Client, CallerHas', CallerHas, c, NoTask)
    BY <1>6 DEF IsUpdate, CallerHas, CallerUpdate
  <2>2. IsUpdate(Worker, InPrivate', InPrivate, w, InPrivate[w] \cup {CallerHas[c]})
    <3>1. Queued(private_queue'[w]) = Queued(private_queue[w]) \cup {t}
      BY <1>4, <1>8 DEF q
    <3>2. InPrivate'[w] = InPrivate[w] \cup {CallerHas[c]}
      BY <1>2, <3>1 DEF InPrivate
    <3>3. \A v \in Worker : v # w => InPrivate'[v] = InPrivate[v]
      <4> SUFFICES ASSUME NEW v \in Worker, v # w PROVE InPrivate'[v] = InPrivate[v]
        OBVIOUS
      <4>1. private_queue'[v] = private_queue[v]
        BY <1>8
      <4> QED BY <4>1 DEF InPrivate
    <3> QED BY <3>2, <3>3 DEF IsUpdate
  <2>3. WorkerHas' = WorkerHas /\ Queued(compute_queue') = Queued(compute_queue)
    BY <1>7 DEF WorkerHas, globals
  <2>4. CallerHas[c] \in Task
    BY <1>1, <1>2
  <2>5. OnePlace(Queued(compute_queue), InPrivate', CallerHas', WorkerHas, task)
    BY <1>2, <2>1, <2>2, <2>4, CallerPushesPrivate
  <2> QED BY <2>3, <2>5 DEF OnePlaceNow
<1>12. QueueSizesExact'
  <2>1. compute_queue_size' = Cardinality(Queued(compute_queue'))
    BY DEF PoolIInv, QueueSizesExact, globals
  <2>2. ASSUME NEW v \in Worker, ~Joined(v)'
        PROVE  queue_size'[v] = Cardinality(Queued(private_queue'[v]))
                 + (IF Busy(v)' THEN 1 ELSE 0) + Cardinality(Pushing(v)')
    <3>1. queue_size[v] = Cardinality(Queued(private_queue[v]))
                 + (IF Busy(v) THEN 1 ELSE 0) + Cardinality(Pushing(v))
      BY <2>2 DEF PoolIInv, QueueSizesExact, Busy, Pushing, Joined
    <3>2. Busy(v)' <=> Busy(v)
      BY <1>7 DEF Busy
    <3>3. /\ Cardinality(Pushing(v)) \in Nat /\ Cardinality(Queued(private_queue[v])) \in Nat
          /\ IsFiniteSet(Pushing(v))
      BY PushingFinite, QueuedTasks DEF PoolIInv, Shape
    <3>4. v = w => /\ Cardinality(Queued(private_queue'[v]))
                        = Cardinality(Queued(private_queue[v])) + 1
      BY <1>4, <1>8 DEF q
    <3>5. v # w => private_queue'[v] = private_queue[v]
      BY <1>8
    <3>6. CASE v = w /\ client[c].pc = "onThread"
      <4>1. c \in Pushing(v) /\ Pushing(v)' = Pushing(v) \ {c}
        BY <1>6, <3>6 DEF Pushing, AtClient, CallerUpdate
      <4>2. Cardinality(Pushing(v)') = Cardinality(Pushing(v)) - 1
        BY <3>3, <4>1, FS_RemoveElement
      <4>3. queue_size'[v] = queue_size[v]
        BY <3>6
      <4>4. (IF Busy(v)' THEN 1 ELSE 0) = (IF Busy(v) THEN 1 ELSE 0)
            /\ (IF Busy(v) THEN 1 ELSE 0) \in Nat
        BY <3>2
      <4>5. Cardinality(Queued(private_queue'[v]))
              = Cardinality(Queued(private_queue[v])) + 1
        BY <3>4, <3>6
      <4> HIDE DEF Busy, Pushing, Queued
      <4> QED BY ONLY <3>1, <3>3, <4>2, <4>3, <4>4, <4>5
    <3>7. CASE ~(v = w /\ client[c].pc = "onThread")
      <4>1. Pushing(v)' = Pushing(v)
        BY <1>6, <3>7 DEF Pushing, AtClient, CallerUpdate
      <4>2. CASE v = w
        <5>1. queue_size'[v] = queue_size[v] + 1
          BY <3>7, <4>2
        <5>2. (IF Busy(v)' THEN 1 ELSE 0) = (IF Busy(v) THEN 1 ELSE 0)
              /\ (IF Busy(v) THEN 1 ELSE 0) \in Nat
          BY <3>2
        <5>3. Cardinality(Queued(private_queue'[v])) = Cardinality(Queued(private_queue[v])) + 1
          BY <3>4, <4>2
        <5> HIDE DEF Busy
        <5> QED BY <3>1, <3>3, <4>1, <5>1, <5>2, <5>3, SMTT(20)
      <4>3. CASE v # w
        <5>1. queue_size'[v] = queue_size[v]
          BY <4>3
        <5> QED BY <3>1, <3>2, <3>5, <4>1, <4>3, <5>1
      <4> QED BY <4>2, <4>3
    <3> QED BY <3>6, <3>7
  <2> QED BY <2>1, <2>2 DEF QueueSizesExact, Pushing, Busy
<1>13. SleepOK'
  <2>1. ~Asleep(w)' /\ \A v \in Worker : Asleep(v)' => Asleep(v) /\ v # w
    BY <1>1, <1>7 DEF Asleep
  <2>2. \A v \in Worker : Asleep(v)' => Queued(private_queue'[v]) = {} /\ ~cancelled'[v]
    BY <1>8, <2>1 DEF PoolIInv, SleepOK
  <2> QED BY <2>1, <2>2 DEF SleepOK
<1> QED BY <1>9, <1>10, <1>11, <1>12, <1>13 DEF PoolIInv

LEMMA PushPrivateInv ==
  ASSUME PoolIInv, NEW c \in Client, PushPrivate(c) PROVE PoolIInv'
<1>1. client[c].thread \in Worker /\ queue_size \in [Worker -> Nat]
  BY DEF PoolIInv, Shape, ClientState
<1>2. client[c].pc = "private"
  BY DEF PushPrivate, AtClient
<1>3. /\ queue_size' \in [Worker -> Nat]
      /\ \A v \in Worker : queue_size'[v] = IF v = client[c].thread THEN queue_size[v] + 1
                                            ELSE queue_size[v]
  BY <1>1, SMTT(20) DEF PushPrivate
<1> QED BY <1>1, <1>2, <1>3, PushedInv DEF PushPrivate

LEMMA PushOnThreadInv ==
  ASSUME PoolIInv, NEW c \in Client, PushOnThread(c) PROVE PoolIInv'
<1>1. client[c].thread \in Worker /\ queue_size \in [Worker -> Nat]
  BY DEF PoolIInv, Shape, ClientState
<1>2. client[c].pc = "onThread"
  BY DEF PushOnThread, AtClient
<1>3. queue_size' = queue_size
  BY DEF PushOnThread
<1> QED BY <1>1, <1>2, <1>3, PushedInv DEF PushOnThread

LEMMA ClientStepInv ==
  ASSUME PoolIInv, NEW c \in Client, ClientStep(c) PROVE PoolIInv'
BY ScanThreadInv, PushPrivateInv, PushGlobalInv, ChooseThreadInv, NotifyThreadInv,
   PushOnThreadInv
   DEF ClientStep

-----------------------------------------------------------------------------
(* Teardown(). *)

LEMMA TeardownInv == ASSUME PoolIInv, Teardown PROVE PoolIInv'
<1>1. main' = [pc |-> "cancel", thread |-> 0] /\ main.pc = "up" /\ 0 \in Worker
  BY WorkerAssumption DEF Teardown, MainGoto
<1>2. \A v \in Worker : ~Joined(v) /\ ~Joined(v)'
  BY <1>1 DEF Joined
<1>3. Shape'
  BY <1>1 DEF Teardown, PoolIInv, Shape, MainState, globals, privates
<1>4. Roles'
  BY <1>2 DEF Teardown, PoolIInv, Roles
<1>5. OnePlaceNow' /\ QueueSizesExact'
  <2>1. \A v \in Worker : (Busy(v)' <=> Busy(v)) /\ Pushing(v)' = Pushing(v)
    BY DEF Teardown, Busy, Pushing, AtClient
  <2> QED BY <1>2, <2>1, NothingMoves DEF Teardown, globals
<1>6. SleepOK'
  BY <1>1 DEF Teardown, PoolIInv, SleepOK, Asleep, privates
<1> QED BY <1>3, <1>4, <1>5, <1>6 DEF PoolIInv

LEMMA NextThreadOK ==
  ASSUME NEW w \in Worker, NEW here \in {"cancel", "join"}, NEW next \in {"drain", "down"},
         NextThread(w, here, next)
  PROVE  /\ main' \in MainState
         /\ \/ main'.pc = here /\ main'.thread = w + 1
            \/ main'.pc = next /\ main'.thread = 0 /\ w = NumWorkers - 1
BY WorkerAssumption, NumPrioFact DEF NextThread, MainGoto, MainState

LEMMA CancelThreadInv == ASSUME PoolIInv, CancelThread PROVE PoolIInv'
<1>0. PICK w \in Worker : w = main.thread
  BY DEF PoolIInv, Shape, MainState
<1>1. /\ main.pc = "cancel" /\ worker[w].pc # "wait" /\ worker \in [Worker -> WorkerState]
      /\ cancelled \in [Worker -> BOOLEAN]
  BY <1>0 DEF CancelThread, MutexFree, PoolIInv, Shape
<1>2. main' \in MainState /\ main'.pc \in {"cancel", "drain"}
  <2>1. NextThread(w, "cancel", "drain")
    BY <1>0 DEF CancelThread
  <2> QED BY <2>1, NextThreadOK
<1>3. /\ worker' \in [Worker -> WorkerState]
      /\ \A v \in Worker :
           /\ worker'[v].task = worker[v].task
           /\ worker'[v].pc = IF v = w /\ worker[v].pc = "waiting" THEN "while"
                              ELSE worker[v].pc
  BY <1>0, <1>1, Notifying DEF CancelThread
<1>4. \A v \in Worker : ~Joined(v) /\ ~Joined(v)'
  BY <1>1, <1>2 DEF Joined
<1>5. /\ cancelled' \in [Worker -> BOOLEAN]
      /\ \A v \in Worker : v # w => cancelled'[v] = cancelled[v]
  BY <1>0, <1>1 DEF CancelThread
<1>6. Shape'
  BY <1>2, <1>3, <1>5 DEF CancelThread, PoolIInv, Shape, globals, privates
<1>7. Roles'
  BY <1>3, <1>4 DEF CancelThread, PoolIInv, Roles
<1>8. OnePlaceNow' /\ QueueSizesExact'
  <2>1. \A v \in Worker : (Busy(v)' <=> Busy(v)) /\ Pushing(v)' = Pushing(v)
    BY <1>3 DEF CancelThread, Busy, Pushing, AtClient
  <2> QED BY <1>3, <1>4, <2>1, NothingMoves DEF CancelThread, globals
<1>9. SleepOK'
  <2>1. ~Asleep(w)' /\ \A v \in Worker : Asleep(v)' => Asleep(v)
    BY <1>1, <1>3 DEF Asleep
  <2>2. \A v \in Worker : Asleep(v)' => Queued(private_queue'[v]) = {} /\ ~cancelled'[v]
    BY <1>5, <2>1 DEF CancelThread, PoolIInv, SleepOK, privates
  <2> QED BY <1>2, <2>2 DEF SleepOK
<1> QED BY <1>6, <1>7, <1>8, <1>9 DEF PoolIInv

LEMMA DrainGlobalInv == ASSUME PoolIInv, DrainGlobal PROVE PoolIInv'
<1>1. main' = [pc |-> "join", thread |-> 0] /\ main.pc = "drain" /\ 0 \in Worker
  BY WorkerAssumption DEF DrainGlobal, MainGoto
<1>2. \A v \in Worker : ~Joined(v) /\ ~Joined(v)'
  BY <1>1, WorkerAssumption, NumPrioFact DEF Joined
<1>3. /\ QueueOK(compute_queue) /\ IsFiniteSet(Queued(compute_queue))
      /\ compute_queue_size = Cardinality(Queued(compute_queue))
      /\ task \in [Task -> TaskState]
  BY DEF PoolIInv, Shape, QueueOK, QueueSizesExact
<1>4. /\ QueueOK(compute_queue') /\ Queued(compute_queue') = Queued(compute_queue) \ Cancellable
      /\ compute_queue_size' = Cardinality(Queued(compute_queue'))
      /\ task' \in [Task -> TaskState]
      /\ \A t \in Task : task'[t] = IF t \in Cancellable \cap Queued(compute_queue)
                                    THEN "cancelled" ELSE task[t]
  <2>1. CASE compute_queue_size = 0
    <3>1. Queued(compute_queue) = {}
      BY <1>3, <2>1, FS_EmptySet
    <3>2. UNCHANGED <<compute_queue, compute_queue_size, task>>
      BY <2>1 DEF DrainGlobal
    <3> QED BY <1>3, <3>1, <3>2
  <2>2. CASE compute_queue_size # 0
    <3> DEFINE gone == Cancellable \cap Queued(compute_queue)
    <3>1. /\ compute_queue' = [p \in Prio |-> Remaining(compute_queue[p])]
          /\ compute_queue_size' = compute_queue_size - Cardinality(gone)
          /\ task' = [t \in Task |-> IF t \in gone THEN "cancelled" ELSE task[t]]
      BY <2>2 DEF DrainGlobal
    <3>2. /\ QueueOK(compute_queue')
          /\ Queued(compute_queue') = Queued(compute_queue) \ Cancellable
      BY <1>3, <3>1, RemainingOK
    <3>3. Cardinality(Queued(compute_queue')) = compute_queue_size - Cardinality(gone)
      <4>1. Queued(compute_queue) \ Cancellable = Queued(compute_queue) \ gone
        OBVIOUS
      <4>2. gone \subseteq Queued(compute_queue) /\ IsFiniteSet(gone)
        BY <1>3, FS_Subset
      <4>3. Cardinality(Queued(compute_queue) \ gone)
              = Cardinality(Queued(compute_queue)) - Cardinality(Queued(compute_queue) \cap gone)
        BY <1>3, <4>2, FS_Difference
      <4>4. Queued(compute_queue) \cap gone = gone
        BY <4>2
      <4> QED BY <1>3, <3>2, <4>1, <4>3, <4>4
    <3>4. task' \in [Task -> TaskState]
      BY <1>3, <3>1 DEF TaskState
    <3> QED BY <3>1, <3>2, <3>3, <3>4
  <2> QED BY <2>1, <2>2
<1>5. Shape'
  BY <1>1, <1>4 DEF DrainGlobal, PoolIInv, Shape, MainState, privates
<1>6. Roles'
  BY <1>2 DEF DrainGlobal, PoolIInv, Roles
<1>7. OnePlaceNow'
  <2>1. OnePlace(Queued(compute_queue), InPrivate, CallerHas, WorkerHas, task)
    BY DEF PoolIInv, OnePlaceNow
  <2>2. OnePlace(Queued(compute_queue) \ Cancellable, InPrivate, CallerHas, WorkerHas, task')
    BY <1>4, <2>1, CancelledGlobal
  <2>3. InPrivate' = InPrivate /\ CallerHas' = CallerHas /\ WorkerHas' = WorkerHas
    BY DEF DrainGlobal, InPrivate, CallerHas, WorkerHas, privates
  <2> QED BY <1>4, <2>2, <2>3 DEF OnePlaceNow
<1>8. QueueSizesExact'
  <2>1. ASSUME NEW v \in Worker
        PROVE  queue_size'[v] = Cardinality(Queued(private_queue'[v]))
                 + (IF Busy(v)' THEN 1 ELSE 0) + Cardinality(Pushing(v)')
    <3>1. queue_size[v] = Cardinality(Queued(private_queue[v]))
                 + (IF Busy(v) THEN 1 ELSE 0) + Cardinality(Pushing(v))
      BY <1>2 DEF PoolIInv, QueueSizesExact, Busy, Pushing
    <3>2. Pushing(v)' = Pushing(v) /\ (Busy(v)' <=> Busy(v))
      BY DEF DrainGlobal, Pushing, AtClient, Busy
    <3> QED BY <3>1, <3>2 DEF DrainGlobal, privates
  <2> QED BY <1>4, <2>1 DEF QueueSizesExact, Pushing, Busy
<1>9. SleepOK'
  BY <1>1 DEF DrainGlobal, PoolIInv, SleepOK, Asleep, privates
<1> QED BY <1>5, <1>6, <1>7, <1>8, <1>9 DEF PoolIInv

LEMMA JoinThreadInv == ASSUME PoolIInv, JoinThread PROVE PoolIInv'
<1>0. PICK w \in Worker : w = main.thread
  BY DEF PoolIInv, Shape, MainState
<1> DEFINE here == Queued(private_queue[w])
           rest == [p \in Prio |-> Remaining(private_queue[w][p])]
<1>1. /\ main.pc = "join" /\ worker[w].pc = "exit" /\ QueueOK(private_queue[w])
      /\ QueueOK(compute_queue) /\ private_queue \in [Worker -> QueueType]
      /\ compute_queue_size = Cardinality(Queued(compute_queue))
      /\ task \in [Task -> TaskState] /\ compute_queue \in QueueType
  BY <1>0 DEF JoinThread, AtWorker, PoolIInv, Shape, QueueSizesExact, QueueOK
<1>2. /\ compute_queue' = [p \in Prio |-> compute_queue[p] \o Remaining(private_queue[w][p])]
      /\ compute_queue_size' = compute_queue_size + Cardinality(here \ Cancellable)
      /\ task' = [t \in Task |-> IF t \in Cancellable \cap here THEN "cancelled" ELSE task[t]]
      /\ private_queue' = [private_queue EXCEPT ![w] = NoWork]
      /\ NextThread(w, "join", "down")
      /\ UNCHANGED <<queue_size, roundRobin, cancelled, worker, client>>
  BY <1>0 DEF JoinThread, NoWork
<1>3. OnePlace(Queued(compute_queue), InPrivate, CallerHas, WorkerHas, task)
      /\ InPrivate[w] = here
  BY DEF PoolIInv, OnePlaceNow, InPrivate
<1>4. QueueOK(rest) /\ Queued(rest) = here \ Cancellable
  BY <1>1, RemainingOK
<1>5. compute_queue' = [p \in Prio |-> compute_queue[p] \o rest[p]]
  BY <1>2
<1>6. Queued(compute_queue) \cap Queued(rest) = {}
  <2>1. Queued(rest) \subseteq Task
    BY <1>4, QueuedTasks
  <2> HIDE DEF rest, here
  <2> QED BY <1>3, <1>4, <2>1 DEF OnePlace
<1> HIDE DEF rest
<1>7. /\ QueueOK(compute_queue')
      /\ Queued(compute_queue') = Queued(compute_queue) \cup (here \ Cancellable)
      /\ compute_queue_size' = Cardinality(Queued(compute_queue'))
  <2> DEFINE q2 == [p \in Prio |-> compute_queue[p] \o rest[p]]
  <2>1. /\ QueueOK(q2) /\ Queued(q2) = Queued(compute_queue) \cup Queued(rest)
        /\ Cardinality(Queued(q2)) = Cardinality(Queued(compute_queue))
                                       + Cardinality(Queued(rest))
    BY <1>1, <1>4, <1>6, HandBackOK
  <2> HIDE DEF q2, here
  <2>2. compute_queue' = q2
    BY <1>5 DEF q2
  <2> QED BY <1>1, <1>2, <1>4, <2>1, <2>2
<1>8. \A v \in Worker : private_queue'[v] = IF v = w THEN NoWork ELSE private_queue[v]
  BY <1>1, <1>2
<1>9. /\ main' \in MainState /\ main'.pc \in {"join", "down"}
      /\ \A v \in Worker : Joined(v)' <=> Joined(v) \/ v = w
  <2>1. /\ main' \in MainState
        /\ \/ main'.pc = "join" /\ main'.thread = w + 1
           \/ main'.pc = "down" /\ main'.thread = 0 /\ w = NumWorkers - 1
    BY <1>2, NextThreadOK
  <2>2. \A v \in Worker : v \in Nat /\ v <= NumWorkers - 1
    BY WorkerAssumption, NumPrioFact
  <2> QED BY <1>0, <1>1, <2>1, <2>2 DEF Joined
<1>10. task' \in [Task -> TaskState]
  BY <1>1, <1>2 DEF TaskState
<1> HIDE DEF here
<1>11. Shape'
  <2>1. private_queue' \in [Worker -> QueueType]
    BY <1>1, <1>2, NoWorkOK DEF QueueOK
  <2> QED BY <1>2, <1>7, <1>8, <1>9, <1>10, <2>1, NoWorkOK DEF PoolIInv, Shape
<1>12. Roles'
  BY <1>1, <1>2, <1>9 DEF PoolIInv, Roles
<1>13. OnePlaceNow'
  <2>1. IsUpdate(Worker, InPrivate', InPrivate, w, {})
    BY <1>8, NoWorkOK DEF IsUpdate, InPrivate
  <2>2. \A t \in Task : task'[t] = IF t \in Cancellable \cap InPrivate[w] THEN "cancelled"
                                   ELSE task[t]
    BY <1>2, <1>3
  <2>3. OnePlace(Queued(compute_queue) \cup (InPrivate[w] \ Cancellable), InPrivate',
                 CallerHas, WorkerHas, task')
    BY <1>3, <2>1, <2>2, HandedBack
  <2>4. CallerHas' = CallerHas /\ WorkerHas' = WorkerHas
    BY <1>2 DEF CallerHas, WorkerHas
  <2> QED BY <1>3, <1>7, <2>3, <2>4 DEF OnePlaceNow
<1>14. QueueSizesExact'
  <2>1. ASSUME NEW v \in Worker, ~Joined(v)'
        PROVE  queue_size'[v] = Cardinality(Queued(private_queue'[v]))
                 + (IF Busy(v)' THEN 1 ELSE 0) + Cardinality(Pushing(v)')
    <3>1. queue_size[v] = Cardinality(Queued(private_queue[v]))
                 + (IF Busy(v) THEN 1 ELSE 0) + Cardinality(Pushing(v))
      BY <1>9, <2>1 DEF PoolIInv, QueueSizesExact, Busy, Pushing
    <3>2. Pushing(v)' = Pushing(v) /\ (Busy(v)' <=> Busy(v))
      BY <1>2 DEF Pushing, AtClient, Busy
    <3>3. private_queue'[v] = private_queue[v] /\ queue_size' = queue_size
      BY <1>2, <1>8, <1>9, <2>1
    <3> QED BY <3>1, <3>2, <3>3
  <2> QED BY <1>7, <2>1 DEF QueueSizesExact, Pushing, Busy
<1>15. SleepOK'
  <2>1. \A v \in Worker : Asleep(v)' => Asleep(v) /\ v # w
    BY <1>1, <1>2 DEF Asleep
  <2>2. \A v \in Worker : Asleep(v)' => Queued(private_queue'[v]) = {} /\ ~cancelled'[v]
    BY <1>2, <1>8, <2>1 DEF PoolIInv, SleepOK
  <2> QED BY <1>9, <2>2 DEF SleepOK
<1> QED BY <1>11, <1>12, <1>13, <1>14, <1>15 DEF PoolIInv

-----------------------------------------------------------------------------
(* The theorems. *)

LEMMA InitInv == Init => PoolIInv
<1> SUFFICES ASSUME Init PROVE PoolIInv
  OBVIOUS
<1>1. \A v \in Worker : ~Joined(v)
  BY DEF Init, Joined
<1>2. Shape
  <2>1. private_queue \in [Worker -> QueueType]
    BY NoWorkOK DEF Init, QueueOK
  <2> QED BY <2>1, NoWorkOK, WorkerAssumption, PrioAssumption
          DEF Init, Shape, WorkerState, ClientState, MainState, TaskState
<1>3. Roles
  BY <1>1 DEF Init, Roles
<1>4. OnePlaceNow
  BY NoWorkOK, TaskAssumption DEF Init, OnePlaceNow, OnePlace, InPrivate, CallerHas, WorkerHas
<1>5. QueueSizesExact
  <2>1. \A w \in Worker : Pushing(w) = {} /\ ~Busy(w)
    BY DEF Init, Pushing, AtClient, Busy
  <2>2. \A w \in Worker : queue_size[w] = 0 /\ Queued(private_queue[w]) = {}
    BY NoWorkOK DEF Init
  <2>3. compute_queue_size = 0 /\ Queued(compute_queue) = {}
    BY NoWorkOK DEF Init
  <2>4. \A w \in Worker : (IF Busy(w) THEN 1 ELSE 0) = 0
    BY <2>1
  <2>5. \A w \in Worker : queue_size[w] = Cardinality(Queued(private_queue[w]))
                 + (IF Busy(w) THEN 1 ELSE 0) + Cardinality(Pushing(w))
    BY <2>1, <2>2, <2>4, FS_EmptySet
  <2> QED BY <2>3, <2>5, FS_EmptySet DEF QueueSizesExact, Pushing, Busy
<1>6. SleepOK
  BY DEF Init, SleepOK, Asleep
<1> QED BY <1>2, <1>3, <1>4, <1>5, <1>6 DEF PoolIInv

LEMMA StutterInv == ASSUME PoolIInv, UNCHANGED poolvars PROVE PoolIInv'
<1>1. Shape' /\ Roles'
  BY DEF poolvars, globals, privates, PoolIInv, Shape, Roles, Joined
<1>2. OnePlaceNow' /\ QueueSizesExact'
  <2>1. \A v \in Worker : /\ Busy(v)' <=> Busy(v)
                          /\ Joined(v)' <=> Joined(v)
                          /\ Pushing(v)' = Pushing(v)
    BY DEF poolvars, Busy, Joined, Pushing, AtClient
  <2> QED BY <2>1, NothingMoves DEF poolvars, globals
<1>3. SleepOK'
  BY DEF poolvars, globals, privates, PoolIInv, SleepOK, Asleep
<1> QED BY <1>1, <1>2, <1>3 DEF PoolIInv

LEMMA NextInv == PoolIInv /\ [Next]_poolvars => PoolIInv'
<1> SUFFICES ASSUME PoolIInv, [Next]_poolvars PROVE PoolIInv'
  OBVIOUS
<1>1. ASSUME NEW w \in Worker, WorkerStep(w) PROVE PoolIInv'
  BY <1>1, WorkerStepInv
<1>2. ASSUME NEW c \in Client, ClientStep(c) PROVE PoolIInv'
  BY <1>2, ClientStepInv
<1>3. ASSUME NEW c \in Client, NEW t \in Task, EnqueueTask(c, t) PROVE PoolIInv'
  BY <1>3, EnqueueTaskInv
<1>4. ASSUME NEW c \in Client, NEW t \in Task, NEW w \in Worker,
             EnqueueTaskOnThread(c, w, t)
      PROVE  PoolIInv'
  BY <1>4, EnqueueTaskOnThreadInv
<1>5. CASE Teardown
  BY <1>5, TeardownInv
<1>6. CASE MainStep
  BY <1>6, CancelThreadInv, DrainGlobalInv, JoinThreadInv DEF MainStep
<1>7. CASE UNCHANGED poolvars
  BY <1>7, StutterInv
<1> QED BY <1>1, <1>2, <1>3, <1>4, <1>5, <1>6, <1>7 DEF Next

LEMMA PoolIInvHolds == Spec => []PoolIInv
<1> QED BY InitInv, NextInv, PTL DEF Spec

\* A task is at one place of a queue that holds it.
LEMMA OnePlaceOf ==
  ASSUME NEW q, QueueOK(q), NEW t \in Task
  PROVE  /\ t \in Queued(q) => \E x : PlacesOf(q, t) = {x}
         /\ t \notin Queued(q) => PlacesOf(q, t) = {}
<1> DEFINE At(p) == {i \in 1..Len(q[p]) : q[p][i] = t}
<1>1. PlacesOf(q, t) = UNION {{p} \X At(p) : p \in Prio} /\ q \in QueueType
  BY DEF PlacesOf, QueueOK
<1>2. \A p \in Prio : Holds(q[p], t) <=> At(p) # {}
  BY DEF Holds
<1>3. CASE t \notin Queued(q)
  <2>1. \A p \in Prio : At(p) = {}
    BY <1>1, <1>2, <1>3, QueuedHolds
  <2> HIDE DEF At
  <2> QED BY <1>1, <1>3, <2>1
<1>4. CASE t \in Queued(q)
  <2>1. PICK r \in Prio : Holds(q[r], t)
    BY <1>1, <1>4, QueuedHolds
  <2>2. \A p \in Prio : Holds(q[p], t) => p = r
    BY <2>1, QueuedTasks
  <2>3. PICK i \in 1..Len(q[r]) : q[r][i] = t
    BY <2>1 DEF Holds
  <2>4. At(r) = {i}
    BY <2>3 DEF QueueOK, Distinct
  <2>5. \A p \in Prio : p # r => At(p) = {}
    BY <1>2, <2>2
  <2> HIDE DEF At
  <2>6. PlacesOf(q, t) = {<<r, i>>}
    BY <1>1, <2>4, <2>5
  <2> QED BY <1>4, <2>6
<1> QED BY <1>3, <1>4

Tag(tag, S) == {<<tag, y>> : y \in S}

LEMMA Tagged ==
  ASSUME NEW S, NEW tag
  PROVE  /\ (\E x : S = {x}) => \E x : Tag(tag, S) = {x}
         /\ S = {} => Tag(tag, S) = {}
<1>1. ASSUME NEW x, S = {x} PROVE Tag(tag, S) = {<<tag, x>>}
  BY <1>1 DEF Tag
<1>2. S = {} => Tag(tag, S) = {}
  BY DEF Tag
<1> QED BY <1>1, <1>2

LEMMA EachTaskOnce == PoolIInv => EachTaskInOnePlace
<1> SUFFICES ASSUME PoolIInv, NEW t \in Task
             PROVE  LET queued ==
                          {<<"global", x>> : x \in PlacesOf(compute_queue, t)}
                          \cup {<<"caller", c>> : c \in {d \in Client : client[d].task = t}}
                          \cup UNION {{<<"private", w, x>> : x \in PlacesOf(private_queue[w], t)} :
                                       w \in Worker}
                        run == {w \in Worker : worker[w].task = t}
                    IN  /\ Cardinality(queued) = (IF task[t] = "enqueued" THEN 1 ELSE 0)
                        /\ Cardinality(run) = (IF task[t] = "running" THEN 1 ELSE 0)
  BY DEF EachTaskInOnePlace
<1> DEFINE inGlobal == {<<"global", x>> : x \in PlacesOf(compute_queue, t)}
           having == {d \in Client : client[d].task = t}
           withCaller == {<<"caller", c>> : c \in having}
           inList(w) == {<<"private", w, x>> : x \in PlacesOf(private_queue[w], t)}
           lists == UNION {inList(w) : w \in Worker}
           queued == inGlobal \cup withCaller \cup lists
           run == {w \in Worker : worker[w].task = t}
           G == Queued(compute_queue)
           P(w) == Queued(private_queue[w])
<1>1. QueueOK(compute_queue) /\ \A w \in Worker : QueueOK(private_queue[w])
  BY DEF PoolIInv, Shape
<1>2. /\ task[t] = "enqueued" <=> t \in G \/ (\E w \in Worker : t \in P(w)) \/ having # {}
      /\ task[t] = "running" <=> run # {}
      /\ \A w \in Worker : t \in P(w) => t \notin G
      /\ \A w, v \in Worker : t \in P(w) /\ t \in P(v) => w = v
      /\ having # {} => t \notin G /\ \A w \in Worker : t \notin P(w)
      /\ \A c, d \in having : c = d
      /\ \A w, v \in run : w = v
  <2>1. OnePlace(G, InPrivate, CallerHas, WorkerHas, task)
    BY DEF PoolIInv, OnePlaceNow
  <2>2. /\ \A w \in Worker : InPrivate[w] = P(w) /\ (WorkerHas[w] = t <=> w \in run)
        /\ \A c \in Client : CallerHas[c] = t <=> c \in having
        /\ having \subseteq Client /\ run \subseteq Worker
    BY DEF InPrivate, WorkerHas, CallerHas
  <2> HIDE DEF G, P, having, run
  <2> QED BY <2>1, <2>2 DEF OnePlace
<1>3. /\ t \in G => \E x : inGlobal = {x}
      /\ t \notin G => inGlobal = {}
  <2>1. /\ t \in G => \E x : PlacesOf(compute_queue, t) = {x}
        /\ t \notin G => PlacesOf(compute_queue, t) = {}
    BY <1>1, OnePlaceOf
  <2>2. inGlobal = Tag("global", PlacesOf(compute_queue, t))
    BY DEF Tag
  <2> HIDE DEF G, inGlobal
  <2> QED BY <2>1, <2>2, Tagged
<1>4. ASSUME NEW w \in Worker
      PROVE  /\ t \in P(w) => \E x : inList(w) = {x}
             /\ t \notin P(w) => inList(w) = {}
  <2>1. /\ t \in P(w) => \E x : PlacesOf(private_queue[w], t) = {x}
        /\ t \notin P(w) => PlacesOf(private_queue[w], t) = {}
    BY <1>1, OnePlaceOf
  <2>2. ASSUME t \in P(w) PROVE \E x : inList(w) = {x}
    <3>1. PICK y : PlacesOf(private_queue[w], t) = {y}
      BY <2>1, <2>2
    <3>2. inList(w) = {<<"private", w, y>>}
      BY <3>1
    <3> QED BY <3>2
  <2>3. ASSUME t \notin P(w) PROVE inList(w) = {}
    BY <2>1, <2>3
  <2> QED BY <2>2, <2>3
<1>5. /\ having # {} => \E x : withCaller = {x}
      /\ having = {} => withCaller = {}
  <2>1. having # {} => \E c : having = {c}
    <3> HIDE DEF having
    <3> QED BY <1>2
  <2>2. withCaller = Tag("caller", having)
    BY DEF Tag
  <2> HIDE DEF having, withCaller
  <2>3. /\ (\E x : having = {x}) => \E x : withCaller = {x}
        /\ having = {} => withCaller = {}
    BY <2>2, Tagged, Zenon
  <2> QED BY <2>1, <2>3
<1>6. /\ (\E w \in Worker : t \in P(w)) => \E x : lists = {x}
      /\ ~(\E w \in Worker : t \in P(w)) => lists = {}
  <2> HIDE DEF inList, P, G, having
  <2>1. ASSUME NEW w \in Worker, t \in P(w) PROVE \E x : lists = {x}
    <3>1. \A v \in Worker : v # w => inList(v) = {}
      BY <1>2, <1>4, <2>1
    <3>2. PICK x : inList(w) = {x}
      BY <1>4, <2>1
    <3>3. lists = {x}
      BY <3>1, <3>2
    <3> QED BY <3>3
  <2>2. ASSUME \A w \in Worker : t \notin P(w) PROVE lists = {}
    BY <1>4, <2>2
  <2> QED BY <2>1, <2>2
<1> HIDE DEF G, P, inGlobal, withCaller, lists, having
<1>7. /\ task[t] = "enqueued" => \E x : queued = {x}
      /\ task[t] # "enqueued" => queued = {}
  <2>1. CASE t \in G
    BY <1>2, <1>3, <1>5, <1>6, <2>1
  <2>2. CASE \E w \in Worker : t \in P(w)
    BY <1>2, <1>3, <1>5, <1>6, <2>2
  <2>3. CASE having # {}
    BY <1>2, <1>3, <1>5, <1>6, <2>3
  <2>4. CASE t \notin G /\ ~(\E w \in Worker : t \in P(w)) /\ having = {}
    BY <1>2, <1>3, <1>5, <1>6, <2>4
  <2> QED BY <2>1, <2>2, <2>3, <2>4
<1>8. /\ task[t] = "running" => \E x : run = {x}
      /\ task[t] # "running" => run = {}
  <2> HIDE DEF run
  <2> QED BY <1>2
<1> HIDE DEF queued, run
<1>9. Cardinality(queued) = IF task[t] = "enqueued" THEN 1 ELSE 0
  BY <1>7, FS_Singleton, FS_EmptySet
<1>10. Cardinality(run) = IF task[t] = "running" THEN 1 ELSE 0
  BY <1>8, FS_Singleton, FS_EmptySet
<1> QED BY <1>9, <1>10 DEF queued, run, inGlobal, withCaller, lists, inList, having

\* Whatever the workers, callers and teardown do, a task is in one place as long as
\* it has not been run or cancelled, and both kinds of sizes, which EnqueueTask()
\* and WorkerThreadFunc() read without a lock, are exact.
THEOREM PoolInvHolds == Spec => []PoolInv
<1>1. PoolIInv => PoolInv
  <2> SUFFICES ASSUME PoolIInv PROVE PoolInv
    OBVIOUS
  <2>1. PoolTypeOK
    <3>1. compute_queue \in [Prio -> Seq(Task)] /\ compute_queue_size \in Nat
      BY QueuedTasks DEF PoolIInv, Shape, QueueOK, QueueType, QueueSizesExact
    <3> QED BY <3>1 DEF PoolIInv, Shape, QueueType, PoolTypeOK
  <2> QED BY <2>1, EachTaskOnce DEF PoolIInv, PoolInv
<1> QED BY <1>1, PoolIInvHolds, PTL

\* The decision to sleep in WorkerThreadFunc(), taken under the worker's mutex but not
\* under the global one, never leaves work behind: no sleeper has a private task or
\* has been cancelled, and a global task has a worker awake or on its way to be.
THEOREM SleepersHaveNoWorkHolds == Spec => []SleepersHaveNoWork
<1>1. PoolIInv => SleepersHaveNoWork
  <2> SUFFICES ASSUME PoolIInv PROVE SleepersHaveNoWork
    OBVIOUS
  <2>1. ASSUME NEW w \in Worker, AtWorker(w, "waiting")
        PROVE  FirstPrivate(w) = NumPrio /\ ~cancelled[w]
    BY <2>1, FirstPrivateOK DEF AtWorker, PoolIInv, SleepOK, Asleep
  <2>2. ASSUME compute_queue_size > 0, main.pc = "up"
        PROVE  \/ \E w \in Worker : worker[w].pc # "waiting"
               \/ \E c \in Client : client[c].pc \in {"choose", "notify"}
    BY <2>2 DEF PoolIInv, SleepOK, Asleep
  <2> QED BY <2>1, <2>2 DEF SleepersHaveNoWork
<1> QED BY <1>1, PoolIInvHolds, PTL
=============================================================================
