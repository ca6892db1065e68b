----------------------- MODULE ThreadQueueListProofs -----------------------
(***************************************************************************)
(* The array deques never leave their arrays, the chain is ordered, and    *)
(* the structure implements one list per priority, for any number of       *)
(* priorities, initial capacity and threads, as long as realloc() works.   *)
(***************************************************************************)
EXTENDS ThreadQueueList, UidListProofs

\* A queue between two statements: what it holds lies where it says.
CellSet == UNION {[D -> UID] : D \in SUBSET Int}
QueueSet == [next : Prio \cup {NULL, invalid}, first : Nat, end : Nat,
             capacity : Nat, data : CellSet]
IsQueue(q) ==
  /\ q \in QueueSet
  /\ q.first <= q.end
  /\ q.data \in [q.first..(q.end - 1) -> UID]

\* A queue between two calls.
GoodQueue(q) ==
  IsQueue(q) /\ IF q.next = NULL THEN q = Unused ELSE HasRoom(q)

ListSet == [queues : [Prio -> QueueSet], first : Prio \cup {invalid}]
ListOK(l) ==
  /\ l \in ListSet
  /\ \A p \in Prio : GoodQueue(l.queues[p])
  /\ Chain(l)
QueueInv == ListOK(list) /\ inside = TRUE /\ ret \in UID \cup {NoUID}

-----------------------------------------------------------------------------
(* What the operations on one queue do to the list of its items. *)

LEMMA QueueFacts ==
  ASSUME NEW q, IsQueue(q)
  PROVE  /\ q \in QueueSet /\ q.first \in Nat /\ q.end \in Nat /\ q.capacity \in Nat
         /\ q.first <= q.end
         /\ size(q) \in Nat /\ size(q) = q.end - q.first
         /\ \A i \in Int : q.first <= i /\ i <= q.end - 1 => q.data[i] \in UID
<1>1. q \in QueueSet /\ q.first <= q.end /\ q.data \in [q.first..(q.end - 1) -> UID]
  BY DEF IsQueue
<1>2. q.first \in Nat /\ q.end \in Nat /\ q.capacity \in Nat
  BY <1>1 DEF QueueSet
<1>3. \A i \in Int : q.first <= i /\ i <= q.end - 1 => q.data[i] \in UID
  BY <1>1, <1>2
<1> QED BY <1>1, <1>2, <1>3 DEF size

LEMMA InCellSet ==
  ASSUME NEW a \in Int, NEW b \in Int, NEW d \in [a..b -> UID]
  PROVE  d \in CellSet
<1>1. a..b \in SUBSET Int
  OBVIOUS
<1>2. [a..b -> UID] \in {[D -> UID] : D \in SUBSET Int}
  BY <1>1
<1> QED BY <1>2, Zenon DEF CellSet

\* Replacing the indices, the capacity and the cells of a queue.
Made(q, a, b, c, d) ==
  [q EXCEPT !.first = a, !.end = b, !.capacity = c, !.data = d]

LEMMA MakeQueue ==
  ASSUME NEW q, IsQueue(q),
         NEW a \in Nat, NEW b \in Nat, NEW c \in Nat, a <= b,
         NEW d \in [a..(b - 1) -> UID], NEW r,
         r = Made(q, a, b, c, d)
  PROVE  /\ IsQueue(r) /\ r.next = q.next /\ r.first = a /\ r.end = b
         /\ r.capacity = c /\ r.data = d /\ size(r) = b - a
<1>1. q \in QueueSet /\ d \in CellSet
  BY InCellSet DEF IsQueue
<1>2. /\ r \in QueueSet /\ r.next = q.next /\ r.first = a /\ r.end = b
      /\ r.capacity = c /\ r.data = d
  BY <1>1 DEF QueueSet, Made
<1>3. IsQueue(r)
  BY <1>2 DEF IsQueue
<1> QED BY <1>2, <1>3 DEF size

\* Items as a sequence.
LEMMA ItemsSeq ==
  ASSUME NEW q, IsQueue(q)
  PROVE  /\ Items(q) \in Seq(UID)
         /\ Len(Items(q)) = size(q)
         /\ \A i \in 1..size(q) : Items(q)[i] = q.data[q.first + i - 1]
<1> DEFINE n == size(q)
           a == q.first
           d == q.data
<1>1. n \in Nat /\ a \in Nat /\ \A i \in Int : a <= i /\ i <= a + n - 1 => d[i] \in UID
  BY QueueFacts
<1>2. Items(q) = [i \in 1..n |-> d[a + i - 1]]
  BY DEF Items
<1> HIDE DEF n, a, d
<1>3. \A i \in 1..n : d[a + i - 1] \in UID
  BY <1>1
<1>4. [i \in 1..n |-> d[a + i - 1]] \in [1..n -> UID]
  BY <1>3
<1>5. Items(q) \in Seq(UID) /\ Len(Items(q)) = n
  BY <1>1, <1>2, <1>4, FunctionIsSeq
<1>6. \A i \in 1..n : Items(q)[i] = d[a + i - 1]
  BY <1>2
<1> QED BY <1>5, <1>6 DEF n, a, d

LEMMA SameSeq ==
  ASSUME NEW S, NEW s \in Seq(S), NEW u \in Seq(S), Len(s) = Len(u),
         \A i \in 1..Len(s) : s[i] = u[i]
  PROVE  s = u
OBVIOUS

LEMMA MovedToItems ==
  ASSUME NEW q, IsQueue(q), NEW f \in Nat, NEW cap \in Nat
  PROVE  /\ IsQueue(MovedTo(q, f, cap))
         /\ MovedTo(q, f, cap).next = q.next
         /\ MovedTo(q, f, cap).first = f
         /\ MovedTo(q, f, cap).end = f + size(q)
         /\ MovedTo(q, f, cap).capacity = cap
         /\ Items(MovedTo(q, f, cap)) = Items(q)
<1> DEFINE r == MovedTo(q, f, cap)
           n == size(q)
           a == q.first
           e == q.data
           b == f + n
           d == [i \in f..(b - 1) |-> e[i - f + a]]
<1>1. /\ n \in Nat /\ a \in Nat /\ b \in Nat /\ b = f + n
      /\ \A i \in Int : a <= i /\ i <= a + n - 1 => e[i] \in UID
  BY QueueFacts
<1>2. r = Made(q, f, b, cap, d)
  <2>1. /\ q \in QueueSet /\ q.first = a /\ q.data = e
        /\ f + n - 1 = b - 1 /\ size(q) = n
    BY QueueFacts
  <2> QED BY <2>1 DEF MovedTo, QueueSet, Made
<1>3. Items(q) = [i \in 1..n |-> e[a + i - 1]]
  BY DEF Items
<1> HIDE DEF r, n, a, e, b
<1>4. d \in [f..(b - 1) -> UID]
  BY <1>1
<1>5. \A i \in 1..n : d[f + i - 1] = e[a + i - 1]
  BY <1>1
<1> HIDE DEF d
<1>6. /\ IsQueue(r) /\ r.next = q.next /\ r.first = f /\ r.end = b
      /\ r.capacity = cap /\ r.data = d /\ size(r) = n
  <2>1. f \in Nat /\ b \in Nat /\ cap \in Nat /\ f <= b
    BY <1>1
  <2>2. IsQueue(r)
    BY <1>2, <1>4, <2>1, MakeQueue
  <2>3. r.next = q.next /\ r.first = f /\ r.end = b
    BY <1>2, <1>4, <2>1, MakeQueue
  <2>4. r.capacity = cap /\ r.data = d
    BY <1>2, <1>4, <2>1, MakeQueue
  <2>5. size(r) = b - f
    BY <1>2, <1>4, <2>1, MakeQueue
  <2>6. b - f = n
    BY <1>1
  <2> QED BY <2>2, <2>3, <2>4, <2>5, <2>6, Zenon
<1>7. Items(r) = [i \in 1..n |-> d[f + i - 1]]
  BY <1>6 DEF Items
<1>8. Items(r) = Items(q)
  BY <1>3, <1>5, <1>7
<1> QED BY <1>6, <1>8 DEF r, n, b

LEMMA PushedFrontItems ==
  ASSUME NEW q, IsQueue(q), q.first >= 1, NEW t \in UID
  PROVE  /\ IsQueue(PushedFront(q, t))
         /\ PushedFront(q, t).next = q.next
         /\ PushedFront(q, t).first = q.first - 1
         /\ PushedFront(q, t).end = q.end
         /\ PushedFront(q, t).capacity = q.capacity
         /\ Items(PushedFront(q, t)) = <<t>> \o Items(q)
<1> DEFINE r == PushedFront(q, t)
           n == size(q)
           f == q.first - 1
           b == q.end
           c == q.capacity
           e == q.data
           d == [i \in f..(b - 1) |-> IF i = f THEN t ELSE e[i]]
<1>1. /\ n \in Nat /\ f \in Nat /\ b \in Nat /\ c \in Nat /\ b = f + 1 + n
      /\ q.first = f + 1
      /\ \A i \in Int : f + 1 <= i /\ i <= b - 1 => e[i] \in UID
  BY QueueFacts
<1>2. r = Made(q, f, b, c, d)
  BY QueueFacts DEF PushedFront, QueueSet, Made
<1>3. /\ Items(q) \in Seq(UID) /\ Len(Items(q)) = n
      /\ \A i \in 1..n : Items(q)[i] = e[f + 1 + i - 1]
  <2>1. \A i \in 1..n : Items(q)[i] = e[q.first + i - 1]
    BY ItemsSeq
  <2> QED BY <1>1, <2>1, ItemsSeq
<1> HIDE DEF r, n, f, b, c, e
<1>4. d \in [f..(b - 1) -> UID]
  BY <1>1
<1>5. d[f] = t /\ \A i \in 1..n : d[f + i] = e[f + 1 + i - 1]
  BY <1>1
<1> HIDE DEF d
<1>6. /\ IsQueue(r) /\ r.next = q.next /\ r.first = f /\ r.end = b
      /\ r.capacity = c /\ r.data = d /\ size(r) = n + 1
  <2>1. f \in Nat /\ b \in Nat /\ c \in Nat /\ f <= b /\ b - f = n + 1
    BY <1>1
  <2> QED BY <1>2, <1>4, <2>1, MakeQueue
<1>7. /\ Items(r) \in Seq(UID) /\ Len(Items(r)) = n + 1
      /\ \A i \in 1..(n + 1) : Items(r)[i] = d[f + i - 1]
  BY <1>6, ItemsSeq
<1>8. Items(r) = <<t>> \o Items(q)
  <2> DEFINE s == Items(q)
             u == Items(r)
  <2> HIDE DEF s, u
  <2>1. <<t>> \o s \in Seq(UID) /\ Len(<<t>> \o s) = n + 1
    BY <1>1, <1>3 DEF s
  <2>2. \A i \in 1..(n + 1) : (<<t>> \o s)[i] = IF i = 1 THEN t ELSE s[i - 1]
    BY <1>1, <1>3 DEF s
  <2>3. \A i \in 1..(n + 1) : u[i] = IF i = 1 THEN t ELSE s[i - 1]
    <3> SUFFICES ASSUME NEW i \in 1..(n + 1)
                 PROVE  u[i] = IF i = 1 THEN t ELSE s[i - 1]
      OBVIOUS
    <3>1. CASE i = 1
      BY <3>1, <1>1, <1>5, <1>7 DEF u
    <3>2. CASE i # 1
      <4>1. i - 1 \in 1..n /\ f + i - 1 = f + (i - 1)
        BY <3>2, <1>1
      <4>2. u[i] = d[f + i - 1]
        BY <1>7, Zenon DEF u
      <4>3. u[i] = d[f + (i - 1)]
        BY <4>1, <4>2, Zenon
      <4> QED BY <3>2, <4>1, <4>3, <1>3, <1>5 DEF s
    <3> QED BY <3>1, <3>2
  <2>4. u = <<t>> \o s
    BY <2>1, <2>2, <2>3, <1>7, SameSeq DEF u
  <2> QED BY <2>4 DEF s, u
<1> QED BY <1>6, <1>8 DEF r, f, b, c

LEMMA PushedBackItems ==
  ASSUME NEW q, IsQueue(q), NEW t \in UID
  PROVE  /\ IsQueue(PushedBack(q, t))
         /\ PushedBack(q, t).next = q.next
         /\ PushedBack(q, t).first = q.first
         /\ PushedBack(q, t).end = q.end + 1
         /\ PushedBack(q, t).capacity = q.capacity
         /\ Items(PushedBack(q, t)) = Append(Items(q), t)
<1> DEFINE r == PushedBack(q, t)
           n == size(q)
           f == q.first
           b == q.end + 1
           c == q.capacity
           e == q.data
           d == [i \in f..(b - 1) |-> IF i = b - 1 THEN t ELSE e[i]]
<1>1. /\ n \in Nat /\ f \in Nat /\ b \in Nat /\ c \in Nat /\ b = f + n + 1
      /\ \A i \in Int : f <= i /\ i <= b - 2 => e[i] \in UID
  BY QueueFacts
<1>2. r = Made(q, f, b, c, d)
  <2>1. q.end = b - 1
    BY <1>1, QueueFacts
  <2> QED BY <2>1, QueueFacts DEF PushedBack, QueueSet, Made
<1>3. /\ Items(q) \in Seq(UID) /\ Len(Items(q)) = n
      /\ \A i \in 1..n : Items(q)[i] = e[f + i - 1]
  BY <1>1, ItemsSeq
<1> HIDE DEF r, n, f, b, c, e
<1>4. d \in [f..(b - 1) -> UID]
  BY <1>1
<1>5. d[f + n] = t /\ \A i \in 1..n : d[f + i - 1] = e[f + i - 1]
  BY <1>1
<1> HIDE DEF d
<1>6. /\ IsQueue(r) /\ r.next = q.next /\ r.first = f /\ r.end = b
      /\ r.capacity = c /\ r.data = d /\ size(r) = n + 1
  <2>1. f \in Nat /\ b \in Nat /\ c \in Nat /\ f <= b /\ b - f = n + 1
    BY <1>1
  <2> QED BY <1>2, <1>4, <2>1, MakeQueue
<1>7. /\ Items(r) \in Seq(UID) /\ Len(Items(r)) = n + 1
      /\ \A i \in 1..(n + 1) : Items(r)[i] = d[f + i - 1]
  BY <1>6, ItemsSeq
<1>8. Items(r) = Append(Items(q), t)
  <2> DEFINE s == Items(q)
             u == Items(r)
  <2> HIDE DEF s, u
  <2>1. Append(s, t) \in Seq(UID) /\ Len(Append(s, t)) = n + 1
    BY <1>1, <1>3 DEF s
  <2>2. \A i \in 1..(n + 1) : Append(s, t)[i] = IF i = n + 1 THEN t ELSE s[i]
    BY <1>1, <1>3 DEF s
  <2>3. \A i \in 1..(n + 1) : u[i] = IF i = n + 1 THEN t ELSE s[i]
    <3> SUFFICES ASSUME NEW i \in 1..(n + 1)
                 PROVE  u[i] = IF i = n + 1 THEN t ELSE s[i]
      OBVIOUS
    <3>1. CASE i = n + 1
      <4>1. f + i - 1 = f + n
        BY <3>1, <1>1
      <4> QED BY <3>1, <4>1, <1>5, <1>7 DEF u
    <3>2. CASE i # n + 1
      <4>1. i \in 1..n
        BY <3>2, <1>1
      <4> QED BY <3>2, <4>1, <1>3, <1>5, <1>7 DEF s, u
    <3> QED BY <3>1, <3>2
  <2>4. u = Append(s, t)
    BY <2>1, <2>2, <2>3, <1>7, SameSeq DEF u
  <2> QED BY <2>4 DEF s, u
<1> QED BY <1>6, <1>8 DEF r, f, b, c

LEMMA PoppedItems ==
  ASSUME NEW q, IsQueue(q), size(q) > 0
  PROVE  /\ IsQueue(Popped(q))
         /\ Popped(q).next = q.next
         /\ Popped(q).first = q.first + 1
         /\ Popped(q).end = q.end
         /\ Popped(q).capacity = q.capacity
         /\ Items(q) # <<>>
         /\ Items(Popped(q)) = Tail(Items(q))
         /\ q.data[q.first] = Head(Items(q))
         /\ q.data[q.first] \in UID
<1> DEFINE r == Popped(q)
           n == size(q)
           f == q.first + 1
           b == q.end
           c == q.capacity
           e == q.data
           d == [i \in f..(b - 1) |-> e[i]]
<1>1. /\ n \in Nat /\ f \in Nat /\ b \in Nat /\ c \in Nat /\ b = f - 1 + n /\ n > 0
      /\ q.first = f - 1
      /\ \A i \in Int : f - 1 <= i /\ i <= b - 1 => e[i] \in UID
  BY QueueFacts
<1>2. r = Made(q, f, b, c, d)
  BY QueueFacts DEF Popped, QueueSet, Made
<1>3. /\ Items(q) \in Seq(UID) /\ Len(Items(q)) = n
      /\ \A i \in 1..n : Items(q)[i] = e[f - 1 + i - 1]
  BY <1>1, ItemsSeq
<1> HIDE DEF r, n, f, b, c, e
<1>4. d \in [f..(b - 1) -> UID]
  BY <1>1
<1>5. \A i \in 1..(n - 1) : d[f + i - 1] = e[f + i - 1]
  BY <1>1
<1> HIDE DEF d
<1>6. /\ IsQueue(r) /\ r.next = q.next /\ r.first = f /\ r.end = b
      /\ r.capacity = c /\ r.data = d /\ size(r) = n - 1
  <2>1. f <= b /\ b - f = n - 1
    BY <1>1
  <2> QED BY <1>1, <1>2, <1>4, <2>1, MakeQueue
<1>7. /\ Items(r) \in Seq(UID) /\ Len(Items(r)) = n - 1
      /\ \A i \in 1..(n - 1) : Items(r)[i] = d[f + i - 1]
  BY <1>6, ItemsSeq
<1> DEFINE s == Items(q)
           u == Items(r)
<1> HIDE DEF s, u
<1>8. s # <<>> /\ e[f - 1] = Head(s) /\ e[f - 1] \in UID
  BY <1>1, <1>3 DEF s
<1>9. u = Tail(s)
  <2>1. /\ Tail(s) \in Seq(UID) /\ Len(Tail(s)) = n - 1
        /\ \A i \in 1..(n - 1) : Tail(s)[i] = s[i + 1]
    BY <1>1, <1>3, <1>8 DEF s
  <2>2. \A i \in 1..(n - 1) : u[i] = s[i + 1]
    <3> SUFFICES ASSUME NEW i \in 1..(n - 1) PROVE u[i] = s[i + 1]
      OBVIOUS
    <3>1. i + 1 \in 1..n /\ f - 1 + (i + 1) - 1 = f + i - 1
      BY <1>1
    <3> QED BY <3>1, <1>3, <1>5, <1>7 DEF s, u
  <2> QED BY <2>1, <2>2, <1>7, SameSeq DEF u
<1> QED BY <1>1, <1>6, <1>8, <1>9 DEF r, f, b, c, e, s, u

LEMMA WithoutItems ==
  ASSUME NEW q, IsQueue(q), NEW at \in q.first..(q.end - 1), NEW t,
         q.data[at] = t, \A j \in q.first..(at - 1) : q.data[j] # t
  PROVE  /\ IsQueue(Erased(q, at))
         /\ Erased(q, at).next = q.next
         /\ Erased(q, at).first = q.first
         /\ Erased(q, at).end = q.end - 1
         /\ Erased(q, at).capacity = q.capacity
         /\ Items(Erased(q, at)) = DropFirst(Items(q), t)
<1> DEFINE r == Erased(q, at)
           n == size(q)
           f == q.first
           b == q.end - 1
           c == q.capacity
           e == q.data
           d == [j \in f..(b - 1) |-> IF j < at THEN e[j] ELSE e[j + 1]]
           s == Items(q)
           u == Items(r)
           i0 == at - f + 1
           First(i) == s[i] = t /\ \A j \in 1..Len(s) : s[j] = t => i <= j
<1>1. /\ n \in Nat /\ f \in Nat /\ c \in Nat /\ q.end = f + n
      /\ \A i \in Int : f <= i /\ i <= q.end - 1 => e[i] \in UID
  BY QueueFacts
<1>2. at \in Int /\ f <= at /\ at <= b /\ b \in Nat /\ b = f + n - 1 /\ n > 0
  BY <1>1
<1>3. r = Made(q, f, b, c, d)
  <2>1. q.end - 2 = b - 1
    BY <1>1
  <2> QED BY <2>1, QueueFacts DEF Erased, QueueSet, Made
<1>4. s \in Seq(UID) /\ Len(s) = n /\ \A i \in 1..n : s[i] = e[f + i - 1]
  BY ItemsSeq
<1>5. e[at] = t /\ \A j \in f..(at - 1) : e[j] # t
  OBVIOUS
<1>6. \A i \in Int : f <= i /\ i <= b => e[i] \in UID
  BY <1>1, <1>2
<1> HIDE DEF r, n, f, b, c, e, s, u
<1>7. d \in [f..(b - 1) -> UID]
  BY <1>1, <1>2, <1>6
<1>8. \A i \in 1..(n - 1) : d[f + i - 1] = IF f + i - 1 < at THEN e[f + i - 1] ELSE e[f + i]
  BY <1>1, <1>2
<1> HIDE DEF d
<1>9. /\ IsQueue(r) /\ r.next = q.next /\ r.first = f /\ r.end = b
      /\ r.capacity = c /\ r.data = d /\ size(r) = n - 1
  <2>1. f \in Nat /\ b \in Nat /\ c \in Nat /\ f <= b /\ b - f = n - 1
    BY <1>1, <1>2
  <2> QED BY <1>3, <1>7, <2>1, MakeQueue
<1>10. u \in Seq(UID) /\ Len(u) = n - 1 /\ \A i \in 1..(n - 1) : u[i] = d[f + i - 1]
  BY <1>9, ItemsSeq DEF u
<1>11. i0 \in 1..n /\ First(i0)
  <2>1. i0 \in 1..n /\ f + i0 - 1 = at
    BY <1>1, <1>2
  <2>2. s[i0] = t
    BY <1>4, <1>5, <2>1
  <2>3. ASSUME NEW j \in 1..n, s[j] = t PROVE i0 <= j
    <3>1. e[f + j - 1] = t
      BY <1>4, <2>3
    <3>2. f + j - 1 \notin f..(at - 1)
      BY <1>5, <3>1
    <3> QED BY <1>1, <1>2, <3>2
  <2> QED BY <1>4, <2>1, <2>2, <2>3
<1>12. DropFirst(s, t) = DropAt(s, i0)
  <2>1. Holds(s, t)
    BY <1>4, <1>11 DEF Holds
  <2>2. \A i \in 1..n : First(i) => i = i0
    BY <1>4, <1>11
  <2>3. (CHOOSE i \in 1..Len(s) : First(i)) = i0
    <3> HIDE DEF i0, First
    <3> QED BY <1>4, <1>11, <2>2
  <2> QED BY <2>1, <2>3 DEF DropFirst
<1>13. u = DropAt(s, i0)
  <2> DEFINE v == [j \in 1..(n - 1) |-> IF j < i0 THEN s[j] ELSE s[j + 1]]
  <2>1. DropAt(s, i0) = v
    BY <1>4 DEF DropAt
  <2>2. \A i \in 1..(n - 1) : u[i] = v[i]
    <3> SUFFICES ASSUME NEW i \in 1..(n - 1) PROVE u[i] = v[i]
      OBVIOUS
    <3>1. i \in 1..n /\ i + 1 \in 1..n /\ f + (i + 1) - 1 = f + i
      BY <1>1
    <3>2. s[i] = e[f + i - 1] /\ s[i + 1] = e[f + i]
      BY <1>4, <3>1
    <3>3. f + i - 1 < at <=> i < i0
      BY <1>1, <1>2
    <3> QED BY <1>8, <1>10, <3>2, <3>3
  <2>3. v \in Seq(UID) /\ Len(v) = n - 1
    <3>1. \A j \in 1..(n - 1) : s[j] \in UID /\ s[j + 1] \in UID
      BY <1>1, <1>4
    <3>2. v \in [1..(n - 1) -> UID]
      BY <3>1
    <3> QED BY <1>1, <1>2, <3>2, FunctionIsSeq
  <2> HIDE DEF v
  <2> QED BY <1>10, <2>1, <2>2, <2>3, SameSeq
<1> QED BY <1>9, <1>12, <1>13 DEF r, f, b, c, s, u

LEMMA AbsentItems ==
  ASSUME NEW q, IsQueue(q), NEW t, {i \in q.first..(q.end - 1) : q.data[i] = t} = {}
  PROVE  DropFirst(Items(q), t) = Items(q)
<1>1. \A i \in q.first..(q.end - 1) : q.data[i] # t
  OBVIOUS
<1>2. ~Holds(Items(q), t)
  <2>1. ASSUME NEW i \in 1..size(q) PROVE Items(q)[i] # t
    <3>1. q.first + i - 1 \in q.first..(q.end - 1)
      BY QueueFacts
    <3> QED BY <1>1, <3>1, ItemsSeq
  <2> QED BY <2>1, ItemsSeq DEF Holds
<1> QED BY <1>2 DEF DropFirst

\* A queue that touches an end of its array is moved away from both.
LEMMA RebalanceOK ==
  ASSUME NEW q, IsQueue(q), q.capacity >= 2, q.end <= q.capacity,
         q.first = 0 => q.end < q.capacity
  PROVE  /\ IsQueue(rebalance(q, FALSE))
         /\ rebalance(q, FALSE).next = q.next
         /\ HasRoom(rebalance(q, FALSE))
         /\ MoveInside(q, rebalance(q, FALSE))
         /\ Items(rebalance(q, FALSE)) = Items(q)
<1> DEFINE n == size(q)
           cap == IF n >= q.capacity - 2 THEN 2 * q.capacity ELSE q.capacity
           f == (cap - n) \div 2
           r == rebalance(q, FALSE)
<1>1. /\ q.first \in Nat /\ q.end \in Nat /\ q.capacity \in Nat /\ q.first <= q.end
      /\ n \in Nat /\ n = q.end - q.first
  BY QueueFacts
<1>2. r = MovedTo(q, f, cap)
  BY DEF rebalance
<1>3. cap \in Nat /\ q.capacity <= cap /\ n <= cap - 2
  BY <1>1
<1>4. f \in Nat /\ 1 <= f /\ f + n < cap
  <2> HIDE DEF n, cap
  <2> QED BY <1>1, <1>3
<1> HIDE DEF f, cap, n, r
<1>5. /\ IsQueue(r) /\ r.next = q.next /\ r.first = f /\ r.end = f + n
      /\ r.capacity = cap /\ Items(r) = Items(q)
  <2>1. f \in Nat /\ cap \in Nat /\ n = size(q)
    BY <1>3, <1>4 DEF n
  <2>2. /\ IsQueue(MovedTo(q, f, cap)) /\ MovedTo(q, f, cap).next = q.next
        /\ MovedTo(q, f, cap).first = f /\ MovedTo(q, f, cap).end = f + size(q)
        /\ MovedTo(q, f, cap).capacity = cap
        /\ Items(MovedTo(q, f, cap)) = Items(q)
    BY <2>1, MovedToItems
  <2> QED BY <1>2, <2>1, <2>2, Zenon
<1>6. HasRoom(r)
  BY <1>1, <1>3, <1>4, <1>5 DEF HasRoom
<1>7. MoveInside(q, r)
  BY <1>1, <1>3, <1>4, <1>5 DEF MoveInside, ItemsInside, Within
<1> QED BY <1>5, <1>6, <1>7 DEF r

-----------------------------------------------------------------------------
(* The chain. *)

LEMMA NumQueues == NUM_QUEUES \in Nat /\ Prio \subseteq Nat /\ invalid \in Nat
                   /\ NULL \notin Prio /\ NULL # invalid
                   /\ \A p \in Prio : p < invalid /\ NULL < p /\ p \in Nat
BY SizeAssumption DEF Prio, invalid, NULL

\* Only the links matter to the chain.
LEMMA SameChain ==
  ASSUME NEW l, NEW l2, Chain(l), l2.first = l.first,
         \A p \in Prio : l2.queues[p].next = l.queues[p].next
  PROVE  Chain(l2)
BY DEF Chain, IsNextUsed, Linked

\* Another queue takes the place of one that is linked.
Replaced(l, p, r) == [l EXCEPT !.queues[p] = r]

LEMMA ReplaceOK ==
  ASSUME NEW l, ListOK(l), NEW p \in Prio, Linked(l, p),
         NEW r, IsQueue(r), HasRoom(r), r.next = l.queues[p].next
  PROVE  /\ ListOK(Replaced(l, p, r))
         /\ Replaced(l, p, r).queues = [l.queues EXCEPT ![p] = r]
<1> DEFINE l2 == Replaced(l, p, r)
<1>1. l \in ListSet /\ r \in QueueSet
  BY DEF ListOK, IsQueue
<1>2. l2 \in ListSet /\ l2.first = l.first /\ l2.queues = [l.queues EXCEPT ![p] = r]
  BY <1>1 DEF ListSet, Replaced
<1> HIDE DEF l2
<1>3. \A s \in Prio : l2.queues[s] = IF s = p THEN r ELSE l.queues[s]
  BY <1>1, <1>2 DEF ListSet
<1>4. GoodQueue(r)
  BY DEF GoodQueue, Linked
<1>5. \A s \in Prio : GoodQueue(l2.queues[s])
  BY <1>3, <1>4 DEF ListOK
<1>6. Chain(l2)
  <2>1. \A s \in Prio : l2.queues[s].next = l.queues[s].next
    BY <1>3
  <2> QED BY <1>2, <2>1, SameChain DEF ListOK
<1> QED BY <1>2, <1>5, <1>6 DEF ListOK, l2

\* INITIAL_CAPACITY is doubled often enough.
LEMMA RoundUpOK ==
  ASSUME NEW goal \in Nat
  PROVE  RoundUp(goal) \in Nat /\ RoundUp(goal) >= 2 /\ RoundUp(goal) >= goal
<1> DEFINE Round(x) == IF x < goal THEN 2 * x ELSE x
           IsLoop(f, m) == f = [i \in 0..m |-> IF i = 0 THEN INITIAL_CAPACITY
                                               ELSE Round(f[i - 1])]
           doubled == CHOOSE f : IsLoop(f, goal)
<1>1. RoundUp(goal) = doubled[goal]
  BY DEF RoundUp
<1>2. INITIAL_CAPACITY \in Nat /\ INITIAL_CAPACITY >= 2
  BY SizeAssumption
<1>3. IsLoop(doubled, goal)
  <2> HIDE DEF Round
  <2> DEFINE G == {m \in 0..goal : \E f : IsLoop(f, m)}
  <2>1. 0 \in G
    <3>1. IsLoop([i \in 0..0 |-> INITIAL_CAPACITY], 0)
      OBVIOUS
    <3> HIDE DEF IsLoop
    <3> QED BY <3>1
  <2>2. ASSUME NEW m \in 1..goal, m - 1 \in G PROVE m \in G
    <3>1. PICK f : IsLoop(f, m - 1)
      BY <2>2
    <3> DEFINE g == [i \in 0..m |-> IF i < m THEN f[i] ELSE Round(f[m - 1])]
    <3>2. ASSUME NEW i \in 0..m
          PROVE  g[i] = IF i = 0 THEN INITIAL_CAPACITY ELSE Round(g[i - 1])
      <4>1. CASE i = 0
        BY <3>1, <4>1
      <4>2. CASE i # 0 /\ i < m
        BY <3>1, <4>2
      <4>3. CASE i = m
        BY <4>3
      <4> QED BY <4>1, <4>2, <4>3
    <3>3. IsLoop(g, m)
      BY <3>2
    <3> HIDE DEF IsLoop, g
    <3> QED BY <3>3
  <2> HIDE DEF G
  <2>3. goal \in G
    <3>1. \A m \in 1..goal : m - 1 \in G => m \in G
      BY <2>2
    <3>2. \A m \in 0..goal : m \in G
      BY <2>1, <3>1, SetInduction
    <3> QED BY <3>2
  <2> QED BY <2>3 DEF G
<1> HIDE DEF doubled
<1>4. doubled[0] = INITIAL_CAPACITY /\ \A i \in 1..goal : doubled[i] = Round(doubled[i - 1])
  <2> HIDE DEF Round
  <2> QED BY <1>3
<1> HIDE DEF IsLoop
<1> DEFINE G == {m \in 0..goal : /\ doubled[m] \in Nat /\ doubled[m] >= 2
                                 /\ doubled[m] >= goal \/ doubled[m] >= m + 1}
<1>5. 0 \in G
  BY <1>2, <1>4
<1>6. ASSUME NEW m \in 1..goal, m - 1 \in G PROVE m \in G
  <2>1. doubled[m] = Round(doubled[m - 1])
    BY <1>4
  <2>2. /\ doubled[m - 1] \in Nat /\ doubled[m - 1] >= 2
        /\ doubled[m - 1] >= goal \/ doubled[m - 1] >= (m - 1) + 1
    BY <1>6
  <2> QED BY <2>1, <2>2
<1> HIDE DEF G
<1>7. goal \in G
  <2>1. \A m \in 1..goal : m - 1 \in G => m \in G
    BY <1>6
  <2>2. \A m \in 0..goal : m \in G
    BY <1>5, <2>1, SetInduction
  <2> QED BY <2>2
<1> QED BY <1>1, <1>7 DEF G

\* A nonempty set of priorities has a worst one.
LEMMA WorstPrio ==
  ASSUME NEW B, B \subseteq Prio, B # {}
  PROVE  \E i \in B : \A j \in B : j <= i
<1> DEFINE T == {invalid - i : i \in B}
<1>1. T \subseteq Nat /\ T # {}
  <2>1. \A i \in B : i \in Nat /\ invalid \in Nat /\ i < invalid
    BY NumQueues
  <2>2. \A i \in B : invalid - i \in Nat
    BY <2>1
  <2> QED BY <2>2
<1>2. PICK m \in T : \A y \in T : m <= y
  <2> HIDE DEF T
  <2> QED BY <1>1, LeastElement
<1>3. PICK i \in B : m = invalid - i
  BY <1>2
<1>4. \A j \in B : invalid - i <= invalid - j
  BY <1>2, <1>3
<1>5. \A j \in B : j \in Nat /\ i \in Nat /\ invalid \in Nat
  BY NumQueues
<1>6. \A j \in B : j <= i
  BY <1>4, <1>5
<1> QED BY <1>3, <1>6

\* link() puts the queue into its place in the chain and leaves the others as
\* they were but for one link.
LEMMA LinkOK ==
  ASSUME NEW l, ListOK(l), NEW p \in Prio, ~Linked(l, p), NEW goal \in Nat
  PROVE  /\ ListOK(link(l, p, goal))
         /\ Linked(link(l, p, goal), p)
         /\ link(l, p, goal).queues[p].capacity = RoundUp(goal)
         /\ Items(link(l, p, goal).queues[p]) = <<>>
         /\ \A s \in Prio \ {p} :
              /\ Linked(link(l, p, goal), s) <=> Linked(l, s)
              /\ Items(link(l, p, goal).queues[s]) = Items(l.queues[s])
<1> DEFINE cap == RoundUp(goal)
           better == {i \in Prio : i < p /\ Linked(l, i)}
           prev == CHOOSE i \in better : \A j \in better : j <= i
           nx == IF better = {} THEN l.first ELSE l.queues[prev].next
           h == cap \div 2
           new == [next |-> nx, first |-> h, end |-> h, capacity |-> cap,
                   data |-> NoItems]
           l2 == link(l, p, goal)
<1>1. l \in ListSet /\ Chain(l) /\ \A s \in Prio : GoodQueue(l.queues[s])
  BY DEF ListOK
<1>2. cap \in Nat /\ cap >= 2 /\ h \in Nat /\ 1 <= h /\ h < cap
  BY RoundUpOK
<1>3. better # {} => prev \in better /\ \A j \in better : j <= prev
  <2>1. better \subseteq Prio
    OBVIOUS
  <2> HIDE DEF better
  <2>2. better # {} => \E i \in better : \A j \in better : j <= i
    BY <2>1, WorstPrio
  <2> QED BY <2>2
<1>4. l2 = IF better = {}
           THEN [queues |-> [l.queues EXCEPT ![p] = new], first |-> p]
           ELSE [l EXCEPT !.queues = [@ EXCEPT ![p] = new, ![prev].next = p]]
  BY DEF link
<1> HIDE DEF cap, h, prev, l2
<1>5. nx \in Prio \cup {invalid}
  BY <1>1, <1>3 DEF Chain, IsNextUsed
<1>6. IsQueue(new) /\ HasRoom(new) /\ new.next = nx /\ new.capacity = cap
      /\ Items(new) = <<>> /\ size(new) = 0
  <2>1. NoItems \in CellSet /\ NoItems \in [h..(h - 1) -> UID]
    <3>1. h..(h - 1) = {}
      BY <1>2
    <3>2. NoItems \in [h..(h - 1) -> UID]
      BY <3>1 DEF NoItems
    <3> QED BY <1>2, <3>2, InCellSet
  <2>2. new = [next |-> nx, first |-> h, end |-> h, capacity |-> cap, data |-> NoItems]
    OBVIOUS
  <2> HIDE DEF nx, new
  <2>3. /\ new \in QueueSet /\ new.next = nx /\ new.first = h /\ new.end = h
        /\ new.capacity = cap /\ new.data = NoItems
    BY <1>2, <1>5, <2>1, <2>2 DEF QueueSet
  <2>4. IsQueue(new) /\ HasRoom(new) /\ size(new) = 0
    BY <1>2, <2>1, <2>3 DEF IsQueue, HasRoom, size
  <2>5. Items(new) = <<>>
    <3>1. Items(new) \in Seq(UID) /\ Len(Items(new)) = 0
      BY <2>4, ItemsSeq
    <3> QED BY <3>1
  <2> QED BY <2>3, <2>4, <2>5
<1> HIDE DEF new
<1> DEFINE First2 == IF better = {} THEN p ELSE l.first
           Next2(s) == IF s = p THEN nx
                       ELSE IF better # {} /\ s = prev THEN p ELSE l.queues[s].next
<1>7. /\ l2 \in ListSet /\ l2.first = First2
      /\ l2.queues[p] = new
      /\ \A s \in Prio \ {p} : l2.queues[s] = [l.queues[s] EXCEPT !.next = Next2(s)]
  <2>1. new \in QueueSet
    BY <1>6 DEF IsQueue
  <2>2. CASE better = {}
    <3>1. \A s \in Prio \ {p} : l.queues[s] = [l.queues[s] EXCEPT !.next = Next2(s)]
      BY <1>1, <2>2 DEF ListSet, QueueSet
    <3>2. /\ l2 = [queues |-> [l.queues EXCEPT ![p] = new], first |-> p]
          /\ l.queues \in [Prio -> QueueSet]
      BY <1>1, <1>4, <2>2 DEF ListSet
    <3> HIDE DEF Next2
    <3>3. l2 \in ListSet /\ l2.first = p /\ l2.queues[p] = new
          /\ \A s \in Prio \ {p} : l2.queues[s] = l.queues[s]
      BY <2>1, <3>2 DEF ListSet
    <3> QED BY <2>2, <3>1, <3>3
  <2>3. CASE better # {}
    <3>1. prev \in Prio /\ prev # p /\ l.queues \in [Prio -> QueueSet]
          /\ l.first \in Prio \cup {invalid}
      BY <1>1, <1>3, <2>3, NumQueues DEF ListSet
    <3> DEFINE old == l.queues[prev]
               pq == [old EXCEPT !.next = p]
               qs == [[l.queues EXCEPT ![p] = new] EXCEPT ![prev] = pq]
    <3>2. pq \in QueueSet
      BY <3>1 DEF QueueSet
    <3>3. l2 = [l EXCEPT !.queues = qs]
      BY <1>1, <1>4, <2>3, <3>1 DEF ListSet
    <3> HIDE DEF pq, qs
    <3>4. qs \in [Prio -> QueueSet] /\ qs[p] = new /\ qs[prev] = pq
          /\ \A s \in Prio \ {p, prev} : qs[s] = l.queues[s]
      BY <2>1, <3>1, <3>2 DEF qs
    <3>5. l2 \in ListSet /\ l2.first = l.first /\ l2.queues = qs
      BY <1>1, <3>1, <3>3, <3>4 DEF ListSet
    <3>6. ASSUME NEW s \in Prio \ {p}
          PROVE  qs[s] = [l.queues[s] EXCEPT !.next = Next2(s)]
      <4>1. CASE s = prev
        BY <2>3, <3>1, <3>4, <4>1 DEF pq
      <4>2. CASE s # prev
        BY <2>3, <3>1, <3>4, <4>2 DEF QueueSet
      <4> QED BY <4>1, <4>2
    <3> QED BY <2>3, <3>4, <3>5, <3>6
  <2> QED BY <2>2, <2>3
<1> HIDE DEF First2
<1>8. \A s \in Prio : l2.queues[s].next = Next2(s)
  <2>1. \A s \in Prio : l.queues[s] \in QueueSet
    BY <1>1 DEF ListSet
  <2> HIDE DEF Next2
  <2>2. \A s \in Prio \ {p} : l2.queues[s].next = Next2(s)
    BY <1>7, <2>1 DEF QueueSet
  <2>3. Next2(p) = nx
    BY DEF Next2
  <2> QED BY <1>6, <1>7, <2>2, <2>3
<1>9. \A s \in Prio : Next2(s) # NULL <=> s = p \/ Linked(l, s)
  BY <1>3, <1>5, NumQueues DEF Linked
<1>10. \A s \in Prio : Linked(l2, s) <=> s = p \/ Linked(l, s)
  <2> HIDE DEF Next2
  <2> QED BY <1>8, <1>9 DEF Linked
<1> HIDE DEF Next2
<1>11. ASSUME NEW s \in Prio \ {p}
       PROVE  GoodQueue(l2.queues[s]) /\ Items(l2.queues[s]) = Items(l.queues[s])
  <2> DEFINE q == l.queues[s]
             r == l2.queues[s]
             z == Next2(s)
  <2>1. r = [q EXCEPT !.next = z] /\ GoodQueue(q) /\ q \in QueueSet /\ r \in QueueSet
    BY <1>1, <1>7 DEF ListSet
  <2>2. z # NULL <=> q.next # NULL
    BY <1>9 DEF Linked
  <2> HIDE DEF q, r, z
  <2>3. /\ r.first = q.first /\ r.end = q.end /\ r.capacity = q.capacity
        /\ r.data = q.data /\ r.next = z
    BY <2>1 DEF QueueSet
  <2>4. IsQueue(r) /\ Items(r) = Items(q)
    BY <2>1, <2>3 DEF IsQueue, GoodQueue, Items, size
  <2>5. CASE q.next = NULL
    <3>1. r = q
      BY <2>1, <2>2, <2>5 DEF QueueSet
    <3> QED BY <2>1, <2>4, <3>1 DEF q, r
  <2>6. CASE q.next # NULL
    <3>1. HasRoom(r)
      BY <2>1, <2>3, <2>6 DEF GoodQueue, HasRoom
    <3> QED BY <2>2, <2>3, <2>4, <2>6, <3>1 DEF GoodQueue, q, r
  <2> QED BY <2>5, <2>6
<1>12. GoodQueue(l2.queues[p])
  BY <1>5, <1>6, <1>7, NumQueues DEF GoodQueue
<1>13. Chain(l2)
  <2> DEFINE L(s) == Linked(l, s)
             N(s) == l.queues[s].next
  <2>1. /\ l.first \in Prio \cup {invalid} /\ NULL < l.first
        /\ l.first \in Prio => L(l.first)
        /\ \A s \in Prio : NULL < s /\ L(s) => l.first <= s
        /\ \A s \in Prio : L(s) => /\ N(s) \in Prio \cup {invalid} /\ s < N(s)
                                   /\ N(s) \in Prio => L(N(s))
                                   /\ \A y \in Prio : s < y /\ L(y) => N(s) <= y
    BY <1>1 DEF Chain, IsNextUsed
  <2>2. ~L(p)
    OBVIOUS
  <2>6. /\ p \in Int /\ l.first \in Int /\ invalid \in Int /\ NULL \in Int
        /\ \A s \in Prio : s \in Int /\ NULL < s /\ s < invalid
        /\ \A s \in Prio : L(s) => N(s) \in Int
    <3>1. NULL \in Int /\ invalid \in Int
      BY NumQueues DEF NULL
    <3>2. \A s \in Prio : s \in Int /\ NULL < s /\ s < invalid
      BY NumQueues
    <3>3. \A s \in Prio \cup {invalid} : s \in Int
      BY <3>1, <3>2
    <3> HIDE DEF L, N
    <3> QED BY <2>1, <3>1, <3>2, <3>3
  <2>3. IsNextUsed(l2, NULL, l2.first)
    <3>1. CASE better = {}
      <4>1. l2.first = p /\ \A s \in Prio : s < p => ~L(s)
        BY <1>7, <3>1 DEF First2
      <4> HIDE DEF L
      <4> QED BY <1>10, <4>1, NumQueues DEF IsNextUsed, L
    <3>2. CASE better # {}
      <4>1. l2.first = l.first /\ L(prev) /\ prev < p /\ prev \in Prio
        BY <1>3, <1>7, <3>2 DEF First2
      <4> HIDE DEF L, N
      <4>2. l.first <= prev
        BY <2>1, <2>6, <4>1
      <4>4. l.first <= p
        BY <2>6, <4>1, <4>2
      <4> QED BY <1>10, <2>1, <2>6, <4>1, <4>4 DEF IsNextUsed, L
    <3> QED BY <3>1, <3>2
  <2>4. ASSUME NEW s \in Prio, s = p \/ L(s)
        PROVE  IsNextUsed(l2, s, Next2(s))
    <3> DEFINE K(y) == y = p \/ L(y)
               z == Next2(s)
    <3> SUFFICES /\ z \in Prio \cup {invalid} /\ s < z
                 /\ z \in Prio => K(z)
                 /\ \A y \in Prio : s < y /\ K(y) => z <= y
      BY <1>10 DEF IsNextUsed
    <3>1. CASE better = {}
      <4>1. \A y \in Prio : y < p => ~L(y)
        BY <3>1
      <4>2. z = IF s = p THEN l.first ELSE N(s)
        BY <3>1 DEF Next2
      <4> HIDE DEF L, N, z
      <4>3. CASE s = p
        <5>1. p < l.first
          BY <2>1, <2>2, <2>6, <4>1
        <5> QED BY <2>1, <2>6, <4>2, <4>3, <5>1
      <4>4. CASE s # p
        <5>1. L(s) /\ p < s
          BY <2>4, <2>6, <4>1, <4>4
        <5>2. /\ N(s) \in Prio \cup {invalid} /\ s < N(s) /\ (N(s) \in Prio => L(N(s)))
              /\ \A y \in Prio : s < y /\ L(y) => N(s) <= y
          BY <2>1, <5>1
        <5> QED BY <2>6, <4>2, <4>4, <5>1, <5>2
      <4> QED BY <4>3, <4>4
    <3>2. CASE better # {}
      <4>1. /\ prev \in Prio /\ prev < p /\ L(prev)
            /\ \A y \in Prio : y < p /\ L(y) => y <= prev
        BY <1>3, <3>2
      <4>2. z = IF s = p THEN N(prev) ELSE IF s = prev THEN p ELSE N(s)
        BY <3>2 DEF Next2
      <4> HIDE DEF L, N, z
      <4>6. /\ N(prev) \in Prio \cup {invalid} /\ prev < N(prev)
            /\ N(prev) \in Prio => L(N(prev))
            /\ \A y \in Prio : prev < y /\ L(y) => N(prev) <= y
        BY <2>1, <4>1
      <4>7. p < N(prev)
        BY <2>2, <2>6, <4>1, <4>6
      <4>3. CASE s = p
        BY <2>6, <4>1, <4>2, <4>3, <4>6, <4>7
      <4>4. CASE s = prev
        <5>1. \A y \in Prio : prev < y /\ L(y) => p <= y
          BY <2>6, <4>1
        <5> QED BY <2>6, <4>1, <4>2, <4>4, <5>1
      <4>5. CASE s # p /\ s # prev
        <5>1. L(s)
          BY <2>4, <4>5
        <5>2. /\ N(s) \in Prio \cup {invalid} /\ s < N(s) /\ (N(s) \in Prio => L(N(s)))
              /\ \A y \in Prio : s < y /\ L(y) => N(s) <= y
          BY <2>1, <5>1
        <5>3. s < p => N(s) <= p
          <6> SUFFICES ASSUME s < p PROVE N(s) <= p
            OBVIOUS
          <6>1. s < prev
            BY <2>6, <4>1, <4>5, <5>1
          <6>2. N(s) <= prev
            BY <4>1, <5>2, <6>1
          <6>3. N(s) \in Int /\ prev \in Int
            BY <2>6, <4>1, <5>1
          <6> QED BY <2>6, <4>1, <6>2, <6>3
        <5> QED BY <2>6, <4>2, <4>5, <5>1, <5>2, <5>3
      <4> QED BY <4>3, <4>4, <4>5
    <3> QED BY <3>1, <3>2
  <2>5. \A s \in Prio : Linked(l2, s) => IsNextUsed(l2, s, l2.queues[s].next)
    BY <1>8, <1>10, <2>4
  <2> QED BY <2>3, <2>5 DEF Chain
<1>14. ListOK(l2)
  <2>1. \A s \in Prio : GoodQueue(l2.queues[s])
    BY <1>11, <1>12
  <2> QED BY <1>7, <1>13, <2>1 DEF ListOK
<1>15. Linked(l2, p) /\ l2.queues[p].capacity = cap /\ Items(l2.queues[p]) = <<>>
  BY <1>6, <1>7, <1>10
<1>16. \A s \in Prio \ {p} : /\ Linked(l2, s) <=> Linked(l, s)
                             /\ Items(l2.queues[s]) = Items(l.queues[s])
  BY <1>10, <1>11
<1> QED BY <1>14, <1>15, <1>16 DEF l2, cap

\* The walk along the chain ends at the best queue with a thread, if that is
\* better than stop; every better queue is empty.
LEMMA WalkOK ==
  ASSUME NEW l, ListOK(l), NEW stop \in 0..NUM_QUEUES
  PROVE  /\ Walk(l, stop) \in Prio \cup {invalid}
         /\ \A r \in Prio : r < Walk(l, stop) => size(l.queues[r]) = 0
         /\ Walk(l, stop) < stop =>
              /\ Walk(l, stop) \in Prio /\ Linked(l, Walk(l, stop))
              /\ size(l.queues[Walk(l, stop)]) > 0
<1> DEFINE n == NUM_QUEUES
           Round(c) == IF c >= stop \/ size(l.queues[c]) > 0 THEN c
                       ELSE l.queues[c].next
           IsLoop(f, m) == f = [i \in 0..m |-> IF i = 0 THEN l.first
                                               ELSE Round(f[i - 1])]
           at == CHOOSE f : IsLoop(f, n)
<1>1. n \in Nat /\ stop \in Nat /\ stop <= n
  BY SizeAssumption
<1>2. Walk(l, stop) = at[n]
  BY DEF Walk
<1>3. IsLoop(at, n)
  <2> HIDE DEF Round, n
  <2> DEFINE G == {m \in 0..n : \E f : IsLoop(f, m)}
  <2>1. 0 \in G
    <3>1. IsLoop([i \in 0..0 |-> l.first], 0)
      OBVIOUS
    <3> HIDE DEF IsLoop
    <3> QED BY <1>1, <3>1
  <2>2. ASSUME NEW m \in 1..n, m - 1 \in G PROVE m \in G
    <3>1. PICK f : IsLoop(f, m - 1)
      BY <2>2
    <3> DEFINE g == [i \in 0..m |-> IF i < m THEN f[i] ELSE Round(f[m - 1])]
    <3>2. ASSUME NEW i \in 0..m
          PROVE  g[i] = IF i = 0 THEN l.first ELSE Round(g[i - 1])
      <4>1. CASE i = 0
        BY <3>1, <4>1
      <4>2. CASE i # 0 /\ i < m
        BY <3>1, <4>2
      <4>3. CASE i = m
        BY <4>3
      <4> QED BY <4>1, <4>2, <4>3
    <3>3. IsLoop(g, m)
      BY <3>2
    <3> HIDE DEF IsLoop, g
    <3> QED BY <3>3
  <2> HIDE DEF G
  <2>3. n \in G
    <3>1. \A m \in 1..n : m - 1 \in G => m \in G
      BY <2>2
    <3>2. \A m \in 0..n : m \in G
      BY <1>1, <2>1, <3>1, SetInduction
    <3> QED BY <1>1, <3>2
  <2> QED BY <2>3 DEF G
<1> HIDE DEF at
<1>4. at[0] = l.first /\ \A i \in 1..n : at[i] = Round(at[i - 1])
  <2> HIDE DEF Round, n
  <2> QED BY <1>1, <1>3
<1> HIDE DEF IsLoop
<1> DEFINE Z(r) == size(l.queues[r])
           L(r) == Linked(l, r)
           N(r) == l.queues[r].next
           Sound(c) == /\ c \in Prio \cup {invalid} /\ (c \in Prio => L(c))
                       /\ \A r \in Prio : r < c => Z(r) = 0
           G == {m \in 0..n : /\ Sound(at[m])
                              /\ at[m] >= stop \/ Z(at[m]) > 0 \/ at[m] >= m}
<1>5. /\ \A r \in Prio : Z(r) \in Nat /\ (~L(r) => Z(r) = 0)
      /\ IsNextUsed(l, NULL, l.first)
      /\ \A r \in Prio : L(r) => IsNextUsed(l, r, N(r))
  <2>1. \A r \in Prio : GoodQueue(l.queues[r]) /\ Chain(l)
    BY DEF ListOK
  <2>2. \A r \in Prio : Z(r) \in Nat
    BY <2>1, QueueFacts DEF GoodQueue
  <2>3. \A r \in Prio : ~L(r) => Z(r) = 0
    BY <2>1 DEF GoodQueue, Linked, Unused, size
  <2> QED BY <2>2, <2>3 DEF ListOK, Chain
<1>6. /\ \A r \in Prio \cup {invalid} : r \in Int /\ r >= 0
      /\ invalid = n /\ NULL \in Int /\ \A r \in Prio : NULL < r
  BY NumQueues DEF invalid, NULL
<1> HIDE DEF Z, L, N, n
<1>7. 0 \in G
  <2>1. /\ l.first \in Prio \cup {invalid} /\ (l.first \in Prio => L(l.first))
        /\ \A r \in Prio : NULL < r /\ L(r) => l.first <= r
    BY <1>5 DEF IsNextUsed, L
  <2>2. \A r \in Prio : r < l.first => Z(r) = 0
    BY <1>5, <1>6, <2>1
  <2> QED BY <1>1, <1>4, <1>6, <2>1, <2>2
<1>8. ASSUME NEW m \in 1..n, m - 1 \in G PROVE m \in G
  <2> DEFINE c == at[m - 1]
             d == at[m]
  <2>1. Sound(c) /\ (c >= stop \/ Z(c) > 0 \/ c >= m - 1)
    BY <1>8
  <2>2. d = IF c >= stop \/ Z(c) > 0 THEN c ELSE N(c)
    BY <1>4 DEF Z, N
  <2> HIDE DEF c, d
  <2>3. CASE c >= stop \/ Z(c) > 0
    <3>1. d = c
      BY <2>2, <2>3
    <3>2. Sound(d) /\ (d >= stop \/ Z(d) > 0)
      BY <2>1, <2>3, <3>1
    <3> HIDE DEF Sound
    <3> QED BY <3>2 DEF d
  <2>4. CASE ~(c >= stop \/ Z(c) > 0)
    <3>1. d = N(c) /\ c \in Prio /\ L(c) /\ c >= m - 1 /\ Z(c) = 0
      <4>1. c \in Int /\ c < stop
        BY <1>1, <1>6, <2>1, <2>4
      <4>2. c \in Prio
        BY <1>1, <1>6, <2>1, <4>1
      <4> QED BY <1>5, <2>1, <2>2, <2>4, <4>2
    <3>2. /\ d \in Prio \cup {invalid} /\ c < d /\ (d \in Prio => L(d))
          /\ \A r \in Prio : c < r /\ L(r) => d <= r
      BY <1>5, <3>1 DEF IsNextUsed, L
    <3>3. \A r \in Prio : r < d => Z(r) = 0
      <4> SUFFICES ASSUME NEW r \in Prio, r < d PROVE Z(r) = 0
        OBVIOUS
      <4>1. r \in Int /\ c \in Int /\ d \in Int
        BY <1>6, <3>1, <3>2
      <4>2. CASE r < c
        BY <2>1, <4>2
      <4>3. CASE r = c
        BY <3>1, <4>3
      <4>4. CASE c < r
        <5>1. ~L(r)
          BY <3>2, <4>1, <4>4
        <5> QED BY <1>5, <5>1
      <4> QED BY <4>1, <4>2, <4>3, <4>4
    <3>4. d >= m
      <4>1. c \in Int /\ d \in Int
        BY <1>6, <3>1, <3>2
      <4> QED BY <3>1, <3>2, <4>1
    <3>5. Sound(d)
      BY <3>2, <3>3
    <3> HIDE DEF Sound
    <3> QED BY <3>4, <3>5 DEF d
  <2> QED BY <2>3, <2>4
<1> HIDE DEF G
<1>9. n \in G
  <2>1. \A m \in 1..n : m - 1 \in G => m \in G
    BY <1>8
  <2>2. \A m \in 0..n : m \in G
    BY <1>1, <1>7, <2>1, SetInduction
  <2> QED BY <1>1, <2>2
<1> DEFINE w == Walk(l, stop)
<1>10. Sound(w) /\ (w >= stop \/ Z(w) > 0 \/ w >= n)
  BY <1>2, <1>9 DEF G
<1> HIDE DEF w
<1>11. w < stop => w \in Prio /\ L(w) /\ Z(w) > 0
  <2>1. w \in Int
    BY <1>6, <1>10
  <2>2. w < stop => w \in Prio
    BY <1>1, <1>6, <1>10, <2>1
  <2> QED BY <1>1, <1>10, <2>1, <2>2
<1> QED BY <1>10, <1>11 DEF w, Z, L

-----------------------------------------------------------------------------
(* Clearing, and loading a saved state. *)

LEMMA UnusedOK == GoodQueue(Unused) /\ Items(Unused) = <<>> /\ size(Unused) = 0
<1>1. NoItems \in [0..(0 - 1) -> UID] /\ NoItems \in CellSet
  <2>1. 0..(0 - 1) = {}
    OBVIOUS
  <2>2. NoItems \in [0..(0 - 1) -> UID]
    BY <2>1 DEF NoItems
  <2> DEFINE m == 0 - 1
             z == 0
  <2>3. m \in Int /\ z \in Int /\ NoItems \in [z..m -> UID]
    BY <2>2
  <2> HIDE DEF m, z
  <2>4. NoItems \in CellSet
    BY <2>3, InCellSet
  <2> QED BY <2>2, <2>4
<1>2. /\ Unused \in QueueSet /\ Unused.first = 0 /\ Unused.end = 0
      /\ Unused.data = NoItems /\ Unused.next = NULL
  BY <1>1 DEF Unused, QueueSet
<1>3. IsQueue(Unused) /\ size(Unused) = 0
  BY <1>1, <1>2 DEF IsQueue, size
<1>4. Items(Unused) \in Seq(UID) /\ Len(Items(Unused)) = 0
  BY <1>3, ItemsSeq
<1>5. Items(Unused) = <<>>
  BY <1>4
<1> QED BY <1>2, <1>3, <1>5 DEF GoodQueue

LEMMA EmptyOK == ListOK(Empty) /\ \A p \in Prio : Empty.queues[p] = Unused
<1>1. /\ Empty.first = invalid /\ \A p \in Prio : Empty.queues[p] = Unused
      /\ Empty \in ListSet
  BY UnusedOK DEF Empty, ListSet, GoodQueue, IsQueue
<1>2. \A p \in Prio : ~Linked(Empty, p)
  BY <1>1 DEF Linked, Unused
<1>3. Chain(Empty)
  <2>1. NULL < invalid /\ invalid \notin Prio
    BY NumQueues DEF NULL
  <2>2. IsNextUsed(Empty, NULL, invalid)
    BY <1>2, <2>1 DEF IsNextUsed
  <2> QED BY <1>1, <1>2, <2>2, Zenon DEF Chain
<1> QED BY <1>1, <1>3, UnusedOK DEF ListOK

LEMMA LoadQueueOK ==
  ASSUME NEW l, ListOK(l), NEW p \in Prio, ~Linked(l, p), NEW saved, GoodQueue(saved)
  PROVE  /\ ListOK(LoadQueue(l, p, saved))
         /\ Items(LoadQueue(l, p, saved).queues[p]) = Items(saved)
         /\ \A s \in Prio \ {p} :
              /\ Linked(LoadQueue(l, p, saved), s) <=> Linked(l, s)
              /\ Items(LoadQueue(l, p, saved).queues[s]) = Items(l.queues[s])
<1>1. IsQueue(saved) /\ saved.capacity \in Nat
  BY QueueFacts DEF GoodQueue
<1>2. CASE saved.capacity = 0
  <2>1. LoadQueue(l, p, saved) = l
    BY <1>2 DEF LoadQueue
  <2>2. saved.next = NULL
    BY <1>1, <1>2, QueueFacts DEF GoodQueue, HasRoom
  <2>3. saved = Unused /\ l.queues[p] = Unused
    BY <2>2 DEF GoodQueue, ListOK, Linked
  <2> QED BY <2>1, <2>3
<1>3. CASE saved.capacity # 0
  <2> DEFINE l1 == link(l, p, saved.capacity)
             q == l1.queues[p]
             n == size(saved)
             f == (q.capacity - n) \div 2
             mv == MovedTo(saved, f, q.capacity)
             r == [mv EXCEPT !.next = q.next]
  <2>1. LoadQueue(l, p, saved) = Replaced(l1, p, r)
    BY <1>3 DEF LoadQueue, Replaced
  <2>2. /\ ListOK(l1) /\ Linked(l1, p) /\ q.capacity = RoundUp(saved.capacity)
        /\ \A s \in Prio \ {p} : /\ Linked(l1, s) <=> Linked(l, s)
                                 /\ Items(l1.queues[s]) = Items(l.queues[s])
    BY <1>1, LinkOK
  <2>3. q.capacity \in Nat /\ q.capacity >= saved.capacity
    BY <1>1, <2>2, RoundUpOK
  <2>4. n \in Nat /\ n <= saved.capacity - 2
    <3>1. saved.next # NULL
      BY <1>3 DEF GoodQueue, Unused
    <3> QED BY <1>1, <3>1, QueueFacts DEF GoodQueue, HasRoom
  <2>5. IsQueue(q) /\ q.next # NULL /\ q.next \in Prio \cup {NULL, invalid}
    <3>1. IsQueue(q)
      BY <2>2 DEF ListOK, GoodQueue
    <3> HIDE DEF q
    <3>2. q.next \in Prio \cup {NULL, invalid}
      BY <3>1 DEF IsQueue, QueueSet
    <3> QED BY <2>2, <3>1, <3>2 DEF Linked, q
  <2> HIDE DEF l1, q, n
  <2>6. f \in Nat /\ 1 <= f /\ f + n < q.capacity
    BY <1>1, <2>3, <2>4
  <2> HIDE DEF f
  <2>7. /\ IsQueue(mv) /\ mv.first = f /\ mv.end = f + n /\ mv.capacity = q.capacity
        /\ Items(mv) = Items(saved)
    <3> DEFINE c == q.capacity
    <3> HIDE DEF c
    <3>1. c \in Nat /\ mv = MovedTo(saved, f, c)
      BY <2>3 DEF c
    <3> HIDE DEF mv
    <3> HIDE DEF q
    <3>2. f \in Nat /\ c \in Nat /\ IsQueue(saved)
      BY <1>1, <2>6, <3>1
    <3>3. /\ IsQueue(MovedTo(saved, f, c)) /\ MovedTo(saved, f, c).first = f
          /\ MovedTo(saved, f, c).end = f + size(saved)
          /\ MovedTo(saved, f, c).capacity = c
          /\ Items(MovedTo(saved, f, c)) = Items(saved)
      BY ONLY <3>2, MovedToItems
    <3> QED BY <3>1, <3>3, Zenon DEF c, n
  <2> HIDE DEF mv
  <2>8. /\ r \in QueueSet /\ r.next = q.next /\ r.first = f /\ r.end = f + n
        /\ r.capacity = q.capacity /\ r.data = mv.data
    BY <2>5, <2>7 DEF IsQueue, QueueSet
  <2> HIDE DEF r
  <2>9. IsQueue(r) /\ Items(r) = Items(saved)
    BY <2>7, <2>8 DEF IsQueue, Items, size
  <2>10. HasRoom(r)
    BY <2>3, <2>4, <2>6, <2>8 DEF HasRoom
  <2>11. /\ ListOK(Replaced(l1, p, r))
         /\ Replaced(l1, p, r).queues = [l1.queues EXCEPT ![p] = r]
    BY <2>2, <2>8, <2>9, <2>10, ReplaceOK DEF q
  <2> DEFINE l2 == Replaced(l1, p, r)
  <2>12. l1.queues \in [Prio -> QueueSet]
    BY <2>2 DEF ListOK, ListSet
  <2> HIDE DEF l2
  <2>13. l2.queues[p] = r /\ \A s \in Prio \ {p} : l2.queues[s] = l1.queues[s]
    BY <2>11, <2>12 DEF l2
  <2>14. \A s \in Prio \ {p} : /\ Linked(l2, s) <=> Linked(l, s)
                               /\ Items(l2.queues[s]) = Items(l.queues[s])
    BY <2>2, <2>13 DEF Linked
  <2> QED BY <2>1, <2>9, <2>11, <2>13, <2>14 DEF l2
<1> QED BY <1>2, <1>3

\* A loaded state holds the items of the saved one.
LEMMA DoStateOK ==
  ASSUME ListOK(list), DoState
  PROVE  ListOK(list') /\ \A p \in Prio : Items(list'.queues[p]) = Items(list.queues[p])
<1> DEFINE n == NUM_QUEUES
           Round(x, i) == LoadQueue(x, i - 1, list.queues[i - 1])
           IsLoop(f, m) == f = [i \in 0..m |-> IF i = 0 THEN Empty ELSE Round(f[i - 1], i)]
           loaded == CHOOSE f : IsLoop(f, n)
<1>1. n \in Nat /\ Prio = 0..(n - 1)
  BY SizeAssumption DEF Prio
<1>2. list' = loaded[n]
  BY DEF DoState
<1>3. IsLoop(loaded, n)
  <2> HIDE DEF Round, n
  <2> DEFINE G == {m \in 0..n : \E f : IsLoop(f, m)}
  <2>1. 0 \in G
    <3>1. IsLoop([i \in 0..0 |-> Empty], 0)
      OBVIOUS
    <3> HIDE DEF IsLoop
    <3> QED BY <1>1, <3>1
  <2>2. ASSUME NEW m \in 1..n, m - 1 \in G PROVE m \in G
    <3>1. PICK f : IsLoop(f, m - 1)
      BY <2>2
    <3> DEFINE g == [i \in 0..m |-> IF i < m THEN f[i] ELSE Round(f[m - 1], m)]
    <3>2. ASSUME NEW i \in 0..m
          PROVE  g[i] = IF i = 0 THEN Empty ELSE Round(g[i - 1], i)
      <4>1. CASE i = 0
        BY <3>1, <4>1
      <4>2. CASE i # 0 /\ i < m
        BY <3>1, <4>2
      <4>3. CASE i = m
        BY <4>3
      <4> QED BY <4>1, <4>2, <4>3
    <3>3. IsLoop(g, m)
      BY <3>2
    <3> HIDE DEF IsLoop, g
    <3> QED BY <3>3
  <2> HIDE DEF G
  <2>3. n \in G
    <3>1. \A m \in 1..n : m - 1 \in G => m \in G
      BY <2>2
    <3>2. \A m \in 0..n : m \in G
      BY <1>1, <2>1, <3>1, SetInduction
    <3> QED BY <1>1, <3>2
  <2> QED BY <2>3 DEF G
<1> HIDE DEF loaded
<1>4. loaded[0] = Empty /\ \A i \in 1..n : loaded[i] = Round(loaded[i - 1], i)
  <2> HIDE DEF Round, n
  <2> QED BY <1>1, <1>3
<1> HIDE DEF IsLoop
<1> DEFINE LoadedTo(x, m) == /\ ListOK(x)
                             /\ \A p \in Prio : p >= m => ~Linked(x, p)
                             /\ \A p \in Prio : p < m =>
                                  Items(x.queues[p]) = Items(list.queues[p])
           G == {m \in 0..n : LoadedTo(loaded[m], m)}
<1>5. 0 \in G
  <2>1. LoadedTo(Empty, 0)
    BY <1>1, EmptyOK DEF Linked, Unused
  <2> HIDE DEF LoadedTo
  <2> QED BY <1>1, <1>4, <2>1
<1>6. ASSUME NEW m \in 1..n, m - 1 \in G PROVE m \in G
  <2> DEFINE x == loaded[m - 1]
             p == m - 1
             saved == list.queues[p]
             y == LoadQueue(x, p, saved)
  <2>1. p \in Prio /\ LoadedTo(x, p) /\ loaded[m] = y
    BY <1>1, <1>4, <1>6
  <2>2. GoodQueue(saved) /\ ListOK(x) /\ ~Linked(x, p)
    BY <1>1, <2>1 DEF ListOK
  <2> HIDE DEF x
  <2>3. /\ ListOK(y) /\ Items(y.queues[p]) = Items(saved)
        /\ \A s \in Prio \ {p} : /\ Linked(y, s) <=> Linked(x, s)
                                 /\ Items(y.queues[s]) = Items(x.queues[s])
    <3> HIDE DEF saved, p
    <3> QED BY <2>1, <2>2, LoadQueueOK
  <2> HIDE DEF y, saved
  <2>4. \A s \in Prio : s >= m => ~Linked(y, s)
    BY <1>1, <2>1, <2>3
  <2>5. \A s \in Prio : s < m => Items(y.queues[s]) = Items(list.queues[s])
    BY <1>1, <2>1, <2>3 DEF saved
  <2>6. LoadedTo(y, m)
    BY <2>3, <2>4, <2>5
  <2> HIDE DEF LoadedTo
  <2> QED BY <2>1, <2>6
<1> HIDE DEF G
<1>7. n \in G
  <2>1. \A m \in 1..n : m - 1 \in G => m \in G
    BY <1>6
  <2>2. \A m \in 0..n : m \in G
    BY <1>1, <1>5, <2>1, SetInduction
  <2> QED BY <1>1, <2>2
<1>8. LoadedTo(list', n)
  BY <1>2, <1>7 DEF G
<1> QED BY <1>1, <1>8

-----------------------------------------------------------------------------
(* Each call keeps the invariant and is a step on the lists. *)

LEMMA ReplaceContents ==
  ASSUME ListOK(list), NEW p \in Prio, Linked(list, p),
         NEW r, IsQueue(r), HasRoom(r), r.next = list.queues[p].next,
         list' = Replaced(list, p, r)
  PROVE  ListOK(list') /\ Contents' = [Contents EXCEPT ![p] = Items(r)]
<1>1. ListOK(list') /\ list'.queues = [list.queues EXCEPT ![p] = r]
  BY ReplaceOK
<1>2. list.queues \in [Prio -> QueueSet]
  BY DEF ListOK, ListSet
<1>3. \A s \in Prio : list'.queues[s] = IF s = p THEN r ELSE list.queues[s]
  BY <1>1, <1>2
<1>4. Contents' = [s \in Prio |-> Items(list'.queues[s])]
  BY DEF Contents, Items, size
<1>5. \A s \in Prio : Contents'[s] = IF s = p THEN Items(r) ELSE Items(list.queues[s])
  BY <1>3, <1>4
<1>6. Contents' = [Contents EXCEPT ![p] = Items(r)]
  BY <1>4, <1>5 DEF Contents
<1> QED BY <1>1, <1>6

LEMMA StoreOK ==
  ASSUME ListOK(list), NEW p \in Prio, Linked(list, p),
         NEW q, IsQueue(q), q.next = list.queues[p].next,
         NEW touches \in BOOLEAN, NEW cells, cells = TRUE,
         q.capacity >= 2, q.end <= q.capacity, q.first = 0 => q.end < q.capacity,
         touches \/ HasRoom(q),
         Store(p, q, touches, cells, FALSE)
  PROVE  ListOK(list') /\ inside' = TRUE /\ Contents' = [Contents EXCEPT ![p] = Items(q)]
<1> DEFINE r == IF touches THEN rebalance(q, FALSE) ELSE q
<1>1. /\ list' = Replaced(list, p, r)
      /\ inside' = (cells /\ (touches => MoveInside(q, r)))
  BY DEF Store, Replaced
<1>2. /\ IsQueue(r) /\ HasRoom(r) /\ r.next = list.queues[p].next
      /\ Items(r) = Items(q) /\ (touches => MoveInside(q, r))
  <2>1. CASE touches
    BY <2>1, RebalanceOK
  <2>2. CASE ~touches
    BY <2>2
  <2> QED BY <2>1, <2>2
<1> HIDE DEF r
<1>3. ListOK(list') /\ Contents' = [Contents EXCEPT ![p] = Items(r)]
  BY <1>1, <1>2, ReplaceContents
<1>4. inside' = TRUE
  BY <1>1, <1>2
<1> QED BY <1>2, <1>3, <1>4

\* The queue of a used priority.
LEMMA UsedQueue ==
  ASSUME ListOK(list), NEW p \in Prio, Linked(list, p), NEW q, q = list.queues[p]
  PROVE  /\ IsQueue(q) /\ HasRoom(q) /\ Contents[p] = Items(q)
         /\ q.first \in Nat /\ q.end \in Nat /\ q.capacity \in Nat
         /\ 1 <= q.first /\ q.first <= q.end /\ q.end < q.capacity
         /\ size(q) = q.end - q.first /\ q.next = list.queues[p].next
<1>1. GoodQueue(q) /\ q.next # NULL
  BY DEF ListOK, Linked
<1>2. IsQueue(q) /\ HasRoom(q)
  BY <1>1 DEF GoodQueue
<1>3. q.first \in Nat /\ q.end \in Nat /\ q.capacity \in Nat
  BY <1>2, QueueFacts
<1> QED BY <1>2, <1>3 DEF HasRoom, Contents, size

\* The cell an operation on one end uses, and the rest of the queue, are inside.
LEMMA PushFrontStep ==
  ASSUME ReallocFails = FALSE, QueueInv, NEW p \in Prio, NEW t \in UID, push_front(p, t)
  PROVE  QueueInv' /\ Abstract!PushFront(p, t)
<1> DEFINE q == list.queues[p]
           r == PushedFront(q, t)
           touches == q.first - 1 = 0
           cells == Within(q.first - 1, q.first - 1, q.capacity)
<1>1. ListOK(list) /\ Linked(list, p) /\ Store(p, r, touches, cells, FALSE) /\ ret' = NoUID
  BY DEF QueueInv, push_front, Failures
<1>2. /\ IsQueue(q) /\ q.first \in Nat /\ q.end \in Nat /\ q.capacity \in Nat
      /\ 1 <= q.first /\ q.first <= q.end /\ q.end < q.capacity
      /\ Contents[p] = Items(q)
  BY <1>1, UsedQueue
<1> HIDE DEF q
<1>3. /\ IsQueue(r) /\ r.next = q.next /\ r.first = q.first - 1 /\ r.end = q.end
      /\ r.capacity = q.capacity /\ Items(r) = <<t>> \o Items(q)
  BY <1>2, PushedFrontItems
<1>4. cells = TRUE /\ touches \in BOOLEAN
  BY <1>2 DEF Within
<1>5. /\ r.capacity >= 2 /\ r.end <= r.capacity /\ (r.first = 0 => r.end < r.capacity)
      /\ touches \/ HasRoom(r)
  <2> HIDE DEF r
  <2> QED BY <1>2, <1>3 DEF HasRoom
<1>6. r.next = list.queues[p].next
  BY <1>3 DEF q
<1> HIDE DEF r, touches, cells
<1>7. ListOK(list') /\ inside' = TRUE /\ Contents' = [Contents EXCEPT ![p] = Items(r)]
  BY <1>1, <1>3, <1>4, <1>5, <1>6, StoreOK
<1>8. Abstract!PushFront(p, t)
  BY <1>1, <1>2, <1>3, <1>7 DEF Abstract!PushFront
<1> QED BY <1>1, <1>7, <1>8 DEF QueueInv, ListOK, Chain, IsNextUsed, Linked

LEMMA PushBackStep ==
  ASSUME ReallocFails = FALSE, QueueInv, NEW p \in Prio, NEW t \in UID, push_back(p, t)
  PROVE  QueueInv' /\ Abstract!PushBack(p, t)
<1> DEFINE q == list.queues[p]
           r == PushedBack(q, t)
           touches == q.end + 1 = q.capacity
           cells == Within(q.end, q.end, q.capacity)
<1>1. ListOK(list) /\ Linked(list, p) /\ Store(p, r, touches, cells, FALSE) /\ ret' = NoUID
  BY DEF QueueInv, push_back, Failures
<1>2. /\ IsQueue(q) /\ q.first \in Nat /\ q.end \in Nat /\ q.capacity \in Nat
      /\ 1 <= q.first /\ q.first <= q.end /\ q.end < q.capacity
      /\ Contents[p] = Items(q)
  BY <1>1, UsedQueue
<1> HIDE DEF q
<1>3. /\ IsQueue(r) /\ r.next = q.next /\ r.first = q.first /\ r.end = q.end + 1
      /\ r.capacity = q.capacity /\ Items(r) = Append(Items(q), t)
  BY <1>2, PushedBackItems
<1>4. cells = TRUE /\ touches \in BOOLEAN
  BY <1>2 DEF Within
<1>5. /\ r.capacity >= 2 /\ r.end <= r.capacity /\ (r.first = 0 => r.end < r.capacity)
      /\ touches \/ HasRoom(r)
  <2> HIDE DEF r
  <2> QED BY <1>2, <1>3 DEF HasRoom
<1>6. r.next = list.queues[p].next
  BY <1>3 DEF q
<1> HIDE DEF r, touches, cells
<1>7. ListOK(list') /\ inside' = TRUE /\ Contents' = [Contents EXCEPT ![p] = Items(r)]
  BY <1>1, <1>3, <1>4, <1>5, <1>6, StoreOK
<1>8. Abstract!PushBack(p, t)
  BY <1>1, <1>2, <1>3, <1>7 DEF Abstract!PushBack
<1> QED BY <1>1, <1>7, <1>8 DEF QueueInv, ListOK, Chain, IsNextUsed, Linked

LEMMA RotateStep ==
  ASSUME ReallocFails = FALSE, QueueInv, NEW p \in Prio, rotate(p)
  PROVE  QueueInv' /\ (Abstract!Rotate(p) \/ Abstract!Quiet)
<1> DEFINE q == list.queues[p]
           o == Popped(q)
           r == Rotated(q)
           touches == q.end + 1 = q.capacity
           cells == Within(q.first, q.end, q.capacity)
<1>1. ListOK(list) /\ Linked(list, p) /\ ret' = NoUID
  BY DEF QueueInv, rotate
<1>2. /\ IsQueue(q) /\ q.first \in Nat /\ q.end \in Nat /\ q.capacity \in Nat
      /\ 1 <= q.first /\ q.first <= q.end /\ q.end < q.capacity
      /\ Contents[p] = Items(q) /\ size(q) = q.end - q.first
  BY <1>1, UsedQueue
<1>3. CASE ~(size(q) > 1)
  <2>1. UNCHANGED list /\ inside' = TRUE
    BY <1>3 DEF rotate
  <2>2. Contents' = Contents /\ ListOK(list')
    BY <1>1, <2>1 DEF Contents
  <2>3. Abstract!Quiet
    BY <1>1, <2>2 DEF Abstract!Quiet
  <2> QED BY <1>1, <2>1, <2>2, <2>3 DEF QueueInv
<1>4. CASE size(q) > 1
  <2>1. Store(p, r, touches, cells, FALSE)
    BY <1>4 DEF rotate, Failures
  <2> HIDE DEF q
  <2>2. size(q) > 0
    BY <1>2, <1>4
  <2>3. /\ IsQueue(o) /\ o.next = q.next /\ o.first = q.first + 1 /\ o.end = q.end
        /\ o.capacity = q.capacity /\ Items(o) = Tail(Items(q))
        /\ q.data[q.first] = Head(Items(q)) /\ q.data[q.first] \in UID
    BY <1>2, <2>2, PoppedItems
  <2> DEFINE t == q.data[q.first]
  <2>4. r = PushedBack(o, t)
    BY DEF Rotated
  <2> HIDE DEF o, t, r
  <2>5. /\ IsQueue(PushedBack(o, t)) /\ PushedBack(o, t).next = o.next
        /\ PushedBack(o, t).first = o.first /\ PushedBack(o, t).end = o.end + 1
        /\ PushedBack(o, t).capacity = o.capacity
        /\ Items(PushedBack(o, t)) = Append(Items(o), t)
    BY <2>3, PushedBackItems DEF t
  <2>6. /\ IsQueue(r) /\ r.next = q.next /\ r.first = q.first + 1
        /\ r.end = q.end + 1 /\ r.capacity = q.capacity
        /\ Items(r) = Append(Tail(Items(q)), Head(Items(q)))
    BY <2>3, <2>4, <2>5, Zenon DEF t
  <2>7. cells = TRUE /\ touches \in BOOLEAN
    BY <1>2 DEF Within
  <2>8. /\ r.capacity >= 2 /\ r.end <= r.capacity
        /\ (r.first = 0 => r.end < r.capacity) /\ (touches \/ HasRoom(r))
    BY <1>2, <1>4, <2>6 DEF HasRoom
  <2>9. r.next = list.queues[p].next
    BY <2>6 DEF q
  <2> HIDE DEF touches, cells
  <2>10. ListOK(list') /\ inside' = TRUE /\ Contents' = [Contents EXCEPT ![p] = Items(r)]
    BY <1>1, <2>1, <2>6, <2>7, <2>8, <2>9, StoreOK
  <2>11. Len(Contents[p]) > 1
    BY <1>2, <1>4, ItemsSeq
  <2>12. Abstract!Rotate(p)
    BY <1>1, <1>2, <2>6, <2>10, <2>11 DEF Abstract!Rotate
  <2> QED BY <1>1, <2>10, <2>12 DEF QueueInv
<1> QED BY <1>3, <1>4

\* The abstract specification drops an element in the same way.
LEMMA SameDropFirst ==
  ASSUME NEW s, NEW e
  PROVE  Abstract!DropFirst(s, e) = DropFirst(s, e)
BY DEF DropFirst, Abstract!DropFirst, DropAt, Abstract!DropAt, Holds, Abstract!Holds

LEMMA RemoveStep ==
  ASSUME QueueInv, NEW p \in Prio, NEW t \in UID, remove(p, t)
  PROVE  QueueInv' /\ Abstract!Remove(p, t)
<1> DEFINE q == list.queues[p]
           cells == {i \in q.first..(q.end - 1) : q.data[i] = t}
           at == CHOOSE i \in cells : \A j \in cells : i <= j
           r == Erased(q, at)
<1>1. ListOK(list) /\ Linked(list, p) /\ ret' = NoUID
  BY DEF QueueInv, remove
<1>2. /\ IsQueue(q) /\ q.first \in Nat /\ q.end \in Nat /\ q.capacity \in Nat
      /\ 1 <= q.first /\ q.first <= q.end /\ q.end < q.capacity
      /\ Contents[p] = Items(q) /\ size(q) = q.end - q.first
  BY <1>1, UsedQueue
<1>3. CASE cells = {}
  <2>1. UNCHANGED list /\ inside' = TRUE
    BY <1>3 DEF remove
  <2>2. DropFirst(Items(q), t) = Items(q)
    <3> HIDE DEF q
    <3> QED BY <1>2, <1>3, AbsentItems
  <2>3. Contents' = Contents /\ ListOK(list')
    BY <1>1, <2>1 DEF Contents
  <2>4. [Contents EXCEPT ![p] = DropFirst(@, t)] = Contents
    BY <1>2, <2>2 DEF Contents
  <2>5. Abstract!Remove(p, t)
    BY <1>1, <2>3, <2>4, SameDropFirst DEF Abstract!Remove
  <2> QED BY <1>1, <2>1, <2>3, <2>5 DEF QueueInv
<1>4. CASE cells # {}
  <2>1. list' = Replaced(list, p, r) /\ inside' = Within(at, q.end, q.capacity)
    BY <1>4 DEF remove, Replaced
  <2> HIDE DEF q
  <2>2. at \in cells /\ \A j \in cells : at <= j
    <3>1. cells \subseteq Nat
      BY <1>2
    <3> HIDE DEF cells
    <3>2. \E i \in cells : \A j \in cells : i <= j
      BY <1>4, <3>1, LeastElement
    <3> QED BY <3>2
  <2> HIDE DEF at
  <2>3. /\ at \in q.first..(q.end - 1) /\ q.data[at] = t
        /\ \A j \in q.first..(at - 1) : q.data[j] # t
    <3>1. at \in q.first..(q.end - 1) /\ q.data[at] = t
      BY <2>2
    <3>2. ASSUME NEW j \in q.first..(at - 1), q.data[j] = t PROVE FALSE
      <4>1. j \in q.first..(q.end - 1) /\ j < at /\ j \in Int /\ at \in Int
        BY <1>2, <3>1
      <4>2. j \in cells
        BY <3>2, <4>1
      <4>3. at <= j
        BY <2>2, <4>2
      <4> QED BY <4>1, <4>3
    <3> QED BY <3>1, <3>2
  <2>4. /\ IsQueue(r) /\ r.next = q.next /\ r.first = q.first /\ r.end = q.end - 1
        /\ r.capacity = q.capacity /\ Items(r) = DropFirst(Items(q), t)
    BY <1>2, <2>3, WithoutItems
  <2> HIDE DEF r
  <2>5. HasRoom(r)
    BY <1>2, <2>3, <2>4 DEF HasRoom
  <2>6. inside' = TRUE
    <3>1. Within(at, q.end, q.capacity) = TRUE
      BY <1>2, <2>3 DEF Within
    <3> QED BY <2>1, <3>1
  <2>7. r.next = list.queues[p].next
    BY <2>4 DEF q
  <2>8. ListOK(list') /\ Contents' = [Contents EXCEPT ![p] = Items(r)]
    BY <1>1, <2>1, <2>4, <2>5, <2>7, ReplaceContents
  <2>9. Abstract!Remove(p, t)
    BY <1>1, <1>2, <2>4, <2>8, SameDropFirst DEF Abstract!Remove
  <2> QED BY <1>1, <2>6, <2>8, <2>9 DEF QueueInv
<1> QED BY <1>3, <1>4

\* The lists are the same if the items of every queue are.
LEMMA SameContents ==
  ASSUME \A p \in Prio : Items(list'.queues[p]) = Items(list.queues[p])
  PROVE  Contents' = Contents
<1>1. Contents' = [p \in Prio |-> Items(list'.queues[p])]
  BY DEF Contents, Items, size
<1> QED BY <1>1 DEF Contents

LEMMA PrepareStep ==
  ASSUME QueueInv, NEW p \in Prio, prepare(p)
  PROVE  QueueInv' /\ Abstract!Quiet
<1>1. ListOK(list) /\ ret' = NoUID /\ inside' = TRUE
  BY DEF QueueInv, prepare
<1>2. ListOK(list') /\ \A s \in Prio : Items(list'.queues[s]) = Items(list.queues[s])
  <2>1. CASE Linked(list, p)
    <3>1. list' = list
      BY <2>1 DEF prepare
    <3> QED BY <1>1, <3>1
  <2>2. CASE ~Linked(list, p)
    <3> DEFINE goal == INITIAL_CAPACITY
    <3>1. list' = link(list, p, goal) /\ goal \in Nat
      BY <2>2, SizeAssumption DEF prepare
    <3> HIDE DEF goal
    <3>2. /\ ListOK(list') /\ Items(list'.queues[p]) = <<>>
          /\ \A s \in Prio \ {p} : Items(list'.queues[s]) = Items(list.queues[s])
      BY <1>1, <2>2, <3>1, LinkOK
    <3>3. Items(list.queues[p]) = <<>>
      BY <1>1, <2>2, UnusedOK DEF ListOK, GoodQueue, Linked
    <3> QED BY <3>2, <3>3
  <2> QED BY <2>1, <2>2
<1>3. Contents' = Contents
  BY <1>2, SameContents
<1> QED BY <1>1, <1>2, <1>3 DEF QueueInv, Abstract!Quiet

LEMMA PopStep ==
  ASSUME QueueInv, NEW stop \in 0..NUM_QUEUES, PopBefore(stop)
  PROVE  QueueInv' /\ (Abstract!Pop(stop) \/ Abstract!NoneBetter(stop))
<1> DEFINE w == Walk(list, stop)
           q == list.queues[w]
           r == Popped(q)
<1>1. ListOK(list)
  BY DEF QueueInv
<1>2. /\ w \in Prio \cup {invalid}
      /\ \A s \in Prio : s < w => size(list.queues[s]) = 0
      /\ w < stop => w \in Prio /\ Linked(list, w) /\ size(q) > 0
  BY <1>1, WalkOK
<1>3. IF w < stop
      THEN /\ ret' = q.data[q.first]
           /\ inside' = Within(q.first, q.first, q.capacity)
           /\ list' = Replaced(list, w, r)
      ELSE ret' = NoUID /\ inside' = TRUE /\ UNCHANGED list
  BY DEF PopBefore, Replaced
<1> HIDE DEF w
<1>4. ASSUME NEW s \in Prio, s < w PROVE Contents[s] = <<>>
  <2>1. IsQueue(list.queues[s]) /\ size(list.queues[s]) = 0
    BY <1>1, <1>2, <1>4 DEF ListOK, GoodQueue
  <2>2. Items(list.queues[s]) \in Seq(UID) /\ Len(Items(list.queues[s])) = 0
    BY <2>1, ItemsSeq
  <2> QED BY <2>2 DEF Contents
<1>5. CASE w < stop
  <2>1. w \in Prio /\ Linked(list, w) /\ size(q) > 0
    BY <1>2, <1>5
  <2>2. /\ IsQueue(q) /\ q.first \in Nat /\ q.end \in Nat /\ q.capacity \in Nat
        /\ 1 <= q.first /\ q.first <= q.end /\ q.end < q.capacity
        /\ Contents[w] = Items(q) /\ size(q) = q.end - q.first
    BY <1>1, <2>1, UsedQueue
  <2> HIDE DEF q
  <2>3. /\ IsQueue(r) /\ r.next = q.next /\ r.first = q.first + 1 /\ r.end = q.end
        /\ r.capacity = q.capacity /\ Items(q) # <<>> /\ Items(r) = Tail(Items(q))
        /\ q.data[q.first] = Head(Items(q)) /\ q.data[q.first] \in UID
    BY <2>1, <2>2, PoppedItems
  <2> HIDE DEF r
  <2>4. HasRoom(r)
    BY <2>1, <2>2, <2>3 DEF HasRoom
  <2>5. inside' = TRUE
    <3>1. Within(q.first, q.first, q.capacity) = TRUE
      BY <2>2 DEF Within
    <3> QED BY <1>3, <1>5, <3>1
  <2>6. r.next = list.queues[w].next
    BY <2>3 DEF q
  <2>7. ListOK(list') /\ Contents' = [Contents EXCEPT ![w] = Items(r)]
    BY <1>1, <1>3, <1>5, <2>1, <2>3, <2>4, <2>6, ReplaceContents
  <2>8. ret' = Head(Contents[w]) /\ ret' \in UID /\ Contents[w] # <<>>
    BY <1>3, <1>5, <2>2, <2>3
  <2>9. Contents' = [Contents EXCEPT ![w] = Tail(@)]
    BY <2>2, <2>3, <2>7
  <2>10. w \in Abstract!Prio /\ \A s \in Abstract!Prio : s < w => Contents[s] = <<>>
    BY <1>4, <2>1 DEF Abstract!Prio, Prio
  <2>11. Abstract!Pop(stop)
    BY <1>5, <2>8, <2>9, <2>10 DEF Abstract!Pop, Abstract!IsBest
  <2> QED BY <2>5, <2>7, <2>8, <2>11 DEF QueueInv
<1>6. CASE ~(w < stop)
  <2>1. ret' = NoUID /\ inside' = TRUE /\ UNCHANGED list
    BY <1>3, <1>6
  <2>2. Contents' = Contents /\ ListOK(list')
    BY <1>1, <2>1 DEF Contents
  <2>3. \A s \in Prio : s < stop => s < w
    <3>1. w \in Int /\ stop \in Int /\ \A s \in Prio : s \in Int
      BY <1>2, NumQueues
    <3> QED BY <1>6, <3>1
  <2>4. \A s \in Abstract!Prio : s < stop => Contents[s] = <<>>
    BY <1>4, <2>3 DEF Abstract!Prio, Prio
  <2>5. Abstract!NoneBetter(stop)
    BY <2>1, <2>2, <2>4 DEF Abstract!NoneBetter
  <2> QED BY <2>1, <2>2, <2>5 DEF QueueInv
<1> QED BY <1>5, <1>6

LEMMA EmptyContents ==
  ASSUME list = Empty
  PROVE  Contents = [p \in Abstract!Prio |-> <<>>]
<1>1. \A p \in Prio : Items(list.queues[p]) = <<>>
  BY EmptyOK, UnusedOK
<1> QED BY <1>1 DEF Contents, Prio, Abstract!Prio

LEMMA ClearStep ==
  ASSUME clear
  PROVE  QueueInv' /\ Abstract!Clear
<1>1. list' = Empty /\ ret' = NoUID /\ inside' = TRUE
  BY DEF clear
<1>2. \A p \in Prio : Items(list'.queues[p]) = <<>>
  BY <1>1, EmptyOK, UnusedOK
<1>3. Contents' = [p \in Prio |-> Items(list'.queues[p])]
  BY DEF Contents, Items, size
<1>4. Contents' = [p \in Abstract!Prio |-> <<>>]
  BY <1>2, <1>3 DEF Prio, Abstract!Prio
<1> QED BY <1>1, <1>4, EmptyOK DEF QueueInv, Abstract!Clear

LEMMA DoStateStep ==
  ASSUME QueueInv, DoState
  PROVE  QueueInv' /\ Abstract!Quiet
<1>1. ListOK(list) /\ ret' = NoUID
  BY DEF QueueInv, DoState
<1>2. ListOK(list') /\ \A p \in Prio : Items(list'.queues[p]) = Items(list.queues[p])
  BY <1>1, DoStateOK
<1>3. ASSUME NEW q, GoodQueue(q) PROVE ItemsInside(q)
  <2>1. IsQueue(q) /\ q.first \in Nat /\ q.end \in Nat /\ q.capacity \in Nat
    BY <1>3, QueueFacts DEF GoodQueue
  <2>2. CASE q.next = NULL
    <3>1. q.first = 0 /\ q.end = 0
      BY <1>3, <2>2 DEF GoodQueue, Unused
    <3> QED BY <3>1 DEF ItemsInside, Within
  <2>3. CASE q.next # NULL
    <3>1. HasRoom(q)
      BY <1>3, <2>3 DEF GoodQueue
    <3> QED BY <2>1, <3>1 DEF ItemsInside, Within, HasRoom
  <2> QED BY <2>2, <2>3
<1>4. \A p \in Prio : ItemsInside(list.queues[p]) /\ ItemsInside(list'.queues[p])
  BY <1>1, <1>2, <1>3 DEF ListOK
<1>5. inside' = TRUE
  BY <1>4 DEF DoState
<1>6. Contents' = Contents
  BY <1>2, SameContents
<1> QED BY <1>1, <1>2, <1>5, <1>6 DEF QueueInv, Abstract!Quiet

-----------------------------------------------------------------------------
(* The theorems. *)

LEMMA InitStep ==
  ASSUME Init
  PROVE  QueueInv /\ Abstract!Init
<1>1. list = Empty /\ ret = NoUID /\ inside = TRUE
  BY DEF Init
<1>2. Contents = [p \in Abstract!Prio |-> <<>>]
  BY <1>1, EmptyContents
<1> QED BY <1>1, <1>2, EmptyOK DEF QueueInv, Abstract!Init

LEMMA QueueStep ==
  ASSUME ReallocFails = FALSE, QueueInv, [Next]_vars
  PROVE  QueueInv' /\ [Abstract!Next]_<<Contents, ret>>
<1>1. ASSUME NEW p \in Prio, prepare(p)
      PROVE  QueueInv' /\ Abstract!Next
  BY <1>1, PrepareStep DEF Abstract!Next
<1>2. ASSUME NEW p \in Prio, rotate(p)
      PROVE  QueueInv' /\ Abstract!Next
  BY <1>2, RotateStep DEF Abstract!Next, Abstract!Prio, Prio
<1>3. ASSUME NEW stop \in 0..NUM_QUEUES, PopBefore(stop)
      PROVE  QueueInv' /\ Abstract!Next
  BY <1>3, PopStep DEF Abstract!Next
<1>4. ASSUME NEW p \in Prio, NEW t \in UID, push_front(p, t)
      PROVE  QueueInv' /\ Abstract!Next
  BY <1>4, PushFrontStep DEF Abstract!Next, Abstract!Prio, Prio
<1>5. ASSUME NEW p \in Prio, NEW t \in UID, push_back(p, t)
      PROVE  QueueInv' /\ Abstract!Next
  BY <1>5, PushBackStep DEF Abstract!Next, Abstract!Prio, Prio
<1>6. ASSUME NEW p \in Prio, NEW t \in UID, remove(p, t)
      PROVE  QueueInv' /\ Abstract!Next
  BY <1>6, RemoveStep DEF Abstract!Next, Abstract!Prio, Prio
<1>7. ASSUME clear PROVE QueueInv' /\ Abstract!Next
  BY <1>7, ClearStep DEF Abstract!Next
<1>8. ASSUME DoState PROVE QueueInv' /\ Abstract!Next
  BY <1>8, DoStateStep DEF Abstract!Next
<1>9. ASSUME NEW p \in Prio, pop_first_better(p)
      PROVE  QueueInv' /\ Abstract!Next
  <2>1. p \in 0..NUM_QUEUES
    BY NumQueues DEF Prio
  <2> QED BY <1>3, <1>9, <2>1 DEF pop_first_better
<1>10. ASSUME pop_first PROVE QueueInv' /\ Abstract!Next
  <2>1. invalid \in 0..NUM_QUEUES
    BY NumQueues DEF invalid
  <2> QED BY <1>3, <1>10, <2>1 DEF pop_first
<1>11. ASSUME UNCHANGED vars
       PROVE  QueueInv' /\ UNCHANGED <<Contents, ret>>
  BY <1>11 DEF vars, QueueInv, Contents
<1> QED BY <1>1, <1>2, <1>4, <1>5, <1>6, <1>7, <1>8, <1>9, <1>10, <1>11 DEF Next

\* The invariant of the structure: every queue in use holds its items in its array
\* with a free cell at both ends, an unused one is zero, and the chain is ordered.
THEOREM QueueInvHolds ==
  ASSUME ReallocFails = FALSE
  PROVE  Spec => []QueueInv
<1>1. Init => QueueInv
  BY InitStep
<1>2. QueueInv /\ [Next]_vars => QueueInv'
  BY QueueStep
<1> QED BY <1>1, <1>2, PTL DEF Spec

\* If realloc() works, every queue in use keeps a free cell at both ends of its
\* array, as rebalance() promises the pushes.
THEOREM FreeSpaceHolds ==
  ASSUME ReallocFails = FALSE
  PROVE  Spec => []FreeSpaceBothSides
<1>1. QueueInv => FreeSpaceBothSides
  BY DEF QueueInv, ListOK, GoodQueue, Linked, FreeSpaceBothSides
<1> QED BY <1>1, QueueInvHolds, PTL

\* If realloc() works, no call uses an index outside an array.
THEOREM MemorySafeHolds ==
  ASSUME ReallocFails = FALSE
  PROVE  Spec => []MemorySafe
<1>1. QueueInv => MemorySafe
  BY DEF QueueInv, MemorySafe
<1> QED BY <1>1, QueueInvHolds, PTL

\* link() keeps the chain of used queues complete and in order of priority.
THEOREM ChainOrderedHolds ==
  ASSUME ReallocFails = FALSE
  PROVE  Spec => []ChainOrdered
<1>1. QueueInv => ChainOrdered
  BY DEF QueueInv, ListOK, ChainOrdered
<1> QED BY <1>1, QueueInvHolds, PTL

\* The arrays and the chain implement the lists that the thread manager relies on:
\* every call changes them, and returns, as the abstract ready queue does.
THEOREM RefinementHolds ==
  ASSUME ReallocFails = FALSE
  PROVE  Spec => BehavesAsLists
<1>1. Init => QueueInv /\ Abstract!Init
  BY InitStep
<1>2. QueueInv /\ [Next]_vars => QueueInv' /\ [Abstract!Next]_<<Contents, ret>>
  BY QueueStep
<1> QED BY <1>1, <1>2, PTL DEF Spec, BehavesAsLists, Abstract!Spec
=============================================================================
