--------------------------- MODULE UidListProofs ---------------------------
(* What the list operators do to the elements of a list of ids, and the facts *)
(* about numbers that the proofs share.                                       *)
EXTENDS UidList, Removal, TLAPS, WellFoundedInduction

\* A function on 1..n is a sequence.
LEMMA FunctionIsSeq ==
  ASSUME NEW S, NEW n \in Nat, NEW f \in [1..n -> S]
  PROVE  f \in Seq(S) /\ Len(f) = n
OBVIOUS

LEMMA AppendHolds ==
  ASSUME NEW S, NEW s \in Seq(S), NEW e \in S
  PROVE  /\ Append(s, e) \in Seq(S)
         /\ \A x : Holds(Append(s, e), x) <=> Holds(s, x) \/ x = e
         /\ Distinct(s) /\ ~Holds(s, e) => Distinct(Append(s, e))
BY DEF Holds, Distinct

LEMMA FrontHolds ==
  ASSUME NEW S, NEW s \in Seq(S), NEW e \in S
  PROVE  /\ <<e>> \o s \in Seq(S)
         /\ \A x : Holds(<<e>> \o s, x) <=> Holds(s, x) \/ x = e
         /\ Distinct(s) /\ ~Holds(s, e) => Distinct(<<e>> \o s)
<1> DEFINE f == <<e>> \o s
<1>1. /\ f \in Seq(S) /\ Len(f) = Len(s) + 1 /\ f[1] = e
      /\ \A i \in 1..Len(s) : f[i + 1] = s[i]
  OBVIOUS
<1>2. \A i \in 1..Len(f) : i = 1 \/ (i - 1 \in 1..Len(s) /\ f[i] = s[i - 1])
  BY <1>1
<1> HIDE DEF f
<1>3. ASSUME NEW x PROVE Holds(f, x) <=> Holds(s, x) \/ x = e
  <2>1. Holds(f, x) => Holds(s, x) \/ x = e
    BY <1>1, <1>2 DEF Holds
  <2>2. Holds(s, x) => Holds(f, x)
    <3> SUFFICES ASSUME NEW i \in 1..Len(s), s[i] = x PROVE Holds(f, x)
      BY DEF Holds
    <3>1. i + 1 \in 1..Len(f) /\ f[i + 1] = x
      BY <1>1
    <3> QED BY <3>1 DEF Holds
  <2>3. x = e => Holds(f, x)
    BY <1>1 DEF Holds
  <2> QED BY <2>1, <2>2, <2>3
<1>4. ASSUME Distinct(s), ~Holds(s, e) PROVE Distinct(f)
  <2> SUFFICES ASSUME NEW i \in 1..Len(f), NEW j \in 1..Len(f), f[i] = f[j]
               PROVE  i = j
    BY DEF Distinct
  <2>1. CASE i = 1 \/ j = 1
    BY <1>1, <1>2, <1>4, <2>1 DEF Holds
  <2>2. CASE i # 1 /\ j # 1
    <3>1. i - 1 = j - 1
      BY <1>2, <1>4, <2>2 DEF Distinct
    <3> QED BY <3>1
  <2> QED BY <2>1, <2>2
<1> QED BY <1>1, <1>3, <1>4 DEF f

LEMMA TailHolds ==
  ASSUME NEW S, NEW s \in Seq(S), s # <<>>, Distinct(s)
  PROVE  /\ Tail(s) \in Seq(S) /\ Distinct(Tail(s))
         /\ Head(s) \in S /\ Holds(s, Head(s))
         /\ \A x : Holds(Tail(s), x) <=> Holds(s, x) /\ x # Head(s)
<1> DEFINE u == Tail(s)
<1>1. /\ u \in Seq(S) /\ Len(u) = Len(s) - 1 /\ Len(s) \in Nat /\ 1 \in 1..Len(s)
      /\ \A i \in 1..Len(u) : i + 1 \in 1..Len(s) /\ u[i] = s[i + 1]
  OBVIOUS
<1>2. Head(s) = s[1] /\ Head(s) \in S
  OBVIOUS
<1>3. \A i \in 1..Len(s) : i = 1 \/ (i - 1 \in 1..Len(u) /\ u[i - 1] = s[i])
  BY <1>1
<1> HIDE DEF u
<1>4. Distinct(u)
  <2> SUFFICES ASSUME NEW i \in 1..Len(u), NEW j \in 1..Len(u), u[i] = u[j]
               PROVE  i = j
    BY DEF Distinct
  <2>1. i + 1 = j + 1
    BY <1>1 DEF Distinct
  <2> QED BY <2>1
<1>5. Holds(s, Head(s))
  BY <1>1, <1>2 DEF Holds
<1>6. ASSUME NEW x, Holds(u, x) PROVE Holds(s, x) /\ x # Head(s)
  <2>1. PICK i \in 1..Len(u) : u[i] = x
    BY <1>6 DEF Holds
  <2>2. i + 1 \in 1..Len(s) /\ s[i + 1] = x /\ i + 1 # 1
    BY <1>1, <2>1
  <2> QED BY <1>1, <1>2, <2>2 DEF Holds, Distinct
<1>7. ASSUME NEW x, Holds(s, x), x # Head(s) PROVE Holds(u, x)
  BY <1>2, <1>3, <1>7 DEF Holds
<1> QED BY <1>1, <1>2, <1>4, <1>5, <1>6, <1>7 DEF u

LEMMA DropAtHolds ==
  ASSUME NEW S, NEW s \in Seq(S), NEW i \in 1..Len(s), Distinct(s)
  PROVE  /\ DropAt(s, i) \in Seq(S) /\ Distinct(DropAt(s, i))
         /\ \A x : Holds(DropAt(s, i), x) <=> Holds(s, x) /\ x # s[i]
<1> DEFINE n == Len(s) - 1
           d == [j \in 1..n |-> IF j < i THEN s[j] ELSE s[j + 1]]
<1>1. n \in Nat /\ d \in [1..n -> S]
  OBVIOUS
<1>2. d \in Seq(S) /\ Len(d) = n
  BY <1>1, FunctionIsSeq
<1>3. \A j \in 1..n : d[j] = IF j < i THEN s[j] ELSE s[j + 1]
  OBVIOUS
<1>4. d = DropAt(s, i)
  BY DEF DropAt
<1> HIDE DEF d
<1>5. Distinct(d)
  BY <1>2, <1>3 DEF Distinct
<1>6. ASSUME NEW x, Holds(d, x) PROVE Holds(s, x) /\ x # s[i]
  <2>1. PICK j \in 1..n : d[j] = x
    BY <1>2, <1>6 DEF Holds
  <2>2. CASE j < i
    BY <1>3, <2>1, <2>2 DEF Holds, Distinct
  <2>3. CASE ~(j < i)
    <3>1. j + 1 \in 1..Len(s) /\ s[j + 1] = x /\ j + 1 # i
      BY <1>3, <2>1, <2>3
    <3> QED BY <3>1 DEF Holds, Distinct
  <2> QED BY <2>2, <2>3
<1>7. ASSUME NEW x, Holds(s, x), x # s[i] PROVE Holds(d, x)
  <2>1. PICK j \in 1..Len(s) : s[j] = x
    BY <1>7 DEF Holds
  <2>2. CASE j < i
    BY <1>2, <1>3, <2>1, <2>2 DEF Holds
  <2>3. CASE ~(j < i)
    <3>1. j - 1 \in 1..n /\ d[j - 1] = x
      BY <1>3, <1>7, <2>1, <2>3
    <3> QED BY <3>1, <1>2 DEF Holds
  <2> QED BY <2>2, <2>3
<1> QED BY <1>2, <1>4, <1>5, <1>6, <1>7

\* An element is cut out of a list.
LEMMA EraseAt ==
  ASSUME NEW S, NEW s \in Seq(S), NEW i \in 1..Len(s)
  PROVE  /\ SubSeq(s, 1, i - 1) \o SubSeq(s, i + 1, Len(s)) = DropAt(s, i)
         /\ DropAt(s, i) \in Seq(S) /\ Len(DropAt(s, i)) = Len(s) - 1
         /\ \A j \in 1..(Len(s) - 1) : DropAt(s, i)[j] = IF j < i THEN s[j] ELSE s[j + 1]
<1> DEFINE n == Len(s) - 1
           d == [j \in 1..n |-> IF j < i THEN s[j] ELSE s[j + 1]]
           a == SubSeq(s, 1, i - 1)
           b == SubSeq(s, i + 1, Len(s))
<1>1. n \in Nat /\ d \in [1..n -> S]
  OBVIOUS
<1>2. d \in Seq(S) /\ Len(d) = n
  BY <1>1, FunctionIsSeq
<1>3. d = DropAt(s, i)
  BY DEF DropAt
<1>4. /\ a \in Seq(S) /\ Len(a) = i - 1 /\ \A j \in 1..(i - 1) : a[j] = s[j]
      /\ b \in Seq(S) /\ Len(b) = Len(s) - i
      /\ \A j \in 1..(Len(s) - i) : b[j] = s[i + j]
  OBVIOUS
<1>5. \A j \in 1..n : d[j] = IF j < i THEN s[j] ELSE s[j + 1]
  OBVIOUS
<1> DEFINE c == a \o b
<1> HIDE DEF a, b, d
<1>6. c \in Seq(S) /\ Len(c) = n
  <2>1. c \in Seq(S) /\ Len(c) = Len(a) + Len(b)
    <3>1. a \in Seq(S) /\ b \in Seq(S)
      BY <1>4
    <3> HIDE DEF n
    <3> QED BY ONLY <3>1 DEF c
  <2>2. Len(s) \in Nat /\ i \in Nat
    OBVIOUS
  <2> HIDE DEF c
  <2> QED BY <1>4, <2>1, <2>2
<1>7. ASSUME NEW j \in 1..n PROVE c[j] = d[j]
  <2>1. CASE j < i
    BY <1>4, <1>5, <2>1
  <2>2. CASE ~(j < i)
    <3>1. j - (i - 1) \in 1..(Len(s) - i) /\ j > i - 1 /\ j <= n /\ i - 1 \in Nat
      BY <2>2
    <3>2. c[j] = b[j - (i - 1)]
      BY ONLY <1>4, <1>6, <3>1 DEF c
    <3> HIDE DEF n
    <3> QED BY <1>4, <1>5, <2>2, <3>1, <3>2
  <2> QED BY <2>1, <2>2
<1> HIDE DEF c
<1>8. c = d
  BY <1>2, <1>6, <1>7
<1> QED BY <1>2, <1>3, <1>5, <1>8 DEF a, b, c

LEMMA DropFirstHolds ==
  ASSUME NEW S, NEW s \in Seq(S), NEW e, Distinct(s)
  PROVE  /\ DropFirst(s, e) \in Seq(S) /\ Distinct(DropFirst(s, e))
         /\ \A x : Holds(DropFirst(s, e), x) <=> Holds(s, x) /\ x # e
         /\ ~Holds(s, e) => DropFirst(s, e) = s
<1>1. CASE ~Holds(s, e)
  BY <1>1 DEF DropFirst
<1>2. CASE Holds(s, e)
  <2> DEFINE First(i) == s[i] = e /\ \A j \in 1..Len(s) : s[j] = e => i <= j
             i0 == CHOOSE i \in 1..Len(s) : First(i)
  <2>1. \E i \in 1..Len(s) : First(i)
    BY <1>2 DEF Holds, Distinct
  <2>2. i0 \in 1..Len(s) /\ s[i0] = e
    BY <2>1
  <2>3. DropFirst(s, e) = DropAt(s, i0)
    BY <1>2 DEF DropFirst
  <2> HIDE DEF i0
  <2> QED BY <1>2, <2>2, <2>3, DropAtHolds
<1> QED BY <1>1, <1>2

\* A rotated list holds what it held before.
LEMMA RotateHolds ==
  ASSUME NEW S, NEW s \in Seq(S), s # <<>>, Distinct(s)
  PROVE  /\ Append(Tail(s), Head(s)) \in Seq(S)
         /\ Distinct(Append(Tail(s), Head(s)))
         /\ \A x : Holds(Append(Tail(s), Head(s)), x) <=> Holds(s, x)
<1> DEFINE u == Tail(s)
           e == Head(s)
<1>1. /\ u \in Seq(S) /\ Distinct(u) /\ e \in S /\ Holds(s, e)
      /\ \A x : Holds(u, x) <=> Holds(s, x) /\ x # e
  BY TailHolds
<1> HIDE DEF u, e
<1>2. /\ Append(u, e) \in Seq(S) /\ Distinct(Append(u, e))
      /\ \A x : Holds(Append(u, e), x) <=> Holds(u, x) \/ x = e
  BY <1>1, AppendHolds, Zenon
<1>3. \A x : Holds(Append(u, e), x) <=> Holds(s, x)
  BY <1>1, <1>2, Zenon
<1> QED BY <1>2, <1>3 DEF u, e

\* A nonempty set of numbers has a least element.
LEMMA LeastElement ==
  ASSUME NEW T, T \subseteq Nat, T # {}
  PROVE  \E m \in T : \A y \in T : m <= y
<1> DEFINE Less == OpToRel(<, Nat)
<1>1. PICK m \in T : \A y \in T : ~(<<y, m>> \in Less)
  <2>1. IsWellFoundedOn(Less, Nat)
    BY NatLessThanWellFounded
  <2> HIDE DEF Less
  <2> QED BY <2>1, WFMin
<1>2. \A y \in T : ~(y < m)
  BY <1>1 DEF OpToRel, Less
<1> QED BY <1>2

\* Induction along the iterations of a loop, with the claim as a set.
LEMMA SetInduction ==
  ASSUME NEW n \in Nat, NEW G, 0 \in G, \A i \in 1..n : i - 1 \in G => i \in G
  PROVE  \A i \in 0..n : i \in G
<1> SUFFICES ASSUME NEW b \in 0..n, b \notin G PROVE FALSE
  OBVIOUS
<1> DEFINE Bad == {i \in 0..n : i \notin G}
<1>1. Bad \subseteq Nat /\ Bad # {}
  OBVIOUS
<1>2. PICK m \in Bad : \A y \in Bad : m <= y
  <2> HIDE DEF Bad
  <2> QED BY <1>1, LeastElement
<1>3. m \in 1..n /\ m - 1 \in 0..n
  BY <1>2
<1>4. m - 1 \in Bad
  BY <1>2, <1>3
<1> QED BY <1>2, <1>3, <1>4

-----------------------------------------------------------------------------
(* Lists from which elements are taken out. *)

KeptLoop(s, E, kept) ==
  /\ kept[0] = <<>>
  /\ \A n \in 1..Len(s) :
       kept[n] = IF s[n] \in E THEN kept[n - 1] ELSE Append(kept[n - 1], s[n])
  /\ Without(s, E) = kept[Len(s)]

LEMMA KeptLoopExists ==
  ASSUME NEW s, NEW E, Len(s) \in Nat
  PROVE  \E kept : KeptLoop(s, E, kept)
<1> DEFINE N == Len(s)
           Round(r, n) == IF s[n] \in E THEN r ELSE Append(r, s[n])
           IsLoop(f, m) == f = [n \in 0..m |-> IF n = 0 THEN <<>> ELSE Round(f[n - 1], n)]
           kept == CHOOSE f : IsLoop(f, N)
<1>1. Without(s, E) = kept[N]
  BY DEF Without
<1>2. kept[0] = <<>> /\ \A n \in 1..N : kept[n] = Round(kept[n - 1], n)
  <2> HIDE DEF N, Round
  <2>1. IsLoop(kept, N)
    <3> DEFINE G == {m \in 0..N : \E f : IsLoop(f, m)}
    <3>1. N \in Nat
      BY DEF N
    <3>2. 0 \in G
      <4>1. IsLoop([n \in 0..0 |-> <<>>], 0)
        OBVIOUS
      <4> HIDE DEF IsLoop
      <4> QED BY <3>1, <4>1
    <3>3. ASSUME NEW m \in 1..N, m - 1 \in G PROVE m \in G
      <4>1. PICK f : IsLoop(f, m - 1)
        BY <3>3
      <4> DEFINE g == [n \in 0..m |-> IF n < m THEN f[n] ELSE Round(f[m - 1], m)]
      <4>2. ASSUME NEW n \in 0..m
            PROVE  g[n] = IF n = 0 THEN <<>> ELSE Round(g[n - 1], n)
        <5>1. CASE n = 0
          BY <4>1, <5>1
        <5>2. CASE n # 0 /\ n < m
          BY <4>1, <5>2
        <5>3. CASE n = m
          BY <5>3
        <5> QED BY <5>1, <5>2, <5>3
      <4>3. IsLoop(g, m)
        BY <4>2
      <4> HIDE DEF IsLoop, g
      <4> QED BY <4>3
    <3> HIDE DEF G
    <3>4. \A m \in 1..N : m - 1 \in G => m \in G
      BY <3>3
    <3>5. \A m \in 0..N : m \in G
      BY <3>1, <3>2, <3>4, SetInduction
    <3>6. N \in G
      BY <3>1, <3>5
    <3> QED BY <3>6 DEF G
  <2> HIDE DEF kept
  <2>2. N \in Nat
    BY DEF N
  <2> QED BY <2>1, <2>2
<1> HIDE DEF kept
<1> QED BY <1>1, <1>2 DEF KeptLoop

LEMMA WithoutNothing ==
  ASSUME NEW E PROVE Without(<<>>, E) = <<>>
<1>1. PICK kept : KeptLoop(<<>>, E, kept)
  BY KeptLoopExists
<1> QED BY <1>1 DEF KeptLoop

LEMMA WithoutAppend ==
  ASSUME NEW S, NEW s \in Seq(S), NEW e \in S, NEW E
  PROVE  Without(Append(s, e), E)
           = IF e \in E THEN Without(s, E) ELSE Append(Without(s, E), e)
<1> DEFINE z == Append(s, e)
           N == Len(s)
<1>1. N \in Nat /\ Len(z) = N + 1 /\ z[N + 1] = e /\ \A n \in 1..N : z[n] = s[n]
  OBVIOUS
<1> HIDE DEF z
<1>2. PICK k : KeptLoop(s, E, k)
  BY <1>1, KeptLoopExists
<1>3. PICK l : KeptLoop(z, E, l)
  <2>1. Len(z) \in Nat
    BY <1>1
  <2> QED BY <2>1, KeptLoopExists
<1> HIDE DEF N
<1> DEFINE G == {n \in 0..N : l[n] = k[n]}
<1>4. 0 \in G
  BY <1>1, <1>2, <1>3 DEF KeptLoop
<1>5. \A n \in 1..N : n - 1 \in G => n \in G
  BY <1>1, <1>2, <1>3 DEF KeptLoop, N
<1> HIDE DEF G
<1>6. \A n \in 0..N : n \in G
  BY <1>1, <1>4, <1>5, SetInduction
<1>7. l[N] = k[N]
  BY <1>1, <1>6 DEF G
<1>8. l[N + 1] = IF e \in E THEN l[N] ELSE Append(l[N], e)
  BY <1>1, <1>3 DEF KeptLoop
<1>9. Without(s, E) = k[N] /\ Without(z, E) = l[N + 1]
  BY <1>1, <1>2, <1>3 DEF KeptLoop, N
<1> QED BY <1>7, <1>8, <1>9 DEF z

\* Induction on the length of a sequence, with the claim as a set.
LEMMA SeqInduction ==
  ASSUME NEW S, NEW G, <<>> \in G,
         \A s \in Seq(S), e \in S : s \in G => Append(s, e) \in G
  PROVE  \A s \in Seq(S) : s \in G
<1> SUFFICES ASSUME NEW s \in Seq(S) PROVE s \in G
  OBVIOUS
<1> DEFINE N == Len(s)
           Upto(n) == \A z \in Seq(S) : Len(z) = n => z \in G
           H == {n \in 0..N : Upto(n)}
<1>1. N \in Nat
  OBVIOUS
<1>2. 0 \in H
  <2>1. \A z \in Seq(S) : Len(z) = 0 => z = <<>>
    OBVIOUS
  <2> QED BY <1>1, <2>1
<1>3. ASSUME NEW n \in 1..N, n - 1 \in H PROVE n \in H
  <2>1. Upto(n - 1)
    BY <1>3
  <2>2. SUFFICES ASSUME NEW z \in Seq(S), Len(z) = n PROVE z \in G
    BY <1>1
  <2> DEFINE y == SubSeq(z, 1, n - 1)
  <2>3. z = Append(y, z[n]) /\ y \in Seq(S) /\ Len(y) = n - 1 /\ z[n] \in S
    BY <1>1, <2>2
  <2> HIDE DEF y
  <2>4. y \in G
    BY <2>1, <2>3
  <2> QED BY <2>3, <2>4
<1>4. Upto(N)
  <2>1. \A n \in 1..N : n - 1 \in H => n \in H
    BY <1>3
  <2> HIDE DEF H
  <2>2. \A n \in 0..N : n \in H
    BY <1>1, <1>2, <2>1, SetInduction
  <2>3. N \in H
    BY <1>1, <2>2
  <2> QED BY <2>3 DEF H
<1> QED BY <1>4

\* f is where the elements of r stand in s, from which those of E were taken.
TakenFrom(r, s, E, f) ==
  /\ f \in [1..Len(r) -> 1..Len(s)]
  /\ \A i \in 1..Len(r) : r[i] = s[f[i]] /\ r[i] \notin E
  /\ \A i, j \in 1..Len(r) : i < j => f[i] < f[j]
  /\ \A m \in 1..Len(s) : s[m] \in E \/ \E i \in 1..Len(r) : f[i] = m

LEMMA WithoutTakes ==
  ASSUME NEW S, NEW s \in Seq(S), NEW E
  PROVE  /\ Without(s, E) \in Seq(S)
         /\ \E f : TakenFrom(Without(s, E), s, E, f)
<1> DEFINE Good(z) == /\ Without(z, E) \in Seq(S)
                      /\ \E f : TakenFrom(Without(z, E), z, E, f)
           G == {z \in Seq(S) : Good(z)}
<1>1. <<>> \in G
  <2> DEFINE f == [i \in 1..0 |-> 1]
  <2>1. Len(<<>>) = 0 /\ f \in [1..0 -> 1..0] /\ 1..0 = {}
    OBVIOUS
  <2> HIDE DEF f
  <2>2. \A r : Len(r) = 0 => TakenFrom(r, r, E, f)
    BY <2>1 DEF TakenFrom
  <2>3. TakenFrom(<<>>, <<>>, E, f)
    BY <2>1, <2>2
  <2>4. <<>> \in Seq(S)
    OBVIOUS
  <2> QED BY <2>3, <2>4, WithoutNothing
<1>2. ASSUME NEW z \in Seq(S), NEW e \in S, z \in G PROVE Append(z, e) \in G
  <2> DEFINE u == Append(z, e)
             r == Without(z, E)
             v == Without(u, E)
  <2>1. r \in Seq(S) /\ u \in Seq(S)
    BY <1>2
  <2>2. PICK f : TakenFrom(r, z, E, f)
    BY <1>2
  <2>3. /\ Len(u) = Len(z) + 1 /\ u[Len(z) + 1] = e /\ Len(z) \in Nat
        /\ \A n \in 1..Len(z) : u[n] = z[n]
    OBVIOUS
  <2>4. v = IF e \in E THEN r ELSE Append(r, e)
    BY WithoutAppend
  <2> HIDE DEF u, r, v
  <2>5. CASE e \in E
    <3>1. /\ f \in [1..Len(r) -> 1..Len(u)]
          /\ \A i \in 1..Len(r) : f[i] \in 1..Len(z)
      <4>1. f \in [1..Len(r) -> 1..Len(z)]
        BY <2>2 DEF TakenFrom
      <4>2. 1..Len(z) \subseteq 1..Len(u)
        BY <2>3
      <4> QED BY <4>1, <4>2
    <3>2. \A i \in 1..Len(r) : r[i] = u[f[i]] /\ r[i] \notin E
      BY <2>2, <2>3, <3>1 DEF TakenFrom
    <3>3. \A m \in 1..Len(u) : m \in 1..Len(z) \/ m = Len(z) + 1
      BY <2>3
    <3>4. \A m \in 1..Len(u) : u[m] \in E \/ \E i \in 1..Len(r) : f[i] = m
      BY <2>2, <2>3, <2>5, <3>3 DEF TakenFrom
    <3>5. TakenFrom(r, u, E, f)
      BY <2>2, <3>1, <3>2, <3>4 DEF TakenFrom
    <3> QED BY <2>1, <2>4, <2>5, <3>5 DEF u, v
  <2>6. CASE e \notin E
    <3>1. /\ v \in Seq(S) /\ Len(v) = Len(r) + 1 /\ v[Len(r) + 1] = e /\ Len(r) \in Nat
          /\ \A i \in 1..Len(r) : v[i] = r[i]
      BY <2>1, <2>4, <2>6
    <3> DEFINE g == [i \in 1..Len(v) |-> IF i <= Len(r) THEN f[i] ELSE Len(u)]
    <3>2. \A i \in 1..Len(v) : i \in 1..Len(r) \/ i = Len(r) + 1
      BY <3>1
    <3>3. /\ \A i \in 1..Len(r) : i \in 1..Len(v) /\ g[i] = f[i] /\ f[i] \in 1..Len(z)
          /\ Len(r) + 1 \in 1..Len(v) /\ g[Len(r) + 1] = Len(u)
      BY <2>2, <3>1 DEF TakenFrom
    <3>4. g \in [1..Len(v) -> 1..Len(u)]
      BY <2>2, <2>3, <3>1 DEF TakenFrom
    <3> HIDE DEF g
    <3>5. \A i \in 1..Len(v) : v[i] = u[g[i]] /\ v[i] \notin E
      <4>1. ASSUME NEW i \in 1..Len(r) PROVE v[i] = u[g[i]] /\ v[i] \notin E
        <5>1. r[i] = z[f[i]] /\ r[i] \notin E
          BY <2>2 DEF TakenFrom
        <5>2. v[i] = r[i]
          BY <3>1
        <5>3. g[i] = f[i] /\ u[f[i]] = z[f[i]]
          BY <2>3, <3>3
        <5> QED BY <5>1, <5>2, <5>3
      <4>2. v[Len(r) + 1] = u[g[Len(r) + 1]] /\ v[Len(r) + 1] \notin E
        BY <2>3, <2>6, <3>1, <3>3
      <4> QED BY <3>2, <4>1, <4>2
    <3>6. ASSUME NEW i \in 1..Len(v), NEW j \in 1..Len(v), i < j PROVE g[i] < g[j]
      <4>1. i \in 1..Len(r) /\ g[i] = f[i] /\ f[i] \in 1..Len(z)
        BY <3>1, <3>2, <3>3, <3>6
      <4>2. CASE j \in 1..Len(r)
        <5>1. f[i] < f[j] /\ g[j] = f[j]
          BY <2>2, <3>3, <3>6, <4>1, <4>2 DEF TakenFrom
        <5> QED BY <4>1, <5>1
      <4>3. CASE j = Len(r) + 1
        BY <2>3, <3>3, <4>1, <4>3
      <4> QED BY <3>2, <4>2, <4>3
    <3>7. ASSUME NEW m \in 1..Len(u), u[m] \notin E PROVE \E i \in 1..Len(v) : g[i] = m
      <4>1. CASE m = Len(u)
        BY <3>3, <4>1
      <4>2. CASE m # Len(u)
        <5>1. m \in 1..Len(z) /\ z[m] \notin E
          BY <2>3, <3>7, <4>2
        <5>2. PICK i \in 1..Len(r) : f[i] = m
          BY <2>2, <5>1 DEF TakenFrom
        <5> QED BY <3>3, <5>2
      <4> QED BY <4>1, <4>2
    <3>8. TakenFrom(v, u, E, g)
      BY <3>4, <3>5, <3>6, <3>7 DEF TakenFrom
    <3> QED BY <2>1, <3>1, <3>8 DEF u, v
  <2> QED BY <2>5, <2>6
<1> HIDE DEF G
<1>3. s \in G
  BY <1>1, <1>2, SeqInduction
<1> QED BY <1>3 DEF G

\* What is left of a list of different elements.
LEMMA WithoutHolds ==
  ASSUME NEW S, NEW s \in Seq(S), NEW E, Distinct(s)
  PROVE  /\ Without(s, E) \in Seq(S) /\ Distinct(Without(s, E))
         /\ \A x : Holds(Without(s, E), x) <=> Holds(s, x) /\ x \notin E
<1> DEFINE r == Without(s, E)
<1>1. r \in Seq(S) /\ \E f : TakenFrom(r, s, E, f)
  BY WithoutTakes
<1> HIDE DEF r
<1>2. PICK f : TakenFrom(r, s, E, f)
  BY <1>1
<1>3. Distinct(r)
  <2> SUFFICES ASSUME NEW i \in 1..Len(r), NEW j \in 1..Len(r), i < j, r[i] = r[j]
               PROVE  FALSE
    BY <1>1 DEF Distinct
  <2>1. f[i] < f[j] /\ s[f[i]] = s[f[j]] /\ f[i] \in 1..Len(s) /\ f[j] \in 1..Len(s)
    BY <1>2 DEF TakenFrom
  <2> QED BY <2>1 DEF Distinct
<1>4. ASSUME NEW x, Holds(r, x) PROVE Holds(s, x) /\ x \notin E
  BY <1>2, <1>4 DEF TakenFrom, Holds
<1>5. ASSUME NEW x, Holds(s, x), x \notin E PROVE Holds(r, x)
  BY <1>2, <1>5 DEF TakenFrom, Holds
<1> QED BY <1>1, <1>3, <1>4, <1>5 DEF r

-----------------------------------------------------------------------------
(* Quotients and remainders. *)

LEMMA Division ==
  ASSUME NEW y \in Int, NEW n \in Nat \ {0}
  PROVE  /\ y \div n \in Int /\ y % n \in 0..(n - 1)
         /\ y = n * (y \div n) + (y % n)
OBVIOUS

LEMMA ProductGrows ==
  ASSUME NEW n \in Nat \ {0}, NEW q \in Int
  PROVE  /\ n * q \in Int
         /\ q >= 0 => n * q >= 0
         /\ q >= 1 => n * q >= n
         /\ q < 0 => n * q <= -n
OBVIOUS

\* The remainder is the only one.
LEMMA Remainder ==
  ASSUME NEW n \in Nat \ {0}, NEW q \in Int, NEW r \in 0..(n - 1)
  PROVE  (n * q + r) % n = r
<1> DEFINE y == n * q + r
           p == y \div n
           s == y % n
<1>1. y \in Int
  OBVIOUS
<1>2. p \in Int /\ s \in 0..(n - 1) /\ y = n * p + s
  BY <1>1, Division
<1>3. n * (p - q) = n * p - n * q /\ n * p \in Int /\ n * q \in Int /\ n * (q - p) = n * q - n * p
  BY <1>2
<1>4. y = n * q + r
  OBVIOUS
<1> HIDE DEF y, p, s
<1>5. p - q \in Int /\ q - p \in Int
  BY <1>2
<1>6. ~(p - q >= 1)
  <2>1. p - q >= 1 => n * (p - q) >= n
    BY <1>5, ProductGrows
  <2> QED BY <1>2, <1>3, <1>4, <2>1
<1>7. ~(q - p >= 1)
  <2>1. q - p >= 1 => n * (q - p) >= n
    BY <1>5, ProductGrows
  <2> QED BY <1>2, <1>3, <1>4, <2>1
<1>8. p = q
  BY <1>2, <1>6, <1>7
<1> QED BY <1>2, <1>4, <1>8 DEF s, y
=============================================================================
