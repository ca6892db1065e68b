------------------------ MODULE BlockAllocatorProofs ------------------------
(***************************************************************************)
(* Whatever is allocated and freed, in whatever order, from whichever end, *)
(* the blocks tile the range of the allocator and no gap is split in two,  *)
(* so that an allocation fails only if nothing fits; and what is handed    *)
(* out overlaps nothing that is held (AddressSpace).                       *)
(***************************************************************************)
EXTENDS BlockAllocator, UidListProofs, FiniteSetTheorems

-----------------------------------------------------------------------------
(* The inductive invariant, by the blocks and their neighbours. *)

\* A live block lies in the range, and its neighbours above and below, if it has
\* any, touch it and know it.
InRange(x) ==
  \A p \in Live(x) :
    /\ x.blk[p].size > 0 /\ RangeStart <= x.blk[p].start /\ EndOf(x, p) <= RangeEnd
    /\ x.blk[p].start % Grain = 0
LinkedUp(x) ==
  \A p \in Live(x) :
    LET next == x.blk[p].next
    IN  IF next = Null THEN p = x.top
        ELSE next \in Live(x) /\ x.blk[next].start = EndOf(x, p) /\ x.blk[next].prev = p
LinkedDown(x) ==
  \A p \in Live(x) :
    LET prev == x.blk[p].prev
    IN  IF prev = Null THEN p = x.bottom
        ELSE prev \in Live(x) /\ EndOf(x, prev) = x.blk[p].start /\ x.blk[prev].next = p
Ends(x) ==
  /\ x.bottom \in Live(x) /\ x.blk[x.bottom].start = RangeStart
  /\ x.blk[x.bottom].prev = Null
  /\ x.top \in Live(x) /\ EndOf(x, x.top) = RangeEnd /\ x.blk[x.top].next = Null
Apart(x) ==
  \A p, q \in Live(x) :
    p # q => EndOf(x, p) <= x.blk[q].start \/ EndOf(x, q) <= x.blk[p].start

Tiled(x) ==
  x \in Allocator /\ InRange(x) /\ LinkedUp(x) /\ LinkedDown(x) /\ Ends(x) /\ Apart(x)

\* Of two neighbours one is taken, if p is not one of them.
MergedBut(x, p) ==
  \A q \in Live(x) :
    x.blk[q].next # Null /\ q # p /\ x.blk[q].next # p =>
      x.blk[q].taken \/ x.blk[x.blk[q].next].taken

\* p has no free neighbour below, or above.
LowTaken(x, p) == x.blk[p].prev = Null \/ x.blk[x.blk[p].prev].taken
HighTaken(x, p) == x.blk[p].next = Null \/ x.blk[x.blk[p].next].taken

IInv == Tiled(a) /\ MergedBut(a, Null)

-----------------------------------------------------------------------------
(* Walks along the links. *)

LEMMA WalkRounds ==
  ASSUME NEW p, NEW link
  PROVE  /\ Walk(p, link)[1] = p
         /\ \A n \in 1..MaxBlocks : n > 1 =>
              Walk(p, link)[n] = IF Walk(p, link)[n - 1] = Null THEN Null
                                 ELSE link[Walk(p, link)[n - 1]]
<1> DEFINE M == MaxBlocks
           Round(q) == IF q = Null THEN Null ELSE link[q]
           IsLoop(f, m) == f = [n \in 1..m |-> IF n = 1 THEN p ELSE Round(f[n - 1])]
           at == CHOOSE f : IsLoop(f, M)
<1>1. Walk(p, link) = at
  BY DEF Walk
<1>2. M \in Nat \ {0}
  BY BlockBound
<1>3. at[1] = p /\ \A n \in 1..M : n > 1 => at[n] = Round(at[n - 1])
  <2> HIDE DEF M, Round
  <2>1. IsLoop(at, M)
    <3> DEFINE G == {m \in 0..M : \E f : IsLoop(f, m)}
    <3>1. 0 \in G
      <4>1. IsLoop([n \in 1..0 |-> p], 0)
        OBVIOUS
      <4> HIDE DEF IsLoop
      <4> QED BY <1>2, <4>1
    <3>2. ASSUME NEW m \in 1..M, m - 1 \in G PROVE m \in G
      <4>1. PICK f : IsLoop(f, m - 1)
        BY <3>2
      <4> DEFINE g == [n \in 1..m |-> IF n < m THEN f[n]
                                      ELSE IF m = 1 THEN p ELSE Round(f[m - 1])]
      <4>2. ASSUME NEW n \in 1..m
            PROVE  g[n] = IF n = 1 THEN p ELSE Round(g[n - 1])
        <5>1. CASE n < m
          BY <4>1, <5>1
        <5>2. CASE n = m
          BY <5>2
        <5> QED BY <5>1, <5>2
      <4>3. IsLoop(g, m)
        BY <4>2
      <4> HIDE DEF IsLoop, g
      <4> QED BY <4>3
    <3> HIDE DEF G
    <3>3. \A m \in 1..M : m - 1 \in G => m \in G
      BY <3>2
    <3>4. \A m \in 0..M : m \in G
      BY <1>2, <3>1, <3>3, SetInduction
    <3>5. M \in G
      BY <1>2, <3>4
    <3> QED BY <3>5 DEF G
  <2> HIDE DEF at
  <2> QED BY <1>2, <2>1
<1> HIDE DEF at
<1> QED BY <1>1, <1>3

\* The pointers of w up to the k-th are those of L, in ascending order by rank, and
\* null pointers follow.
Lists(w, k, L, link, rank) ==
  /\ k \in 1..MaxBlocks
  /\ \A n \in 1..k : w[n] \in L
  /\ \A n \in (k + 1)..MaxBlocks : w[n] = Null
  /\ \A p \in L : \E n \in 1..k : w[n] = p
  /\ \A n \in 1..(k - 1) : w[n + 1] = link[w[n]]
  /\ link[w[k]] = Null
  /\ \A i, j \in 1..k : i < j => rank[w[i]] < rank[w[j]]

\* A walk from the first of some blocks meets them all, if each link leads to one
\* of higher rank and there is one to each block but the first.
LEMMA WalkLists ==
  ASSUME NEW L, L \subseteq Ptr, NEW first \in L, NEW link, NEW rank \in [Ptr -> Nat],
         \A p \in L : link[p] # Null => link[p] \in L /\ rank[p] < rank[link[p]],
         \A p \in L : p # first => \E q \in L : link[q] = p /\ rank[q] < rank[p]
  PROVE  Walk(first, link)[1] = first /\ \E k : Lists(Walk(first, link), k, L, link, rank)
<1> DEFINE w == Walk(first, link)
           M == MaxBlocks
<1>1. /\ w[1] = first
      /\ \A n \in 1..M : n > 1 => w[n] = IF w[n - 1] = Null THEN Null ELSE link[w[n - 1]]
  BY WalkRounds
<1>2. M \in Nat \ {0} /\ Null \notin Ptr /\ \A p \in L : rank[p] \in Nat
  BY BlockBound DEF Null, Ptr
<1> HIDE DEF w, M
<1> DEFINE Below(n) == \A i \in 1..n : /\ w[i] \in L \cup {Null}
                                       /\ w[n] # Null /\ i < n =>
                                            w[i] # Null /\ rank[w[i]] < rank[w[n]]
           G == {n \in 0..M : n = 0 \/ Below(n)}
<1>3. ASSUME NEW n \in 1..M, n - 1 \in G PROVE n \in G
  <2>1. CASE n = 1
    BY <1>1, <1>2, <2>1
  <2>2. CASE n # 1
    <3>1. Below(n - 1) /\ n - 1 \in 1..M
      BY <1>2, <1>3, <2>2
    <3>2. CASE w[n - 1] = Null
      <4>1. w[n] = Null
        BY <1>1, <2>2, <3>2
      <4> QED BY <1>2, <3>1, <4>1
    <3>3. CASE w[n - 1] # Null
      <4>1. w[n] = link[w[n - 1]] /\ w[n - 1] \in L
        BY <1>1, <2>2, <3>1, <3>3
      <4>2. w[n] # Null => w[n] \in L /\ rank[w[n - 1]] < rank[w[n]]
        BY <4>1
      <4>3. w[n] \in L \cup {Null}
        BY <4>2
      <4>4. ASSUME NEW i \in 1..n, w[n] # Null, i < n
            PROVE  w[i] # Null /\ rank[w[i]] < rank[w[n]]
        <5>1. CASE i = n - 1
          BY <3>3, <4>2, <4>4, <5>1
        <5>2. CASE i # n - 1
          <6>1. i \in 1..(n - 1) /\ i < n - 1
            BY <1>2, <4>4, <5>2
          <6>2. w[i] # Null /\ w[i] \in L /\ rank[w[i]] < rank[w[n - 1]]
            BY <3>1, <3>3, <6>1
          <6> QED BY <1>2, <4>1, <4>2, <4>4, <6>2
        <5> QED BY <5>1, <5>2
      <4>5. \A i \in 1..n : w[i] \in L \cup {Null}
        BY <1>2, <3>1, <4>3
      <4> QED BY <4>4, <4>5
    <3> QED BY <3>2, <3>3
  <2> QED BY <2>1, <2>2
<1>4. \A n \in 1..M : Below(n)
  <2>1. \A n \in 1..M : n - 1 \in G => n \in G
    BY <1>3
  <2>2. 0 \in G
    BY <1>2
  <2> HIDE DEF G
  <2>3. \A n \in 0..M : n \in G
    BY <1>2, <2>1, <2>2, SetInduction
  <2> QED BY <1>2, <2>3 DEF G
<1>5. \A i, j \in 1..M : i < j /\ w[j] # Null => /\ w[i] \in L /\ w[j] \in L
                                                 /\ rank[w[i]] < rank[w[j]]
  <2> SUFFICES ASSUME NEW i \in 1..M, NEW j \in 1..M, i < j, w[j] # Null
               PROVE  w[i] \in L /\ w[j] \in L /\ rank[w[i]] < rank[w[j]]
    OBVIOUS
  <2>1. Below(j) /\ i \in 1..j /\ j \in 1..j
    BY <1>2, <1>4
  <2> QED BY <2>1
<1> HIDE DEF G, Below
\* No block is left out: of those that are, take the lowest.
<1>6. ASSUME NEW p \in L, \A n \in 1..M : w[n] # p PROVE FALSE
  <2> DEFINE Out == {q \in L : \A n \in 1..M : w[n] # q}
             Ranks == {rank[q] : q \in Out}
  <2>1. PICK m \in Ranks : \A y \in Ranks : m <= y
    <3>1. Ranks \subseteq Nat /\ Ranks # {}
      BY <1>2, <1>6
    <3> HIDE DEF Ranks
    <3> QED BY <3>1, LeastElement
  <2>2. PICK o \in Out : rank[o] = m
    BY <2>1
  <2>3. o \in L /\ o # first /\ \A n \in 1..M : w[n] # o
    BY <1>1, <1>2, <2>2
  <2>4. PICK q \in L : link[q] = o /\ rank[q] < rank[o]
    BY <2>3
  <2>5. q \notin Out
    <3>1. \A z \in Out : rank[o] <= rank[z]
      BY <2>1, <2>2
    <3> QED BY <1>2, <2>3, <2>4, <3>1
  <2>6. PICK i \in 1..M : w[i] = q
    BY <2>4, <2>5
  <2>7. i = M
    <3> SUFFICES ASSUME i # M PROVE FALSE
      OBVIOUS
    <3>1. i + 1 \in 1..M /\ i + 1 > 1 /\ (i + 1) - 1 = i
      BY <1>2
    <3>2. w[i + 1] = IF w[i] = Null THEN Null ELSE link[w[i]]
      BY <1>1, <3>1
    <3> QED BY <1>2, <2>3, <2>4, <2>6, <3>1, <3>2
  <2>8. w[M] # Null
    BY <1>2, <2>4, <2>6, <2>7
  <2> DEFINE f == [n \in 1..M |-> w[n]]
  <2>9. f \in Injection(1..M, Ptr \ {o})
    <3>1. ASSUME NEW n \in 1..M PROVE w[n] \in Ptr \ {o}
      <4>1. n = M \/ n < M
        BY <1>2
      <4>2. w[n] \in L
        BY <1>2, <1>5, <2>4, <2>6, <2>7, <2>8, <4>1
      <4> QED BY <2>3, <4>2
    <3>2. ASSUME NEW i1 \in 1..M, NEW j1 \in 1..M, i1 < j1 PROVE w[i1] # w[j1]
      <4>1. w[j1] # Null
        BY <1>2, <3>1
      <4> QED BY <1>2, <1>5, <3>2, <4>1
    <3>3. ASSUME NEW i1 \in 1..M, NEW j1 \in 1..M, w[i1] = w[j1] PROVE i1 = j1
      <4>1. ~(i1 < j1) /\ ~(j1 < i1)
        BY <3>2, <3>3
      <4> QED BY <1>2, <4>1
    <3>4. f \in [1..M -> Ptr \ {o}]
      BY <3>1
    <3> QED BY <3>3, <3>4 DEF Injection, IsInjective
  <2>10. o \in Ptr /\ IsFiniteSet(Ptr) /\ Cardinality(Ptr) = M
    BY <1>2, <2>3, FS_Interval DEF Ptr, M
  <2>11. IsFiniteSet(1..M) /\ Cardinality(1..M) = M
    BY <2>10 DEF Ptr, M
  <2>12. IsFiniteSet(Ptr \ {o}) /\ Cardinality(Ptr \ {o}) = M - 1
    BY <2>10, FS_RemoveElement
  <2> HIDE DEF f
  <2>13. Cardinality(1..M) <= Cardinality(Ptr \ {o})
    BY <2>9, <2>11, <2>12, FS_Injection DEF ExistsInjection
  <2> QED BY <1>2, <2>11, <2>12, <2>13
<1> DEFINE Met == {n \in 1..M : w[n] # Null}
\* The last round with a block.
<1>7. PICK k \in Met : \A n \in Met : n <= k
  <2> DEFINE Gap == {M - n : n \in Met}
  <2>1. Gap \subseteq Nat /\ Gap # {}
    <3>1. 1 \in Met
      BY <1>1, <1>2
    <3> QED BY <1>2, <3>1
  <2>2. PICK g \in Gap : \A y \in Gap : g <= y
    <3> HIDE DEF Gap
    <3> QED BY <2>1, LeastElement
  <2>3. PICK k \in Met : g = M - k
    BY <2>2
  <2>4. ASSUME NEW n \in Met PROVE n <= k
    <3>1. M - n \in Gap
      OBVIOUS
    <3>2. g <= M - n
      BY <2>2, <3>1
    <3>3. k \in 1..M /\ n \in 1..M
      BY <2>3, <2>4
    <3> HIDE DEF Met, Gap
    <3> QED BY <1>2, <2>3, <3>2, <3>3
  <2> QED BY <2>3, <2>4
<1>8. \A n \in 1..k : w[n] \in L
  <2>1. w[k] \in L
    BY <1>1, <1>2, <1>5, <1>7
  <2>2. ASSUME NEW n \in 1..k PROVE w[n] \in L
    <3>1. n = k \/ n < k
      BY <1>2
    <3> QED BY <1>2, <1>5, <1>7, <2>1, <3>1
  <2> QED BY <2>2
<1>9. \A n \in (k + 1)..M : w[n] = Null
  BY <1>2, <1>7
<1>10. \A p \in L : \E n \in 1..k : w[n] = p
  <2> TAKE p \in L
  <2>1. PICK n \in 1..M : w[n] = p
    BY <1>6
  <2> QED BY <1>2, <1>7, <2>1
<1>11. \A n \in 1..(k - 1) : w[n + 1] = link[w[n]]
  <2> TAKE n \in 1..(k - 1)
  <2>1. n + 1 \in 1..M /\ n + 1 > 1 /\ (n + 1) - 1 = n /\ n \in 1..k
    BY <1>2, <1>7
  <2>2. w[n] # Null
    BY <1>2, <1>8, <2>1
  <2> QED BY <1>1, <2>1, <2>2
<1>12. link[w[k]] = Null
  <2> SUFFICES ASSUME link[w[k]] # Null PROVE FALSE
    OBVIOUS
  <2>1. w[k] \in L /\ link[w[k]] \in L /\ rank[w[k]] < rank[link[w[k]]]
    BY <1>2, <1>7, <1>8
  <2>2. PICK n \in 1..k : w[n] = link[w[k]]
    BY <1>10, <2>1
  <2>3. n = k \/ n < k
    BY <1>2
  <2>4. ~(n < k)
    BY <1>2, <1>5, <1>7, <2>1, <2>2
  <2> QED BY <1>2, <2>1, <2>2, <2>3, <2>4
<1>13. Lists(w, k, L, link, rank)
  <2>1. \A i, j \in 1..k : i < j => rank[w[i]] < rank[w[j]]
    BY <1>2, <1>5, <1>7, <1>8
  <2> QED BY <1>7, <1>8, <1>9, <1>10, <1>11, <1>12, <2>1 DEF Lists, M
<1> QED BY <1>1, <1>13 DEF w

\* The search along a listed chain fails only if none of the blocks will do.
LEMMA FirstInFinds ==
  ASSUME NEW L, L \subseteq Ptr, NEW first, NEW link, NEW rank, NEW k,
         Lists(Walk(first, link), k, L, link, rank), NEW S, S \subseteq Ptr
  PROVE  /\ FirstIn(S, first, link) # Null => FirstIn(S, first, link) \in S \cap L
         /\ S \cap L # {} => FirstIn(S, first, link) # Null
<1> DEFINE w == Walk(first, link)
           met == {n \in 1..MaxBlocks : w[n] \in S}
<1>1. MaxBlocks \in Nat /\ Null \notin Ptr
  BY BlockBound DEF Null, Ptr
<1>2. FirstIn(S, first, link) = IF met = {} THEN Null ELSE w[Min(met)]
  BY DEF FirstIn
<1>3. \A n \in met : w[n] \in S \cap L
  BY <1>1 DEF Lists
<1>4. S \cap L # {} => met # {}
  <2> SUFFICES ASSUME NEW p \in S \cap L PROVE met # {}
    OBVIOUS
  <2>1. PICK n \in 1..k : w[n] = p
    BY DEF Lists
  <2>2. n \in 1..MaxBlocks
    BY <1>1, <2>1 DEF Lists
  <2> QED BY <2>1, <2>2
<1>5. met # {} => Min(met) \in met
  <2> SUFFICES ASSUME met # {} PROVE Min(met) \in met
    OBVIOUS
  <2>1. met \subseteq Nat
    BY <1>1
  <2> HIDE DEF met
  <2>2. \E m \in met : \A y \in met : m <= y
    BY <2>1, LeastElement
  <2> QED BY <2>2 DEF Min
<1> HIDE DEF w, met
<1> QED BY <1>1, <1>2, <1>3, <1>4, <1>5

SameUpTo(s, w, k) == \A n \in 1..k : s[n] = w[n]

LEMMA ChainLists ==
  ASSUME NEW L, L \subseteq Ptr, NEW first, NEW link, NEW rank, NEW k,
         Lists(Walk(first, link), k, L, link, rank)
  PROVE  /\ Chain(first, link) \in Seq(L) /\ Len(Chain(first, link)) = k
         /\ SameUpTo(Chain(first, link), Walk(first, link), k)
<1> DEFINE w == Walk(first, link)
           Met == {m \in 1..MaxBlocks : w[m] # Null}
<1>1. MaxBlocks \in Nat /\ Null \notin Ptr
  BY BlockBound DEF Null, Ptr
<1>2. k \in 1..MaxBlocks /\ \A n \in 1..k : w[n] \in L
  BY DEF Lists
<1>3. Met = 1..k
  <2>1. \A n \in 1..k : w[n] # Null /\ n \in 1..MaxBlocks
    BY <1>1, <1>2
  <2>2. \A n \in 1..MaxBlocks : n \notin 1..k => w[n] = Null
    BY <1>1, <1>2 DEF Lists
  <2> HIDE DEF w
  <2> QED BY <2>1, <2>2
<1>4. Cardinality(1..k) = k
  BY <1>2, <1>1, FS_Interval
<1>5. Chain(first, link) = [n \in 1..Cardinality(Met) |-> w[n]]
  BY DEF Chain
<1> HIDE DEF w, Met
<1>6. Chain(first, link) = [n \in 1..k |-> w[n]]
  BY <1>3, <1>4, <1>5
<1> QED BY <1>1, <1>2, <1>6 DEF w, SameUpTo

-----------------------------------------------------------------------------
(* The chains of an allocator whose blocks are linked and tile the range. *)

LEMMA Numbers ==
  /\ RangeStart \in Nat \ {0} /\ RangeSize \in Nat \ {0} /\ Grain \in Nat \ {0}
  /\ RangeEnd \in Nat /\ RangeStart < RangeEnd /\ RangeStart % Grain = 0
  /\ MaxBlocks \in Nat \ {0} /\ Null = 0 /\ Null \notin Ptr
BY RangeAssumption, BlockBound DEF RangeEnd, Null, Ptr

\* The fields of a live block.
LEMMA LiveBlock ==
  ASSUME NEW x, Tiled(x), NEW p \in Live(x)
  PROVE  /\ p \in Ptr /\ p # Null
         /\ x.blk[p].start \in Nat /\ x.blk[p].size \in Nat \ {0}
         /\ x.blk[p].taken \in BOOLEAN
         /\ x.blk[p].next \in Live(x) \cup {Null} /\ x.blk[p].prev \in Live(x) \cup {Null}
         /\ RangeStart <= x.blk[p].start /\ EndOf(x, p) <= RangeEnd
         /\ x.blk[p].start < EndOf(x, p) /\ EndOf(x, p) \in Nat
         /\ EndOf(x, p) = x.blk[p].start + x.blk[p].size
         /\ x.blk[p].start % Grain = 0
<1>1. p \in Ptr /\ x.blk[p] \in Block
  BY DEF Live, Tiled, Allocator
<1>2. x.blk[p].size > 0 /\ RangeStart <= x.blk[p].start /\ EndOf(x, p) <= RangeEnd
      /\ x.blk[p].start % Grain = 0
  BY DEF Tiled, InRange
<1>3. x.blk[p].start \in Nat /\ x.blk[p].size \in Nat /\ x.blk[p].taken \in BOOLEAN
  BY <1>1 DEF Block
<1>4. x.blk[p].next \in Live(x) \cup {Null} /\ x.blk[p].prev \in Live(x) \cup {Null}
  BY DEF Tiled, LinkedUp, LinkedDown
<1> QED BY <1>1, <1>2, <1>3, <1>4, Numbers DEF EndOf

Starts(x) == [p \in Ptr |-> x.blk[p].start]
Depths(x) == [p \in Ptr |-> IF p \in Live(x) THEN RangeEnd - x.blk[p].start ELSE 0]

LEMMA UpLists ==
  ASSUME NEW x, Tiled(x)
  PROVE  /\ Walk(x.bottom, NextLinks(x))[1] = x.bottom
         /\ \E k : Lists(Walk(x.bottom, NextLinks(x)), k, Live(x), NextLinks(x), Starts(x))
<1> DEFINE L == Live(x)
           first == x.bottom
           link == NextLinks(x)
           rank == Starts(x)
<1>1. L \subseteq Ptr /\ first \in L /\ rank \in [Ptr -> Nat]
  BY DEF Live, Tiled, Ends, Allocator, Block, Starts
<1>2. \A p \in L : link[p] = x.blk[p].next /\ rank[p] = x.blk[p].start
  BY DEF Live, NextLinks, Starts
<1>3. ASSUME NEW p \in L, link[p] # Null PROVE link[p] \in L /\ rank[p] < rank[link[p]]
  <2>1. link[p] \in L /\ x.blk[link[p]].start = EndOf(x, p)
    BY <1>2, <1>3 DEF Tiled, LinkedUp
  <2>2. x.blk[p].start < EndOf(x, p)
    BY LiveBlock
  <2> QED BY <1>2, <2>1, <2>2
<1>4. ASSUME NEW p \in L, p # first PROVE \E q \in L : link[q] = p /\ rank[q] < rank[p]
  <2> DEFINE q == x.blk[p].prev
  <2>1. q \in L /\ EndOf(x, q) = x.blk[p].start /\ x.blk[q].next = p
    BY <1>4 DEF Tiled, LinkedDown
  <2>2. x.blk[q].start < EndOf(x, q)
    BY <2>1, LiveBlock
  <2> QED BY <1>2, <2>1, <2>2
<1> HIDE DEF L, first, link, rank
<1>5. Walk(first, link)[1] = first /\ \E k : Lists(Walk(first, link), k, L, link, rank)
  BY <1>1, <1>3, <1>4, WalkLists
<1> QED BY <1>5 DEF L, first, link, rank

LEMMA DownLists ==
  ASSUME NEW x, Tiled(x)
  PROVE  /\ Walk(x.top, PrevLinks(x))[1] = x.top
         /\ \E k : Lists(Walk(x.top, PrevLinks(x)), k, Live(x), PrevLinks(x), Depths(x))
<1> DEFINE L == Live(x)
           first == x.top
           link == PrevLinks(x)
           rank == Depths(x)
<1>1. L \subseteq Ptr /\ first \in L
  BY DEF Live, Tiled, Ends
<1>2. \A p \in L : link[p] = x.blk[p].prev /\ rank[p] = RangeEnd - x.blk[p].start
  BY DEF Live, PrevLinks, Depths
<1>3. rank \in [Ptr -> Nat]
  <2>1. \A p \in L : RangeEnd - x.blk[p].start \in Nat
    BY LiveBlock, Numbers
  <2> QED BY <2>1 DEF Depths
<1>4. ASSUME NEW p \in L, link[p] # Null PROVE link[p] \in L /\ rank[p] < rank[link[p]]
  <2>1. link[p] \in L /\ EndOf(x, link[p]) = x.blk[p].start
    BY <1>2, <1>4 DEF Tiled, LinkedDown
  <2>2. x.blk[link[p]].start < EndOf(x, link[p])
    BY <2>1, LiveBlock
  <2>3. x.blk[p].start \in Nat /\ x.blk[link[p]].start \in Nat
    BY <2>1, LiveBlock
  <2> QED BY <1>2, <2>1, <2>2, <2>3, Numbers
<1>5. ASSUME NEW p \in L, p # first PROVE \E q \in L : link[q] = p /\ rank[q] < rank[p]
  <2> DEFINE q == x.blk[p].next
  <2>1. q \in L /\ EndOf(x, p) = x.blk[q].start /\ x.blk[q].prev = p
    BY <1>5 DEF Tiled, LinkedUp
  <2>2. x.blk[p].start < EndOf(x, p)
    BY LiveBlock
  <2>3. x.blk[p].start \in Nat /\ x.blk[q].start \in Nat
    BY <2>1, LiveBlock
  <2> HIDE DEF q
  <2>4. rank[q] < rank[p]
    BY <1>2, <2>1, <2>2, <2>3, Numbers
  <2> QED BY <1>2, <2>1, <2>4
<1> HIDE DEF L, first, link, rank
<1>6. Walk(first, link)[1] = first /\ \E k : Lists(Walk(first, link), k, L, link, rank)
  BY <1>1, <1>3, <1>4, <1>5, WalkLists
<1> QED BY <1>6 DEF L, first, link, rank

\* What a search finds is live and passes the test, and it finds a block if one does.
LEMMA SearchUp ==
  ASSUME NEW x, Tiled(x), NEW S, S \subseteq Ptr
  PROVE  /\ FirstIn(S, x.bottom, NextLinks(x)) # Null =>
              FirstIn(S, x.bottom, NextLinks(x)) \in S \cap Live(x)
         /\ S \cap Live(x) # {} => FirstIn(S, x.bottom, NextLinks(x)) # Null
<1>1. PICK k : Lists(Walk(x.bottom, NextLinks(x)), k, Live(x), NextLinks(x), Starts(x))
  BY UpLists
<1>2. Live(x) \subseteq Ptr
  BY DEF Live
<1> QED BY <1>1, <1>2, FirstInFinds

LEMMA SearchDown ==
  ASSUME NEW x, Tiled(x), NEW S, S \subseteq Ptr
  PROVE  /\ FirstIn(S, x.top, PrevLinks(x)) # Null =>
              FirstIn(S, x.top, PrevLinks(x)) \in S \cap Live(x)
         /\ S \cap Live(x) # {} => FirstIn(S, x.top, PrevLinks(x)) # Null
<1>1. PICK k : Lists(Walk(x.top, PrevLinks(x)), k, Live(x), PrevLinks(x), Depths(x))
  BY DownLists
<1>2. Live(x) \subseteq Ptr
  BY DEF Live
<1> QED BY <1>1, <1>2, FirstInFinds

\* Every address of the range is in a block.
LEMMA Covered ==
  ASSUME NEW x, Tiled(x), NEW addr \in Nat, RangeStart <= addr, addr < RangeEnd
  PROVE  \E p \in Live(x) : x.blk[p].start <= addr /\ addr < EndOf(x, p)
<1> DEFINE Below == {p \in Live(x) : x.blk[p].start <= addr}
           Gaps == {addr - x.blk[p].start : p \in Below}
<1>1. x.bottom \in Below
  BY DEF Tiled, Ends
<1>2. PICK g \in Gaps : \A y \in Gaps : g <= y
  <2>1. Gaps \subseteq Nat /\ Gaps # {}
    <3>1. ASSUME NEW p \in Below PROVE addr - x.blk[p].start \in Nat
      BY LiveBlock
    <3> QED BY <1>1, <3>1
  <2> HIDE DEF Gaps
  <2> QED BY <2>1, LeastElement
<1>3. PICK p \in Below : g = addr - x.blk[p].start
  BY <1>2
<1>4. p \in Live(x) /\ x.blk[p].start <= addr
  BY <1>3
<1>5. addr < EndOf(x, p)
  <2> SUFFICES ASSUME EndOf(x, p) <= addr PROVE FALSE
    BY <1>4, LiveBlock
  <2> DEFINE q == x.blk[p].next
  <2>1. q # Null
    BY <1>4, Numbers DEF Tiled, LinkedUp, Ends
  <2>2. q \in Live(x) /\ x.blk[q].start = EndOf(x, p)
    BY <1>4, <2>1 DEF Tiled, LinkedUp
  <2>3. /\ x.blk[p].start \in Nat /\ x.blk[q].start \in Nat
        /\ x.blk[p].start < EndOf(x, p)
    BY <1>4, <2>2, LiveBlock
  <2>4. q \in Below
    BY <2>2
  <2>5. addr - x.blk[q].start \in Gaps
    BY <2>4
  <2>6. g <= addr - x.blk[q].start
    BY <1>2, <2>5
  <2> HIDE DEF q, Below, Gaps
  <2> QED BY <1>3, <2>2, <2>3, <2>6
<1> QED BY <1>4, <1>5

\* The chain from the bottom: every live block once, each touching the one before.
LEMMA UpChainTiles ==
  ASSUME NEW x, Tiled(x)
  PROVE  \E k \in 1..MaxBlocks :
           /\ UpChain(x) \in Seq(Live(x)) /\ Len(UpChain(x)) = k
           /\ \A n \in 1..k : UpChain(x)[n] \in Live(x)
           /\ \A p \in Live(x) : \E n \in 1..k : UpChain(x)[n] = p
           /\ UpChain(x)[1] = x.bottom /\ UpChain(x)[k] = x.top
           /\ \A n \in 1..(k - 1) :
                /\ x.blk[UpChain(x)[n]].next = UpChain(x)[n + 1]
                /\ x.blk[UpChain(x)[n + 1]].prev = UpChain(x)[n]
                /\ EndOf(x, UpChain(x)[n]) = x.blk[UpChain(x)[n + 1]].start
           /\ \A i, j \in 1..k : i # j => UpChain(x)[i] # UpChain(x)[j]
<1> DEFINE w == Walk(x.bottom, NextLinks(x))
           up == UpChain(x)
<1>1. PICK k : Lists(w, k, Live(x), NextLinks(x), Starts(x))
  BY UpLists
<1>2. w[1] = x.bottom
  BY UpLists
<1>3. Live(x) \subseteq Ptr
  BY DEF Live
<1>4. up \in Seq(Live(x)) /\ Len(up) = k /\ \A n \in 1..k : up[n] = w[n]
  <2> DEFINE c == Chain(x.bottom, NextLinks(x))
  <2>1. c \in Seq(Live(x)) /\ Len(c) = k /\ \A n \in 1..k : c[n] = w[n]
    <3> DEFINE L == Live(x)
               first == x.bottom
               link == NextLinks(x)
               rank == Starts(x)
    <3>1. L \subseteq Ptr /\ Lists(Walk(first, link), k, L, link, rank)
      BY <1>1, <1>3
    <3> HIDE DEF L, first, link, rank
    <3>2. /\ Chain(first, link) \in Seq(L) /\ Len(Chain(first, link)) = k
          /\ SameUpTo(Chain(first, link), Walk(first, link), k)
      BY <3>1, ChainLists
    <3> QED BY <3>2 DEF L, first, link, SameUpTo
  <2>2. c = up
    BY DEF UpChain
  <2> HIDE DEF c
  <2> QED BY <2>1, <2>2
<1>5. k \in 1..MaxBlocks /\ MaxBlocks \in Nat
  BY <1>1, Numbers DEF Lists
<1>6. \A n \in 1..k : up[n] \in Live(x)
  BY <1>1, <1>4 DEF Lists
<1>7. \A p \in Live(x) : \E n \in 1..k : up[n] = p
  BY <1>1, <1>4 DEF Lists
<1>8. up[1] = x.bottom
  BY <1>2, <1>4, <1>5
<1>9. \A p \in Live(x) : NextLinks(x)[p] = x.blk[p].next /\ Starts(x)[p] = x.blk[p].start
  BY <1>3 DEF NextLinks, Starts
<1>10. up[k] = x.top
  <2>1. x.blk[up[k]].next = Null /\ up[k] \in Live(x)
    BY <1>1, <1>4, <1>5, <1>6, <1>9 DEF Lists
  <2> QED BY <2>1 DEF Tiled, LinkedUp
<1>11. ASSUME NEW n \in 1..(k - 1)
       PROVE  /\ x.blk[up[n]].next = up[n + 1] /\ x.blk[up[n + 1]].prev = up[n]
              /\ EndOf(x, up[n]) = x.blk[up[n + 1]].start
  <2>1. n \in 1..k /\ n + 1 \in 1..k
    BY <1>5
  <2>2. up[n] \in Live(x) /\ up[n + 1] \in Live(x)
    BY <1>6, <2>1
  <2>3. x.blk[up[n]].next = up[n + 1]
    <3>1. w[n + 1] = NextLinks(x)[w[n]]
      BY <1>1 DEF Lists
    <3> HIDE DEF w, up
    <3> QED BY <1>4, <1>9, <2>1, <2>2, <3>1
  <2>4. up[n + 1] # Null
    BY <1>3, <2>2, Numbers
  <2> QED BY <2>2, <2>3, <2>4 DEF Tiled, LinkedUp
<1>12. ASSUME NEW i \in 1..k, NEW j \in 1..k, i < j PROVE up[i] # up[j]
  <2>1. Starts(x)[up[i]] < Starts(x)[up[j]]
    BY <1>1, <1>4, <1>12 DEF Lists
  <2>2. Starts(x)[up[i]] \in Nat
    BY <1>6, <1>9, LiveBlock
  <2> HIDE DEF w, up
  <2> QED BY <2>1, <2>2
<1>13. \A i, j \in 1..k : i # j => up[i] # up[j]
  <2> TAKE i, j \in 1..k
  <2> HAVE i # j
  <2>1. i < j \/ j < i
    BY <1>5
  <2> HIDE DEF w, up
  <2> QED BY <1>12, <2>1
<1>14. k \in 1..MaxBlocks /\ up \in Seq(Live(x)) /\ Len(up) = k
  BY <1>4, <1>5
<1> HIDE DEF w, up
<1> QED BY <1>6, <1>7, <1>8, <1>10, <1>11, <1>13, <1>14 DEF up

\* The chain from the top is the same, the other way round.
LEMMA DownChainReverses ==
  ASSUME NEW x, Tiled(x)
  PROVE  Reverse(DownChain(x)) = UpChain(x)
<1> DEFINE w == Walk(x.top, PrevLinks(x))
           down == DownChain(x)
           up == UpChain(x)
<1>1. PICK m : Lists(w, m, Live(x), PrevLinks(x), Depths(x))
  BY DownLists
<1>2. w[1] = x.top
  BY DownLists
<1>3. Live(x) \subseteq Ptr
  BY DEF Live
<1>4. down \in Seq(Live(x)) /\ Len(down) = m /\ \A n \in 1..m : down[n] = w[n]
  <2> DEFINE c == Chain(x.top, PrevLinks(x))
  <2>1. c \in Seq(Live(x)) /\ Len(c) = m /\ \A n \in 1..m : c[n] = w[n]
    <3> DEFINE L == Live(x)
               first == x.top
               link == PrevLinks(x)
               rank == Depths(x)
    <3>1. L \subseteq Ptr /\ Lists(Walk(first, link), m, L, link, rank)
      BY <1>1, <1>3
    <3> HIDE DEF L, first, link, rank
    <3>2. /\ Chain(first, link) \in Seq(L) /\ Len(Chain(first, link)) = m
          /\ SameUpTo(Chain(first, link), Walk(first, link), m)
      BY <3>1, ChainLists
    <3> QED BY <3>2 DEF L, first, link, SameUpTo
  <2>2. c = down
    BY DEF DownChain
  <2> HIDE DEF c
  <2> QED BY <2>1, <2>2
<1>5. m \in 1..MaxBlocks /\ MaxBlocks \in Nat
  BY <1>1, Numbers DEF Lists
<1>6. \A n \in 1..m : down[n] \in Live(x)
  BY <1>1, <1>4 DEF Lists
<1>7. \A p \in Live(x) : PrevLinks(x)[p] = x.blk[p].prev
  BY <1>3 DEF PrevLinks
<1>8. PICK k \in 1..MaxBlocks :
        /\ up \in Seq(Live(x)) /\ Len(up) = k
        /\ \A n \in 1..k : up[n] \in Live(x)
        /\ up[1] = x.bottom /\ up[k] = x.top
        /\ \A n \in 1..(k - 1) : x.blk[up[n + 1]].prev = up[n]
        /\ \A i, j \in 1..k : i # j => up[i] # up[j]
  BY UpChainTiles
<1>9. \A n \in 1..(m - 1) : down[n + 1] = x.blk[down[n]].prev
  <2> TAKE n \in 1..(m - 1)
  <2>1. n \in 1..m /\ n + 1 \in 1..m
    BY <1>5
  <2>2. w[n + 1] = PrevLinks(x)[w[n]]
    BY <1>1 DEF Lists
  <2> QED BY <1>4, <1>6, <1>7, <2>1, <2>2
<1>10. x.blk[down[m]].prev = Null
  <2>1. PrevLinks(x)[w[m]] = Null /\ m \in 1..m
    BY <1>1, <1>5 DEF Lists
  <2> QED BY <1>4, <1>6, <1>7, <2>1
<1>11. down[1] = up[k]
  BY <1>2, <1>4, <1>5, <1>8
<1>12. x.blk[up[1]].prev = Null
  BY <1>8 DEF Tiled, Ends
<1>13. \A p \in Live(x) : p # Null
  BY <1>3, Numbers
<1> HIDE DEF w, down, up
<1> DEFINE G == {n \in 0..m : n = 0 \/ (n <= k /\ down[n] = up[k - n + 1])}
<1>14. ASSUME NEW n \in 1..m, n - 1 \in G PROVE n \in G
  <2>1. CASE n = 1
    BY <1>5, <1>8, <1>11, <2>1
  <2>2. CASE n # 1
    <3>1. n - 1 \in 1..(m - 1) /\ n - 1 \in 1..k /\ down[n - 1] = up[k - (n - 1) + 1]
      BY <1>5, <1>8, <1>14, <2>2
    <3>2. down[n] = x.blk[down[n - 1]].prev
      BY <1>5, <1>9, <3>1
    <3>3. CASE n - 1 = k
      <4>1. down[n] = Null
        BY <1>8, <1>12, <3>1, <3>2, <3>3
      <4> QED BY <1>6, <1>13, <4>1
    <3>4. CASE n - 1 # k
      <4> DEFINE i == k - (n - 1)
      <4>1. i \in 1..(k - 1) /\ i + 1 = k - (n - 1) + 1 /\ i = k - n + 1 /\ n <= k
        BY <1>5, <1>8, <3>1, <3>4
      <4> HIDE DEF i
      <4>2. x.blk[up[i + 1]].prev = up[i] /\ down[n - 1] = up[i + 1]
        BY <1>8, <3>1, <4>1
      <4> QED BY <3>2, <4>1, <4>2
    <3> QED BY <3>3, <3>4
  <2> QED BY <2>1, <2>2
<1>15. \A n \in 1..m : n <= k /\ down[n] = up[k - n + 1]
  <2>1. \A n \in 1..m : n - 1 \in G => n \in G
    BY <1>14
  <2>2. 0 \in G /\ m \in Nat
    BY <1>5
  <2> HIDE DEF G
  <2>3. \A n \in 0..m : n \in G
    BY <2>1, <2>2, SetInduction
  <2> QED BY <1>5, <2>3 DEF G
<1>16. m = k
  <2> SUFFICES ASSUME m # k PROVE FALSE
    OBVIOUS
  <2>1. m \in 1..m /\ m < k
    <3>1. m \in 1..m /\ k \in 1..MaxBlocks
      BY <1>5, <1>8
    <3>2. m <= k
      BY <1>15, <3>1
    <3> QED BY <1>5, <3>1, <3>2
  <2> DEFINE i == k - m
  <2>2. i \in 1..(k - 1) /\ k - m + 1 = i + 1 /\ i \in 1..k
    BY <1>5, <1>8, <2>1
  <2> HIDE DEF i
  <2>3. down[m] = up[i + 1]
    BY <1>15, <2>1, <2>2
  <2>4. x.blk[down[m]].prev = up[i]
    BY <1>8, <2>2, <2>3
  <2> QED BY <1>8, <1>10, <1>13, <2>2, <2>4
<1>17. Reverse(down) = [i \in 1..k |-> down[(k - i) + 1]]
  BY <1>4, <1>16 DEF Reverse
<1>18. \A i \in 1..k : down[(k - i) + 1] = up[i]
  <2> TAKE i \in 1..k
  <2> DEFINE n == (k - i) + 1
  <2>1. n \in 1..m /\ k - n + 1 = i
    BY <1>8, <1>16
  <2> HIDE DEF n
  <2>2. down[n] = up[i]
    BY <1>15, <2>1
  <2> QED BY <2>2 DEF n
<1>19. up = [i \in 1..k |-> up[i]]
  BY <1>8
<1>20. Reverse(down) = up
  BY <1>17, <1>18, <1>19
<1> QED BY <1>20 DEF down, up

\* An invariant allocator is as BlocksInv says.
LEMMA BlocksInvFollows ==
  ASSUME IInv
  PROVE  BlocksInv
<1> DEFINE up == UpChain(a)
<1>1. Tiled(a) /\ MergedBut(a, Null)
  BY DEF IInv
<1>2. PICK k \in 1..MaxBlocks :
        /\ up \in Seq(Live(a)) /\ Len(up) = k
        /\ \A n \in 1..k : up[n] \in Live(a)
        /\ \A p \in Live(a) : \E n \in 1..k : up[n] = p
        /\ up[1] = a.bottom /\ up[k] = a.top
        /\ \A n \in 1..(k - 1) : /\ a.blk[up[n]].next = up[n + 1]
                                 /\ EndOf(a, up[n]) = a.blk[up[n + 1]].start
  BY <1>1, UpChainTiles
<1>3. Reverse(DownChain(a)) = up
  BY <1>1, DownChainReverses
<1> HIDE DEF up
<1>4. Head(up) = a.bottom /\ up # <<>> /\ DOMAIN up = 1..k
  BY <1>2
<1>5. ToSet(up) = Live(a)
  <2>1. ToSet(up) = {up[n] : n \in 1..k}
    BY <1>4 DEF ToSet
  <2> QED BY <1>2, <2>1
<1>6. a.blk[a.bottom].start = RangeStart /\ EndOf(a, a.top) = RangeEnd
  BY <1>1 DEF Tiled, Ends
<1>7. BlocksTileRange
  <2>1. \A i \in 1..(Len(up) - 1) : EndOf(a, up[i]) = a.blk[up[i + 1]].start
    BY <1>2
  <2> QED BY <1>2, <1>3, <1>4, <1>5, <1>6, <2>1 DEF BlocksTileRange, up
<1>8. FreeBlocksMerged
  <2>1. \A p \in Live(a) : a.blk[p].size > 0
    BY <1>1 DEF Tiled, InRange
  <2>2. \A p \in Live(a) : p # Null
    BY Numbers DEF Live
  <2>3. ASSUME NEW i \in 1..(Len(up) - 1)
        PROVE  a.blk[up[i]].taken \/ a.blk[up[i + 1]].taken
    <3>1. i \in 1..(k - 1) /\ i \in 1..k /\ i + 1 \in 1..k
      BY <1>2, <2>3
    <3>2. up[i] \in Live(a) /\ up[i + 1] \in Live(a) /\ a.blk[up[i]].next = up[i + 1]
      BY <1>2, <3>1
    <3> QED BY <1>1, <2>2, <3>2 DEF MergedBut
  <2> QED BY <2>1, <2>3 DEF FreeBlocksMerged, up
<1>9. BlocksTypeOK
  BY <1>1 DEF Tiled, BlocksTypeOK
<1> QED BY <1>7, <1>8, <1>9 DEF BlocksInv

-----------------------------------------------------------------------------
(* Multiples of a grain. *)

LEMMA Multiple ==
  ASSUME NEW y \in Int, NEW n \in Nat \ {0}
  PROVE  y % n = 0 <=> \E q \in Int : y = n * q
<1>1. ASSUME y % n = 0 PROVE \E q \in Int : y = n * q
  <2>1. y \div n \in Int /\ y = n * (y \div n) + 0
    BY <1>1, Division
  <2>2. n * (y \div n) \in Int
    BY <2>1
  <2>3. y = n * (y \div n)
    BY <2>1, <2>2
  <2> QED BY <2>1, <2>3
<1>2. ASSUME NEW q \in Int, y = n * q PROVE y % n = 0
  <2>1. 0 \in 0..(n - 1) /\ n * q + 0 = n * q
    OBVIOUS
  <2> QED BY <1>2, <2>1, Remainder
<1> QED BY <1>1, <1>2

LEMMA MultiplesAdd ==
  ASSUME NEW y \in Int, NEW z \in Int, NEW n \in Nat \ {0}, y % n = 0, z % n = 0
  PROVE  (y + z) % n = 0 /\ (y - z) % n = 0
<1>1. PICK p \in Int, q \in Int : y = n * p /\ z = n * q
  BY Multiple
<1>2. n * (p + q) = n * p + n * q /\ n * (p - q) = n * p - n * q
  OBVIOUS
<1>3. y + z = n * (p + q) /\ y - z = n * (p - q)
  BY <1>1, <1>2
<1>4. p + q \in Int /\ p - q \in Int /\ y + z \in Int /\ y - z \in Int
  OBVIOUS
<1> QED BY <1>3, <1>4, Multiple

LEMMA MultipleOfMultiple ==
  ASSUME NEW y \in Int, NEW m \in Nat \ {0}, NEW n \in Nat \ {0}, y % m = 0, m % n = 0
  PROVE  y % n = 0
<1>1. PICK p \in Int, q \in Int : y = m * p /\ m = n * q
  <2>1. PICK p \in Int : y = m * p
    BY Multiple
  <2>2. m \in Int /\ \E q \in Int : m = n * q
    BY Multiple
  <2> QED BY <2>1, <2>2
<1>2. (n * q) * p = n * (q * p) /\ q * p \in Int
  OBVIOUS
<1>3. y = n * (q * p)
  BY <1>1, <1>2
<1> QED BY <1>2, <1>3, Multiple

\* A multiple of n that is above -n is not negative, and one above 0 is n or more.
LEMMA MultipleSteps ==
  ASSUME NEW y \in Int, NEW n \in Nat \ {0}, y % n = 0
  PROVE  /\ y > -n => y >= 0
         /\ y > 0 => y >= n
<1>1. PICK q \in Int : y = n * q
  BY Multiple
<1>2. /\ n * q \in Int /\ (q >= 0 => n * q >= 0) /\ (q >= 1 => n * q >= n)
      /\ (q < 0 => n * q <= -n)
  BY ProductGrows
<1>3. q = 0 => n * q = 0
  OBVIOUS
<1> DEFINE z == n * q
<1> HIDE DEF z
<1>4. y = z /\ z \in Int /\ (q >= 0 => z >= 0) /\ (q >= 1 => z >= n) /\ (q < 0 => z <= -n)
      /\ (q = 0 => z = 0)
  BY <1>1, <1>2, <1>3 DEF z
<1> QED BY <1>4

\* The first multiple of g from s upwards, and the last up to e.
LEMMA NextMultiple ==
  ASSUME NEW s \in Int, NEW g \in Nat \ {0}
  PROVE  /\ (-s) % g \in 0..(g - 1) /\ (s + ((-s) % g)) % g = 0
         /\ \A t \in Int : t >= s /\ t % g = 0 => s + ((-s) % g) <= t
<1> DEFINE o == (-s) % g
           p == (-s) \div g
<1>1. -s \in Int
  OBVIOUS
<1>2. p \in Int /\ o \in 0..(g - 1) /\ -s = g * p + o
  BY <1>1, Division
<1>3. g * (-p) = -(g * p) /\ g * p \in Int
  BY <1>2
<1> HIDE DEF o, p
<1>4. s + o = g * (-p) /\ -p \in Int /\ s + o \in Int
  BY <1>2, <1>3
<1>5. (s + o) % g = 0
  BY <1>4, Multiple
<1>6. ASSUME NEW t \in Int, t >= s, t % g = 0 PROVE s + o <= t
  <2>1. (t - (s + o)) % g = 0
    BY <1>4, <1>5, <1>6, MultiplesAdd
  <2>2. t - (s + o) \in Int /\ t - (s + o) > -g
    BY <1>2, <1>6
  <2>3. t - (s + o) >= 0
    BY <2>1, <2>2, MultipleSteps
  <2> QED BY <1>2, <2>3
<1> QED BY <1>2, <1>5, <1>6 DEF o

LEMMA LastMultiple ==
  ASSUME NEW e \in Int, NEW g \in Nat \ {0}
  PROVE  /\ e % g \in 0..(g - 1) /\ (e - (e % g)) % g = 0
         /\ \A t \in Int : t <= e /\ t % g = 0 => t <= e - (e % g)
<1> DEFINE o == e % g
           p == e \div g
<1>1. p \in Int /\ o \in 0..(g - 1) /\ e = g * p + o
  BY Division
<1>2. g * p \in Int
  BY <1>1
<1> HIDE DEF o, p
<1>3. e - o = g * p /\ e - o \in Int
  BY <1>1, <1>2
<1>4. (e - o) % g = 0
  BY <1>1, <1>3, Multiple
<1>5. ASSUME NEW t \in Int, t <= e, t % g = 0 PROVE t <= e - o
  <2>1. ((e - o) - t) % g = 0
    BY <1>3, <1>4, <1>5, MultiplesAdd
  <2>2. (e - o) - t \in Int /\ (e - o) - t > -g
    BY <1>1, <1>5
  <2>3. (e - o) - t >= 0
    BY <2>1, <2>2, MultipleSteps
  <2> QED BY <1>1, <2>3
<1> QED BY <1>1, <1>4, <1>5 DEF o

LEMMA AlignedUp ==
  ASSUME NEW n \in Nat, NEW g \in Nat \ {0}
  PROVE  /\ AlignUp(n, g) \in Nat /\ AlignUp(n, g) % g = 0
         /\ n <= AlignUp(n, g) /\ AlignUp(n, g) < n + g
<1> DEFINE y == n + g - 1
           q == y \div g
           r == y % g
           z == AlignUp(n, g)
<1>1. y \in Int
  OBVIOUS
<1>2. q \in Int /\ r \in 0..(g - 1) /\ y = g * q + r
  BY <1>1, Division
<1>3. z = q * g /\ q * g = g * q
  BY <1>2 DEF AlignUp
<1>4. g * q \in Int
  BY <1>2
<1>5. y = n + g - 1
  OBVIOUS
<1> HIDE DEF y, q, r, z
<1>6. z \in Int /\ z = y - r
  BY <1>1, <1>2, <1>3, <1>4
<1>7. z % g = 0
  BY <1>2, <1>3, <1>6, Multiple
<1>8. n <= z /\ z < n + g
  BY <1>2, <1>5, <1>6
<1> QED BY <1>6, <1>7, <1>8 DEF z

\* The grains of a request, once they are at least the allocator's.
LEMMA RequestedGrain ==
  ASSUME NEW g \in Grains, NEW i \in {1, 2}
  PROVE  /\ AtLeastGrain(g[i]) \in Nat \ {0} /\ AtLeastGrain(g[i]) % Grain = 0
         /\ Grain <= AtLeastGrain(g[i])
<1>1. g[i] \in Nat \ {0}
  BY RequestAssumption
<1>2. Grain \in Nat \ {0}
  BY Numbers
<1>3. Grain % Grain = 0
  <2>1. Grain = Grain * 1
    BY <1>2
  <2> QED BY <1>2, <2>1, Multiple
<1> QED BY <1>1, <1>2, <1>3, GrainAssumption DEF AtLeastGrain

-----------------------------------------------------------------------------
(* An allocation fails only if nothing fits. *)

\* A place that overlaps nothing held lies inside one free block.
LEMMA PlaceInBlock ==
  ASSUME IInv, NEW addr \in Nat, NEW n \in Nat \ {0}, FitsAt(addr, n)
  PROVE  \E p \in Live(a) : /\ ~a.blk[p].taken
                            /\ a.blk[p].start <= addr /\ addr + n <= EndOf(a, p)
<1>1. Tiled(a) /\ MergedBut(a, Null)
  BY DEF IInv
<1>2. /\ RangeStart <= addr /\ addr + n <= RangeEnd
      /\ \A p \in Held : addr + n <= a.blk[p].start \/ EndOf(a, p) <= addr
  BY DEF FitsAt
<1>3. PICK p \in Live(a) : a.blk[p].start <= addr /\ addr < EndOf(a, p)
  <2>1. addr < RangeEnd
    BY <1>2, Numbers
  <2> QED BY <1>1, <1>2, <2>1, Covered
<1>4. a.blk[p].start \in Nat /\ EndOf(a, p) \in Nat /\ p # Null
  BY <1>1, LiveBlock
<1>5. ~a.blk[p].taken
  <2> SUFFICES ASSUME a.blk[p].taken PROVE FALSE
    OBVIOUS
  <2>1. p \in Held
    BY DEF Held
  <2>2. addr + n <= a.blk[p].start \/ EndOf(a, p) <= addr
    BY <1>2, <2>1
  <2> QED BY <1>3, <1>4, <2>2
<1>6. addr + n <= EndOf(a, p)
  <2> SUFFICES ASSUME EndOf(a, p) < addr + n PROVE FALSE
    BY <1>4
  <2> DEFINE q == a.blk[p].next
  <2>1. q # Null
    <3> SUFFICES ASSUME q = Null PROVE FALSE
      OBVIOUS
    <3>1. EndOf(a, p) = RangeEnd
      BY <1>1 DEF Tiled, LinkedUp, Ends
    <3> QED BY <1>2, <1>4, <3>1, Numbers
  <2>2. q \in Live(a) /\ a.blk[q].start = EndOf(a, p)
    BY <1>1, <2>1 DEF Tiled, LinkedUp
  <2>3. q # Null /\ p # Null
    BY <1>4, <2>1
  <2>4. a.blk[q].taken
    BY <1>1, <1>5, <2>3 DEF MergedBut
  <2>5. q \in Held
    BY <2>2, <2>4 DEF Held
  <2>6. addr + n <= a.blk[q].start \/ EndOf(a, q) <= addr
    BY <1>2, <2>5
  <2>7. a.blk[q].start < EndOf(a, q) /\ a.blk[q].start \in Nat /\ EndOf(a, q) \in Nat
    BY <1>1, <2>2, LiveBlock
  <2> HIDE DEF q
  <2> QED BY <1>3, <1>4, <2>2, <2>6, <2>7
<1> QED BY <1>3, <1>5, <1>6

LEMMA AllocatesFollows ==
  ASSUME IInv
  PROVE  AllocatesIfItFits
<1> SUFFICES ASSUME NEW size \in Sizes, NEW g \in Grains, NEW addr \in RangeStart..RangeEnd,
                    addr % AtLeastGrain(g[2]) = 0,
                    FitsAt(addr, AlignUp(size, AtLeastGrain(g[1])))
             PROVE  /\ FitLow(a, AlignUp(size, AtLeastGrain(g[1])), AtLeastGrain(g[2])) # Null
                    /\ FitHigh(a, AlignUp(size, AtLeastGrain(g[1])), AtLeastGrain(g[2])) # Null
  BY DEF AllocatesIfItFits
<1> DEFINE grain == AtLeastGrain(g[2])
           n == AlignUp(size, AtLeastGrain(g[1]))
<1>1. grain \in Nat \ {0} /\ n \in Nat \ {0}
  <2>1. size \in Nat \ {0}
    BY RequestAssumption
  <2>2. AtLeastGrain(g[1]) \in Nat \ {0} /\ AtLeastGrain(g[2]) \in Nat \ {0}
    BY RequestedGrain
  <2>3. n \in Nat /\ size <= n
    BY <2>1, <2>2, AlignedUp
  <2> QED BY <2>1, <2>2, <2>3
<1>2. addr \in Nat /\ addr % grain = 0 /\ FitsAt(addr, n)
  BY Numbers
<1> HIDE DEF grain, n
<1>3. PICK p \in Live(a) : /\ ~a.blk[p].taken
                           /\ a.blk[p].start <= addr /\ addr + n <= EndOf(a, p)
  BY <1>1, <1>2, PlaceInBlock
<1>4. Tiled(a)
  BY DEF IInv
<1>5. /\ p \in Ptr /\ a.blk[p].start \in Nat /\ a.blk[p].size \in Nat
      /\ EndOf(a, p) = a.blk[p].start + a.blk[p].size
  BY <1>4, LiveBlock
<1>6. FitLow(a, n, grain) # Null
  <2> DEFINE S == {q \in Ptr : ~a.blk[q].taken /\
                               a.blk[q].size >= OffsetLow(a, q, grain) + n}
             s == a.blk[p].start
             o == (-s) % grain
  <2>1. s + o <= addr /\ o \in 0..(grain - 1)
    <3>1. s \in Int /\ addr \in Int /\ addr >= s
      BY <1>2, <1>3, <1>5
    <3> HIDE DEF s
    <3> QED BY <1>1, <1>2, <3>1, NextMultiple
  <2>2. OffsetLow(a, p, grain) = o
    BY DEF OffsetLow
  <2> HIDE DEF o
  <2>3. a.blk[p].size >= o + n
    BY <1>1, <1>2, <1>3, <1>5, <2>1
  <2>4. p \in S
    BY <1>3, <1>5, <2>2, <2>3
  <2>5. S \subseteq Ptr /\ S \cap Live(a) # {}
    BY <2>4
  <2>6. FitLow(a, n, grain) = FirstIn(S, a.bottom, NextLinks(a))
    BY DEF FitLow
  <2> HIDE DEF S
  <2> QED BY <1>4, <2>5, <2>6, SearchUp
<1>7. FitHigh(a, n, grain) # Null
  <2> DEFINE S == {q \in Ptr : ~a.blk[q].taken /\
                               a.blk[q].size >= OffsetHigh(a, q, n, grain) + n}
             e == EndOf(a, p) - n
             o == e % grain
  <2>1. e \in Int /\ addr <= e
    BY <1>1, <1>2, <1>3, <1>5
  <2>2. addr <= e - o /\ o \in 0..(grain - 1)
    <3>1. e \in Int /\ addr \in Int /\ addr <= e
      BY <1>2, <2>1
    <3> HIDE DEF e
    <3> QED BY <1>1, <1>2, <3>1, LastMultiple
  <2>3. OffsetHigh(a, p, n, grain) = o
    BY DEF OffsetHigh
  <2>4. e = EndOf(a, p) - n
    OBVIOUS
  <2> HIDE DEF e, o
  <2>5. a.blk[p].size >= o + n
    BY <1>1, <1>2, <1>3, <1>5, <2>2, <2>4
  <2>6. p \in S
    BY <1>3, <1>5, <2>3, <2>5
  <2>7. S \subseteq Ptr /\ S \cap Live(a) # {}
    BY <2>6
  <2>8. FitHigh(a, n, grain) = FirstIn(S, a.top, PrevLinks(a))
    BY DEF FitHigh
  <2> HIDE DEF S
  <2> QED BY <1>4, <2>7, <2>8, SearchDown
<1> QED BY <1>6, <1>7 DEF grain, n

-----------------------------------------------------------------------------
(* Splitting a free block in two. *)

\* y is x with p, which is free, split into lo and hi; one of them is p itself.
Split(x, y, p, lo, hi) ==
  /\ y \in Allocator /\ lo \in Ptr /\ hi \in Ptr /\ lo # hi
  /\ lo \notin Live(x) \ {p} /\ hi \notin Live(x) \ {p}
  /\ Live(y) = (Live(x) \ {p}) \cup {lo, hi}
  /\ y.blk[lo].start = x.blk[p].start /\ y.blk[lo].size > 0
  /\ y.blk[hi].start = EndOf(y, lo) /\ y.blk[hi].size > 0
  /\ EndOf(y, hi) = EndOf(x, p) /\ y.blk[hi].start % Grain = 0
  /\ y.blk[lo].prev = x.blk[p].prev /\ y.blk[lo].next = hi
  /\ y.blk[hi].prev = lo /\ y.blk[hi].next = x.blk[p].next
  /\ ~x.blk[p].taken /\ ~y.blk[lo].taken /\ ~y.blk[hi].taken
  /\ \A q \in Live(x) \ {p} :
       /\ y.blk[q].start = x.blk[q].start /\ y.blk[q].size = x.blk[q].size
       /\ y.blk[q].taken <=> x.blk[q].taken
       /\ y.blk[q].next = IF q = x.blk[p].prev THEN lo ELSE x.blk[q].next
       /\ y.blk[q].prev = IF q = x.blk[p].next THEN hi ELSE x.blk[q].prev
  /\ y.bottom = IF x.blk[p].prev = Null THEN lo ELSE x.bottom
  /\ y.top = IF x.blk[p].next = Null THEN hi ELSE x.top

LEMMA SplitTiled ==
  ASSUME NEW x, NEW y, NEW p \in Live(x), NEW lo, NEW hi, Tiled(x), Split(x, y, p, lo, hi)
  PROVE  Tiled(y)
<1> DEFINE Others == Live(x) \ {p}
<1>1. /\ y \in Allocator /\ lo \in Ptr /\ hi \in Ptr /\ lo # hi
      /\ lo \notin Others /\ hi \notin Others /\ Live(y) = Others \cup {lo, hi}
      /\ lo # Null /\ hi # Null /\ p # Null
  BY Numbers DEF Split, Live
<1>2. /\ x.blk[p].start \in Nat /\ EndOf(x, p) \in Nat
      /\ RangeStart <= x.blk[p].start /\ EndOf(x, p) <= RangeEnd
      /\ x.blk[p].start < EndOf(x, p) /\ x.blk[p].start % Grain = 0
  BY LiveBlock
<1>3. /\ y.blk[lo].start \in Nat /\ y.blk[lo].size \in Nat
      /\ y.blk[hi].start \in Nat /\ y.blk[hi].size \in Nat
  BY <1>1 DEF Allocator, Block
<1>4. /\ y.blk[lo].start = x.blk[p].start /\ y.blk[lo].start < EndOf(y, lo)
      /\ EndOf(y, lo) \in Nat /\ EndOf(y, hi) \in Nat
      /\ y.blk[hi].start = EndOf(y, lo) /\ y.blk[hi].start < EndOf(y, hi)
      /\ EndOf(y, hi) = EndOf(x, p) /\ y.blk[hi].start % Grain = 0
      /\ y.blk[lo].size > 0 /\ y.blk[hi].size > 0
  BY <1>3 DEF Split, EndOf
<1>5. /\ y.blk[lo].prev = x.blk[p].prev /\ y.blk[lo].next = hi
      /\ y.blk[hi].prev = lo /\ y.blk[hi].next = x.blk[p].next
      /\ y.bottom = IF x.blk[p].prev = Null THEN lo ELSE x.bottom
      /\ y.top = IF x.blk[p].next = Null THEN hi ELSE x.top
  BY DEF Split
<1>6. ASSUME NEW q \in Others
      PROVE  /\ y.blk[q].start = x.blk[q].start /\ EndOf(y, q) = EndOf(x, q)
             /\ y.blk[q].size = x.blk[q].size
             /\ y.blk[q].next = IF q = x.blk[p].prev THEN lo ELSE x.blk[q].next
             /\ y.blk[q].prev = IF q = x.blk[p].next THEN hi ELSE x.blk[q].prev
             /\ x.blk[q].start \in Nat /\ EndOf(x, q) \in Nat
             /\ x.blk[q].start < EndOf(x, q)
  BY LiveBlock DEF Split, EndOf
<1>7. InRange(y)
  <2> SUFFICES ASSUME NEW q \in Live(y)
               PROVE  /\ y.blk[q].size > 0 /\ RangeStart <= y.blk[q].start
                      /\ EndOf(y, q) <= RangeEnd /\ y.blk[q].start % Grain = 0
    BY DEF InRange
  <2>1. CASE q \in Others
    BY <1>6, <2>1 DEF Tiled, InRange
  <2>2. CASE q = lo
    BY <1>2, <1>4, <2>2, Numbers
  <2>3. CASE q = hi
    BY <1>2, <1>4, <2>3, Numbers
  <2> QED BY <1>1, <2>1, <2>2, <2>3
\* The neighbours of p.
<1>8. x.blk[p].next # Null => /\ x.blk[p].next \in Others
                              /\ x.blk[x.blk[p].next].start = EndOf(x, p)
                              /\ x.blk[x.blk[p].next].prev = p
  <2>1. x.blk[p].next # Null => /\ x.blk[p].next \in Live(x)
                                /\ x.blk[x.blk[p].next].start = EndOf(x, p)
                                /\ x.blk[x.blk[p].next].prev = p
    BY DEF Tiled, LinkedUp
  <2> QED BY <1>2, <2>1
<1>9. x.blk[p].prev # Null => /\ x.blk[p].prev \in Others
                              /\ EndOf(x, x.blk[p].prev) = x.blk[p].start
                              /\ x.blk[x.blk[p].prev].next = p
  <2>1. x.blk[p].prev # Null => /\ x.blk[p].prev \in Live(x)
                                /\ EndOf(x, x.blk[p].prev) = x.blk[p].start
                                /\ x.blk[x.blk[p].prev].next = p
    BY DEF Tiled, LinkedDown
  <2>2. x.blk[p].prev # p
    <3>1. EndOf(x, p) # x.blk[p].start
      BY <1>2
    <3> QED BY <1>1, <2>1, <3>1
  <2> QED BY <2>1, <2>2
<1>10. LinkedUp(y)
  <2> SUFFICES ASSUME NEW q \in Live(y)
               PROVE  IF y.blk[q].next = Null THEN q = y.top
                      ELSE /\ y.blk[q].next \in Live(y)
                           /\ y.blk[y.blk[q].next].start = EndOf(y, q)
                           /\ y.blk[y.blk[q].next].prev = q
    BY DEF LinkedUp
  <2>1. CASE q = lo
    BY <1>1, <1>4, <1>5, <2>1
  <2>2. CASE q = hi
    <3>1. CASE x.blk[p].next = Null
      BY <1>5, <2>2, <3>1
    <3>2. CASE x.blk[p].next # Null
      BY <1>1, <1>4, <1>5, <1>6, <1>8, <2>2, <3>2
    <3> QED BY <3>1, <3>2
  <2>3. CASE q \in Others
    <3>1. CASE q = x.blk[p].prev
      <4>1. x.blk[p].prev # Null
        BY <1>1, <2>3, <3>1, Numbers DEF Live
      <4> QED BY <1>1, <1>4, <1>5, <1>6, <1>9, <2>3, <3>1, <4>1
    <3>2. CASE q # x.blk[p].prev
      <4> DEFINE m == x.blk[q].next
      <4>1. y.blk[q].next = m /\ EndOf(y, q) = EndOf(x, q)
        BY <1>6, <2>3, <3>2
      <4>2. IF m = Null THEN q = x.top
            ELSE m \in Live(x) /\ x.blk[m].start = EndOf(x, q) /\ x.blk[m].prev = q
        BY <2>3 DEF Tiled, LinkedUp
      <4>3. CASE m = Null
        <5>1. q = x.top /\ q # p
          BY <2>3, <4>2, <4>3
        <5>2. x.blk[p].next # Null
          BY <5>1 DEF Tiled, LinkedUp
        <5> QED BY <1>5, <4>1, <4>3, <5>1, <5>2
      <4>4. CASE m # Null
        <5>1. m \in Others /\ x.blk[m].start = EndOf(x, q) /\ x.blk[m].prev = q
          BY <3>2, <4>2, <4>4
        <5>2. m # x.blk[p].next
          BY <1>8, <2>3, <4>4, <5>1
        <5>3. y.blk[m].start = x.blk[m].start /\ y.blk[m].prev = x.blk[m].prev
          BY <1>6, <5>1, <5>2
        <5> HIDE DEF m
        <5> QED BY <1>1, <4>1, <4>4, <5>1, <5>3
      <4> QED BY <4>3, <4>4
    <3> QED BY <3>1, <3>2
  <2> QED BY <1>1, <2>1, <2>2, <2>3
<1>11. LinkedDown(y)
  <2> SUFFICES ASSUME NEW q \in Live(y)
               PROVE  IF y.blk[q].prev = Null THEN q = y.bottom
                      ELSE /\ y.blk[q].prev \in Live(y)
                           /\ EndOf(y, y.blk[q].prev) = y.blk[q].start
                           /\ y.blk[y.blk[q].prev].next = q
    BY DEF LinkedDown
  <2>1. CASE q = hi
    BY <1>1, <1>4, <1>5, <2>1
  <2>2. CASE q = lo
    <3>1. CASE x.blk[p].prev = Null
      BY <1>5, <2>2, <3>1
    <3>2. CASE x.blk[p].prev # Null
      BY <1>1, <1>4, <1>5, <1>6, <1>9, <2>2, <3>2
    <3> QED BY <3>1, <3>2
  <2>3. CASE q \in Others
    <3>1. CASE q = x.blk[p].next
      <4>1. x.blk[p].next # Null
        BY <1>1, <2>3, <3>1, Numbers DEF Live
      <4> QED BY <1>1, <1>4, <1>5, <1>6, <1>8, <2>3, <3>1, <4>1
    <3>2. CASE q # x.blk[p].next
      <4> DEFINE m == x.blk[q].prev
      <4>1. y.blk[q].prev = m /\ y.blk[q].start = x.blk[q].start
        BY <1>6, <2>3, <3>2
      <4>2. IF m = Null THEN q = x.bottom
            ELSE m \in Live(x) /\ EndOf(x, m) = x.blk[q].start /\ x.blk[m].next = q
        BY <2>3 DEF Tiled, LinkedDown
      <4>3. CASE m = Null
        <5>1. q = x.bottom /\ q # p
          BY <2>3, <4>2, <4>3
        <5>2. x.blk[p].prev # Null
          BY <5>1 DEF Tiled, LinkedDown
        <5> QED BY <1>5, <4>1, <4>3, <5>1, <5>2
      <4>4. CASE m # Null
        <5>1. m \in Others /\ EndOf(x, m) = x.blk[q].start /\ x.blk[m].next = q
          BY <3>2, <4>2, <4>4
        <5>2. m # x.blk[p].prev
          BY <1>9, <2>3, <4>4, <5>1
        <5>3. EndOf(y, m) = EndOf(x, m) /\ y.blk[m].next = x.blk[m].next
          BY <1>6, <5>1, <5>2
        <5> HIDE DEF m
        <5> QED BY <1>1, <4>1, <4>4, <5>1, <5>3
      <4> QED BY <4>3, <4>4
    <3> QED BY <3>1, <3>2
  <2> QED BY <1>1, <2>1, <2>2, <2>3
<1>12. Ends(y)
  <2>1. /\ x.bottom \in Live(x) /\ x.blk[x.bottom].start = RangeStart
        /\ x.blk[x.bottom].prev = Null
        /\ x.top \in Live(x) /\ EndOf(x, x.top) = RangeEnd /\ x.blk[x.top].next = Null
    BY DEF Tiled, Ends
  <2>2. /\ y.bottom \in Live(y) /\ y.blk[y.bottom].start = RangeStart
        /\ y.blk[y.bottom].prev = Null
    <3>1. CASE x.blk[p].prev = Null
      <4>1. p = x.bottom
        BY <3>1 DEF Tiled, LinkedDown
      <4> QED BY <1>1, <1>4, <1>5, <2>1, <3>1, <4>1
    <3>2. CASE x.blk[p].prev # Null
      <4>1. y.bottom = x.bottom /\ x.bottom \in Others
        BY <1>5, <2>1, <3>2
      <4>2. x.bottom # x.blk[p].next
        <5> SUFFICES ASSUME x.bottom = x.blk[p].next PROVE FALSE
          OBVIOUS
        <5>1. x.blk[p].next # Null
          BY <2>1, Numbers DEF Live
        <5> QED BY <1>1, <1>8, <2>1, <5>1
      <4> QED BY <1>1, <1>6, <2>1, <4>1, <4>2
    <3> QED BY <3>1, <3>2
  <2>3. y.top \in Live(y) /\ EndOf(y, y.top) = RangeEnd /\ y.blk[y.top].next = Null
    <3>1. CASE x.blk[p].next = Null
      <4>1. p = x.top
        BY <3>1 DEF Tiled, LinkedUp
      <4> QED BY <1>1, <1>4, <1>5, <2>1, <3>1, <4>1
    <3>2. CASE x.blk[p].next # Null
      <4>1. y.top = x.top /\ x.top \in Others
        BY <1>5, <2>1, <3>2
      <4>2. x.top # x.blk[p].prev
        <5> SUFFICES ASSUME x.top = x.blk[p].prev PROVE FALSE
          OBVIOUS
        <5>1. x.blk[p].prev # Null
          BY <2>1, Numbers DEF Live
        <5> QED BY <1>1, <1>9, <2>1, <5>1
      <4> QED BY <1>1, <1>6, <2>1, <4>1, <4>2
    <3> QED BY <3>1, <3>2
  <2> QED BY <2>2, <2>3 DEF Ends
<1>13. Apart(y)
  <2> SUFFICES ASSUME NEW q \in Live(y), NEW r \in Live(y), q # r
               PROVE  EndOf(y, q) <= y.blk[r].start \/ EndOf(y, r) <= y.blk[q].start
    BY DEF Apart
  <2>1. \A s \in Others, t \in Live(x) :
          s # t => EndOf(x, s) <= x.blk[t].start \/ EndOf(x, t) <= x.blk[s].start
    BY DEF Tiled, Apart
  <2>2. CASE q \in Others /\ r \in Others
    BY <1>6, <2>1, <2>2
  <2>3. ASSUME NEW s \in Others, NEW t \in {lo, hi}
        PROVE  EndOf(y, s) <= y.blk[t].start \/ EndOf(y, t) <= y.blk[s].start
    <3>1. EndOf(x, s) <= x.blk[p].start \/ EndOf(x, p) <= x.blk[s].start
      BY <2>1
    <3>2. EndOf(y, s) = EndOf(x, s) /\ y.blk[s].start = x.blk[s].start
          /\ EndOf(x, s) \in Nat /\ x.blk[s].start \in Nat
      BY <1>6
    <3>3. x.blk[p].start <= y.blk[t].start /\ EndOf(y, t) <= EndOf(x, p)
      BY <1>2, <1>3, <1>4
    <3>4. y.blk[t].start \in Nat /\ EndOf(y, t) \in Nat
      BY <1>3, <1>4
    <3> QED BY <1>2, <3>1, <3>2, <3>3, <3>4
  <2>4. CASE q \in {lo, hi} /\ r \in {lo, hi}
    BY <1>3, <1>4, <2>4
  <2>5. CASE q \in Others /\ r \in {lo, hi}
    BY <2>3, <2>5
  <2>6. CASE r \in Others /\ q \in {lo, hi}
    BY <2>3, <2>6
  <2> QED BY <1>1, <2>2, <2>4, <2>5, <2>6
<1> QED BY <1>1, <1>7, <1>10, <1>11, <1>12, <1>13 DEF Tiled

-----------------------------------------------------------------------------
(* Joining two free blocks. *)

\* y is x with hi, the block after lo, made part of lo.
Join(x, y, lo, hi) ==
  /\ y \in Allocator /\ lo \in Live(x) /\ hi \in Live(x) /\ x.blk[hi].prev = lo
  /\ Live(y) = Live(x) \ {hi}
  /\ y.blk[lo].start = x.blk[lo].start /\ EndOf(y, lo) = EndOf(x, hi)
  /\ y.blk[lo].prev = x.blk[lo].prev /\ y.blk[lo].next = x.blk[hi].next
  /\ ~x.blk[lo].taken /\ ~x.blk[hi].taken /\ ~y.blk[lo].taken
  /\ \A q \in Live(x) \ {lo, hi} :
       /\ y.blk[q].start = x.blk[q].start /\ y.blk[q].size = x.blk[q].size
       /\ y.blk[q].taken <=> x.blk[q].taken
       /\ y.blk[q].next = x.blk[q].next
       /\ y.blk[q].prev = IF q = x.blk[hi].next THEN lo ELSE x.blk[q].prev
  /\ y.bottom = x.bottom
  /\ y.top = IF x.blk[hi].next = Null THEN lo ELSE x.top

LEMMA JoinTiled ==
  ASSUME NEW x, NEW y, NEW lo, NEW hi, Tiled(x), Join(x, y, lo, hi)
  PROVE  Tiled(y)
<1> DEFINE Others == Live(x) \ {lo, hi}
<1>1. /\ y \in Allocator /\ lo \in Live(x) /\ hi \in Live(x)
      /\ Live(y) = Live(x) \ {hi} /\ lo # Null /\ hi # Null /\ lo \in Ptr /\ hi \in Ptr
  BY Numbers DEF Join, Live
<1>2. /\ x.blk[lo].start \in Nat /\ EndOf(x, lo) \in Nat /\ RangeStart <= x.blk[lo].start
      /\ x.blk[lo].start < EndOf(x, lo) /\ x.blk[lo].start % Grain = 0
      /\ x.blk[hi].start \in Nat /\ EndOf(x, hi) \in Nat /\ EndOf(x, hi) <= RangeEnd
      /\ x.blk[hi].start < EndOf(x, hi)
  BY <1>1, LiveBlock
<1>3. /\ x.blk[hi].prev = lo /\ EndOf(x, lo) = x.blk[hi].start /\ x.blk[lo].next = hi
  BY <1>1 DEF Join, Tiled, LinkedDown
<1>4. lo # hi
  BY <1>2, <1>3
<1>5. /\ y.blk[lo].start = x.blk[lo].start /\ EndOf(y, lo) = EndOf(x, hi)
      /\ y.blk[lo].prev = x.blk[lo].prev /\ y.blk[lo].next = x.blk[hi].next
      /\ y.bottom = x.bottom
      /\ y.top = IF x.blk[hi].next = Null THEN lo ELSE x.top
  BY DEF Join
<1>6. y.blk[lo].size > 0
  <2>1. y.blk[lo].size \in Nat
    BY <1>1 DEF Allocator, Block
  <2> QED BY <1>2, <1>3, <1>5, <2>1 DEF EndOf
<1>7. ASSUME NEW q \in Others
      PROVE  /\ y.blk[q].start = x.blk[q].start /\ EndOf(y, q) = EndOf(x, q)
             /\ y.blk[q].size = x.blk[q].size
             /\ y.blk[q].next = x.blk[q].next
             /\ y.blk[q].prev = IF q = x.blk[hi].next THEN lo ELSE x.blk[q].prev
             /\ x.blk[q].start \in Nat /\ EndOf(x, q) \in Nat
             /\ x.blk[q].start < EndOf(x, q)
  BY LiveBlock DEF Join, EndOf
<1>8. x.blk[hi].next # Null => /\ x.blk[hi].next \in Others
                               /\ x.blk[x.blk[hi].next].start = EndOf(x, hi)
                               /\ x.blk[x.blk[hi].next].prev = hi
  <2>1. x.blk[hi].next # Null => /\ x.blk[hi].next \in Live(x)
                                 /\ x.blk[x.blk[hi].next].start = EndOf(x, hi)
                                 /\ x.blk[x.blk[hi].next].prev = hi
    BY <1>1 DEF Tiled, LinkedUp
  <2> QED BY <1>2, <1>3, <2>1
<1>9. x.blk[lo].prev # Null => /\ x.blk[lo].prev \in Others
                               /\ EndOf(x, x.blk[lo].prev) = x.blk[lo].start
                               /\ x.blk[x.blk[lo].prev].next = lo
  <2>1. x.blk[lo].prev # Null => /\ x.blk[lo].prev \in Live(x)
                                 /\ EndOf(x, x.blk[lo].prev) = x.blk[lo].start
                                 /\ x.blk[x.blk[lo].prev].next = lo
    BY <1>1 DEF Tiled, LinkedDown
  <2>2. x.blk[lo].start < EndOf(x, hi)
    BY <1>2, <1>3
  <2>3. x.blk[lo].prev # Null => x.blk[lo].prev # lo /\ x.blk[lo].prev # hi
    <3>1. EndOf(x, lo) # x.blk[lo].start /\ EndOf(x, hi) # x.blk[lo].start
      BY <1>2, <2>2
    <3> QED BY <2>1, <3>1
  <2> QED BY <2>1, <2>3
<1>10. InRange(y)
  <2> SUFFICES ASSUME NEW q \in Live(y)
               PROVE  /\ y.blk[q].size > 0 /\ RangeStart <= y.blk[q].start
                      /\ EndOf(y, q) <= RangeEnd /\ y.blk[q].start % Grain = 0
    BY DEF InRange
  <2>1. CASE q \in Others
    BY <1>7, <2>1 DEF Tiled, InRange
  <2>2. CASE q = lo
    BY <1>2, <1>5, <1>6, <2>2
  <2> QED BY <1>1, <2>1, <2>2
<1>11. LinkedUp(y)
  <2> SUFFICES ASSUME NEW q \in Live(y)
               PROVE  IF y.blk[q].next = Null THEN q = y.top
                      ELSE /\ y.blk[q].next \in Live(y)
                           /\ y.blk[y.blk[q].next].start = EndOf(y, q)
                           /\ y.blk[y.blk[q].next].prev = q
    BY DEF LinkedUp
  <2>1. CASE q = lo
    <3>1. CASE x.blk[hi].next = Null
      BY <1>5, <2>1, <3>1
    <3>2. CASE x.blk[hi].next # Null
      BY <1>1, <1>5, <1>7, <1>8, <2>1, <3>2
    <3> QED BY <3>1, <3>2
  <2>2. CASE q \in Others
    <3> DEFINE m == x.blk[q].next
    <3>1. y.blk[q].next = m /\ EndOf(y, q) = EndOf(x, q)
      BY <1>7, <2>2
    <3>2. IF m = Null THEN q = x.top
          ELSE m \in Live(x) /\ x.blk[m].start = EndOf(x, q) /\ x.blk[m].prev = q
      BY <2>2 DEF Tiled, LinkedUp
    <3>3. CASE m = Null
      <4>1. q = x.top /\ q # hi
        BY <2>2, <3>2, <3>3
      <4>2. x.blk[hi].next # Null
        BY <1>1, <4>1 DEF Tiled, LinkedUp
      <4> QED BY <1>5, <3>1, <3>3, <4>1, <4>2
    <3>4. CASE m # Null
      <4>1. m \in Live(x) /\ x.blk[m].start = EndOf(x, q) /\ x.blk[m].prev = q /\ m # hi
        BY <1>3, <2>2, <3>2, <3>4
      <4>2. CASE m = lo
        BY <1>1, <1>4, <1>5, <3>1, <3>4, <4>1, <4>2
      <4>3. CASE m # lo
        <5>1. m \in Others /\ m # x.blk[hi].next
          BY <1>8, <2>2, <3>4, <4>1, <4>3
        <5>2. y.blk[m].start = x.blk[m].start /\ y.blk[m].prev = x.blk[m].prev
          BY <1>7, <5>1
        <5> HIDE DEF m
        <5> QED BY <1>1, <3>1, <3>4, <4>1, <5>1, <5>2
      <4> QED BY <4>2, <4>3
    <3> QED BY <3>3, <3>4
  <2> QED BY <1>1, <2>1, <2>2
<1>12. LinkedDown(y)
  <2> SUFFICES ASSUME NEW q \in Live(y)
               PROVE  IF y.blk[q].prev = Null THEN q = y.bottom
                      ELSE /\ y.blk[q].prev \in Live(y)
                           /\ EndOf(y, y.blk[q].prev) = y.blk[q].start
                           /\ y.blk[y.blk[q].prev].next = q
    BY DEF LinkedDown
  <2>1. CASE q = lo
    <3>1. CASE x.blk[lo].prev = Null
      BY <1>1, <1>5, <2>1, <3>1 DEF Tiled, LinkedDown
    <3>2. CASE x.blk[lo].prev # Null
      BY <1>1, <1>5, <1>7, <1>9, <2>1, <3>2
    <3> QED BY <3>1, <3>2
  <2>2. CASE q \in Others
    <3>1. CASE q = x.blk[hi].next
      <4>1. x.blk[hi].next # Null
        BY <1>1, <2>2, <3>1, Numbers DEF Live
      <4> QED BY <1>1, <1>4, <1>5, <1>7, <1>8, <2>2, <3>1, <4>1
    <3>2. CASE q # x.blk[hi].next
      <4> DEFINE m == x.blk[q].prev
      <4>1. y.blk[q].prev = m /\ y.blk[q].start = x.blk[q].start
        BY <1>7, <2>2, <3>2
      <4>2. IF m = Null THEN q = x.bottom
            ELSE m \in Live(x) /\ EndOf(x, m) = x.blk[q].start /\ x.blk[m].next = q
        BY <2>2 DEF Tiled, LinkedDown
      <4>3. CASE m = Null
        BY <1>5, <4>1, <4>2, <4>3
      <4>4. CASE m # Null
        <5>1. m \in Live(x) /\ EndOf(x, m) = x.blk[q].start /\ x.blk[m].next = q
          BY <4>2, <4>4
        <5>2. m # hi /\ m # lo
          BY <1>3, <2>2, <3>2, <5>1
        <5>3. EndOf(y, m) = EndOf(x, m) /\ y.blk[m].next = x.blk[m].next
          BY <1>7, <5>1, <5>2
        <5> HIDE DEF m
        <5> QED BY <1>1, <4>1, <4>4, <5>1, <5>2, <5>3
      <4> QED BY <4>3, <4>4
    <3> QED BY <3>1, <3>2
  <2> QED BY <1>1, <2>1, <2>2
<1>13. Ends(y)
  <2>1. /\ x.bottom \in Live(x) /\ x.blk[x.bottom].start = RangeStart
        /\ x.blk[x.bottom].prev = Null
        /\ x.top \in Live(x) /\ EndOf(x, x.top) = RangeEnd /\ x.blk[x.top].next = Null
    BY DEF Tiled, Ends
  <2>2. /\ y.bottom \in Live(y) /\ y.blk[y.bottom].start = RangeStart
        /\ y.blk[y.bottom].prev = Null
    <3>1. x.bottom # hi
      BY <1>1, <1>3, <2>1
    <3>2. CASE x.bottom = lo
      BY <1>1, <1>4, <1>5, <2>1, <3>2
    <3>3. CASE x.bottom # lo
      <4>1. x.bottom # x.blk[hi].next
        <5> SUFFICES ASSUME x.bottom = x.blk[hi].next PROVE FALSE
          OBVIOUS
        <5>1. x.blk[hi].next # Null
          BY <2>1, Numbers DEF Live
        <5> QED BY <1>1, <1>8, <2>1, <5>1
      <4> QED BY <1>1, <1>5, <1>7, <2>1, <3>1, <3>3, <4>1
    <3> QED BY <3>2, <3>3
  <2>3. y.top \in Live(y) /\ EndOf(y, y.top) = RangeEnd /\ y.blk[y.top].next = Null
    <3>1. CASE x.blk[hi].next = Null
      <4>1. hi = x.top
        BY <1>1, <3>1 DEF Tiled, LinkedUp
      <4> QED BY <1>1, <1>4, <1>5, <2>1, <3>1, <4>1
    <3>2. CASE x.blk[hi].next # Null
      <4>1. x.top \in Others /\ y.top = x.top
        BY <1>1, <1>3, <1>5, <2>1, <3>2
      <4> QED BY <1>1, <1>7, <2>1, <4>1
    <3> QED BY <3>1, <3>2
  <2> QED BY <2>2, <2>3 DEF Ends
<1>14. Apart(y)
  <2> SUFFICES ASSUME NEW q \in Live(y), NEW r \in Live(y), q # r
               PROVE  EndOf(y, q) <= y.blk[r].start \/ EndOf(y, r) <= y.blk[q].start
    BY DEF Apart
  <2>1. \A s \in Others, t \in Live(x) :
          s # t => EndOf(x, s) <= x.blk[t].start \/ EndOf(x, t) <= x.blk[s].start
    BY DEF Tiled, Apart
  <2>2. CASE q \in Others /\ r \in Others
    BY <1>7, <2>1, <2>2
  <2>3. ASSUME NEW s \in Others
        PROVE  EndOf(y, s) <= y.blk[lo].start \/ EndOf(y, lo) <= y.blk[s].start
    <3>1. /\ EndOf(x, s) <= x.blk[lo].start \/ EndOf(x, lo) <= x.blk[s].start
          /\ EndOf(x, s) <= x.blk[hi].start \/ EndOf(x, hi) <= x.blk[s].start
      BY <1>1, <2>1
    <3>2. /\ EndOf(y, s) = EndOf(x, s) /\ y.blk[s].start = x.blk[s].start
          /\ EndOf(x, s) \in Nat /\ x.blk[s].start \in Nat /\ x.blk[s].start < EndOf(x, s)
      BY <1>7
    <3> QED BY <1>2, <1>3, <1>5, <3>1, <3>2
  <2>4. CASE q \in Others /\ r = lo
    BY <2>3, <2>4
  <2>5. CASE r \in Others /\ q = lo
    BY <2>3, <2>5
  <2> QED BY <1>1, <2>2, <2>4, <2>5
<1> QED BY <1>1, <1>10, <1>11, <1>12, <1>13, <1>14 DEF Tiled

-----------------------------------------------------------------------------
(* What the code does to the blocks splits and joins them. *)

LEMMA NewBlockIsFree ==
  ASSUME NEW x, Ptr \ Live(x) # {}
  PROVE  NewBlock(x) \in Ptr \ Live(x)
<1> DEFINE F == Ptr \ Live(x)
<1>1. F \subseteq Nat
  BY DEF Ptr
<1> HIDE DEF F
<1>2. \E m \in F : \A y \in F : m <= y
  BY <1>1, LeastElement DEF F
<1>3. NewBlock(x) = CHOOSE p \in F : \A q \in F : p <= q
  BY DEF NewBlock, F
<1>4. NewBlock(x) \in F
  BY <1>2, <1>3
<1> QED BY <1>4 DEF F

LEMMA LinkSet ==
  ASSUME NEW blk \in [Ptr -> Block], NEW p \in Ptr \cup {Null}, NEW q \in Ptr
  PROVE  SetNext(blk, p, q) \in [Ptr -> Block] /\ SetPrev(blk, p, q) \in [Ptr -> Block]
<1>1. \A r \in Ptr : /\ [blk[r] EXCEPT !.next = q] \in Block
                     /\ [blk[r] EXCEPT !.prev = q] \in Block
  BY DEF Block
<1> HIDE DEF Block
<1>2. CASE p = Null
  BY <1>2 DEF SetNext, SetPrev
<1>3. CASE p # Null
  BY <1>1, <1>3 DEF SetNext, SetPrev
<1> QED BY <1>2, <1>3

\* A block of the same size is live if the other is.
LEMMA SizedBlock ==
  ASSUME NEW x, x \in Allocator, NEW p \in Ptr, x.blk[p].size # 0
  PROVE  p \in Live(x)
<1>1. x.blk[p] # NoBlock
  BY DEF NoBlock
<1> QED BY <1>1 DEF Live

LEMMA InsertBeforeSplits ==
  ASSUME NEW x, Tiled(x), NEW p \in Live(x), ~x.blk[p].taken, Ptr \ Live(x) # {},
         NEW size \in Nat \ {0}, size < x.blk[p].size, size % Grain = 0
  PROVE  /\ NewBlock(x) \in Ptr \ Live(x)
         /\ Split(x, InsertFreeBefore(x, p, size), p, NewBlock(x), p)
         /\ InsertFreeBefore(x, p, size).blk[p].start = x.blk[p].start + size
<1> DEFINE n == NewBlock(x)
           b == x.blk[p]
           N == [start |-> b.start, size |-> size, taken |-> FALSE,
                 prev |-> b.prev, next |-> p]
           P == [b EXCEPT !.start = @ + size, !.size = @ - size, !.prev = n]
           L == SetNext(x.blk, b.prev, n)
           B == [L EXCEPT ![n] = N, ![p] = P]
           y == InsertFreeBefore(x, p, size)
<1>1. n \in Ptr /\ n \notin Live(x) /\ n # p
  BY NewBlockIsFree
<1>2. /\ x \in Allocator /\ x.blk \in [Ptr -> Block] /\ p \in Ptr /\ b \in Block
      /\ x.bottom \in Ptr \cup {Null} /\ x.top \in Ptr \cup {Null}
  BY DEF Tiled, Allocator, Live
<1>3. /\ b.start \in Nat /\ b.size \in Nat \ {0} /\ b.prev \in Live(x) \cup {Null}
      /\ b.next \in Live(x) \cup {Null} /\ b.taken \in BOOLEAN /\ b.start % Grain = 0
      /\ EndOf(x, p) = b.start + b.size /\ b.prev # p /\ b.next # p
  <2>1. b.prev # p /\ b.next # p
    BY LiveBlock DEF Tiled, LinkedUp, LinkedDown
  <2> QED BY <2>1, LiveBlock
<1>4. b.prev \in Ptr \cup {Null} /\ b.next \in Ptr \cup {Null} /\ b.prev # n
  BY <1>1, <1>3, Numbers DEF Live
<1>5. L \in [Ptr -> Block]
      /\ \A r \in Ptr : L[r] = IF r = b.prev THEN [x.blk[r] EXCEPT !.next = n] ELSE x.blk[r]
  <2>1. x.blk \in [Ptr -> Block] /\ b.prev \in Ptr \cup {Null} /\ n \in Ptr
    BY <1>1, <1>2, <1>4
  <2> HIDE DEF n, b
  <2>2. L \in [Ptr -> Block]
    BY <2>1, LinkSet
  <2>3. ASSUME NEW r \in Ptr
        PROVE  L[r] = IF r = b.prev THEN [x.blk[r] EXCEPT !.next = n] ELSE x.blk[r]
    <3>1. CASE b.prev = Null
      BY <2>1, <3>1, Numbers DEF SetNext, L
    <3>2. CASE b.prev # Null
      BY <2>1, <3>2 DEF SetNext, L
    <3> QED BY <3>1, <3>2
  <2> QED BY <2>2, <2>3
<1>6. N \in Block
  BY <1>2, <1>3, <1>4 DEF Block
<1>7. P \in Block /\ P.start = b.start + size /\ P.size = b.size - size /\ P.prev = n
      /\ P.next = b.next /\ (P.taken <=> b.taken) /\ P.size > 0
  <2> HIDE DEF n, b
  <2>1. /\ P.start = b.start + size /\ P.size = b.size - size /\ P.prev = n
        /\ P.next = b.next /\ P.taken = b.taken
    BY <1>2 DEF Block
  <2>2. P.start \in Nat /\ P.size \in Nat /\ P.size > 0
    BY <1>3, <2>1 DEF b
  <2>3. P \in Block
    BY <1>1, <1>2, <2>1, <2>2 DEF Block
  <2> HIDE DEF P
  <2> QED BY <2>1, <2>2, <2>3
<1>8. y = [x EXCEPT !.blk = B, !.bottom = IF b.prev = Null THEN n ELSE @]
  BY DEF InsertFreeBefore
<1>9. N.start = b.start /\ N.size = size /\ ~N.taken /\ N.prev = b.prev /\ N.next = p
  OBVIOUS
<1> HIDE DEF n, b, N, P, L
<1>10. B \in [Ptr -> Block] /\ B[n] = N /\ B[p] = P
       /\ \A r \in Ptr : r # n /\ r # p => B[r] = L[r]
  BY <1>1, <1>2, <1>5, <1>6, <1>7
<1> HIDE DEF B
<1>11. y \in Allocator /\ y.blk = B /\ y.top = x.top
       /\ y.bottom = IF b.prev = Null THEN n ELSE x.bottom
  BY <1>1, <1>2, <1>8, <1>10 DEF Allocator
<1> HIDE DEF y
<1>12. ASSUME NEW q \in Live(x) \ {p}
       PROVE  /\ y.blk[q].start = x.blk[q].start /\ y.blk[q].size = x.blk[q].size
              /\ y.blk[q].taken <=> x.blk[q].taken
              /\ y.blk[q].next = IF q = b.prev THEN n ELSE x.blk[q].next
              /\ y.blk[q].prev = x.blk[q].prev
  <2>1. q \in Ptr /\ q # n /\ x.blk[q] \in Block
    BY <1>1, <1>2 DEF Live
  <2>2. y.blk[q] = IF q = b.prev THEN [x.blk[q] EXCEPT !.next = n] ELSE x.blk[q]
    BY <1>5, <1>10, <1>11, <2>1
  <2> QED BY <2>1, <2>2 DEF Block
<1>13. Live(y) = (Live(x) \ {p}) \cup {n, p}
  <2>1. ASSUME NEW q \in (Live(x) \ {p}) \cup {n, p} PROVE q \in Live(y)
    <3>1. q \in Ptr
      BY <1>1, <1>2 DEF Live
    <3>2. y.blk[q].size # 0
      <4>1. CASE q = n
        BY <1>9, <1>10, <1>11, <4>1
      <4>2. CASE q = p
        BY <1>7, <1>10, <1>11, <4>2
      <4>3. CASE q \in Live(x) \ {p}
        BY <1>12, <4>3, LiveBlock
      <4> QED BY <4>1, <4>2, <4>3
    <3> QED BY <1>11, <3>1, <3>2, SizedBlock
  <2>2. ASSUME NEW q \in Live(y), q # n, q # p PROVE q \in Live(x)
    <3> SUFFICES ASSUME q \notin Live(x) PROVE FALSE
      OBVIOUS
    <3>1. q \in Ptr /\ y.blk[q] # NoBlock
      BY DEF Live
    <3>2. q # b.prev
      BY <1>3, <3>1, Numbers
    <3>3. y.blk[q] = x.blk[q]
      BY <1>5, <1>10, <1>11, <2>2, <3>1, <3>2
    <3> QED BY <3>1, <3>3 DEF Live
  <2> QED BY <2>1, <2>2
<1>14. y.blk[n] = N /\ y.blk[p] = P
  BY <1>10, <1>11
<1>15. \A q \in Live(x) \ {p} :
         y.blk[q].prev = IF q = b.next THEN p ELSE x.blk[q].prev
  <2>1. b.next # Null => x.blk[b.next].prev = p
    BY DEF Tiled, LinkedUp, b
  <2>2. \A q \in Live(x) : q # Null
    BY Numbers DEF Live
  <2> QED BY <1>12, <2>1, <2>2
<1>16. y.top = IF b.next = Null THEN p ELSE x.top
  <2>1. b.next = Null => p = x.top
    BY DEF Tiled, LinkedUp, b
  <2> QED BY <1>11, <2>1
<1>17. /\ y.blk[p].start = EndOf(y, n) /\ EndOf(y, p) = EndOf(x, p)
       /\ y.blk[p].start % Grain = 0
  <2>1. (b.start + size) % Grain = 0
    BY <1>3, Numbers, MultiplesAdd
  <2>2. EndOf(y, n) = N.start + N.size /\ EndOf(y, p) = P.start + P.size
    BY <1>14 DEF EndOf
  <2> QED BY <1>3, <1>7, <1>9, <1>14, <2>1, <2>2
<1>18. /\ y.blk[n].start = b.start /\ y.blk[n].size > 0 /\ y.blk[p].size > 0
       /\ y.blk[n].prev = b.prev /\ y.blk[n].next = p
       /\ y.blk[p].prev = n /\ y.blk[p].next = b.next
       /\ ~y.blk[n].taken /\ (y.blk[p].taken <=> b.taken)
  BY <1>7, <1>9, <1>14
<1>19. ~b.taken
  BY DEF b
<1>20. Split(x, y, p, n, p)
  <2>1. /\ y \in Allocator /\ n \in Ptr /\ p \in Ptr /\ n # p
        /\ n \notin Live(x) \ {p} /\ p \notin Live(x) \ {p}
    BY <1>1, <1>2, <1>11
  <2>2. y.bottom = IF b.prev = Null THEN n ELSE x.bottom
    BY <1>11
  <2> QED BY <1>12, <1>13, <1>15, <1>16, <1>17, <1>18, <1>19, <2>1, <2>2 DEF Split, b
<1>21. y.blk[p].start = b.start + size
  BY <1>7, <1>14
<1> QED BY <1>1, <1>20, <1>21 DEF n, y, b

LEMMA InsertAfterSplits ==
  ASSUME NEW x, Tiled(x), NEW p \in Live(x), ~x.blk[p].taken, Ptr \ Live(x) # {},
         NEW size \in Nat \ {0}, size < x.blk[p].size, (EndOf(x, p) - size) % Grain = 0
  PROVE  /\ NewBlock(x) \in Ptr \ Live(x)
         /\ Split(x, InsertFreeAfter(x, p, size), p, p, NewBlock(x))
         /\ InsertFreeAfter(x, p, size).blk[p].size = x.blk[p].size - size
<1> DEFINE n == NewBlock(x)
           b == x.blk[p]
           N == [start |-> EndOf(x, p) - size, size |-> size, taken |-> FALSE,
                 prev |-> p, next |-> b.next]
           P == [b EXCEPT !.size = @ - size, !.next = n]
           L == SetPrev(x.blk, b.next, n)
           B == [L EXCEPT ![n] = N, ![p] = P]
           y == InsertFreeAfter(x, p, size)
<1>1. n \in Ptr /\ n \notin Live(x) /\ n # p
  BY NewBlockIsFree
<1>2. /\ x \in Allocator /\ x.blk \in [Ptr -> Block] /\ p \in Ptr /\ b \in Block
      /\ x.bottom \in Ptr \cup {Null} /\ x.top \in Ptr \cup {Null}
  BY DEF Tiled, Allocator, Live
<1>3. /\ b.start \in Nat /\ b.size \in Nat \ {0} /\ b.prev \in Live(x) \cup {Null}
      /\ b.next \in Live(x) \cup {Null} /\ b.taken \in BOOLEAN /\ b.start % Grain = 0
      /\ EndOf(x, p) = b.start + b.size /\ b.prev # p /\ b.next # p
  <2>1. b.prev # p /\ b.next # p
    BY LiveBlock DEF Tiled, LinkedUp, LinkedDown
  <2> QED BY <2>1, LiveBlock
<1>4. b.prev \in Ptr \cup {Null} /\ b.next \in Ptr \cup {Null} /\ b.next # n
  BY <1>1, <1>3, Numbers DEF Live
<1>5. L \in [Ptr -> Block]
      /\ \A r \in Ptr : L[r] = IF r = b.next THEN [x.blk[r] EXCEPT !.prev = n] ELSE x.blk[r]
  <2>1. x.blk \in [Ptr -> Block] /\ b.next \in Ptr \cup {Null} /\ n \in Ptr
    BY <1>1, <1>2, <1>4
  <2> HIDE DEF n, b
  <2>2. L \in [Ptr -> Block]
    BY <2>1, LinkSet
  <2>3. ASSUME NEW r \in Ptr
        PROVE  L[r] = IF r = b.next THEN [x.blk[r] EXCEPT !.prev = n] ELSE x.blk[r]
    <3>1. CASE b.next = Null
      BY <2>1, <3>1, Numbers DEF SetPrev, L
    <3>2. CASE b.next # Null
      BY <2>1, <3>2 DEF SetPrev, L
    <3> QED BY <3>1, <3>2
  <2> QED BY <2>2, <2>3
<1>6. N \in Block
  <2>1. EndOf(x, p) - size \in Nat
    BY <1>3
  <2> QED BY <1>2, <1>3, <1>4, <2>1 DEF Block
<1>7. P \in Block /\ P.start = b.start /\ P.size = b.size - size /\ P.prev = b.prev
      /\ P.next = n /\ (P.taken <=> b.taken) /\ P.size > 0
  <2> HIDE DEF n, b
  <2>1. /\ P.start = b.start /\ P.size = b.size - size /\ P.prev = b.prev
        /\ P.next = n /\ P.taken = b.taken
    BY <1>2 DEF Block
  <2>2. P.start \in Nat /\ P.size \in Nat /\ P.size > 0
    BY <1>3, <2>1 DEF b
  <2>3. P \in Block
    BY <1>1, <1>2, <2>1, <2>2 DEF Block
  <2> HIDE DEF P
  <2> QED BY <2>1, <2>2, <2>3
<1>8. y = [x EXCEPT !.blk = B, !.top = IF b.next = Null THEN n ELSE @]
  BY DEF InsertFreeAfter
<1>9. N.start = EndOf(x, p) - size /\ N.size = size /\ ~N.taken /\ N.prev = p /\ N.next = b.next
  OBVIOUS
<1> HIDE DEF n, b, N, P, L
<1>10. B \in [Ptr -> Block] /\ B[n] = N /\ B[p] = P
       /\ \A r \in Ptr : r # n /\ r # p => B[r] = L[r]
  BY <1>1, <1>2, <1>5, <1>6, <1>7
<1> HIDE DEF B
<1>11. y \in Allocator /\ y.blk = B /\ y.bottom = x.bottom
       /\ y.top = IF b.next = Null THEN n ELSE x.top
  BY <1>1, <1>2, <1>8, <1>10 DEF Allocator
<1> HIDE DEF y
<1>12. ASSUME NEW q \in Live(x) \ {p}
       PROVE  /\ y.blk[q].start = x.blk[q].start /\ y.blk[q].size = x.blk[q].size
              /\ y.blk[q].taken <=> x.blk[q].taken
              /\ y.blk[q].prev = IF q = b.next THEN n ELSE x.blk[q].prev
              /\ y.blk[q].next = x.blk[q].next
  <2>1. q \in Ptr /\ q # n /\ x.blk[q] \in Block
    BY <1>1, <1>2 DEF Live
  <2>2. y.blk[q] = IF q = b.next THEN [x.blk[q] EXCEPT !.prev = n] ELSE x.blk[q]
    BY <1>5, <1>10, <1>11, <2>1
  <2> QED BY <2>1, <2>2 DEF Block
<1>13. Live(y) = (Live(x) \ {p}) \cup {p, n}
  <2>1. ASSUME NEW q \in (Live(x) \ {p}) \cup {p, n} PROVE q \in Live(y)
    <3>1. q \in Ptr
      BY <1>1, <1>2 DEF Live
    <3>2. y.blk[q].size # 0
      <4>1. CASE q = n
        BY <1>9, <1>10, <1>11, <4>1
      <4>2. CASE q = p
        BY <1>7, <1>10, <1>11, <4>2
      <4>3. CASE q \in Live(x) \ {p}
        BY <1>12, <4>3, LiveBlock
      <4> QED BY <4>1, <4>2, <4>3
    <3> QED BY <1>11, <3>1, <3>2, SizedBlock
  <2>2. ASSUME NEW q \in Live(y), q # n, q # p PROVE q \in Live(x)
    <3> SUFFICES ASSUME q \notin Live(x) PROVE FALSE
      OBVIOUS
    <3>1. q \in Ptr /\ y.blk[q] # NoBlock
      BY DEF Live
    <3>2. q # b.next
      BY <1>3, <3>1, Numbers
    <3>3. y.blk[q] = x.blk[q]
      BY <1>5, <1>10, <1>11, <2>2, <3>1, <3>2
    <3> QED BY <3>1, <3>3 DEF Live
  <2> QED BY <2>1, <2>2
<1>14. y.blk[n] = N /\ y.blk[p] = P
  BY <1>10, <1>11
<1>15. \A q \in Live(x) \ {p} :
         y.blk[q].next = IF q = b.prev THEN p ELSE x.blk[q].next
  <2>1. b.prev # Null => x.blk[b.prev].next = p
    BY DEF Tiled, LinkedDown, b
  <2>2. \A q \in Live(x) : q # Null
    BY Numbers DEF Live
  <2> QED BY <1>12, <2>1, <2>2
<1>16. y.bottom = IF b.prev = Null THEN p ELSE x.bottom
  <2>1. b.prev = Null => p = x.bottom
    BY DEF Tiled, LinkedDown, b
  <2> QED BY <1>11, <2>1
<1>17. /\ y.blk[n].start = EndOf(y, p) /\ EndOf(y, n) = EndOf(x, p)
       /\ y.blk[n].start % Grain = 0
  <2>1. N.start % Grain = 0
    BY <1>9
  <2>2. EndOf(y, n) = N.start + N.size /\ EndOf(y, p) = P.start + P.size
    BY <1>14 DEF EndOf
  <2> QED BY <1>3, <1>7, <1>9, <1>14, <2>1, <2>2
<1>18. /\ y.blk[p].start = b.start /\ y.blk[n].size > 0 /\ y.blk[p].size > 0
       /\ y.blk[n].prev = p /\ y.blk[n].next = b.next
       /\ y.blk[p].prev = b.prev /\ y.blk[p].next = n
       /\ ~y.blk[n].taken /\ (y.blk[p].taken <=> b.taken)
  BY <1>7, <1>9, <1>14
<1>19. ~b.taken
  BY DEF b
<1>20. Split(x, y, p, p, n)
  <2>1. /\ y \in Allocator /\ n \in Ptr /\ p \in Ptr /\ n # p
        /\ n \notin Live(x) \ {p} /\ p \notin Live(x) \ {p}
    BY <1>1, <1>2, <1>11
  <2>2. y.top = IF b.next = Null THEN n ELSE x.top
    BY <1>11
  <2> QED BY <1>12, <1>13, <1>15, <1>16, <1>17, <1>18, <1>19, <2>1, <2>2 DEF Split, b
<1>21. y.blk[p].size = b.size - size
  BY <1>7, <1>14
<1> QED BY <1>1, <1>20, <1>21 DEF n, y, b

LEMMA AbsorbJoins ==
  ASSUME NEW x, Tiled(x), NEW p \in Live(x), x.blk[p].prev # Null,
         ~x.blk[p].taken, ~x.blk[x.blk[p].prev].taken
  PROVE  Join(x, AbsorbIntoPrev(x, p), x.blk[p].prev, p)
<1> DEFINE b == x.blk[p]
           lo == b.prev
           low == x.blk[lo]
           P == [low EXCEPT !.size = @ + b.size, !.next = b.next]
           L == SetPrev(x.blk, b.next, lo)
           B == [L EXCEPT ![lo] = P, ![p] = NoBlock]
           y == AbsorbIntoPrev(x, p)
<1>1. /\ x \in Allocator /\ x.blk \in [Ptr -> Block] /\ p \in Ptr /\ b \in Block
      /\ x.bottom \in Ptr \cup {Null} /\ x.top \in Ptr \cup {Null}
  BY DEF Tiled, Allocator, Live
<1>2. /\ lo \in Live(x) /\ EndOf(x, lo) = b.start /\ low.next = p
  BY DEF Tiled, LinkedDown
<1>3. /\ b.start \in Nat /\ b.size \in Nat \ {0} /\ b.next \in Live(x) \cup {Null}
      /\ EndOf(x, p) = b.start + b.size /\ b.start < EndOf(x, p)
  BY LiveBlock
<1>4. /\ low.start \in Nat /\ low.size \in Nat \ {0} /\ low.prev \in Live(x) \cup {Null}
      /\ EndOf(x, lo) = low.start + low.size /\ low.start < EndOf(x, lo) /\ lo \in Ptr
  BY <1>2, LiveBlock
<1>5. lo # p /\ b.next # lo /\ b.next # p
  <2>1. lo # p
    BY <1>2, <1>3, <1>4
  <2>2. b.next # Null => x.blk[b.next].start = EndOf(x, p)
    BY DEF Tiled, LinkedUp
  <2>3. EndOf(x, p) # b.start /\ EndOf(x, p) # low.start
    <3> HIDE DEF b, low, lo
    <3> QED BY <1>2, <1>3, <1>4
  <2>4. b.next # Null => b.next # lo /\ b.next # p
    BY <2>2, <2>3
  <2> QED BY <1>1, <1>4, <2>1, <2>4, Numbers
<1>6. b.next \in Ptr \cup {Null} /\ low \in Block
  BY <1>1, <1>3, <1>4 DEF Live
<1>7. L \in [Ptr -> Block]
      /\ \A r \in Ptr : L[r] = IF r = b.next THEN [x.blk[r] EXCEPT !.prev = lo] ELSE x.blk[r]
  <2>1. x.blk \in [Ptr -> Block] /\ b.next \in Ptr \cup {Null} /\ lo \in Ptr
    BY <1>1, <1>4, <1>6
  <2> HIDE DEF lo, b
  <2>2. L \in [Ptr -> Block]
    BY <2>1, LinkSet
  <2>3. ASSUME NEW r \in Ptr
        PROVE  L[r] = IF r = b.next THEN [x.blk[r] EXCEPT !.prev = lo] ELSE x.blk[r]
    <3>1. CASE b.next = Null
      BY <2>1, <3>1, Numbers DEF SetPrev, L
    <3>2. CASE b.next # Null
      BY <2>1, <3>2 DEF SetPrev, L
    <3> QED BY <3>1, <3>2
  <2> QED BY <2>2, <2>3
<1>8. L[lo] = low
  BY <1>4, <1>5, <1>7
<1>9. /\ P \in Block /\ P.start = low.start /\ P.size = low.size + b.size /\ P.prev = low.prev
      /\ P.next = b.next /\ (P.taken <=> low.taken)
  <2> HIDE DEF low, b
  <2>1. /\ P.start = low.start /\ P.size = low.size + b.size /\ P.prev = low.prev
        /\ P.next = b.next /\ P.taken = low.taken
    BY <1>6 DEF Block
  <2>2. P.size \in Nat
    BY <1>3, <1>4, <2>1
  <2>3. P \in Block
    BY <1>6, <2>1, <2>2 DEF Block
  <2> HIDE DEF P
  <2> QED BY <2>1, <2>3
<1>10. NoBlock \in Block /\ NoBlock.size = 0
  BY Numbers DEF NoBlock, Block
<1>11. y = [x EXCEPT !.blk = B, !.top = IF b.next = Null THEN lo ELSE @]
  BY DEF AbsorbIntoPrev
<1>12. B \in [Ptr -> Block] /\ B[lo] = P /\ B[p] = NoBlock
       /\ \A r \in Ptr : r # lo /\ r # p => B[r] = L[r]
  <2> HIDE DEF P, L, lo, b, low
  <2> QED BY <1>1, <1>4, <1>5, <1>7, <1>9, <1>10
<1> HIDE DEF B
<1>13. y \in Allocator /\ y.blk = B /\ y.bottom = x.bottom
       /\ y.top = IF b.next = Null THEN lo ELSE x.top
  <2> HIDE DEF lo, b, y
  <2> QED BY <1>1, <1>4, <1>11, <1>12 DEF Allocator
<1> HIDE DEF y, P, L
<1>14. ASSUME NEW q \in Live(x) \ {lo, p}
       PROVE  /\ y.blk[q].start = x.blk[q].start /\ y.blk[q].size = x.blk[q].size
              /\ y.blk[q].taken <=> x.blk[q].taken
              /\ y.blk[q].next = x.blk[q].next
              /\ y.blk[q].prev = IF q = b.next THEN lo ELSE x.blk[q].prev
  <2> HIDE DEF lo, b, low
  <2>1. q \in Ptr /\ x.blk[q] \in Block
    BY <1>1 DEF Live
  <2>2. y.blk[q] = IF q = b.next THEN [x.blk[q] EXCEPT !.prev = lo] ELSE x.blk[q]
    BY <1>7, <1>12, <1>13, <2>1
  <2> QED BY <2>1, <2>2 DEF Block
<1>15. y.blk[lo] = P /\ y.blk[p] = NoBlock
  BY <1>12, <1>13
<1>16. Live(y) = Live(x) \ {p}
  <2>1. ASSUME NEW q \in Live(x), q # p PROVE q \in Live(y)
    <3>1. q \in Ptr
      BY DEF Live
    <3>2. y.blk[q].size # 0
      <4>1. CASE q = lo
        <5> HIDE DEF lo, b, low
        <5> QED BY <1>3, <1>4, <1>9, <1>15, <4>1
      <4>2. CASE q # lo
        BY <1>14, <2>1, <4>2, LiveBlock
      <4> QED BY <4>1, <4>2
    <3> QED BY <1>13, <3>1, <3>2, SizedBlock
  <2>2. ASSUME NEW q \in Live(y) PROVE q \in Live(x) /\ q # p
    <3>1. q \in Ptr /\ y.blk[q] # NoBlock
      BY DEF Live
    <3>2. q # p
      BY <1>15, <3>1
    <3> SUFFICES ASSUME q \notin Live(x) PROVE FALSE
      BY <3>2
    <3>3. q # b.next /\ q # lo
      BY <1>2, <1>3, <3>1, Numbers
    <3>4. y.blk[q] = x.blk[q]
      BY <1>7, <1>12, <1>13, <3>1, <3>2, <3>3
    <3> QED BY <3>1, <3>4 DEF Live
  <2> QED BY <2>1, <2>2
<1>17. EndOf(y, lo) = EndOf(x, p)
  <2>1. EndOf(y, lo) = P.start + P.size
    BY <1>15 DEF EndOf
  <2> HIDE DEF lo, b, low
  <2> QED BY <1>2, <1>3, <1>4, <1>9, <2>1
<1>18. /\ y.blk[lo].start = low.start /\ y.blk[lo].prev = low.prev /\ y.blk[lo].next = b.next
       /\ ~y.blk[lo].taken
  <2>1. ~low.taken
    OBVIOUS
  <2> HIDE DEF lo, b, low
  <2> QED BY <1>9, <1>15, <2>1
<1>19. ~b.taken /\ ~low.taken
  OBVIOUS
<1> QED BY <1>2, <1>13, <1>14, <1>16, <1>17, <1>18, <1>19 DEF Join, y

\* With the link back set, what the upward loop does is the same as the downward one.
LEMMA AbsorbNextJoins ==
  ASSUME NEW x, Tiled(x), NEW p \in Live(x), x.blk[p].next # Null,
         ~x.blk[p].taken, ~x.blk[x.blk[p].next].taken
  PROVE  LinkAbove(AbsorbNext(x, p), p) = AbsorbIntoPrev(x, x.blk[p].next)
<1> DEFINE q == x.blk[p].next
           b == x.blk[q]
           m == b.next
           P == [x.blk[p] EXCEPT !.size = @ + b.size, !.next = m]
           y == AbsorbNext(x, p)
           z == LinkAbove(y, p)
           u == AbsorbIntoPrev(x, q)
<1>1. q \in Live(x) /\ x.blk[q].start = EndOf(x, p) /\ b.prev = p
  BY DEF Tiled, LinkedUp
<1>2. /\ x \in Allocator /\ x.blk \in [Ptr -> Block] /\ p \in Ptr /\ q \in Ptr
      /\ b \in Block /\ x.blk[p] \in Block
      /\ x.bottom \in Ptr \cup {Null} /\ x.top \in Ptr \cup {Null}
  BY <1>1 DEF Tiled, Allocator, Live
<1>3. p # q /\ m # p /\ m # q /\ m \in Ptr \cup {Null} /\ Null \notin Ptr /\ p # Null
  <2>1. /\ x.blk[p].start \in Nat /\ EndOf(x, p) \in Nat /\ x.blk[p].start < EndOf(x, p)
        /\ b.start \in Nat /\ EndOf(x, q) \in Nat /\ b.start < EndOf(x, q)
        /\ m \in Live(x) \cup {Null} /\ p # Null /\ q # Null
    BY <1>1, LiveBlock
  <2>2. m # Null => x.blk[m].start = EndOf(x, q)
    BY <1>1 DEF Tiled, LinkedUp
  <2>3. p # q
    BY <1>1, <2>1
  <2>4. m # Null => m # p /\ m # q
    BY <1>1, <2>1, <2>2
  <2> QED BY <2>1, <2>3, <2>4, Numbers DEF Live
<1> DEFINE Y == [x.blk EXCEPT ![p] = P, ![q] = NoBlock]
           Z == SetPrev(Y, m, p)
           L == SetPrev(x.blk, m, p)
           U == [L EXCEPT ![p] = P, ![q] = NoBlock]
<1>4. y = [x EXCEPT !.blk = Y]
  BY DEF AbsorbNext
<1>5. y.blk = Y /\ y.top = x.top
  <2> HIDE DEF Y, y
  <2> QED BY <1>2, <1>4 DEF Allocator
<1>6. Y[p] = P /\ Y[q] = NoBlock /\ P.next = m
      /\ \A r \in Ptr : r # p /\ r # q => Y[r] = x.blk[r]
  <2>1. P.next = m
    BY <1>2 DEF Block
  <2> HIDE DEF P, q, b, m
  <2> QED BY <1>2, <1>3, <2>1
<1>7. z = [y EXCEPT !.blk = Z, !.top = IF m = Null THEN p ELSE @]
  <2>1. y.blk[p].next = m
    BY <1>5, <1>6
  <2>2. z = [y EXCEPT !.blk = SetPrev(y.blk, y.blk[p].next, p),
                      !.top = IF y.blk[p].next = Null THEN p ELSE @]
    BY DEF LinkAbove
  <2>3. SetPrev(y.blk, m, p) = Z
    BY <1>5
  <2> HIDE DEF q, b, m, P, y, z, Y, Z
  <2> QED BY <2>1, <2>2, <2>3
<1>8. u = [x EXCEPT !.blk = U, !.top = IF m = Null THEN p ELSE @]
  <2>1. u = [x EXCEPT !.blk = [SetPrev(x.blk, b.next, b.prev) EXCEPT
                    ![b.prev] = [x.blk[b.prev] EXCEPT !.size = @ + b.size, !.next = b.next],
                    ![q] = NoBlock],
         !.top = IF b.next = Null THEN b.prev ELSE @]
    BY DEF AbsorbIntoPrev
  <2> QED BY <1>1, <2>1
<1>9. Z = U
  <2>1. CASE m = Null
    <3>1. Z = Y /\ L = x.blk
      BY <2>1 DEF SetPrev
    <3> QED BY <3>1
  <2>2. CASE m # Null
    <3>1. Z = [Y EXCEPT ![m].prev = p] /\ L = [x.blk EXCEPT ![m].prev = p]
      BY <2>2 DEF SetPrev
    <3>2. L[p] = x.blk[p] /\ Y[m] = x.blk[m]
      BY <1>2, <1>3, <1>6, <2>2, <3>1
    <3>3. U = [L EXCEPT ![p] = P, ![q] = NoBlock] /\ Y = [x.blk EXCEPT ![p] = P, ![q] = NoBlock]
      OBVIOUS
    <3> HIDE DEF P, Y, Z, L, U, q, b, m
    <3>5. ASSUME NEW r \in Ptr PROVE Z[r] = U[r]
      <4>1. CASE r = m
        BY <1>2, <1>3, <3>1, <3>2, <3>3, <4>1
      <4>2. CASE r # m
        BY <1>2, <1>3, <3>1, <3>2, <3>3, <4>2
      <4> QED BY <4>1, <4>2
    <3>6. Z = [r \in Ptr |-> Z[r]] /\ U = [r \in Ptr |-> U[r]]
      BY <1>2, <3>1, <3>3
    <3> QED BY <3>5, <3>6
  <2> QED BY <2>1, <2>2
<1>10. z = u
  <2> HIDE DEF q, b, m, P, y, z, u, Y, Z, U
  <2> QED BY <1>2, <1>4, <1>7, <1>8, <1>9 DEF Allocator
<1> QED BY <1>10

\* The fields that the next round of the upward loop looks at.
LEMMA AbsorbNextFields ==
  ASSUME NEW x, Tiled(x), NEW p \in Live(x), x.blk[p].next # Null
  PROVE  LET m == x.blk[x.blk[p].next].next
         IN  /\ AbsorbNext(x, p).blk[p].next = m
             /\ m # Null => AbsorbNext(x, p).blk[m] = x.blk[m]
<1> DEFINE q == x.blk[p].next
           m == x.blk[q].next
           P == [x.blk[p] EXCEPT !.size = @ + x.blk[q].size, !.next = m]
           Y == [x.blk EXCEPT ![p] = P, ![q] = NoBlock]
           y == AbsorbNext(x, p)
<1>1. q \in Live(x) /\ x.blk[q].start = EndOf(x, p)
  BY DEF Tiled, LinkedUp
<1>2. /\ x \in Allocator /\ x.blk \in [Ptr -> Block] /\ p \in Ptr /\ q \in Ptr
      /\ x.blk[p] \in Block
  BY <1>1 DEF Tiled, Allocator, Live
<1>3. p # q /\ (m # Null => m \in Ptr /\ m # p /\ m # q)
  <2>1. /\ x.blk[p].start \in Nat /\ EndOf(x, p) \in Nat /\ x.blk[p].start < EndOf(x, p)
        /\ x.blk[q].start \in Nat /\ EndOf(x, q) \in Nat /\ x.blk[q].start < EndOf(x, q)
        /\ m \in Live(x) \cup {Null}
    BY <1>1, LiveBlock
  <2>2. m # Null => x.blk[m].start = EndOf(x, q)
    BY <1>1 DEF Tiled, LinkedUp
  <2>3. EndOf(x, q) # x.blk[p].start /\ EndOf(x, q) # x.blk[q].start
        /\ x.blk[q].start # x.blk[p].start
    BY <1>1, <2>1
  <2>4. m # Null => m # p /\ m # q
    BY <2>2, <2>3
  <2>5. p # q
    BY <2>3
  <2> QED BY <2>1, <2>4, <2>5 DEF Live
<1>4. y = [x EXCEPT !.blk = Y]
  BY DEF AbsorbNext
<1>5. y.blk = Y
  <2> HIDE DEF Y, y
  <2> QED BY <1>2, <1>4 DEF Allocator
<1>6. P.next = m
  BY <1>2 DEF Block
<1> HIDE DEF P, q, m, y
<1>7. Y[p] = P /\ (m # Null => Y[m] = x.blk[m])
  BY <1>2, <1>3
<1>8. y.blk[p].next = m /\ (m # Null => y.blk[m] = x.blk[m])
  BY <1>5, <1>6, <1>7
<1> QED BY <1>8 DEF q, m, y

LEMMA LinksStay ==
  ASSUME NEW x, Tiled(x), NEW p \in Live(x)
  PROVE  LinkBelow(x, p) = x /\ LinkAbove(x, p) = x
<1> DEFINE prev == x.blk[p].prev
           next == x.blk[p].next
<1>1. /\ x \in Allocator /\ x.blk \in [Ptr -> Block] /\ p \in Ptr
      /\ x = [blk |-> x.blk, bottom |-> x.bottom, top |-> x.top]
  BY DEF Tiled, Allocator, Live
<1>2. /\ prev \in Ptr \cup {Null} /\ next \in Ptr \cup {Null}
      /\ IF prev = Null THEN p = x.bottom ELSE x.blk[prev].next = p
      /\ IF next = Null THEN p = x.top ELSE x.blk[next].prev = p
  BY LiveBlock DEF Tiled, LinkedUp, LinkedDown, Live
<1>3. \A r \in Ptr : x.blk[r] = [start |-> x.blk[r].start, size |-> x.blk[r].size,
                                 taken |-> x.blk[r].taken, prev |-> x.blk[r].prev,
                                 next |-> x.blk[r].next]
  BY <1>1 DEF Block
<1>4. /\ LinkBelow(x, p) = [x EXCEPT !.blk = SetNext(x.blk, prev, p),
                                     !.bottom = IF prev = Null THEN p ELSE @]
      /\ LinkAbove(x, p) = [x EXCEPT !.blk = SetPrev(x.blk, next, p),
                                     !.top = IF next = Null THEN p ELSE @]
  BY DEF LinkBelow, LinkAbove
<1> HIDE DEF prev, next
<1>5. SetNext(x.blk, prev, p) = x.blk
  <2>1. CASE prev = Null
    BY <2>1 DEF SetNext
  <2>2. CASE prev # Null
    <3>1. prev \in Ptr /\ x.blk[prev].next = p
      BY <1>2, <2>2
    <3>2. [x.blk[prev] EXCEPT !.next = p] = x.blk[prev]
      BY <1>3, <3>1
    <3> QED BY <1>1, <2>2, <3>1, <3>2 DEF SetNext
  <2> QED BY <2>1, <2>2
<1>6. SetPrev(x.blk, next, p) = x.blk
  <2>1. CASE next = Null
    BY <2>1 DEF SetPrev
  <2>2. CASE next # Null
    <3>1. next \in Ptr /\ x.blk[next].prev = p
      BY <1>2, <2>2
    <3>2. [x.blk[next] EXCEPT !.prev = p] = x.blk[next]
      BY <1>3, <3>1
    <3> QED BY <1>1, <2>2, <3>1, <3>2 DEF SetPrev
  <2> QED BY <2>1, <2>2
<1> QED BY <1>1, <1>2, <1>4, <1>5, <1>6

-----------------------------------------------------------------------------
(* What is held stays held while free blocks are split and joined. *)

SameHeld(x, y) ==
  \A q \in Ptr :
    /\ y.blk[q].taken <=> x.blk[q].taken
    /\ x.blk[q].taken => /\ y.blk[q].start = x.blk[q].start
                         /\ y.blk[q].size = x.blk[q].size

LEMMA TakenIsLive ==
  ASSUME NEW x, NEW q \in Ptr, x.blk[q].taken
  PROVE  q \in Live(x)
<1>1. ~NoBlock.taken
  BY DEF NoBlock
<1> QED BY <1>1 DEF Live

LEMMA SplitHolds ==
  ASSUME NEW x, NEW y, NEW p \in Live(x), NEW lo, NEW hi, Split(x, y, p, lo, hi)
  PROVE  SameHeld(x, y)
<1> SUFFICES ASSUME NEW q \in Ptr
             PROVE  /\ y.blk[q].taken <=> x.blk[q].taken
                    /\ x.blk[q].taken => /\ y.blk[q].start = x.blk[q].start
                                         /\ y.blk[q].size = x.blk[q].size
  BY DEF SameHeld
<1>1. CASE q \in Live(x) \ {p}
  BY <1>1 DEF Split
<1>2. CASE q \notin Live(x) \ {p}
  <2>1. ~x.blk[q].taken
    <3>1. q = p \/ q \notin Live(x)
      BY <1>2
    <3> QED BY <3>1, TakenIsLive DEF Split
  <2>2. ~y.blk[q].taken
    <3>1. q \in {lo, hi} \/ q \notin Live(y)
      BY <1>2 DEF Split
    <3> QED BY <3>1, TakenIsLive DEF Split
  <2> QED BY <2>1, <2>2
<1> QED BY <1>1, <1>2

LEMMA JoinHolds ==
  ASSUME NEW x, NEW y, NEW lo, NEW hi, Join(x, y, lo, hi)
  PROVE  SameHeld(x, y)
<1> SUFFICES ASSUME NEW q \in Ptr
             PROVE  /\ y.blk[q].taken <=> x.blk[q].taken
                    /\ x.blk[q].taken => /\ y.blk[q].start = x.blk[q].start
                                         /\ y.blk[q].size = x.blk[q].size
  BY DEF SameHeld
<1>1. CASE q \in Live(x) \ {lo, hi}
  BY <1>1 DEF Join
<1>2. CASE q \notin Live(x) \ {lo, hi}
  <2>1. ~x.blk[q].taken
    <3>1. q \in {lo, hi} \/ q \notin Live(x)
      BY <1>2
    <3> QED BY <3>1, TakenIsLive DEF Join
  <2>2. ~y.blk[q].taken
    <3>1. q = lo \/ q \notin Live(y)
      BY <1>2 DEF Join
    <3> QED BY <3>1, TakenIsLive DEF Join
  <2> QED BY <2>1, <2>2
<1> QED BY <1>1, <1>2

LEMMA SameHeldComposes ==
  ASSUME NEW x, NEW y, NEW z, SameHeld(x, y), SameHeld(y, z)
  PROVE  SameHeld(x, z)
BY DEF SameHeld

-----------------------------------------------------------------------------
(* Merging.  As no free block follows a free block elsewhere, each of the two *)
(* loops joins one block at most.                                             *)

\* What a join leaves around the joined block.
LEMMA JoinNeighbours ==
  ASSUME NEW x, NEW y, NEW lo, NEW hi, Tiled(x), Join(x, y, lo, hi)
  PROVE  /\ lo # hi /\ x.blk[lo].next = hi
         /\ x.blk[lo].prev # Null =>
              /\ x.blk[lo].prev \in Live(x) \ {lo, hi} /\ x.blk[x.blk[lo].prev].next = lo
         /\ x.blk[hi].next # Null =>
              /\ x.blk[hi].next \in Live(x) \ {lo, hi} /\ x.blk[x.blk[hi].next].prev = hi
<1>1. lo \in Live(x) /\ hi \in Live(x) /\ x.blk[hi].prev = lo
  BY DEF Join
<1>2. /\ x.blk[lo].start \in Nat /\ EndOf(x, lo) \in Nat /\ x.blk[lo].start < EndOf(x, lo)
      /\ x.blk[hi].start \in Nat /\ EndOf(x, hi) \in Nat /\ x.blk[hi].start < EndOf(x, hi)
      /\ lo # Null
  BY <1>1, LiveBlock
<1>3. EndOf(x, lo) = x.blk[hi].start /\ x.blk[lo].next = hi
  BY <1>1, <1>2 DEF Tiled, LinkedDown
<1>4. /\ EndOf(x, lo) # x.blk[lo].start /\ EndOf(x, hi) # x.blk[lo].start
      /\ EndOf(x, hi) # x.blk[hi].start
  BY <1>2, <1>3
<1>5. x.blk[lo].prev # Null => /\ x.blk[lo].prev \in Live(x)
                               /\ EndOf(x, x.blk[lo].prev) = x.blk[lo].start
                               /\ x.blk[x.blk[lo].prev].next = lo
  BY <1>1 DEF Tiled, LinkedDown
<1>6. x.blk[hi].next # Null => /\ x.blk[hi].next \in Live(x)
                               /\ x.blk[x.blk[hi].next].start = EndOf(x, hi)
                               /\ x.blk[x.blk[hi].next].prev = hi
  BY <1>1 DEF Tiled, LinkedUp
<1>7. lo # hi
  BY <1>3, <1>4
<1>8. x.blk[lo].prev # Null => x.blk[lo].prev # lo /\ x.blk[lo].prev # hi
  BY <1>4, <1>5
<1>9. x.blk[hi].next # Null => x.blk[hi].next # lo /\ x.blk[hi].next # hi
  BY <1>4, <1>6
<1> QED BY <1>3, <1>5, <1>6, <1>7, <1>8, <1>9

LEMMA JoinMerges ==
  ASSUME NEW x, NEW y, NEW lo, NEW hi, Tiled(x), Join(x, y, lo, hi)
  PROVE  /\ MergedBut(x, hi) => MergedBut(y, lo) /\ LowTaken(y, lo)
         /\ MergedBut(x, lo) /\ LowTaken(x, lo) => MergedBut(y, Null)
<1>1. /\ lo # hi /\ x.blk[lo].next = hi
      /\ x.blk[lo].prev # Null =>
           /\ x.blk[lo].prev \in Live(x) \ {lo, hi} /\ x.blk[x.blk[lo].prev].next = lo
      /\ x.blk[hi].next # Null =>
           /\ x.blk[hi].next \in Live(x) \ {lo, hi} /\ x.blk[x.blk[hi].next].prev = hi
  BY JoinNeighbours
<1>2. /\ lo \in Live(x) /\ hi \in Live(x) /\ x.blk[hi].prev = lo /\ Live(y) = Live(x) \ {hi}
      /\ ~x.blk[lo].taken /\ ~x.blk[hi].taken
      /\ y.blk[lo].next = x.blk[hi].next /\ y.blk[lo].prev = x.blk[lo].prev
  BY DEF Join
<1>3. \A q \in Live(x) \ {lo, hi} :
        (y.blk[q].taken <=> x.blk[q].taken) /\ y.blk[q].next = x.blk[q].next
  BY DEF Join
<1>4. lo # Null /\ hi # Null
  BY <1>2, LiveBlock
\* A link between two of the other blocks.
<1>5. ASSUME NEW q \in Live(y), q # lo, y.blk[q].next # Null, y.blk[q].next # lo
      PROVE  /\ y.blk[q].next = x.blk[q].next /\ q \in Live(x) \ {lo, hi}
             /\ x.blk[q].next \in Live(x) \ {lo, hi}
  <2>1. q \in Live(x) \ {lo, hi} /\ y.blk[q].next = x.blk[q].next
    BY <1>2, <1>3, <1>5
  <2>2. x.blk[q].next \in Live(x) /\ x.blk[x.blk[q].next].prev = q
    BY <1>5, <2>1 DEF Tiled, LinkedUp
  <2> QED BY <1>2, <1>5, <2>1, <2>2
<1>6. ASSUME MergedBut(x, hi) PROVE MergedBut(y, lo) /\ LowTaken(y, lo)
  <2>1. ASSUME NEW q \in Live(y), y.blk[q].next # Null, q # lo, y.blk[q].next # lo
        PROVE  y.blk[q].taken \/ y.blk[y.blk[q].next].taken
    <3>1. /\ y.blk[q].next = x.blk[q].next /\ q \in Live(x) \ {lo, hi}
          /\ x.blk[q].next \in Live(x) \ {lo, hi}
      BY <1>5, <2>1
    <3>2. x.blk[q].taken \/ x.blk[x.blk[q].next].taken
      BY <1>6, <2>1, <3>1 DEF MergedBut
    <3> QED BY <1>3, <3>1, <3>2
  <2>2. LowTaken(y, lo)
    <3> DEFINE m == x.blk[lo].prev
    <3>1. CASE m = Null
      BY <1>2, <3>1 DEF LowTaken
    <3>2. CASE m # Null
      <4>1. m \in Live(x) \ {lo, hi} /\ x.blk[m].next = lo
        BY <1>1, <3>2
      <4>2. x.blk[m].taken \/ x.blk[lo].taken
        BY <1>1, <1>4, <1>6, <4>1 DEF MergedBut
      <4> QED BY <1>2, <1>3, <4>1, <4>2 DEF LowTaken
    <3> QED BY <3>1, <3>2
  <2> QED BY <2>1, <2>2 DEF MergedBut
<1>7. ASSUME MergedBut(x, lo), LowTaken(x, lo) PROVE MergedBut(y, Null)
  <2> SUFFICES ASSUME NEW q \in Live(y), y.blk[q].next # Null
               PROVE  y.blk[q].taken \/ y.blk[y.blk[q].next].taken
    BY DEF MergedBut
  <2>1. CASE q = lo
    <3> DEFINE m == x.blk[hi].next
    <3>1. y.blk[q].next = m /\ m \in Live(x) \ {lo, hi}
      BY <1>1, <1>2, <2>1
    <3>2. x.blk[hi].taken \/ x.blk[m].taken
      BY <1>1, <1>2, <1>7, <2>1, <3>1 DEF MergedBut
    <3> QED BY <1>2, <1>3, <3>1, <3>2
  <2>2. CASE q # lo /\ y.blk[q].next = lo
    <3>1. q \in Live(x) \ {lo, hi} /\ x.blk[q].next = lo
      BY <1>2, <1>3, <2>2
    <3>2. x.blk[lo].prev = q
      BY <1>4, <3>1 DEF Tiled, LinkedUp
    <3>3. q # Null
      BY <3>1, LiveBlock
    <3>4. x.blk[q].taken
      BY <1>7, <3>2, <3>3 DEF LowTaken
    <3> QED BY <1>3, <3>1, <3>4
  <2>3. CASE q # lo /\ y.blk[q].next # lo
    <3>1. /\ y.blk[q].next = x.blk[q].next /\ q \in Live(x) \ {lo, hi}
          /\ x.blk[q].next \in Live(x) \ {lo, hi}
      BY <1>5, <2>3
    <3>2. x.blk[q].taken \/ x.blk[x.blk[q].next].taken
      BY <1>7, <2>3, <3>1 DEF MergedBut
    <3> QED BY <1>3, <3>1, <3>2
  <2> QED BY <2>1, <2>2, <2>3
<1> QED BY <1>6, <1>7

LEMMA MergeDownOnce ==
  ASSUME NEW x, NEW p,
         DownRound(DownRound([x |-> x, from |-> p])) = DownRound([x |-> x, from |-> p])
  PROVE  MergeDown(x, p) = DownRound([x |-> x, from |-> p])
<1> DEFINE e == [x |-> x, from |-> p]
           d == DownRound(e)
           M == MaxBlocks
           IsLoop(f) == f = [n \in 0..M |-> IF n = 0 THEN e ELSE DownRound(f[n - 1])]
           after == CHOOSE f : IsLoop(f)
           G == {n \in 0..M : n = 0 \/ after[n] = d}
           h == [n \in 0..M |-> IF n = 0 THEN e ELSE d]
<1>1. M \in Nat \ {0}
  BY Numbers
<1>2. MergeDown(x, p) = after[M]
  BY DEF MergeDown
<1>3. DownRound(d) = d /\ DownRound(e) = d
  OBVIOUS
<1> HIDE DEF e, d, M
<1>4. IsLoop(h)
  <2>1. \A n \in 0..M : n # 0 => n - 1 \in 0..M /\ (n - 1 = 0 \/ n - 1 # 0)
    BY <1>1
  <2>2. ASSUME NEW n \in 0..M, n # 0 PROVE DownRound(h[n - 1]) = d
    <3>1. n - 1 \in 0..M
      BY <2>1, <2>2
    <3>2. h[n - 1] = e \/ h[n - 1] = d
      BY <3>1
    <3> HIDE DEF h
    <3> QED BY <1>3, <3>2
  <2>3. h = [n \in 0..M |-> IF n = 0 THEN e ELSE DownRound(h[n - 1])]
    BY <2>2
  <2> QED BY <2>3
<1>5. IsLoop(after)
  <2> HIDE DEF IsLoop
  <2> QED BY <1>4
<1> HIDE DEF after
<1>6. /\ after[0] = e
      /\ \A n \in 1..M : after[n] = DownRound(after[n - 1])
  BY <1>1, <1>5
<1>7. ASSUME NEW n \in 1..M, n - 1 \in G PROVE n \in G
  BY <1>1, <1>3, <1>6, <1>7
<1>8. 0 \in G /\ \A n \in 1..M : n - 1 \in G => n \in G
  BY <1>1, <1>7
<1>9. M \in G
  <2> HIDE DEF G
  <2>1. \A n \in 0..M : n \in G
    BY <1>1, <1>8, SetInduction
  <2> QED BY <1>1, <2>1
<1>10. after[M] = d
  BY <1>1, <1>9
<1> QED BY <1>2, <1>10 DEF d, e

LEMMA MergeUpOnce ==
  ASSUME NEW x, NEW p, UpRound(UpRound(x, p), p) = UpRound(x, p)
  PROVE  MergeUp(x, p) = UpRound(x, p)
<1> DEFINE d == UpRound(x, p)
           M == MaxBlocks
           IsLoop(f) == f = [n \in 0..M |-> IF n = 0 THEN x ELSE UpRound(f[n - 1], p)]
           after == CHOOSE f : IsLoop(f)
           G == {n \in 0..M : n = 0 \/ after[n] = d}
           h == [n \in 0..M |-> IF n = 0 THEN x ELSE d]
<1>1. M \in Nat \ {0}
  BY Numbers
<1>2. MergeUp(x, p) = after[M]
  BY DEF MergeUp
<1>3. UpRound(d, p) = d /\ UpRound(x, p) = d
  OBVIOUS
<1> HIDE DEF d, M
<1>4. IsLoop(h)
  <2>1. ASSUME NEW n \in 0..M, n # 0 PROVE UpRound(h[n - 1], p) = d
    <3>1. n - 1 \in 0..M
      BY <1>1, <2>1
    <3>2. h[n - 1] = x \/ h[n - 1] = d
      BY <3>1
    <3> HIDE DEF h
    <3> QED BY <1>3, <3>2
  <2>2. h = [n \in 0..M |-> IF n = 0 THEN x ELSE UpRound(h[n - 1], p)]
    BY <2>1
  <2> QED BY <2>2
<1>5. IsLoop(after)
  <2> HIDE DEF IsLoop
  <2> QED BY <1>4
<1> HIDE DEF after
<1>6. /\ after[0] = x
      /\ \A n \in 1..M : after[n] = UpRound(after[n - 1], p)
  BY <1>1, <1>5
<1>7. ASSUME NEW n \in 1..M, n - 1 \in G PROVE n \in G
  BY <1>1, <1>3, <1>6, <1>7
<1>8. 0 \in G /\ \A n \in 1..M : n - 1 \in G => n \in G
  BY <1>1, <1>7
<1>9. M \in G
  <2> HIDE DEF G
  <2>1. \A n \in 0..M : n \in G
    BY <1>1, <1>8, SetInduction
  <2> QED BY <1>1, <2>1
<1>10. after[M] = d
  BY <1>1, <1>9
<1> QED BY <1>2, <1>10 DEF d

\* A block that was given back, p, merged with its free neighbours.
LEMMA MergeDownMerges ==
  ASSUME NEW x, Tiled(x), NEW p \in Live(x), ~x.blk[p].taken, MergedBut(x, p)
  PROVE  LET d == MergeDown(x, p)
         IN  /\ Tiled(d.x) /\ d.from \in Live(d.x) /\ ~d.x.blk[d.from].taken
             /\ MergedBut(d.x, d.from) /\ LowTaken(d.x, d.from) /\ SameHeld(x, d.x)
<1> DEFINE e == [x |-> x, from |-> p]
           prev == x.blk[p].prev
           y == AbsorbIntoPrev(x, p)
           d == DownRound(e)
           Done(z) == /\ Tiled(z.x) /\ z.from \in Live(z.x) /\ ~z.x.blk[z.from].taken
                      /\ MergedBut(z.x, z.from) /\ LowTaken(z.x, z.from) /\ SameHeld(x, z.x)
<1>1. e.x = x /\ e.from = p
  OBVIOUS
<1>2. d = IF prev = Null \/ x.blk[prev].taken THEN e ELSE [x |-> y, from |-> prev]
  BY <1>1 DEF DownRound
<1>3. Done(d)
  <2>1. CASE prev = Null \/ x.blk[prev].taken
    <3>1. d = e
      BY <1>2, <2>1
    <3>2. LowTaken(x, p)
      BY <2>1 DEF LowTaken
    <3>3. SameHeld(x, x)
      BY DEF SameHeld
    <3> HIDE DEF d, e
    <3> QED BY <1>1, <3>1, <3>2, <3>3
  <2>2. CASE ~(prev = Null \/ x.blk[prev].taken)
    <3>1. d.x = y /\ d.from = prev
      BY <1>2, <2>2
    <3>2. Join(x, y, prev, p)
      BY <2>2, AbsorbJoins
    <3> HIDE DEF y, d, prev
    <3>3. Tiled(y) /\ SameHeld(x, y)
      BY <3>2, JoinTiled, JoinHolds
    <3>4. MergedBut(y, prev) /\ LowTaken(y, prev)
      BY <3>2, JoinMerges
    <3>5. prev \in Live(y) /\ ~y.blk[prev].taken
      <4>1. prev # p
        BY <3>2, JoinNeighbours
      <4> QED BY <3>2, <4>1 DEF Join
    <3> QED BY <3>1, <3>3, <3>4, <3>5
  <2> QED BY <2>1, <2>2
<1>4. DownRound(d) = d
  <2> HIDE DEF d
  <2> QED BY <1>3 DEF DownRound, LowTaken
<1>5. MergeDown(x, p) = d
  BY <1>4, MergeDownOnce
<1> HIDE DEF d
<1> QED BY <1>3, <1>5

LEMMA MergeUpMerges ==
  ASSUME NEW x, Tiled(x), NEW p \in Live(x), ~x.blk[p].taken, MergedBut(x, p), LowTaken(x, p)
  PROVE  LET y == LinkAbove(MergeUp(x, p), p)
         IN  Tiled(y) /\ MergedBut(y, Null) /\ SameHeld(x, y)
<1> DEFINE next == x.blk[p].next
           u == UpRound(x, p)
           y == LinkAbove(u, p)
<1>1. u = IF next = Null \/ x.blk[next].taken THEN x ELSE AbsorbNext(x, p)
  BY DEF UpRound
<1>2. CASE next = Null \/ x.blk[next].taken
  <2>1. u = x
    BY <1>1, <1>2
  <2>2. MergeUp(x, p) = x
    <3>1. UpRound(u, p) = u
      BY <2>1
    <3> QED BY <2>1, <3>1, MergeUpOnce
  <2>3. LinkAbove(x, p) = x
    BY LinksStay
  <2>4. SameHeld(x, x)
    BY DEF SameHeld
  <2>5. MergedBut(x, Null)
    <3> SUFFICES ASSUME NEW q \in Live(x), x.blk[q].next # Null
                 PROVE  x.blk[q].taken \/ x.blk[x.blk[q].next].taken
      BY DEF MergedBut
    <3>1. CASE q = p
      BY <1>2, <3>1
    <3>2. CASE x.blk[q].next = p
      <4>1. x.blk[p].prev = q /\ q # Null
        BY <3>2, LiveBlock DEF Tiled, LinkedUp
      <4> QED BY <4>1 DEF LowTaken
    <3>3. CASE q # p /\ x.blk[q].next # p
      BY <3>3 DEF MergedBut
    <3> QED BY <3>1, <3>2, <3>3
  <2> HIDE DEF u, y, next
  <2> QED BY <2>2, <2>3, <2>4, <2>5
<1>3. CASE ~(next = Null \/ x.blk[next].taken)
  <2> DEFINE m == x.blk[next].next
             z == AbsorbIntoPrev(x, next)
  <2>1. u = AbsorbNext(x, p)
    BY <1>1, <1>3
  <2>2. /\ next \in Live(x) /\ x.blk[next].prev = p /\ p # Null
    BY <1>3, LiveBlock DEF Tiled, LinkedUp
  <2>3. Join(x, z, p, next)
    BY <1>3, <2>2, AbsorbJoins
  <2>4. m # Null => m \in Live(x) \ {p, next} /\ x.blk[m].prev = next
    <3> HIDE DEF z, next
    <3> QED BY <2>3, JoinNeighbours
  <2>5. m # Null => x.blk[m].taken
    <3>1. m # Null => next # p /\ m # p
      BY <2>3, <2>4, JoinNeighbours
    <3> QED BY <1>3, <2>2, <3>1 DEF MergedBut
  <2>6. u.blk[p].next = m /\ (m # Null => u.blk[m] = x.blk[m])
    BY <1>3, <2>1, AbsorbNextFields
  <2>7. MergeUp(x, p) = u
    <3>1. UpRound(u, p) = u
      <4> HIDE DEF u, m
      <4> QED BY <2>5, <2>6 DEF UpRound
    <3> QED BY <3>1, MergeUpOnce
  <2>8. LinkAbove(u, p) = z
    BY <1>3, <2>1, AbsorbNextJoins
  <2> HIDE DEF u, z, next
  <2>9. Tiled(z) /\ SameHeld(x, z)
    BY <2>3, JoinTiled, JoinHolds
  <2>10. MergedBut(z, Null)
    BY <2>3, JoinMerges
  <2> QED BY <2>7, <2>8, <2>9, <2>10
<1> QED BY <1>2, <1>3

LEMMA MergeMerges ==
  ASSUME NEW x, Tiled(x), NEW p \in Live(x), ~x.blk[p].taken, MergedBut(x, p)
  PROVE  LET y == MergeFreeBlocks(x, p)
         IN  Tiled(y) /\ MergedBut(y, Null) /\ SameHeld(x, y)
<1> DEFINE d == MergeDown(x, p)
           z == d.x
           q == d.from
           y == LinkAbove(MergeUp(z, q), q)
<1>1. /\ Tiled(z) /\ q \in Live(z) /\ ~z.blk[q].taken
      /\ MergedBut(z, q) /\ LowTaken(z, q) /\ SameHeld(x, z)
  BY MergeDownMerges
<1>2. MergeFreeBlocks(x, p) = LinkAbove(MergeUp(LinkBelow(z, q), q), q)
  BY DEF MergeFreeBlocks
<1> HIDE DEF d, z, q
<1>3. LinkBelow(z, q) = z
  BY <1>1, LinksStay
<1>4. Tiled(y) /\ MergedBut(y, Null) /\ SameHeld(z, y)
  BY <1>1, MergeUpMerges
<1>5. MergeFreeBlocks(x, p) = y
  BY <1>2, <1>3
<1> HIDE DEF y
<1>6. SameHeld(x, y)
  BY <1>1, <1>4, SameHeldComposes
<1> QED BY <1>4, <1>5, <1>6

-----------------------------------------------------------------------------
(* Taking a block and giving it back. *)

\* y is x with p taken or given back.
Flipped(x, y, p) ==
  /\ y \in Allocator /\ y.bottom = x.bottom /\ y.top = x.top /\ Live(y) = Live(x)
  /\ \A q \in Ptr :
       /\ y.blk[q].start = x.blk[q].start /\ y.blk[q].size = x.blk[q].size
       /\ y.blk[q].next = x.blk[q].next /\ y.blk[q].prev = x.blk[q].prev
       /\ q # p => (y.blk[q].taken <=> x.blk[q].taken)

LEMMA FlippedTiled ==
  ASSUME NEW x, NEW y, NEW p, Tiled(x), Flipped(x, y, p)
  PROVE  Tiled(y) /\ (MergedBut(x, p) => MergedBut(y, p))
<1>1. /\ y \in Allocator /\ y.bottom = x.bottom /\ y.top = x.top /\ Live(y) = Live(x)
      /\ Live(x) \subseteq Ptr
  BY DEF Flipped, Live
<1>2. \A q \in Live(x) :
        /\ y.blk[q].start = x.blk[q].start /\ y.blk[q].size = x.blk[q].size
        /\ y.blk[q].next = x.blk[q].next /\ y.blk[q].prev = x.blk[q].prev
        /\ EndOf(y, q) = EndOf(x, q)
  BY <1>1 DEF Flipped, EndOf
<1>3. InRange(y) /\ Ends(y) /\ Apart(y)
  BY <1>1, <1>2 DEF Tiled, InRange, Ends, Apart
<1>4. LinkedUp(y)
  BY <1>1, <1>2 DEF Tiled, LinkedUp
<1>5. LinkedDown(y)
  BY <1>1, <1>2 DEF Tiled, LinkedDown
<1>6. ASSUME MergedBut(x, p), NEW q \in Live(y), y.blk[q].next # Null, q # p, y.blk[q].next # p
      PROVE  y.blk[q].taken \/ y.blk[y.blk[q].next].taken
  <2> DEFINE m == x.blk[q].next
  <2>1. y.blk[q].next = m /\ m \in Ptr /\ q \in Ptr
    BY <1>1, <1>2, <1>6, LiveBlock
  <2>2. x.blk[q].taken \/ x.blk[m].taken
    BY <1>1, <1>6, <2>1 DEF MergedBut
  <2> HIDE DEF m
  <2> QED BY <1>6, <2>1, <2>2 DEF Flipped
<1>7. MergedBut(x, p) => MergedBut(y, p)
  BY <1>6 DEF MergedBut
<1> QED BY <1>1, <1>3, <1>4, <1>5, <1>7 DEF Tiled

LEMMA TakeFlips ==
  ASSUME NEW x, Tiled(x), NEW p \in Live(x)
  PROVE  /\ Flipped(x, Take(x, p), p) /\ Take(x, p).blk[p].taken
         /\ Flipped(x, Untake(x, p), p) /\ ~Untake(x, p).blk[p].taken
<1>1. /\ x \in Allocator /\ x.blk \in [Ptr -> Block] /\ p \in Ptr
      /\ x.bottom \in Ptr \cup {Null} /\ x.top \in Ptr \cup {Null}
      /\ x.blk[p] \in Block /\ x.blk[p].size # 0
  BY LiveBlock DEF Tiled, Allocator, Live
<1> DEFINE Set(t) == [x.blk EXCEPT ![p].taken = t]
           With(t) == [x EXCEPT !.blk = Set(t)]
<1>2. Take(x, p) = With(TRUE) /\ Untake(x, p) = With(FALSE)
  BY DEF Take, Untake
<1>3. ASSUME NEW t \in BOOLEAN PROVE Flipped(x, With(t), p) /\ With(t).blk[p].taken = t
  <2> DEFINE y == With(t)
             P == [x.blk[p] EXCEPT !.taken = t]
  <2>1. /\ P \in Block /\ P.start = x.blk[p].start /\ P.size = x.blk[p].size
        /\ P.next = x.blk[p].next /\ P.prev = x.blk[p].prev /\ P.taken = t
    BY <1>1 DEF Block
  <2>2. Set(t) = [x.blk EXCEPT ![p] = P]
    OBVIOUS
  <2> HIDE DEF P, Set
  <2>3. Set(t) \in [Ptr -> Block] /\ Set(t)[p] = P /\ \A q \in Ptr : q # p => Set(t)[q] = x.blk[q]
    BY <1>1, <2>1, <2>2
  <2>4. y \in Allocator /\ y.blk = Set(t) /\ y.bottom = x.bottom /\ y.top = x.top
    BY <1>1, <2>3 DEF Allocator
  <2> HIDE DEF y
  <2>5. ASSUME NEW q \in Ptr
        PROVE  /\ y.blk[q].start = x.blk[q].start /\ y.blk[q].size = x.blk[q].size
               /\ y.blk[q].next = x.blk[q].next /\ y.blk[q].prev = x.blk[q].prev
               /\ q # p => (y.blk[q].taken <=> x.blk[q].taken)
    BY <2>1, <2>3, <2>4
  <2>6. Live(y) = Live(x)
    <3>1. p \in Live(y)
      BY <1>1, <2>1, <2>3, <2>4, SizedBlock
    <3>2. \A q \in Ptr : q # p => y.blk[q] = x.blk[q]
      BY <2>3, <2>4
    <3> QED BY <3>1, <3>2 DEF Live
  <2>7. y.blk[p].taken = t
    BY <2>1, <2>3, <2>4
  <2> QED BY <2>4, <2>5, <2>6, <2>7 DEF Flipped, y
<1> HIDE DEF With
<1> QED BY <1>2, <1>3

-----------------------------------------------------------------------------
(* Carving an allocation out of a free block. *)

\* z is x after a number of splits of p, which is still free.
Carving(x, z, p) ==
  Tiled(z) /\ p \in Live(z) /\ ~z.blk[p].taken /\ MergedBut(z, p) /\ SameHeld(x, z)

\* y is x with what p has become handed out.
HandsOut(x, y, p) ==
  /\ Tiled(y) /\ MergedBut(y, Null) /\ p \in Live(y) /\ ~x.blk[p].taken
  /\ \A q \in Ptr :
       /\ y.blk[q].taken <=> (q = p \/ x.blk[q].taken)
       /\ x.blk[q].taken => /\ y.blk[q].start = x.blk[q].start
                            /\ y.blk[q].size = x.blk[q].size

LEMMA TakeHandsOut ==
  ASSUME NEW x, NEW z, NEW p, Carving(x, z, p)
  PROVE  /\ HandsOut(x, Take(z, p), p)
         /\ Take(z, p).blk[p].start = z.blk[p].start /\ Take(z, p).blk[p].size = z.blk[p].size
<1> DEFINE y == Take(z, p)
<1>1. Tiled(z) /\ p \in Live(z) /\ ~z.blk[p].taken /\ MergedBut(z, p) /\ SameHeld(x, z)
  BY DEF Carving
<1>2. Flipped(z, y, p) /\ y.blk[p].taken
  BY <1>1, TakeFlips
<1> HIDE DEF y
<1>3. Tiled(y) /\ MergedBut(y, p)
  BY <1>1, <1>2, FlippedTiled
<1>4. p \in Ptr /\ Live(y) = Live(z) /\ p \in Live(y)
  BY <1>1, <1>2 DEF Flipped, Live
<1>5. MergedBut(y, Null)
  BY <1>2, <1>3 DEF MergedBut
<1>6. ~x.blk[p].taken
  BY <1>1, <1>4 DEF SameHeld
<1>7. ASSUME NEW q \in Ptr
      PROVE  /\ y.blk[q].taken <=> (q = p \/ x.blk[q].taken)
             /\ x.blk[q].taken => /\ y.blk[q].start = x.blk[q].start
                                  /\ y.blk[q].size = x.blk[q].size
  <2>1. CASE q = p
    BY <1>2, <1>6, <2>1
  <2>2. CASE q # p
    BY <1>1, <1>2, <2>2 DEF Flipped, SameHeld
  <2> QED BY <2>1, <2>2
<1>8. HandsOut(x, y, p)
  BY <1>3, <1>4, <1>5, <1>6, <1>7 DEF HandsOut
<1>9. y.blk[p].start = z.blk[p].start /\ y.blk[p].size = z.blk[p].size
  BY <1>2, <1>4 DEF Flipped
<1> QED BY <1>8, <1>9 DEF y

LEMMA SplitNeighbours ==
  ASSUME NEW x, NEW y, NEW p \in Live(x), NEW lo, NEW hi, Tiled(x), Split(x, y, p, lo, hi),
         MergedBut(x, p)
  PROVE  /\ hi = p /\ LowTaken(x, p) => MergedBut(y, p)
         /\ lo = p /\ HighTaken(x, p) => MergedBut(y, p)
         /\ lo = p /\ LowTaken(x, p) => LowTaken(y, p)
         /\ hi = p /\ HighTaken(x, p) => HighTaken(y, p)
<1> DEFINE Others == Live(x) \ {p}
<1>1. /\ lo # hi /\ lo \notin Others /\ hi \notin Others /\ Live(y) = Others \cup {lo, hi}
      /\ y.blk[lo].prev = x.blk[p].prev /\ y.blk[lo].next = hi
      /\ y.blk[hi].prev = lo /\ y.blk[hi].next = x.blk[p].next
      /\ lo \in Ptr /\ hi \in Ptr
  BY DEF Split
<1>2. \A q \in Others :
        /\ y.blk[q].taken <=> x.blk[q].taken
        /\ y.blk[q].next = IF q = x.blk[p].prev THEN lo ELSE x.blk[q].next
  BY DEF Split
<1>3. x.blk[p].prev # Null => x.blk[p].prev \in Others
  <2>1. x.blk[p].prev # Null => /\ x.blk[p].prev \in Live(x)
                                /\ EndOf(x, x.blk[p].prev) = x.blk[p].start
    BY DEF Tiled, LinkedDown
  <2>2. EndOf(x, p) # x.blk[p].start
    BY LiveBlock
  <2> QED BY <2>1, <2>2
<1>4. x.blk[p].next # Null => x.blk[p].next \in Others
  <2>1. x.blk[p].next # Null => /\ x.blk[p].next \in Live(x)
                                /\ x.blk[x.blk[p].next].start = EndOf(x, p)
    BY DEF Tiled, LinkedUp
  <2>2. EndOf(x, p) # x.blk[p].start
    BY LiveBlock
  <2> QED BY <2>1, <2>2
\* A link between two of the other blocks.
<1>5. ASSUME NEW q \in Others, y.blk[q].next # Null, y.blk[q].next \notin {lo, hi}
      PROVE  y.blk[q].taken \/ y.blk[y.blk[q].next].taken
  <2> DEFINE m == x.blk[q].next
  <2>1. y.blk[q].next = m /\ q # x.blk[p].prev
    BY <1>2, <1>5
  <2>2. m \in Live(x) /\ x.blk[m].prev = q
    BY <1>5, <2>1 DEF Tiled, LinkedUp
  <2>3. m # p
    BY <2>1, <2>2
  <2>4. x.blk[q].taken \/ x.blk[m].taken
    BY <1>5, <2>1, <2>3 DEF MergedBut
  <2> HIDE DEF m
  <2> QED BY <1>2, <2>1, <2>2, <2>3, <2>4
\* The links to lo and to hi.
<1>6. ASSUME NEW q \in Others, y.blk[q].next \in {lo, hi}
      PROVE  y.blk[q].next = lo /\ q = x.blk[p].prev
  <2>1. CASE q = x.blk[p].prev
    BY <1>2, <2>1
  <2>2. CASE q # x.blk[p].prev
    <3> DEFINE m == x.blk[q].next
    <3>1. y.blk[q].next = m /\ m # Null
      BY <1>1, <1>2, <1>6, <2>2, Numbers
    <3>2. m \in Live(x) /\ x.blk[m].prev = q
      BY <3>1 DEF Tiled, LinkedUp
    <3>3. m \in Others
      BY <2>2, <3>2
    <3> QED BY <1>1, <1>6, <3>1, <3>3
  <2> QED BY <2>1, <2>2
<1>7. ASSUME hi = p, LowTaken(x, p) PROVE MergedBut(y, p)
  <2> SUFFICES ASSUME NEW q \in Live(y), y.blk[q].next # Null, q # p, y.blk[q].next # p
               PROVE  y.blk[q].taken \/ y.blk[y.blk[q].next].taken
    BY DEF MergedBut
  <2>1. q \in Others
    BY <1>1, <1>7
  <2>2. CASE y.blk[q].next \in {lo, hi}
    <3>1. q = x.blk[p].prev /\ q # Null
      BY <1>6, <2>1, <2>2, LiveBlock
    <3>2. x.blk[q].taken
      BY <1>7, <3>1 DEF LowTaken
    <3> QED BY <1>2, <2>1, <3>2
  <2> QED BY <1>5, <2>1, <2>2
<1>8. ASSUME lo = p, HighTaken(x, p) PROVE MergedBut(y, p)
  <2> SUFFICES ASSUME NEW q \in Live(y), y.blk[q].next # Null, q # p, y.blk[q].next # p
               PROVE  y.blk[q].taken \/ y.blk[y.blk[q].next].taken
    BY DEF MergedBut
  <2>1. CASE q = hi
    <3> DEFINE m == x.blk[p].next
    <3>1. y.blk[q].next = m /\ m \in Others
      BY <1>1, <1>4, <2>1
    <3>2. x.blk[m].taken
      BY <1>8, <2>1, <3>1, <1>1 DEF HighTaken
    <3> QED BY <1>2, <3>1, <3>2
  <2>2. CASE q \in Others
    <3>1. y.blk[q].next \notin {lo, hi}
      BY <1>6, <1>8, <2>2
    <3> QED BY <1>5, <2>2, <3>1
  <2> QED BY <1>1, <1>8, <2>1, <2>2
<1>9. ASSUME lo = p, LowTaken(x, p) PROVE LowTaken(y, p)
  BY <1>1, <1>2, <1>3, <1>9 DEF LowTaken
<1>10. ASSUME hi = p, HighTaken(x, p) PROVE HighTaken(y, p)
  BY <1>1, <1>2, <1>4, <1>10 DEF HighTaken
<1> QED BY <1>7, <1>8, <1>9, <1>10

\* Around a free block nothing is free when nothing was cut off it yet.
LEMMA CarveStart ==
  ASSUME NEW x, Tiled(x), MergedBut(x, Null), NEW p \in Live(x), ~x.blk[p].taken
  PROVE  Carving(x, x, p) /\ LowTaken(x, p) /\ HighTaken(x, p)
<1>1. p # Null /\ \A q \in Live(x) : q # Null
  BY LiveBlock
<1>2. MergedBut(x, p)
  BY <1>1 DEF MergedBut
<1>3. SameHeld(x, x)
  BY DEF SameHeld
<1>4. LowTaken(x, p)
  <2> SUFFICES ASSUME x.blk[p].prev # Null PROVE x.blk[x.blk[p].prev].taken
    BY DEF LowTaken
  <2>1. x.blk[p].prev \in Live(x) /\ x.blk[x.blk[p].prev].next = p
    BY DEF Tiled, LinkedDown
  <2> QED BY <1>1, <2>1 DEF MergedBut
<1>5. HighTaken(x, p)
  BY <1>1 DEF HighTaken, MergedBut
<1> QED BY <1>2, <1>3, <1>4, <1>5 DEF Carving

LEMMA CarveAfter ==
  ASSUME NEW x, NEW z, NEW p, Carving(x, z, p), HighTaken(z, p), Ptr \ Live(z) # {},
         NEW size \in Nat \ {0}, size < z.blk[p].size, (EndOf(z, p) - size) % Grain = 0
  PROVE  LET y == InsertFreeAfter(z, p, size)
         IN  /\ Carving(x, y, p) /\ (LowTaken(z, p) => LowTaken(y, p))
             /\ NewBlock(z) \in Ptr \ Live(z) /\ Live(y) = Live(z) \cup {NewBlock(z)}
             /\ y.blk[p].start = z.blk[p].start /\ EndOf(y, p) = EndOf(z, p) - size
             /\ y.blk[p].size = z.blk[p].size - size
<1> DEFINE y == InsertFreeAfter(z, p, size)
           n == NewBlock(z)
<1>1. Tiled(z) /\ p \in Live(z) /\ ~z.blk[p].taken /\ MergedBut(z, p) /\ SameHeld(x, z)
  BY DEF Carving
<1>2. /\ n \in Ptr \ Live(z) /\ Split(z, y, p, p, n)
      /\ y.blk[p].size = z.blk[p].size - size
  BY <1>1, InsertAfterSplits
<1> HIDE DEF y, n
<1>3. Tiled(y)
  BY <1>1, <1>2, SplitTiled
<1>4. SameHeld(x, y)
  BY <1>1, <1>2, SplitHolds, SameHeldComposes
<1>5. MergedBut(y, p) /\ (LowTaken(z, p) => LowTaken(y, p))
  BY <1>1, <1>2, SplitNeighbours
<1>6. Live(y) = Live(z) \cup {n} /\ y.blk[p].start = z.blk[p].start /\ ~y.blk[p].taken
  BY <1>1, <1>2 DEF Split
<1>7. p \in Live(y)
  BY <1>1, <1>6
<1>8. EndOf(y, p) = EndOf(z, p) - size
  BY <1>1, <1>2, <1>3, <1>6, <1>7, LiveBlock
<1> QED BY <1>2, <1>3, <1>4, <1>5, <1>6, <1>7, <1>8 DEF Carving, y, n

LEMMA CarveBefore ==
  ASSUME NEW x, NEW z, NEW p, Carving(x, z, p), LowTaken(z, p), Ptr \ Live(z) # {},
         NEW size \in Nat \ {0}, size < z.blk[p].size, size % Grain = 0
  PROVE  LET y == InsertFreeBefore(z, p, size)
         IN  /\ Carving(x, y, p) /\ (HighTaken(z, p) => HighTaken(y, p))
             /\ NewBlock(z) \in Ptr \ Live(z) /\ Live(y) = Live(z) \cup {NewBlock(z)}
             /\ y.blk[p].start = z.blk[p].start + size /\ EndOf(y, p) = EndOf(z, p)
             /\ y.blk[p].size = z.blk[p].size - size
<1> DEFINE y == InsertFreeBefore(z, p, size)
           n == NewBlock(z)
<1>1. Tiled(z) /\ p \in Live(z) /\ ~z.blk[p].taken /\ MergedBut(z, p) /\ SameHeld(x, z)
  BY DEF Carving
<1>2. /\ n \in Ptr \ Live(z) /\ Split(z, y, p, n, p)
      /\ y.blk[p].start = z.blk[p].start + size
  BY <1>1, InsertBeforeSplits
<1> HIDE DEF y, n
<1>3. Tiled(y)
  BY <1>1, <1>2, SplitTiled
<1>4. SameHeld(x, y)
  BY <1>1, <1>2, SplitHolds, SameHeldComposes
<1>5. MergedBut(y, p) /\ (HighTaken(z, p) => HighTaken(y, p))
  BY <1>1, <1>2, SplitNeighbours
<1>6. Live(y) = Live(z) \cup {n} /\ EndOf(y, p) = EndOf(z, p) /\ ~y.blk[p].taken
  BY <1>1, <1>2 DEF Split
<1>7. p \in Live(y)
  BY <1>1, <1>6
<1>8. y.blk[p].size = z.blk[p].size - size
  BY <1>1, <1>2, <1>3, <1>6, <1>7, LiveBlock
<1> QED BY <1>2, <1>3, <1>4, <1>5, <1>6, <1>7, <1>8 DEF Carving, y, n

\* Of two unused objects one is left after the first cut.
LEMMA SparesLeft ==
  ASSUME NEW x, Cardinality(Ptr \ Live(x)) >= 2
  PROVE  /\ Ptr \ Live(x) # {}
         /\ \A n \in Ptr \ Live(x) : Ptr \ (Live(x) \cup {n}) # {}
<1> DEFINE F == Ptr \ Live(x)
<1>1. F # {}
  BY FS_EmptySet
<1>2. ASSUME NEW n \in F PROVE Ptr \ (Live(x) \cup {n}) # {}
  <2> SUFFICES ASSUME Ptr \ (Live(x) \cup {n}) = {} PROVE FALSE
    OBVIOUS
  <2>1. F = {n}
    OBVIOUS
  <2>2. Cardinality({n}) = 1
    BY FS_Singleton
  <2> QED BY <2>1, <2>2
<1> QED BY <1>1, <1>2

-----------------------------------------------------------------------------
(* Where an allocation goes: what is left out for the alignment is a multiple *)
(* of the allocator's grain, or less than a grain.                            *)

LEMMA PlaceLowGood ==
  ASSUME NEW x, Tiled(x), MergedBut(x, Null), Cardinality(Ptr \ Live(x)) >= 2,
         NEW p \in Live(x), ~x.blk[p].taken,
         NEW n \in Nat \ {0}, n % Grain = 0, NEW g \in Nat \ {0}, g % Grain = 0,
         x.blk[p].size >= OffsetLow(x, p, g) + n
  PROVE  LET y == PlaceLow(x, p, n, g)
         IN  HandsOut(x, y, p) /\ y.blk[p].start % g = 0 /\ y.blk[p].size = n
<1> DEFINE s == x.blk[p].start
           o == OffsetLow(x, p, g)
           rest == x.blk[p].size - (o + n)
           above == IF rest = 0 THEN x ELSE InsertFreeAfter(x, p, rest)
           z == IF o >= Grain THEN InsertFreeBefore(above, p, o) ELSE above
           y == PlaceLow(x, p, n, g)
<1>1. /\ s \in Nat /\ x.blk[p].size \in Nat /\ EndOf(x, p) \in Nat
      /\ EndOf(x, p) = s + x.blk[p].size /\ s % Grain = 0
  BY LiveBlock
<1>2. Grain \in Nat \ {0}
  BY Numbers
<1>3. o = (-s) % g
  BY DEF OffsetLow
<1>4. y = Take(z, p)
  BY DEF PlaceLow
<1>5. rest = x.blk[p].size - (o + n)
  OBVIOUS
<1>6. Carving(x, x, p) /\ LowTaken(x, p) /\ HighTaken(x, p)
  BY CarveStart
<1>7. Ptr \ Live(x) # {} /\ \A m \in Ptr \ Live(x) : Ptr \ (Live(x) \cup {m}) # {}
  BY SparesLeft
<1> HIDE DEF s, o, rest
<1>8. o \in 0..(g - 1) /\ (s + o) % g = 0
  BY <1>1, <1>3, NextMultiple
<1>9. o \in 0..(g - 1) /\ o \in Int /\ n \in Int /\ s \in Int
  BY <1>1, <1>8
<1> DEFINE t == s + o
<1>10. t = s + o /\ t \in Int
  BY <1>1, <1>9
<1>11. t % g = 0
  BY <1>8
<1> HIDE DEF t
<1>12. t % Grain = 0
  BY <1>2, <1>10, <1>11, MultipleOfMultiple
<1>13. o % Grain = 0 /\ (o = 0 \/ o >= Grain)
  <2>1. o = t - s /\ o \in Int
    BY <1>1, <1>9, <1>10
  <2>2. (t - s) % Grain = 0
    <3>1. s % Grain = 0
      BY <1>1
    <3> QED BY <1>2, <1>9, <1>10, <1>12, <3>1, MultiplesAdd
  <2>3. o % Grain = 0
    BY <2>1, <2>2
  <2>4. o > 0 => o >= Grain
    BY <1>2, <2>1, <2>3, MultipleSteps
  <2> QED BY <1>9, <2>3, <2>4
<1>14. (t + n) % Grain = 0
  BY <1>2, <1>9, <1>10, <1>12, MultiplesAdd
<1>15. rest \in Nat /\ EndOf(x, p) - rest = t + n /\ rest < x.blk[p].size
  BY <1>1, <1>5, <1>9, <1>10 DEF o
<1>16. /\ Carving(x, above, p) /\ LowTaken(above, p) /\ above.blk[p].start = s
       /\ above.blk[p].size = o + n /\ Ptr \ Live(above) # {}
  <2>1. CASE rest = 0
    <3>1. x.blk[p].size = o + n
      BY <1>1, <1>5, <1>9, <2>1
    <3> QED BY <1>6, <1>7, <2>1, <3>1 DEF s
  <2>2. CASE rest # 0
    <3>1. rest \in Nat \ {0} /\ (EndOf(x, p) - rest) % Grain = 0
      BY <1>14, <1>15, <2>2
    <3> DEFINE w == InsertFreeAfter(x, p, rest)
    <3>2. /\ Carving(x, w, p) /\ LowTaken(w, p)
          /\ NewBlock(x) \in Ptr \ Live(x) /\ Live(w) = Live(x) \cup {NewBlock(x)}
          /\ w.blk[p].start = x.blk[p].start /\ w.blk[p].size = x.blk[p].size - rest
      BY <1>6, <1>7, <1>15, <3>1, CarveAfter
    <3>3. above = w
      BY <2>2
    <3> HIDE DEF w, above
    <3>4. Ptr \ Live(w) # {}
      BY <1>7, <3>2
    <3>5. x.blk[p].size - rest = o + n
      BY <1>1, <1>5, <1>9
    <3> QED BY <3>2, <3>3, <3>4, <3>5 DEF s
  <2> QED BY <2>1, <2>2
<1> HIDE DEF above
<1>17. Carving(x, z, p) /\ z.blk[p].start = s + o /\ z.blk[p].size = n
  <2>1. CASE o >= Grain
    <3>1. o \in Nat \ {0} /\ o < above.blk[p].size
      BY <1>2, <1>9, <1>16, <2>1
    <3> DEFINE w == InsertFreeBefore(above, p, o)
    <3>2. /\ Carving(x, w, p) /\ w.blk[p].start = above.blk[p].start + o
          /\ w.blk[p].size = above.blk[p].size - o
      BY <1>13, <1>16, <3>1, CarveBefore
    <3>3. z = w
      BY <2>1
    <3> HIDE DEF w, z
    <3> QED BY <1>9, <1>16, <3>2, <3>3
  <2>2. CASE ~(o >= Grain)
    <3>1. o = 0 /\ z = above
      BY <1>13, <2>2
    <3> HIDE DEF z
    <3> QED BY <1>1, <1>16, <3>1
  <2> QED BY <2>1, <2>2
<1> HIDE DEF z, y
<1>18. HandsOut(x, y, p) /\ y.blk[p].start = s + o /\ y.blk[p].size = n
  BY <1>4, <1>17, TakeHandsOut
<1> QED BY <1>8, <1>18 DEF y

LEMMA PlaceHighGood ==
  ASSUME NEW x, Tiled(x), MergedBut(x, Null), Cardinality(Ptr \ Live(x)) >= 2,
         NEW p \in Live(x), ~x.blk[p].taken,
         NEW n \in Nat \ {0}, n % Grain = 0, NEW g \in Nat \ {0}, g % Grain = 0,
         x.blk[p].size >= OffsetHigh(x, p, n, g) + n
  PROVE  LET y == PlaceHigh(x, p, n, g)
         IN  HandsOut(x, y, p) /\ y.blk[p].start % g = 0 /\ y.blk[p].size \in n..(n + Grain - 1)
<1> DEFINE s == x.blk[p].start
           e == EndOf(x, p)
           o == OffsetHigh(x, p, n, g)
           rest == x.blk[p].size - (o + n)
           below == IF rest = 0 THEN x ELSE InsertFreeBefore(x, p, rest)
           z == IF o >= Grain THEN InsertFreeAfter(below, p, o) ELSE below
           y == PlaceHigh(x, p, n, g)
<1>1. s \in Nat /\ x.blk[p].size \in Nat /\ e \in Nat /\ e = s + x.blk[p].size /\ s % Grain = 0
  BY LiveBlock
<1>2. Grain \in Nat \ {0}
  BY Numbers
<1>3. o = (e - n) % g /\ e - n \in Int
  BY <1>1 DEF OffsetHigh
<1>4. y = Take(z, p)
  BY DEF PlaceHigh
<1>5. rest = x.blk[p].size - (o + n)
  OBVIOUS
<1>6. Carving(x, x, p) /\ LowTaken(x, p) /\ HighTaken(x, p)
  BY CarveStart
<1>7. Ptr \ Live(x) # {} /\ \A m \in Ptr \ Live(x) : Ptr \ (Live(x) \cup {m}) # {}
  BY SparesLeft
<1> HIDE DEF s, e, o, rest
<1>8. o \in 0..(g - 1) /\ ((e - n) - o) % g = 0
  BY <1>1, <1>3, LastMultiple
<1>9. o \in 0..(g - 1) /\ o \in Int /\ n \in Int /\ s \in Int
  BY <1>1, <1>8
<1> DEFINE t == (e - n) - o
<1>10. t = (e - n) - o /\ t \in Int
  BY <1>1, <1>9
<1>11. t % g = 0
  BY <1>8
<1> HIDE DEF t
<1>12. t % Grain = 0
  BY <1>2, <1>10, <1>11, MultipleOfMultiple
<1>13. rest \in Nat /\ s + rest = (e - n) - o /\ rest < x.blk[p].size
  BY <1>1, <1>5, <1>9 DEF o
<1>14. rest % Grain = 0
  <2>1. rest = t - s
    BY <1>1, <1>10, <1>13
  <2>2. (t - s) % Grain = 0
    <3>1. s % Grain = 0
      BY <1>1
    <3> QED BY <1>2, <1>9, <1>10, <1>12, <3>1, MultiplesAdd
  <2> QED BY <2>1, <2>2
<1>15. (e - o) % Grain = 0
  <2>1. e - o = t + n
    BY <1>1, <1>9, <1>10
  <2>2. (t + n) % Grain = 0
    BY <1>2, <1>9, <1>10, <1>12, MultiplesAdd
  <2> QED BY <2>1, <2>2
<1>16. /\ Carving(x, below, p) /\ HighTaken(below, p) /\ below.blk[p].start = s + rest
       /\ below.blk[p].size = o + n /\ EndOf(below, p) = e /\ Ptr \ Live(below) # {}
  <2>1. CASE rest = 0
    <3>1. x.blk[p].size = o + n /\ s + rest = s
      <4>1. x.blk[p].size \in Int
        BY <1>1
      <4>2. x.blk[p].size = o + n
        BY <1>5, <1>9, <2>1, <4>1
      <4> QED BY <1>9, <2>1, <4>2
    <3>2. below = x /\ x.blk[p].start = s /\ EndOf(x, p) = e
      BY <2>1 DEF s, e
    <3> HIDE DEF below
    <3> QED BY <1>6, <1>7, <3>1, <3>2
  <2>2. CASE rest # 0
    <3>1. rest \in Nat \ {0}
      BY <1>13, <2>2
    <3> DEFINE w == InsertFreeBefore(x, p, rest)
    <3>2. /\ Carving(x, w, p) /\ HighTaken(w, p)
          /\ NewBlock(x) \in Ptr \ Live(x) /\ Live(w) = Live(x) \cup {NewBlock(x)}
          /\ w.blk[p].start = x.blk[p].start + rest /\ EndOf(w, p) = EndOf(x, p)
          /\ w.blk[p].size = x.blk[p].size - rest
      BY <1>6, <1>7, <1>13, <1>14, <3>1, CarveBefore
    <3>3. below = w
      BY <2>2
    <3> HIDE DEF w, below
    <3>4. Ptr \ Live(w) # {}
      BY <1>7, <3>2
    <3>5. x.blk[p].size - rest = o + n
      BY <1>1, <1>5, <1>9
    <3> QED BY <3>2, <3>3, <3>4, <3>5 DEF s, e
  <2> QED BY <2>1, <2>2
<1> HIDE DEF below
<1>17. /\ Carving(x, z, p) /\ z.blk[p].start = (e - n) - o
       /\ z.blk[p].size \in n..(n + Grain - 1)
  <2>1. CASE o >= Grain
    <3>1. o \in Nat \ {0} /\ o < below.blk[p].size /\ (EndOf(below, p) - o) % Grain = 0
      BY <1>2, <1>9, <1>15, <1>16, <2>1
    <3> DEFINE w == InsertFreeAfter(below, p, o)
    <3>2. /\ Carving(x, w, p) /\ w.blk[p].start = below.blk[p].start
          /\ w.blk[p].size = below.blk[p].size - o
      BY <1>16, <3>1, CarveAfter
    <3>3. z = w
      BY <2>1
    <3> HIDE DEF w, z
    <3>4. w.blk[p].size = n /\ n \in n..(n + Grain - 1)
      BY <1>2, <1>9, <1>16, <3>2
    <3> QED BY <1>13, <1>16, <3>2, <3>3, <3>4
  <2>2. CASE ~(o >= Grain)
    <3>1. o \in 0..(Grain - 1) /\ z = below
      BY <1>2, <1>9, <2>2
    <3> HIDE DEF z
    <3> QED BY <1>2, <1>13, <1>16, <3>1
  <2> QED BY <2>1, <2>2
<1> HIDE DEF z, y
<1>18. /\ HandsOut(x, y, p) /\ y.blk[p].start = (e - n) - o
       /\ y.blk[p].size \in n..(n + Grain - 1)
  BY <1>4, <1>17, TakeHandsOut
<1> QED BY <1>8, <1>18 DEF y

LEMMA PlaceAtGood ==
  ASSUME NEW x, Tiled(x), MergedBut(x, Null), Cardinality(Ptr \ Live(x)) >= 2,
         NEW p \in Live(x), ~x.blk[p].taken,
         NEW at \in Nat, at % Grain = 0, NEW n \in Nat \ {0}, n % Grain = 0,
         x.blk[p].start <= at, at + n <= EndOf(x, p)
  PROVE  LET y == PlaceAt(x, p, at, n)
         IN  HandsOut(x, y, p) /\ y.blk[p].start = at /\ y.blk[p].size = n
<1> DEFINE s == x.blk[p].start
           e == EndOf(x, p)
           off == at - s
           below == IF s = at THEN x ELSE InsertFreeBefore(x, p, off)
           rest == below.blk[p].size - n
           z == IF rest = 0 THEN below ELSE InsertFreeAfter(below, p, rest)
           y == PlaceAt(x, p, at, n)
<1>1. s \in Nat /\ x.blk[p].size \in Nat /\ e \in Nat /\ e = s + x.blk[p].size /\ s % Grain = 0
  BY LiveBlock
<1>2. Grain \in Nat \ {0} /\ at \in Int /\ n \in Int
  BY Numbers
<1>3. y = Take(z, p)
  BY DEF PlaceAt
<1>4. Carving(x, x, p) /\ LowTaken(x, p) /\ HighTaken(x, p)
  BY CarveStart
<1>5. Ptr \ Live(x) # {} /\ \A m \in Ptr \ Live(x) : Ptr \ (Live(x) \cup {m}) # {}
  BY SparesLeft
<1>6. s <= at /\ at + n <= e /\ s = x.blk[p].start /\ e = EndOf(x, p) /\ off = at - s
  OBVIOUS
<1> HIDE DEF s, e, off, y
<1>7. off \in Nat /\ off < x.blk[p].size
  BY <1>1, <1>6
<1>8. off % Grain = 0
  <2>1. s \in Int /\ s % Grain = 0
    BY <1>1
  <2>2. (at - s) % Grain = 0
    BY <1>2, <2>1, MultiplesAdd
  <2> QED BY <1>6, <2>2
<1>9. /\ Carving(x, below, p) /\ HighTaken(below, p) /\ below.blk[p].start = at
      /\ below.blk[p].size = e - at /\ EndOf(below, p) = e /\ Ptr \ Live(below) # {}
  <2>1. CASE s = at
    <3>1. below = x /\ x.blk[p].size = e - at
      BY <1>1, <2>1
    <3> HIDE DEF below
    <3> QED BY <1>4, <1>5, <1>6, <2>1, <3>1
  <2>2. CASE s # at
    <3>1. off \in Nat \ {0}
      BY <1>1, <1>6, <1>7, <2>2
    <3> DEFINE w == InsertFreeBefore(x, p, off)
    <3>2. /\ Carving(x, w, p) /\ HighTaken(w, p)
          /\ NewBlock(x) \in Ptr \ Live(x) /\ Live(w) = Live(x) \cup {NewBlock(x)}
          /\ w.blk[p].start = x.blk[p].start + off /\ EndOf(w, p) = EndOf(x, p)
          /\ w.blk[p].size = x.blk[p].size - off
      BY <1>4, <1>5, <1>7, <1>8, <3>1, CarveBefore
    <3>3. below = w
      BY <2>2
    <3> HIDE DEF w, below
    <3>4. Ptr \ Live(w) # {}
      BY <1>5, <3>2
    <3>5. x.blk[p].start + off = at /\ x.blk[p].size - off = e - at
      BY <1>1, <1>6
    <3> QED BY <1>6, <3>2, <3>3, <3>4, <3>5
  <2> QED BY <2>1, <2>2
<1>10. rest = below.blk[p].size - n
  OBVIOUS
<1> HIDE DEF below, rest
<1>11. rest \in Nat /\ rest < below.blk[p].size /\ EndOf(below, p) - rest = at + n
  BY <1>1, <1>6, <1>9, <1>10
<1>12. (EndOf(below, p) - rest) % Grain = 0
  <2>1. (at + n) % Grain = 0
    BY <1>2, MultiplesAdd
  <2> QED BY <1>11, <2>1
<1>13. Carving(x, z, p) /\ z.blk[p].start = at /\ z.blk[p].size = n
  <2>1. CASE rest = 0
    <3>1. z = below /\ below.blk[p].size = n
      BY <1>1, <1>9, <1>10, <2>1
    <3> HIDE DEF z
    <3> QED BY <1>9, <3>1
  <2>2. CASE rest # 0
    <3>1. rest \in Nat \ {0}
      BY <1>11, <2>2
    <3> DEFINE w == InsertFreeAfter(below, p, rest)
    <3>2. /\ Carving(x, w, p) /\ w.blk[p].start = below.blk[p].start
          /\ w.blk[p].size = below.blk[p].size - rest
      BY <1>9, <1>11, <1>12, <3>1, CarveAfter
    <3>3. z = w
      BY <2>2
    <3> HIDE DEF w, z
    <3>4. below.blk[p].size - rest = n
      BY <1>1, <1>9, <1>10
    <3> QED BY <1>9, <3>2, <3>3, <3>4
  <2> QED BY <2>1, <2>2
<1> HIDE DEF z
<1>14. HandsOut(x, y, p) /\ y.blk[p].start = at /\ y.blk[p].size = n
  BY <1>3, <1>13, TakeHandsOut
<1> QED BY <1>14 DEF y

-----------------------------------------------------------------------------
(* The operations. *)

\* The block whose bytes hold an address.
LEMMA BlockAt ==
  ASSUME NEW x, Tiled(x), NEW addr, GetBlockFromAddress(x, addr) # Null
  PROVE  LET p == GetBlockFromAddress(x, addr)
         IN  p \in Live(x) /\ x.blk[p].start <= addr /\ addr < EndOf(x, p)
<1> DEFINE S == {p \in Ptr : x.blk[p].start <= addr /\ addr < EndOf(x, p)}
           p == FirstIn(S, x.bottom, NextLinks(x))
<1>1. GetBlockFromAddress(x, addr) = p
  BY DEF GetBlockFromAddress
<1>2. S \subseteq Ptr
  OBVIOUS
<1>3. \A q \in S : x.blk[q].start <= addr /\ addr < EndOf(x, q)
  OBVIOUS
<1> HIDE DEF S
<1>4. p \in S \cap Live(x)
  BY <1>1, <1>2, SearchUp
<1> HIDE DEF p
<1> QED BY <1>1, <1>3, <1>4

LEMMA AllocAlignedHandsOut ==
  ASSUME IInv, NEW size \in Sizes, NEW g \in Grains, NEW fromTop \in BOOLEAN,
         AllocAligned(size, g[1], g[2], fromTop)
  PROVE  \E p \in Ptr :
           /\ HandsOut(a, a', p)
           /\ a'.blk[p].start % AtLeastGrain(g[2]) = 0
           /\ LET n == AlignUp(size, AtLeastGrain(g[1]))
              IN  a'.blk[p].size \in n..(n + Grain - 1)
<1> DEFINE grain == AtLeastGrain(g[2])
           sizeGrain == AtLeastGrain(g[1])
           n == AlignUp(size, sizeGrain)
<1>1. Tiled(a) /\ MergedBut(a, Null)
  BY DEF IInv
<1>2. /\ grain \in Nat \ {0} /\ grain % Grain = 0
      /\ sizeGrain \in Nat \ {0} /\ sizeGrain % Grain = 0
  BY RequestedGrain
<1>3. Grain \in Nat \ {0} /\ size \in Nat \ {0}
  BY Numbers, RequestAssumption
<1> HIDE DEF grain, sizeGrain
<1>4. n \in Nat /\ n % sizeGrain = 0 /\ size <= n
  BY <1>2, <1>3, AlignedUp
<1> HIDE DEF n
<1>5. n \in Nat \ {0} /\ n \in Int
  BY <1>3, <1>4
<1>6. n % Grain = 0
  BY <1>2, <1>3, <1>4, <1>5, MultipleOfMultiple
<1>7. /\ Cardinality(Ptr \ Live(a)) >= 2
      /\ fromTop => FitHigh(a, n, grain) # Null /\ a' = PlaceHigh(a, FitHigh(a, n, grain), n, grain)
      /\ ~fromTop => FitLow(a, n, grain) # Null /\ a' = PlaceLow(a, FitLow(a, n, grain), n, grain)
  BY DEF AllocAligned, Room, n, grain, sizeGrain
<1>8. ASSUME fromTop
      PROVE  \E p \in Ptr : /\ HandsOut(a, a', p) /\ a'.blk[p].start % grain = 0
                            /\ a'.blk[p].size \in n..(n + Grain - 1)
  <2> DEFINE S == {q \in Ptr : ~a.blk[q].taken /\
                               a.blk[q].size >= OffsetHigh(a, q, n, grain) + n}
             p == FirstIn(S, a.top, PrevLinks(a))
  <2>1. FitHigh(a, n, grain) = p /\ S \subseteq Ptr
    BY DEF FitHigh
  <2>2. \A q \in S : ~a.blk[q].taken /\ a.blk[q].size >= OffsetHigh(a, q, n, grain) + n
    OBVIOUS
  <2> HIDE DEF S
  <2>3. p \in S \cap Live(a) /\ p \in Ptr
    BY <1>1, <1>7, <1>8, <2>1, SearchDown
  <2> HIDE DEF p
  <2> DEFINE y == PlaceHigh(a, p, n, grain)
  <2>4. HandsOut(a, y, p) /\ y.blk[p].start % grain = 0 /\ y.blk[p].size \in n..(n + Grain - 1)
    BY <1>1, <1>2, <1>5, <1>6, <1>7, <2>2, <2>3, PlaceHighGood
  <2>5. a' = y
    BY <1>7, <1>8, <2>1
  <2> HIDE DEF y
  <2> QED BY <2>3, <2>4, <2>5
<1>9. ASSUME ~fromTop
      PROVE  \E p \in Ptr : /\ HandsOut(a, a', p) /\ a'.blk[p].start % grain = 0
                            /\ a'.blk[p].size \in n..(n + Grain - 1)
  <2> DEFINE S == {q \in Ptr : ~a.blk[q].taken /\
                               a.blk[q].size >= OffsetLow(a, q, grain) + n}
             p == FirstIn(S, a.bottom, NextLinks(a))
  <2>1. FitLow(a, n, grain) = p /\ S \subseteq Ptr
    BY DEF FitLow
  <2>2. \A q \in S : ~a.blk[q].taken /\ a.blk[q].size >= OffsetLow(a, q, grain) + n
    OBVIOUS
  <2> HIDE DEF S
  <2>3. p \in S \cap Live(a) /\ p \in Ptr
    BY <1>1, <1>7, <1>9, <2>1, SearchUp
  <2> HIDE DEF p
  <2> DEFINE y == PlaceLow(a, p, n, grain)
  <2>4. HandsOut(a, y, p) /\ y.blk[p].start % grain = 0 /\ y.blk[p].size = n
    BY <1>1, <1>2, <1>5, <1>6, <1>7, <2>2, <2>3, PlaceLowGood
  <2>5. a' = y
    BY <1>7, <1>9, <2>1
  <2>6. n \in n..(n + Grain - 1)
    BY <1>3, <1>5
  <2> HIDE DEF y
  <2> QED BY <2>3, <2>4, <2>5, <2>6
<1> QED BY <1>8, <1>9 DEF n, grain, sizeGrain

LEMMA AllocAtHandsOut ==
  ASSUME IInv, NEW size \in Sizes, NEW position \in Positions, AllocAt(position, size)
  PROVE  \E p \in Ptr : /\ HandsOut(a, a', p) /\ a'.blk[p].start <= position
                        /\ position + size <= EndOf(a', p)
<1> DEFINE off == position % Grain
           at == position - off
           n == AlignUp(size + (position - at), Grain)
           p == GetBlockFromAddress(a, at)
<1>1. Tiled(a) /\ MergedBut(a, Null)
  BY DEF IInv
<1>2. Grain \in Nat \ {0} /\ size \in Nat \ {0} /\ position \in Nat /\ position \in Int
  BY Numbers, RequestAssumption
<1>3. off \in 0..(Grain - 1) /\ at % Grain = 0
  BY <1>2, LastMultiple
<1>4. /\ Cardinality(Ptr \ Live(a)) >= 2 /\ p # Null /\ ~a.blk[p].taken
      /\ at + n <= EndOf(a, p) /\ a' = PlaceAt(a, p, at, n)
  BY DEF AllocAt, Room
<1>5. p \in Live(a) /\ a.blk[p].start <= at
  BY <1>1, <1>4, BlockAt
<1>6. at = position - off
  OBVIOUS
<1>7. n = AlignUp(size + (position - at), Grain)
  OBVIOUS
<1> HIDE DEF n, p, off, at
<1>8. at \in Nat
  <2>1. a.blk[p].start \in Nat
    BY <1>1, <1>5, LiveBlock
  <2> QED BY <1>2, <1>3, <1>5, <1>6, <2>1
<1>9. size + (position - at) \in Nat
  BY <1>2, <1>3, <1>6
<1>10. n \in Nat /\ n % Grain = 0 /\ size + (position - at) <= n
  BY <1>2, <1>7, <1>9, AlignedUp
<1>11. n \in Nat \ {0} /\ position + size <= at + n /\ at <= position
  BY <1>2, <1>3, <1>6, <1>8, <1>10
<1> DEFINE y == PlaceAt(a, p, at, n)
<1>12. HandsOut(a, y, p) /\ y.blk[p].start = at /\ y.blk[p].size = n
  BY <1>1, <1>3, <1>4, <1>5, <1>8, <1>10, <1>11, PlaceAtGood
<1>13. a' = y /\ p \in Ptr
  BY <1>4, <1>5 DEF Live
<1> HIDE DEF y
<1>14. a'.blk[p].start <= position /\ position + size <= EndOf(a', p)
  BY <1>11, <1>12, <1>13 DEF EndOf
<1> QED BY <1>12, <1>13, <1>14

\* y is x with what p holds given back.
TakesBack(x, y, p) ==
  /\ Tiled(y) /\ MergedBut(y, Null) /\ p \in Live(x) /\ x.blk[p].taken
  /\ \A q \in Ptr :
       /\ y.blk[q].taken <=> (q # p /\ x.blk[q].taken)
       /\ y.blk[q].taken => /\ y.blk[q].start = x.blk[q].start
                            /\ y.blk[q].size = x.blk[q].size

LEMMA FreeTakesBack ==
  ASSUME IInv, NEW position \in Positions, Free(position) \/ FreeExact(position)
  PROVE  \E p \in Ptr : TakesBack(a, a', p)
<1> DEFINE p == GetBlockFromAddress(a, position)
<1>1. Tiled(a) /\ MergedBut(a, Null)
  BY DEF IInv
<1>2. p # Null /\ a.blk[p].taken /\ a' = MergeFreeBlocks(Untake(a, p), p)
  BY DEF Free, FreeExact, FreeBlock
<1>3. p \in Live(a) /\ p \in Ptr
  BY <1>1, <1>2, BlockAt DEF Live
<1> HIDE DEF p
<1> DEFINE x == Untake(a, p)
           y == MergeFreeBlocks(x, p)
<1>4. Flipped(a, x, p) /\ ~x.blk[p].taken
  BY <1>1, <1>3, TakeFlips
<1> HIDE DEF x
<1>5. MergedBut(a, p)
  <2>1. \A q \in Live(a) : q # Null
    BY <1>1, LiveBlock
  <2> QED BY <1>1, <2>1 DEF MergedBut
<1>6. Tiled(x) /\ MergedBut(x, p) /\ p \in Live(x)
  BY <1>1, <1>3, <1>4, <1>5, FlippedTiled DEF Flipped
<1>7. Tiled(y) /\ MergedBut(y, Null) /\ SameHeld(x, y)
  BY <1>4, <1>6, MergeMerges
<1> HIDE DEF y
<1>8. ASSUME NEW q \in Ptr
      PROVE  /\ y.blk[q].taken <=> (q # p /\ a.blk[q].taken)
             /\ y.blk[q].taken => /\ y.blk[q].start = a.blk[q].start
                                  /\ y.blk[q].size = a.blk[q].size
  <2>1. /\ y.blk[q].taken <=> x.blk[q].taken
        /\ x.blk[q].taken => y.blk[q].start = x.blk[q].start /\ y.blk[q].size = x.blk[q].size
    BY <1>7 DEF SameHeld
  <2>2. x.blk[q].start = a.blk[q].start /\ x.blk[q].size = a.blk[q].size
    BY <1>4 DEF Flipped
  <2>3. CASE q = p
    BY <1>4, <2>1, <2>3
  <2>4. CASE q # p
    <3>1. x.blk[q].taken <=> a.blk[q].taken
      BY <1>4, <2>4 DEF Flipped
    <3> QED BY <2>1, <2>2, <2>4, <3>1
  <2> QED BY <2>3, <2>4
<1>9. TakesBack(a, y, p)
  BY <1>2, <1>3, <1>7, <1>8 DEF TakesBack
<1>10. a' = y
  BY <1>2 DEF x, y
<1> QED BY <1>3, <1>9, <1>10

\* y holds the same ranges as x, by whichever objects.
SameRanges(x, y) ==
  /\ \A p \in Ptr : y.blk[p].taken =>
       \E q \in Ptr : /\ x.blk[q].taken /\ y.blk[p].start = x.blk[q].start
                      /\ y.blk[p].size = x.blk[q].size
  /\ \A q \in Ptr : x.blk[q].taken =>
       \E p \in Ptr : /\ y.blk[p].taken /\ y.blk[p].start = x.blk[q].start
                      /\ y.blk[p].size = x.blk[q].size

\* A reload numbers the blocks in the order of their addresses.
LEMMA DoStateReloads ==
  ASSUME IInv, DoState
  PROVE  Tiled(a') /\ MergedBut(a', Null) /\ SameRanges(a, a')
<1> DEFINE c == UpChain(a)
           Again(p) == [a.blk[c[p]] EXCEPT !.prev = p - 1,
                                           !.next = IF p = Len(c) THEN Null ELSE p + 1]
           y == a'
<1>1. Tiled(a) /\ MergedBut(a, Null)
  BY DEF IInv
<1>2. PICK k \in 1..MaxBlocks :
        /\ Len(c) = k
        /\ \A n \in 1..k : c[n] \in Live(a)
        /\ \A p \in Live(a) : \E n \in 1..k : c[n] = p
        /\ c[1] = a.bottom /\ c[k] = a.top
        /\ \A n \in 1..(k - 1) : /\ a.blk[c[n]].next = c[n + 1]
                                 /\ EndOf(a, c[n]) = a.blk[c[n + 1]].start
        /\ \A i, j \in 1..k : i # j => c[i] # c[j]
  BY <1>1, UpChainTiles
<1>3. y = [blk |-> [p \in Ptr |-> IF p > Len(c) THEN NoBlock ELSE Again(p)],
           bottom |-> 1, top |-> Len(c)]
  BY DEF DoState
<1>4. MaxBlocks \in Nat \ {0} /\ Null = 0 /\ Ptr = 1..MaxBlocks
  BY Numbers DEF Ptr
<1>5. a \in Allocator /\ \A p \in Ptr : a.blk[p] \in Block
  BY <1>1 DEF Tiled, Allocator
<1>6. \A n \in 1..k : c[n] \in Ptr /\ a.blk[c[n]] \in Block
  BY <1>2, <1>5 DEF Live
<1> HIDE DEF c
<1>7. ASSUME NEW p \in 1..k
      PROVE  /\ Again(p) \in Block
             /\ Again(p).start = a.blk[c[p]].start /\ Again(p).size = a.blk[c[p]].size
             /\ Again(p).taken = a.blk[c[p]].taken
             /\ Again(p).prev = p - 1 /\ Again(p).next = IF p = k THEN Null ELSE p + 1
  <2>1. p - 1 \in Ptr \cup {Null} /\ (IF p = k THEN Null ELSE p + 1) \in Ptr \cup {Null}
    BY <1>2, <1>4
  <2>2. a.blk[c[p]] \in Block /\ Len(c) = k
    BY <1>2, <1>6
  <2> QED BY <2>1, <2>2 DEF Block
<1> HIDE DEF Again
<1>8. NoBlock \in Block /\ ~NoBlock.taken
  BY DEF NoBlock, Block
<1>9. y.blk = [p \in Ptr |-> IF p > k THEN NoBlock ELSE Again(p)] /\ y.bottom = 1 /\ y.top = k
  BY <1>2, <1>3
<1>10. y \in Allocator
  <2>1. y.blk \in [Ptr -> Block]
    BY <1>4, <1>7, <1>8, <1>9
  <2>2. 1 \in Ptr \cup {Null} /\ k \in Ptr \cup {Null}
    BY <1>2, <1>4
  <2> QED BY <1>3, <1>9, <2>1, <2>2 DEF Allocator
<1> HIDE DEF y
<1>11. \A p \in 1..k : y.blk[p] = Again(p) /\ p \in Ptr
  BY <1>2, <1>4, <1>9
<1>12. \A p \in Ptr : p > k => y.blk[p] = NoBlock
  BY <1>9
<1>13. \A p \in 1..k :
         /\ y.blk[p].start = a.blk[c[p]].start /\ y.blk[p].size = a.blk[c[p]].size
         /\ y.blk[p].taken <=> a.blk[c[p]].taken
         /\ y.blk[p].prev = p - 1 /\ y.blk[p].next = IF p = k THEN Null ELSE p + 1
         /\ EndOf(y, p) = EndOf(a, c[p])
  BY <1>7, <1>11 DEF EndOf
<1>14. \A p \in 1..k :
         /\ c[p] \in Live(a) /\ a.blk[c[p]].start \in Nat /\ a.blk[c[p]].size \in Nat \ {0}
         /\ RangeStart <= a.blk[c[p]].start /\ EndOf(a, c[p]) <= RangeEnd
         /\ a.blk[c[p]].start % Grain = 0
  BY <1>1, <1>2, LiveBlock
<1>15. Live(y) = 1..k
  <2>1. \A p \in 1..k : p \in Live(y)
    <3> SUFFICES ASSUME NEW p \in 1..k PROVE p \in Live(y)
      OBVIOUS
    <3>1. y.blk[p].size # 0 /\ p \in Ptr
      BY <1>11, <1>13, <1>14
    <3> QED BY <1>10, <3>1, SizedBlock
  <2>2. \A p \in Live(y) : p \in 1..k
    <3> SUFFICES ASSUME NEW p \in Live(y) PROVE p \in 1..k
      OBVIOUS
    <3>1. p \in Ptr /\ y.blk[p] # NoBlock
      BY DEF Live
    <3> QED BY <1>2, <1>4, <1>12, <3>1
  <2> QED BY <2>1, <2>2
<1>16. \A n \in 1..(k - 1) : /\ a.blk[c[n]].next = c[n + 1]
                             /\ EndOf(a, c[n]) = a.blk[c[n + 1]].start
  BY <1>2
<1>17. InRange(y)
  <2> SUFFICES ASSUME NEW p \in 1..k
               PROVE  /\ y.blk[p].size > 0 /\ RangeStart <= y.blk[p].start
                      /\ EndOf(y, p) <= RangeEnd /\ y.blk[p].start % Grain = 0
    BY <1>15 DEF InRange
  <2>1. /\ y.blk[p].start = a.blk[c[p]].start /\ y.blk[p].size = a.blk[c[p]].size
        /\ EndOf(y, p) = EndOf(a, c[p])
    BY <1>13
  <2>2. /\ a.blk[c[p]].start \in Nat /\ a.blk[c[p]].size \in Nat \ {0}
        /\ RangeStart <= a.blk[c[p]].start /\ EndOf(a, c[p]) <= RangeEnd
        /\ a.blk[c[p]].start % Grain = 0
    BY <1>14
  <2> QED BY <2>1, <2>2
<1>18. LinkedUp(y)
  <2> SUFFICES ASSUME NEW p \in 1..k
               PROVE  IF y.blk[p].next = Null THEN p = y.top
                      ELSE /\ y.blk[p].next \in 1..k
                           /\ y.blk[y.blk[p].next].start = EndOf(y, p)
                           /\ y.blk[y.blk[p].next].prev = p
    BY <1>15 DEF LinkedUp
  <2>1. CASE p = k
    BY <1>9, <1>13, <2>1
  <2>2. CASE p # k
    <3>1. p \in 1..(k - 1) /\ p + 1 \in 1..k /\ p + 1 # 0 /\ (p + 1) - 1 = p
      BY <1>2, <2>2
    <3>2. y.blk[p].next = p + 1 /\ y.blk[p].next # Null
      BY <1>4, <1>13, <2>2, <3>1
    <3>3. y.blk[p + 1].start = EndOf(y, p)
      <4>1. EndOf(a, c[p]) = a.blk[c[p + 1]].start
        BY <1>16, <3>1
      <4> QED BY <1>13, <3>1, <4>1
    <3>4. y.blk[p + 1].prev = p
      BY <1>13, <3>1
    <3> QED BY <3>1, <3>2, <3>3, <3>4
  <2> QED BY <2>1, <2>2
<1>19. LinkedDown(y)
  <2> SUFFICES ASSUME NEW p \in 1..k
               PROVE  IF y.blk[p].prev = Null THEN p = y.bottom
                      ELSE /\ y.blk[p].prev \in 1..k
                           /\ EndOf(y, y.blk[p].prev) = y.blk[p].start
                           /\ y.blk[y.blk[p].prev].next = p
    BY <1>15 DEF LinkedDown
  <2>1. CASE p = 1
    BY <1>4, <1>9, <1>13, <2>1
  <2>2. CASE p # 1
    <3>1. p - 1 \in 1..(k - 1) /\ p - 1 \in 1..k /\ p - 1 # 0 /\ p - 1 # k /\ (p - 1) + 1 = p
      BY <1>2, <2>2
    <3>2. y.blk[p].prev = p - 1 /\ y.blk[p].prev # Null
      BY <1>4, <1>13, <3>1
    <3>3. EndOf(y, p - 1) = y.blk[p].start
      <4>1. EndOf(a, c[p - 1]) = a.blk[c[(p - 1) + 1]].start
        BY <1>16, <3>1
      <4> QED BY <1>13, <3>1, <4>1
    <3>4. y.blk[p - 1].next = p
      BY <1>13, <3>1
    <3> QED BY <3>1, <3>2, <3>3, <3>4
  <2> QED BY <2>1, <2>2
<1>20. Ends(y)
  <2>1. 1 \in 1..k /\ k \in 1..k /\ 1 - 1 = 0
    BY <1>2
  <2>2. a.blk[c[1]].start = RangeStart /\ EndOf(a, c[k]) = RangeEnd
    BY <1>1, <1>2 DEF Tiled, Ends
  <2>3. y.blk[1].start = RangeStart /\ y.blk[1].prev = Null
    BY <1>4, <1>13, <2>1, <2>2
  <2>4. EndOf(y, k) = RangeEnd /\ y.blk[k].next = Null
    BY <1>13, <2>1, <2>2
  <2> QED BY <1>9, <1>15, <2>1, <2>3, <2>4 DEF Ends
<1>21. Apart(y)
  <2> SUFFICES ASSUME NEW p \in 1..k, NEW q \in 1..k, p # q
               PROVE  EndOf(y, p) <= y.blk[q].start \/ EndOf(y, q) <= y.blk[p].start
    BY <1>15 DEF Apart
  <2>1. c[p] \in Live(a) /\ c[q] \in Live(a) /\ c[p] # c[q]
    BY <1>2
  <2>2. EndOf(a, c[p]) <= a.blk[c[q]].start \/ EndOf(a, c[q]) <= a.blk[c[p]].start
    BY <1>1, <2>1 DEF Tiled, Apart
  <2> QED BY <1>13, <2>2
<1>22. MergedBut(y, Null)
  <2> SUFFICES ASSUME NEW q \in 1..k, y.blk[q].next # Null
               PROVE  y.blk[q].taken \/ y.blk[y.blk[q].next].taken
    BY <1>15 DEF MergedBut
  <2>1. q # k /\ y.blk[q].next = q + 1
    BY <1>13
  <2>2. q \in 1..(k - 1) /\ q + 1 \in 1..k
    BY <1>2, <2>1
  <2>3. a.blk[c[q]].next = c[q + 1] /\ c[q] \in Live(a) /\ c[q + 1] \in Live(a)
    BY <1>2, <2>2
  <2>4. c[q] # Null /\ c[q + 1] # Null
    BY <1>1, <2>3, LiveBlock
  <2>5. a.blk[c[q]].taken \/ a.blk[c[q + 1]].taken
    BY <1>1, <2>3, <2>4 DEF MergedBut
  <2> QED BY <1>13, <2>1, <2>2, <2>5
<1>23. SameRanges(a, y)
  <2>1. ASSUME NEW p \in Ptr, y.blk[p].taken
        PROVE  \E q \in Ptr : /\ a.blk[q].taken /\ y.blk[p].start = a.blk[q].start
                              /\ y.blk[p].size = a.blk[q].size
    <3>1. p \in 1..k
      BY <1>15, <2>1, TakenIsLive
    <3> QED BY <1>6, <1>13, <2>1, <3>1
  <2>2. ASSUME NEW q \in Ptr, a.blk[q].taken
        PROVE  \E p \in Ptr : /\ y.blk[p].taken /\ y.blk[p].start = a.blk[q].start
                              /\ y.blk[p].size = a.blk[q].size
    <3>1. q \in Live(a)
      BY <2>2, TakenIsLive
    <3>2. PICK p \in 1..k : c[p] = q
      BY <1>2, <3>1
    <3> QED BY <1>11, <1>13, <2>2, <3>2
  <2> QED BY <2>1, <2>2 DEF SameRanges
<1> QED BY <1>10, <1>17, <1>18, <1>19, <1>20, <1>21, <1>22, <1>23 DEF Tiled, y

-----------------------------------------------------------------------------
(* The invariant. *)

LEMMA InitTiles ==
  ASSUME Init
  PROVE  IInv /\ \A p \in Ptr : ~a.blk[p].taken
<1> DEFINE B == [start |-> RangeStart, size |-> RangeSize, taken |-> FALSE,
                 prev |-> Null, next |-> Null]
<1>1. /\ a.blk = [p \in Ptr |-> IF p = 1 THEN B ELSE NoBlock]
      /\ a.bottom = 1 /\ a.top = 1
      /\ a = [blk |-> a.blk, bottom |-> 1, top |-> 1]
  BY DEF Init
<1>2. /\ B.start = RangeStart /\ B.size = RangeSize /\ ~B.taken
      /\ B.prev = Null /\ B.next = Null /\ B \in Block /\ NoBlock \in Block /\ ~NoBlock.taken
      /\ B.size # NoBlock.size
  BY Numbers DEF Block, NoBlock
<1> HIDE DEF B
<1>3. 1 \in Ptr /\ a.blk[1] = B /\ \A p \in Ptr : p # 1 => a.blk[p] = NoBlock
  BY <1>1, Numbers DEF Ptr
<1>4. a \in Allocator
  BY <1>1, <1>2, <1>3 DEF Allocator
<1>5. Live(a) = {1}
  BY <1>2, <1>3 DEF Live
<1>6. EndOf(a, 1) = RangeEnd
  BY <1>2, <1>3 DEF EndOf, RangeEnd
<1>7. InRange(a)
  <2>1. B.size > 0 /\ RangeStart <= B.start /\ B.start % Grain = 0 /\ RangeEnd <= RangeEnd
    BY <1>2, Numbers
  <2> QED BY <1>3, <1>5, <1>6, <2>1 DEF InRange
<1>8. LinkedUp(a) /\ LinkedDown(a) /\ Ends(a) /\ Apart(a) /\ MergedBut(a, Null)
  BY <1>1, <1>2, <1>3, <1>5, <1>6 DEF LinkedUp, LinkedDown, Ends, Apart, MergedBut
<1>9. \A p \in Ptr : ~a.blk[p].taken
  BY <1>2, <1>3
<1> QED BY <1>4, <1>7, <1>8, <1>9 DEF IInv, Tiled

\* What a step of the allocator is to those who use it.
LEMMA StepHandsOver ==
  ASSUME IInv, Next
  PROVE  \/ \E p \in Ptr : HandsOut(a, a', p) \/ TakesBack(a, a', p)
         \/ Tiled(a') /\ MergedBut(a', Null) /\ SameRanges(a, a')
<1>1. ASSUME NEW size \in Sizes, NEW g \in Grains, NEW fromTop \in BOOLEAN,
             AllocAligned(size, g[1], g[2], fromTop)
      PROVE  \E p \in Ptr : HandsOut(a, a', p)
  BY <1>1, AllocAlignedHandsOut
<1>2. ASSUME NEW size \in Sizes, NEW position \in Positions, AllocAt(position, size)
      PROVE  \E p \in Ptr : HandsOut(a, a', p)
  BY <1>2, AllocAtHandsOut
<1>3. ASSUME NEW position \in Positions, Free(position) \/ FreeExact(position)
      PROVE  \E p \in Ptr : TakesBack(a, a', p)
  BY <1>3, FreeTakesBack
<1>4. CASE DoState
  BY <1>4, DoStateReloads
<1> QED BY <1>1, <1>2, <1>3, <1>4 DEF Next

LEMMA IInvKept ==
  ASSUME IInv, [Next]_a
  PROVE  IInv'
<1>1. CASE Next
  <2>1. Tiled(a') /\ MergedBut(a', Null)
    BY <1>1, StepHandsOver DEF HandsOut, TakesBack
  <2> QED BY <2>1 DEF IInv, Tiled, InRange, LinkedUp, LinkedDown, Ends, Apart, MergedBut, Live,
                      EndOf
<1>2. CASE UNCHANGED a
  BY <1>2 DEF IInv, Tiled, InRange, LinkedUp, LinkedDown, Ends, Apart, MergedBut, Live, EndOf
<1> QED BY <1>1, <1>2

LEMMA IInvHolds == Spec => []IInv
<1>1. Init => IInv
  BY InitTiles
<1>2. IInv /\ [Next]_a => IInv'
  BY IInvKept
<1> QED BY <1>1, <1>2, PTL DEF Spec

-----------------------------------------------------------------------------
(* What an allocation takes, and what is held. *)

LEMMA HandsOutOne ==
  ASSUME NEW p \in Ptr, HandsOut(a, a', p)
  PROVE  NewlyTaken = {p}
<1>1. \A q \in Ptr : a'.blk[q].taken <=> (q = p \/ a.blk[q].taken)
  BY DEF HandsOut
<1>2. ~a.blk[p].taken
  BY DEF HandsOut
<1>3. \A q \in Ptr : q \in Held <=> a.blk[q].taken
  BY TakenIsLive DEF Held
<1> QED BY <1>1, <1>2, <1>3 DEF NewlyTaken

LEMMA RequestsMet ==
  ASSUME IInv
  PROVE  AlignedAllocMeetsRequest /\ AllocAtMeetsRequest
<1>1. AlignedAllocMeetsRequest
  <2> SUFFICES ASSUME NEW size \in Sizes, NEW g \in Grains, NEW fromTop \in BOOLEAN,
                      AllocAligned(size, g[1], g[2], fromTop)
               PROVE  LET n == AlignUp(size, AtLeastGrain(g[1]))
                      IN  \E p \in Ptr : /\ NewlyTaken = {p}
                                         /\ a'.blk[p].start % AtLeastGrain(g[2]) = 0
                                         /\ a'.blk[p].size \in n..(n + Grain - 1)
    BY DEF AlignedAllocMeetsRequest
  <2>1. PICK p \in Ptr :
          /\ HandsOut(a, a', p)
          /\ a'.blk[p].start % AtLeastGrain(g[2]) = 0
          /\ LET n == AlignUp(size, AtLeastGrain(g[1]))
             IN  a'.blk[p].size \in n..(n + Grain - 1)
    BY AllocAlignedHandsOut
  <2>2. NewlyTaken = {p}
    BY <2>1, HandsOutOne
  <2> QED BY <2>1, <2>2
<1>2. AllocAtMeetsRequest
  <2> SUFFICES ASSUME NEW size \in Sizes, NEW position \in Positions, AllocAt(position, size)
               PROVE  \E p \in Ptr : /\ NewlyTaken = {p}
                                     /\ a'.blk[p].start <= position
                                     /\ position + size <= EndOf(a', p)
    BY DEF AllocAtMeetsRequest
  <2>1. PICK p \in Ptr : /\ HandsOut(a, a', p) /\ a'.blk[p].start <= position
                         /\ position + size <= EndOf(a', p)
    BY AllocAtHandsOut
  <2>2. NewlyTaken = {p}
    BY <2>1, HandsOutOne
  <2> QED BY <2>1, <2>2
<1> QED BY <1>1, <1>2

RangeOf(x, p) == [start |-> x.blk[p].start, size |-> x.blk[p].size]
HeldIn(x) == {RangeOf(x, p) : p \in {q \in Ptr : x.blk[q].taken}}

LEMMA HeldNow ==
  HeldRanges = HeldIn(a) /\ HeldRanges' = HeldIn(a')
<1>1. Held = {q \in Ptr : a.blk[q].taken}
  BY TakenIsLive DEF Held, Live
<1>2. ASSUME NEW q \in Ptr, a'.blk[q].taken PROVE q \in Live(a')
  BY <1>2, TakenIsLive
<1>3. Held' = {q \in Live(a') : a'.blk[q].taken}
  BY DEF Held, Live
<1>4. Live(a') \subseteq Ptr
  BY DEF Live
<1>5. Held' = {q \in Ptr : a'.blk[q].taken}
  BY <1>2, <1>3, <1>4
<1> QED BY <1>1, <1>5 DEF HeldRanges, HeldIn, RangeOf

\* Blocks that are held have different ranges.
LEMMA HeldApart ==
  ASSUME NEW x, Tiled(x), NEW p \in Ptr, NEW q \in Ptr, p # q,
         x.blk[p].taken, x.blk[q].taken
  PROVE  /\ Abstract!Disjoint(RangeOf(x, p), RangeOf(x, q))
         /\ RangeOf(x, p) # RangeOf(x, q)
<1>1. p \in Live(x) /\ q \in Live(x)
  BY TakenIsLive
<1>2. EndOf(x, p) <= x.blk[q].start \/ EndOf(x, q) <= x.blk[p].start
  BY <1>1 DEF Tiled, Apart
<1>3. /\ x.blk[p].start \in Nat /\ x.blk[p].size \in Nat \ {0}
      /\ x.blk[q].start \in Nat /\ x.blk[q].size \in Nat \ {0}
  BY <1>1, LiveBlock
<1>4. x.blk[p].start # x.blk[q].start
  BY <1>2, <1>3 DEF EndOf
<1>5. /\ RangeOf(x, p).start = x.blk[p].start /\ RangeOf(x, p).size = x.blk[p].size
      /\ RangeOf(x, q).start = x.blk[q].start /\ RangeOf(x, q).size = x.blk[q].size
  BY DEF RangeOf
<1> QED BY <1>2, <1>4, <1>5 DEF Abstract!Disjoint, EndOf

LEMMA HandsOutReserves ==
  ASSUME NEW x, NEW y, NEW p \in Ptr, HandsOut(x, y, p)
  PROVE  /\ RangeOf(y, p) \in Abstract!Ranges
         /\ \A r \in HeldIn(x) : Abstract!Disjoint(RangeOf(y, p), r)
         /\ HeldIn(y) = HeldIn(x) \cup {RangeOf(y, p)}
<1>1. Tiled(y) /\ p \in Live(y) /\ ~x.blk[p].taken
  BY DEF HandsOut
<1>2. \A q \in Ptr : y.blk[q].taken <=> (q = p \/ x.blk[q].taken)
  BY DEF HandsOut
<1>3. \A q \in Ptr : x.blk[q].taken => RangeOf(y, q) = RangeOf(x, q)
  BY DEF HandsOut, RangeOf
<1>4. RangeOf(y, p) \in Abstract!Ranges
  <2> DEFINE s == y.blk[p].start
             z == y.blk[p].size
  <2>1. s \in Nat /\ z \in Nat \ {0} /\ RangeStart <= s /\ s + z <= RangeEnd
    BY <1>1, LiveBlock
  <2> HIDE DEF s, z
  <2>2. s \in RangeStart..(RangeEnd - 1) /\ z \in 1..(RangeEnd - RangeStart)
    BY <2>1, Numbers
  <2>3. RangeOf(y, p) = [start |-> s, size |-> z]
    BY DEF RangeOf, s, z
  <2> QED BY <2>1, <2>2, <2>3 DEF Abstract!Ranges
<1>5. ASSUME NEW r \in HeldIn(x) PROVE Abstract!Disjoint(RangeOf(y, p), r)
  <2>1. PICK q \in Ptr : x.blk[q].taken /\ r = RangeOf(x, q)
    BY DEF HeldIn
  <2>2. q # p /\ y.blk[q].taken /\ y.blk[p].taken /\ r = RangeOf(y, q)
    BY <1>1, <1>2, <1>3, <2>1
  <2> QED BY <1>1, <2>2, HeldApart
<1>6. HeldIn(y) = HeldIn(x) \cup {RangeOf(y, p)}
  <2>1. ASSUME NEW r \in HeldIn(y) PROVE r \in HeldIn(x) \cup {RangeOf(y, p)}
    <3>1. PICK q \in Ptr : y.blk[q].taken /\ r = RangeOf(y, q)
      BY DEF HeldIn
    <3> QED BY <1>2, <1>3, <3>1 DEF HeldIn
  <2>2. ASSUME NEW r \in HeldIn(x) PROVE r \in HeldIn(y)
    <3>1. PICK q \in Ptr : x.blk[q].taken /\ r = RangeOf(x, q)
      BY DEF HeldIn
    <3>2. y.blk[q].taken /\ r = RangeOf(y, q)
      BY <1>2, <1>3, <3>1
    <3> QED BY <3>2 DEF HeldIn
  <2>3. RangeOf(y, p) \in HeldIn(y)
    BY <1>2 DEF HeldIn
  <2> QED BY <2>1, <2>2, <2>3
<1> QED BY <1>4, <1>5, <1>6

LEMMA TakesBackReleases ==
  ASSUME NEW x, NEW y, NEW p \in Ptr, Tiled(x), TakesBack(x, y, p)
  PROVE  RangeOf(x, p) \in HeldIn(x) /\ HeldIn(y) = HeldIn(x) \ {RangeOf(x, p)}
<1>1. x.blk[p].taken
  BY DEF TakesBack
<1>2. \A q \in Ptr : y.blk[q].taken <=> (q # p /\ x.blk[q].taken)
  BY DEF TakesBack
<1>3. \A q \in Ptr : y.blk[q].taken => RangeOf(y, q) = RangeOf(x, q)
  BY DEF TakesBack, RangeOf
<1>4. ASSUME NEW r \in HeldIn(y) PROVE r \in HeldIn(x) \ {RangeOf(x, p)}
  <2>1. PICK q \in Ptr : y.blk[q].taken /\ r = RangeOf(y, q)
    BY DEF HeldIn
  <2>2. q # p /\ x.blk[q].taken /\ r = RangeOf(x, q)
    BY <1>2, <1>3, <2>1
  <2>3. RangeOf(x, q) # RangeOf(x, p)
    BY <1>1, <2>2, HeldApart
  <2>4. r \in HeldIn(x)
    BY <2>2 DEF HeldIn
  <2> QED BY <2>2, <2>3, <2>4
<1>5. ASSUME NEW r \in HeldIn(x), r # RangeOf(x, p) PROVE r \in HeldIn(y)
  <2>1. PICK q \in Ptr : x.blk[q].taken /\ r = RangeOf(x, q)
    BY DEF HeldIn
  <2>2. y.blk[q].taken /\ r = RangeOf(y, q)
    BY <1>2, <1>3, <1>5, <2>1
  <2> QED BY <2>2 DEF HeldIn
<1>6. RangeOf(x, p) \in HeldIn(x)
  BY <1>1 DEF HeldIn
<1> QED BY <1>4, <1>5, <1>6

LEMMA SameRangesHeld ==
  ASSUME NEW x, NEW y, SameRanges(x, y)
  PROVE  HeldIn(y) = HeldIn(x)
<1>1. ASSUME NEW r \in HeldIn(y) PROVE r \in HeldIn(x)
  <2>1. PICK p \in Ptr : y.blk[p].taken /\ r = RangeOf(y, p)
    BY DEF HeldIn
  <2>2. PICK q \in Ptr : /\ x.blk[q].taken /\ y.blk[p].start = x.blk[q].start
                         /\ y.blk[p].size = x.blk[q].size
    BY <2>1 DEF SameRanges
  <2>3. r = RangeOf(x, q)
    BY <2>1, <2>2 DEF RangeOf
  <2> QED BY <2>2, <2>3 DEF HeldIn
<1>2. ASSUME NEW r \in HeldIn(x) PROVE r \in HeldIn(y)
  <2>1. PICK q \in Ptr : x.blk[q].taken /\ r = RangeOf(x, q)
    BY DEF HeldIn
  <2>2. PICK p \in Ptr : /\ y.blk[p].taken /\ y.blk[p].start = x.blk[q].start
                         /\ y.blk[p].size = x.blk[q].size
    BY <2>1 DEF SameRanges
  <2>3. r = RangeOf(y, p)
    BY <2>1, <2>2 DEF RangeOf
  <2> QED BY <2>2, <2>3 DEF HeldIn
<1> QED BY <1>1, <1>2

\* A step of the allocator reserves a range, releases one, or leaves what is held.
LEMMA StepRefines ==
  ASSUME IInv, [Next]_a
  PROVE  [Abstract!Next]_HeldRanges
<1>1. ASSUME NEW p \in Ptr, HandsOut(a, a', p) PROVE Abstract!Reserve
  BY <1>1, HandsOutReserves, HeldNow DEF Abstract!Reserve
<1>2. ASSUME NEW p \in Ptr, TakesBack(a, a', p) PROVE Abstract!Release
  <2>1. Tiled(a)
    BY DEF IInv
  <2> QED BY <1>2, <2>1, TakesBackReleases, HeldNow DEF Abstract!Release
<1>3. ASSUME SameRanges(a, a') PROVE UNCHANGED HeldRanges
  BY <1>3, SameRangesHeld, HeldNow
<1>4. CASE UNCHANGED a
  BY <1>4, HeldNow
<1>5. CASE Next
  BY <1>1, <1>2, <1>3, <1>5, StepHandsOver DEF Abstract!Next
<1> QED BY <1>4, <1>5

-----------------------------------------------------------------------------
(* Theorems. *)

\* Whatever is allocated, freed and reloaded, the links describe one list of all the
\* blocks, these tile the range without a gap or an overlap, and no free block
\* follows another: splits and MergeFreeBlocks() keep the list whole.
THEOREM BlocksInvHolds == Spec => []BlocksInv
<1>1. IInv => BlocksInv
  BY BlocksInvFollows
<1> QED BY <1>1, IInvHolds, PTL

\* AllocAligned() finds a block, from the bottom and from the top, whenever the free
\* bytes hold an aligned place of the size asked for.
THEOREM AllocatesIfItFitsHolds == Spec => []AllocatesIfItFits
<1>1. IInv => AllocatesIfItFits
  BY AllocatesFollows
<1> QED BY <1>1, IInvHolds, PTL

\* AllocAligned() and AllocAt() take one block each, aligned and of the size asked
\* for, or over all the bytes asked for.
THEOREM AllocMeetsRequestHolds == Spec => AllocMeetsRequest
<1>1. IInv => AlignedAllocMeetsRequest /\ AllocAtMeetsRequest
  BY RequestsMet
<1> QED BY <1>1, IInvHolds, PTL DEF AllocMeetsRequest

\* The allocator implements AddressSpace: what it hands out is in its range and
\* overlaps nothing held, and nothing held is moved, resized or dropped.
THEOREM AddressSpaceHolds == Spec => ImplementsAddressSpace
<1>1. Init => Abstract!Init
  BY InitTiles DEF Abstract!Init, HeldRanges, Held, Live
<1>2. IInv /\ [Next]_a => [Abstract!Next]_HeldRanges
  BY StepRefines
<1> QED BY <1>1, <1>2, IInvHolds, PTL DEF Spec, ImplementsAddressSpace, Abstract!Spec
=============================================================================
