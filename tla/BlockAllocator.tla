--------------------------- MODULE BlockAllocator ---------------------------
(***************************************************************************)
(* The allocator of emulated memory (Core/Util/BlockAllocator.cpp): the    *)
(* memory partitions, the heaps and the pools are carved up by it.         *)
(*                                                                         *)
(* It tiles its range by blocks, free or taken, in a doubly linked list in *)
(* address order.  An allocation splits the first free block that is large *)
(* enough, from the bottom or from the top, and a free merges the block    *)
(* with its free neighbours.  The pointers are modelled as such: x is the  *)
(* allocator with its heap of Block objects, and a deleted one reads as    *)
(* NoBlock.                                                                *)
(***************************************************************************)
EXTENDS Integers, Sequences, SequencesExt, FiniteSets

CONSTANTS
  RangeStart, RangeSize,  \* rangeStart_ and rangeSize_
  Grain,                  \* grain_
  MaxBlocks,              \* bound: Block objects that exist at a time
  Sizes,                  \* sizes the clients ask for
  Grains,                 \* pairs <<sizeGrain, grain>> they ask for
  Positions               \* positions they ask for, or free

RangeEnd == RangeStart + RangeSize

ASSUME RangeAssumption ==
  /\ RangeStart \in Nat \ {0} /\ RangeSize \in Nat \ {0} /\ Grain \in Nat \ {0}
  /\ RangeStart % Grain = 0
ASSUME RequestAssumption ==
  /\ Sizes \subseteq Nat \ {0} /\ Positions \subseteq Nat
  /\ Grains \subseteq (Nat \ {0}) \X (Nat \ {0})
ASSUME BlockBound == MaxBlocks \in Nat \ {0}
\* The masks of AllocAligned() call for powers of two (sceKernelMemory.cpp refuses
\* other alignments), and of two of them the larger is a multiple of the smaller.
ASSUME GrainAssumption ==
  \A g \in Grains, i \in {1, 2} : g[i] >= Grain => g[i] % Grain = 0

VARIABLE a

Null == 0
Ptr == 1..MaxBlocks

Block == [start : Nat, size : Nat, taken : BOOLEAN, prev : Ptr \cup {Null},
          next : Ptr \cup {Null}]
NoBlock == [start |-> 0, size |-> 0, taken |-> FALSE, prev |-> Null, next |-> Null]

Allocator == [blk : [Ptr -> Block], bottom : Ptr \cup {Null}, top : Ptr \cup {Null}]

Live(x) == {p \in Ptr : x.blk[p] # NoBlock}

\* The object that new returns; one is there as long as MaxBlocks are not in use.
NewBlock(x) == CHOOSE p \in Ptr \ Live(x) : \A q \in Ptr \ Live(x) : p <= q

EndOf(x, p) == x.blk[p].start + x.blk[p].size

NextLinks(x) == [p \in Ptr |-> x.blk[p].next]
PrevLinks(x) == [p \in Ptr |-> x.blk[p].prev]

\* The pointer that a loop from p along link is at in each of its rounds.
Walk(p, link) ==
  LET at[n \in 1..MaxBlocks] ==
        IF n = 1 THEN p
        ELSE LET q == at[n - 1] IN IF q = Null THEN Null ELSE link[q]
  IN  at

\* The blocks that it meets before the null pointer.
Chain(p, link) ==
  LET at == Walk(p, link)
  IN  [n \in 1..Cardinality({m \in 1..MaxBlocks : at[m] # Null}) |-> at[n]]

UpChain(x) == Chain(x.bottom, NextLinks(x))
DownChain(x) == Chain(x.top, PrevLinks(x))

\* The first of them in S, or the null pointer.
FirstIn(S, p, link) ==
  LET at == Walk(p, link)
      met == {n \in 1..MaxBlocks : at[n] \in S}
  IN  IF met = {} THEN Null ELSE at[Min(met)]

GetBlockFromAddress(x, addr) ==
  FirstIn({p \in Ptr : x.blk[p].start <= addr /\ addr < EndOf(x, p)},
          x.bottom, NextLinks(x))

-----------------------------------------------------------------------------
(* Splitting and merging. *)

\* p->next = q and p->prev = q, where p may be the null pointer.
SetNext(blk, p, q) == IF p = Null THEN blk ELSE [blk EXCEPT ![p].next = q]
SetPrev(blk, p, q) == IF p = Null THEN blk ELSE [blk EXCEPT ![p].prev = q]

\* A free block of the given size is cut off the low end of p.
InsertFreeBefore(x, p, size) ==
  LET n == NewBlock(x)
      b == x.blk[p]
  IN  [x EXCEPT
         !.blk = [SetNext(x.blk, b.prev, n) EXCEPT
                    ![n] = [start |-> b.start, size |-> size, taken |-> FALSE,
                            prev |-> b.prev, next |-> p],
                    ![p] = [b EXCEPT !.start = @ + size, !.size = @ - size, !.prev = n]],
         !.bottom = IF b.prev = Null THEN n ELSE @]

\* Mutant: the block above is not told of its new neighbour below.
InsertFreeAfterOneWay(x, p, size) ==
  LET n == NewBlock(x)
      b == x.blk[p]
  IN  [x EXCEPT
         !.blk = [x.blk EXCEPT
                    ![n] = [start |-> EndOf(x, p) - size, size |-> size, taken |-> FALSE,
                            prev |-> p, next |-> b.next],
                    ![p] = [b EXCEPT !.size = @ - size, !.next = n]],
         !.top = IF b.next = Null THEN n ELSE @]

\* A free block of the given size is cut off the high end of p.
InsertFreeAfter(x, p, size) ==
  LET n == NewBlock(x)
      b == x.blk[p]
  IN  [x EXCEPT
         !.blk = [SetPrev(x.blk, b.next, n) EXCEPT
                    ![n] = [start |-> EndOf(x, p) - size, size |-> size, taken |-> FALSE,
                            prev |-> p, next |-> b.next],
                    ![p] = [b EXCEPT !.size = @ - size, !.next = n]],
         !.top = IF b.next = Null THEN n ELSE @]

\* The block before p swallows p.
AbsorbIntoPrev(x, p) ==
  LET b == x.blk[p]
      low == x.blk[b.prev]
  IN  [x EXCEPT
         !.blk = [SetPrev(x.blk, b.next, b.prev) EXCEPT
                    ![b.prev] = [low EXCEPT !.size = @ + b.size, !.next = b.next],
                    ![p] = NoBlock],
         !.top = IF b.next = Null THEN b.prev ELSE @]

\* p swallows the block after it; the links back to p are set when the loop is done.
AbsorbNext(x, p) ==
  LET low == x.blk[p]
      b == x.blk[low.next]
  IN  [x EXCEPT !.blk = [x.blk EXCEPT ![p] = [low EXCEPT !.size = @ + b.size, !.next = b.next],
                                      ![low.next] = NoBlock]]

\* The two loops of MergeFreeBlocks(), towards bottom_ and towards top_, and a
\* round of each; y holds the allocator and fromBlock.
DownRound(y) ==
  LET prev == y.x.blk[y.from].prev
  IN  IF prev = Null \/ y.x.blk[prev].taken THEN y
      ELSE [x |-> AbsorbIntoPrev(y.x, y.from), from |-> prev]

MergeDown(x, p) ==
  LET after[n \in 0..MaxBlocks] ==
        IF n = 0 THEN [x |-> x, from |-> p] ELSE DownRound(after[n - 1])
  IN  after[MaxBlocks]

UpRound(x, p) ==
  LET next == x.blk[p].next
  IN  IF next = Null \/ x.blk[next].taken THEN x ELSE AbsorbNext(x, p)

MergeUp(x, p) ==
  LET after[n \in 0..MaxBlocks] == IF n = 0 THEN x ELSE UpRound(after[n - 1], p)
  IN  after[MaxBlocks]

\* What follows each loop: the block beyond, or bottom_ or top_, gets to know p.
LinkBelow(x, p) ==
  LET prev == x.blk[p].prev
  IN  [x EXCEPT !.blk = SetNext(x.blk, prev, p), !.bottom = IF prev = Null THEN p ELSE @]
LinkAbove(x, p) ==
  LET next == x.blk[p].next
  IN  [x EXCEPT !.blk = SetPrev(x.blk, next, p), !.top = IF next = Null THEN p ELSE @]

\* Mutant: only the block above is merged.
MergeFreeBlocksUpOnly(x, p) == LinkAbove(MergeUp(x, p), p)

MergeFreeBlocks(x, p) ==
  LET down == MergeDown(x, p)
      from == down.from
  IN  LinkAbove(MergeUp(LinkBelow(down.x, from), from), from)

Take(x, p) == [x EXCEPT !.blk = [x.blk EXCEPT ![p].taken = TRUE]]

-----------------------------------------------------------------------------
(* Where an allocation goes.  The size is already a multiple of sizeGrain.  *)

AlignUp(n, grain) == ((n + grain - 1) \div grain) * grain
AtLeastGrain(g) == IF g < Grain THEN Grain ELSE g

\* Bytes to leave free below, or above, the allocation in block p to align it.
OffsetLow(x, p, grain) == (-x.blk[p].start) % grain
OffsetHigh(x, p, size, grain) == (EndOf(x, p) - size) % grain

FitLow(x, size, grain) ==
  FirstIn({p \in Ptr : ~x.blk[p].taken /\
                       x.blk[p].size >= OffsetLow(x, p, grain) + size},
          x.bottom, NextLinks(x))
FitHigh(x, size, grain) ==
  FirstIn({p \in Ptr : ~x.blk[p].taken /\
                       x.blk[p].size >= OffsetHigh(x, p, size, grain) + size},
          x.top, PrevLinks(x))

\* An offset smaller than a grain stays part of the block that is taken.
PlaceLow(x, p, size, grain) ==
  LET offset == OffsetLow(x, p, grain)
      rest == x.blk[p].size - (offset + size)
      above == IF rest = 0 THEN x ELSE InsertFreeAfter(x, p, rest)
  IN  Take(IF offset >= Grain THEN InsertFreeBefore(above, p, offset) ELSE above, p)

\* Mutant: the bytes left out for the alignment are cut off the wrong end.
PlaceHighUnaligned(x, p, size, grain) ==
  LET rest == x.blk[p].size - size
  IN  Take(IF rest = 0 THEN x ELSE InsertFreeBefore(x, p, rest), p)

PlaceHigh(x, p, size, grain) ==
  LET offset == OffsetHigh(x, p, size, grain)
      rest == x.blk[p].size - (offset + size)
      below == IF rest = 0 THEN x ELSE InsertFreeBefore(x, p, rest)
  IN  Take(IF offset >= Grain THEN InsertFreeAfter(below, p, offset) ELSE below, p)

PlaceAt(x, p, at, n) ==
  LET below == IF x.blk[p].start = at THEN x
               ELSE InsertFreeBefore(x, p, at - x.blk[p].start)
      rest == below.blk[p].size - n
  IN  Take(IF rest = 0 THEN below ELSE InsertFreeAfter(below, p, rest), p)

-----------------------------------------------------------------------------
(* Operations.  One that fails changes nothing and is not a step. *)

\* An allocation splits off two blocks at most.
Room == Cardinality(Ptr \ Live(a)) >= 2

AllocAligned(size, sizeGrain, grain, fromTop) ==
  LET g == AtLeastGrain(grain)
      n == AlignUp(size, AtLeastGrain(sizeGrain))
      p == IF fromTop THEN FitHigh(a, n, g) ELSE FitLow(a, n, g)
  IN  /\ Room /\ size <= RangeSize /\ p # Null
      /\ a' = IF fromTop THEN PlaceHigh(a, p, n, g) ELSE PlaceLow(a, p, n, g)

\* Mutant: whether the block is free is not checked.
AllocAtTaken(position, size) ==
  LET at == position - (position % Grain)
      n == AlignUp(size + (position - at), Grain)
      p == GetBlockFromAddress(a, at)
  IN  /\ Room /\ size <= RangeSize
      /\ p # Null /\ at + n <= EndOf(a, p)
      /\ a' = PlaceAt(a, p, at, n)

AllocAt(position, size) ==
  LET at == position - (position % Grain)
      n == AlignUp(size + (position - at), Grain)
      p == GetBlockFromAddress(a, at)
  IN  /\ Room /\ size <= RangeSize
      /\ p # Null /\ ~a.blk[p].taken /\ at + n <= EndOf(a, p)
      /\ a' = PlaceAt(a, p, at, n)

Untake(x, p) == [x EXCEPT !.blk = [x.blk EXCEPT ![p].taken = FALSE]]

FreeBlock(p) == a' = MergeFreeBlocks(Untake(a, p), p)

\* Any address inside the block will do.
Free(position) ==
  LET p == GetBlockFromAddress(a, position)
  IN  p # Null /\ a.blk[p].taken /\ FreeBlock(p)

FreeExact(position) ==
  LET p == GetBlockFromAddress(a, position)
  IN  p # Null /\ a.blk[p].taken /\ a.blk[p].start = position /\ FreeBlock(p)

\* A state is saved, from bottom_ along next, and read back into new objects.
DoState ==
  LET c == UpChain(a)
  IN  a' = [blk |-> [p \in Ptr |->
                       IF p > Len(c) THEN NoBlock
                       ELSE [a.blk[c[p]] EXCEPT
                               !.prev = p - 1,
                               !.next = IF p = Len(c) THEN Null ELSE p + 1]],
            bottom |-> 1, top |-> Len(c)]

-----------------------------------------------------------------------------
Init ==
  a = [blk |-> [p \in Ptr |-> IF p = 1
                              THEN [start |-> RangeStart, size |-> RangeSize,
                                    taken |-> FALSE, prev |-> Null, next |-> Null]
                              ELSE NoBlock],
       bottom |-> 1, top |-> 1]

Next ==
  \/ \E size \in Sizes :
       \/ \E g \in Grains, fromTop \in BOOLEAN :
            AllocAligned(size, g[1], g[2], fromTop)
       \/ \E position \in Positions : AllocAt(position, size)
  \/ \E position \in Positions : Free(position) \/ FreeExact(position)
  \/ DoState

Spec == Init /\ [][Next]_a
-----------------------------------------------------------------------------
(* Properties. *)

\* The fields of every block have the types of struct Block.
BlocksTypeOK == a \in Allocator

\* The two link chains describe one list, they hold every block that was not
\* deleted, and the blocks tile the range: whatever order of splits and merges,
\* no address is in two blocks or in none.
BlocksTileRange ==
  LET up == UpChain(a)
  IN  /\ Reverse(DownChain(a)) = up
      /\ ToSet(up) = Live(a) /\ up # <<>>
      /\ a.blk[Head(up)].start = RangeStart
      /\ EndOf(a, up[Len(up)]) = RangeEnd
      /\ \A i \in 1..(Len(up) - 1) : EndOf(a, up[i]) = a.blk[up[i + 1]].start

\* Free memory never stays fragmented: no free block follows a free block, and
\* none is empty, so a later allocation sees each gap whole.
FreeBlocksMerged ==
  LET up == UpChain(a)
  IN  /\ \A p \in Live(a) : a.blk[p].size > 0
      /\ \A i \in 1..(Len(up) - 1) : a.blk[up[i]].taken \/ a.blk[up[i + 1]].taken

\* What every split, merge and reload of the list keeps.
BlocksInv == BlocksTypeOK /\ BlocksTileRange /\ FreeBlocksMerged

\* AllocAligned() fails only when it must: if the free bytes hold an aligned place
\* of the size asked for, both search directions find a block.
Held == {p \in Live(a) : a.blk[p].taken}
HeldRanges == {[start |-> a.blk[p].start, size |-> a.blk[p].size] : p \in Held}
FitsAt(addr, n) ==
  /\ RangeStart <= addr /\ addr + n <= RangeEnd
  /\ \A p \in Held : addr + n <= a.blk[p].start \/ EndOf(a, p) <= addr
AllocatesIfItFits ==
  \A size \in Sizes, g \in Grains :
    LET grain == AtLeastGrain(g[2])
        n == AlignUp(size, AtLeastGrain(g[1]))
    IN  (\E addr \in RangeStart..RangeEnd : addr % grain = 0 /\ FitsAt(addr, n)) =>
          FitLow(a, n, grain) # Null /\ FitHigh(a, n, grain) # Null

NewlyTaken == {p \in Ptr : a'.blk[p].taken /\ ~(p \in Held)}

\* An allocation takes one block.  It starts at a multiple of the grain asked for
\* and has the size asked for and less than a grain to spare; or it covers all the
\* bytes asked for from the position given.
AlignedAllocMeetsRequest ==
  \A size \in Sizes, g \in Grains, fromTop \in BOOLEAN :
    AllocAligned(size, g[1], g[2], fromTop) =>
      LET n == AlignUp(size, AtLeastGrain(g[1]))
      IN  \E p \in Ptr : /\ NewlyTaken = {p}
                         /\ a'.blk[p].start % AtLeastGrain(g[2]) = 0
                         /\ a'.blk[p].size \in n..(n + Grain - 1)
AllocAtMeetsRequest ==
  \A size \in Sizes, position \in Positions :
    AllocAt(position, size) =>
      \E p \in Ptr : /\ NewlyTaken = {p}
                     /\ a'.blk[p].start <= position
                     /\ position + size <= EndOf(a', p)
AllocMeetsRequest == [][AlignedAllocMeetsRequest /\ AllocAtMeetsRequest]_a

\* The allocator keeps the promise of AddressSpace: what it hands out overlaps
\* nothing held, and no split, merge or reload moves, grows or drops what is held.
Abstract == INSTANCE AddressSpace
  WITH Lo <- RangeStart, Hi <- RangeEnd, held <- HeldRanges
ImplementsAddressSpace == Abstract!Spec
=============================================================================
