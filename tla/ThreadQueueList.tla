-------------------------- MODULE ThreadQueueList --------------------------
(***************************************************************************)
(* The ready queue's data structure (Core/HLE/ThreadQueueList.h): for each *)
(* priority an array used as a deque, whose items are kept away from both  *)
(* ends so that a push at either end needs no check, and a chain through   *)
(* the queues that have ever been used, best priority first.               *)
(*                                                                         *)
(* A pointer to a queue is its priority: NULL is -1 and invalid(), the     *)
(* pointer -1 that compares above every queue, is NUM_QUEUES.  data holds  *)
(* the cells from first to end - 1; the other cells are indeterminate.     *)
(* inside records whether every array index that the last call used was    *)
(* within the array.                                                       *)
(***************************************************************************)
EXTENDS UidList

CONSTANTS
  UID,               \* thread ids
  NoUID,             \* the id 0
  NUM_QUEUES,        \* number of priorities
  INITIAL_CAPACITY,  \* size of a new array
  ReallocFails,      \* whether realloc() may fail
  MaxLen             \* bound: threads in one queue

ASSUME SizeAssumption ==
  /\ NUM_QUEUES \in Nat
  /\ INITIAL_CAPACITY \in Nat /\ INITIAL_CAPACITY >= 2
  /\ ReallocFails \in BOOLEAN
  /\ MaxLen \in Nat
ASSUME NoUIDAssumption == NoUID \notin UID

Prio == 0..(NUM_QUEUES - 1)
NULL == -1
invalid == NUM_QUEUES

VARIABLES
  list,    \* the queues, and first: the best queue of the chain
  ret,     \* what the last call returned, NoUID if nothing
  inside

vars == <<list, ret, inside>>

\* A queue that has never been used: all zero.
NoItems == [i \in {} |-> NoUID]
Unused == [next |-> NULL, first |-> 0, end |-> 0, capacity |-> 0, data |-> NoItems]
Empty == [queues |-> [p \in Prio |-> Unused], first |-> invalid]

size(q) == q.end - q.first
Linked(l, p) == l.queues[p].next # NULL

\* The cells lo..hi, possibly none, are within an array of cap cells.
Within(lo, hi, cap) == lo <= hi => 0 <= lo /\ hi < cap

\* An array of the given capacity that holds the items of q from f on.
MovedTo(q, f, cap) ==
  [q EXCEPT !.capacity = cap, !.first = f, !.end = f + size(q),
            !.data = [i \in f..(f + size(q) - 1) |-> q.data[i - f + q.first]]]

\* The items of q are within its array.
ItemsInside(q) == Within(q.first, q.end - 1, q.capacity)

\* realloc() from q, if any, and the memmove() of rebalance(), from q to r.
MoveInside(q, r) == Within(q.first, q.end - 1, r.capacity) /\ ItemsInside(r)

-----------------------------------------------------------------------------
(* Growing, linking and walking along the chain. *)

\* Mutant: grows only when the array is completely full.
rebalanceLate(q, fail) ==
  LET cap == IF size(q) >= q.capacity /\ ~fail THEN 2 * q.capacity ELSE q.capacity
  IN  MovedTo(q, (cap - size(q)) \div 2, cap)

\* Mutant: the indices move to the centre, the items do not.
rebalanceNoMove(q, fail) ==
  LET cap == IF size(q) >= q.capacity - 2 /\ ~fail THEN 2 * q.capacity
             ELSE q.capacity
      f == (cap - size(q)) \div 2
  IN  [MovedTo(q, f, cap) EXCEPT
         !.data = [i \in f..(f + size(q) - 1) |->
                     IF i \in DOMAIN q.data THEN q.data[i] ELSE NoUID]]

\* If the items are in the centre already nothing is moved, to the same effect.
rebalance(q, fail) ==
  LET cap == IF size(q) >= q.capacity - 2 /\ ~fail THEN 2 * q.capacity
             ELSE q.capacity
  IN  MovedTo(q, (cap - size(q)) \div 2, cap)

\* INITIAL_CAPACITY, doubled until it reaches goal.
RoundUp(goal) ==
  LET doubled[n \in 0..goal] ==
        IF n = 0 THEN INITIAL_CAPACITY
        ELSE IF doubled[n - 1] < goal THEN 2 * doubled[n - 1] ELSE doubled[n - 1]
  IN  doubled[goal]

\* Mutant: the new queue always becomes the head of the chain.
linkInFront(l, p, goal) ==
  LET cap == RoundUp(goal)
      new == [next |-> l.first, first |-> cap \div 2, end |-> cap \div 2,
              capacity |-> cap, data |-> NoItems]
  IN  [queues |-> [l.queues EXCEPT ![p] = new], first |-> p]

\* Inserts the queue after the nearest better one of the chain.
link(l, p, goal) ==
  LET cap == RoundUp(goal)
      better == {i \in Prio : i < p /\ Linked(l, i)}
      prev == CHOOSE i \in better : \A j \in better : j <= i
      new == [next |-> IF better = {} THEN l.first ELSE l.queues[prev].next,
              first |-> cap \div 2, end |-> cap \div 2,
              capacity |-> cap, data |-> NoItems]
  IN  IF better = {}
      THEN [queues |-> [l.queues EXCEPT ![p] = new], first |-> p]
      ELSE [l EXCEPT !.queues = [@ EXCEPT ![p] = new, ![prev].next = p]]

\* Where the walk from the head of the chain ends: at the first queue with a
\* thread, or at or past stop.  It takes at most NUM_QUEUES steps.
Walk(l, stop) ==
  LET at[n \in 0..NUM_QUEUES] ==
        IF n = 0 THEN l.first
        ELSE IF at[n - 1] >= stop \/ size(l.queues[at[n - 1]]) > 0
             THEN at[n - 1]
             ELSE l.queues[at[n - 1]].next
  IN  at[NUM_QUEUES]

-----------------------------------------------------------------------------
(* Operations.  The thread manager prepares a priority before it pushes to *)
(* or removes from its queue.                                              *)

Failures == IF ReallocFails THEN BOOLEAN ELSE {FALSE}

prepare(p) ==
  /\ list' = IF Linked(list, p) THEN list ELSE link(list, p, INITIAL_CAPACITY)
  /\ ret' = NoUID /\ inside' = TRUE

\* The queue changes to q, and is rebalanced if it touches an end of its array.
Store(p, q, touches, cells, fail) ==
  LET r == IF touches THEN rebalance(q, fail) ELSE q
  IN  /\ list' = [list EXCEPT !.queues[p] = r]
      /\ inside' = (cells /\ (touches => MoveInside(q, r)))

\* data[--first] = t, data[end++] = t, data[end++] = data[first++], first++.
PushedFront(q, t) ==
  [q EXCEPT !.first = @ - 1,
            !.data = [i \in (q.first - 1)..(q.end - 1) |->
                        IF i = q.first - 1 THEN t ELSE q.data[i]]]
PushedBack(q, t) ==
  [q EXCEPT !.end = @ + 1,
            !.data = [i \in q.first..q.end |-> IF i = q.end THEN t ELSE q.data[i]]]
Popped(q) ==
  [q EXCEPT !.first = @ + 1,
            !.data = [i \in (q.first + 1)..(q.end - 1) |-> q.data[i]]]
Rotated(q) == PushedBack(Popped(q), q.data[q.first])

\* The item at i is overwritten by the ones after it.
Erased(q, i) ==
  [q EXCEPT !.end = @ - 1,
            !.data = [j \in q.first..(q.end - 2) |->
                        IF j < i THEN q.data[j] ELSE q.data[j + 1]]]

\* Mutant: does not make room at the front.
push_frontNoRoom(p, t) ==
  LET q == list.queues[p]
  IN  /\ Linked(list, p) /\ size(q) < MaxLen
      /\ Store(p, PushedFront(q, t), FALSE,
               Within(q.first - 1, q.first - 1, q.capacity), FALSE)
      /\ ret' = NoUID

push_front(p, t) ==
  LET q == list.queues[p]
  IN  /\ Linked(list, p) /\ size(q) < MaxLen
      /\ \E fail \in Failures :
           Store(p, PushedFront(q, t), q.first - 1 = 0,
                 Within(q.first - 1, q.first - 1, q.capacity), fail)
      /\ ret' = NoUID

push_back(p, t) ==
  LET q == list.queues[p]
  IN  /\ Linked(list, p) /\ size(q) < MaxLen
      /\ \E fail \in Failures :
           Store(p, PushedBack(q, t), q.end + 1 = q.capacity,
                 Within(q.end, q.end, q.capacity), fail)
      /\ ret' = NoUID

rotate(p) ==
  LET q == list.queues[p]
  IN  /\ Linked(list, p)
      /\ IF size(q) > 1
         THEN \E fail \in Failures :
                Store(p, Rotated(q), q.end + 1 = q.capacity,
                      Within(q.first, q.end, q.capacity), fail)
         ELSE UNCHANGED list /\ inside' = TRUE
      /\ ret' = NoUID

\* The memmove() copies one cell too many: it reads data[end].
remove(p, t) ==
  LET q == list.queues[p]
      cells == {i \in q.first..(q.end - 1) : q.data[i] = t}
      at == CHOOSE i \in cells : \A j \in cells : i <= j
  IN  /\ Linked(list, p)
      /\ IF cells = {}
         THEN UNCHANGED list /\ inside' = TRUE
         ELSE /\ list' = [list EXCEPT !.queues[p] = Erased(q, at)]
              /\ inside' = Within(at, q.end, q.capacity)
      /\ ret' = NoUID

PopBefore(stop) ==
  LET p == Walk(list, stop)
      q == list.queues[p]
  IN  IF p < stop
      THEN /\ ret' = q.data[q.first]
           /\ inside' = Within(q.first, q.first, q.capacity)
           /\ list' = [list EXCEPT !.queues[p] = Popped(q)]
      ELSE ret' = NoUID /\ inside' = TRUE /\ UNCHANGED list

pop_first == PopBefore(invalid)
pop_first_better(p) == PopBefore(p)

clear == list' = Empty /\ ret' = NoUID /\ inside' = TRUE

\* Reads one saved queue back into l, centred in its array.
LoadQueue(l, p, saved) ==
  LET linked == link(l, p, saved.capacity)
      q == linked.queues[p]
      centre == (q.capacity - size(saved)) \div 2
  IN  IF saved.capacity = 0 THEN l
      ELSE [linked EXCEPT !.queues[p] =
              [MovedTo(saved, centre, q.capacity) EXCEPT !.next = q.next]]

\* The state is saved, and loaded into a cleared list later on.
DoState ==
  LET loaded[n \in 0..NUM_QUEUES] ==
        IF n = 0 THEN Empty
        ELSE LoadQueue(loaded[n - 1], n - 1, list.queues[n - 1])
  IN  /\ list' = loaded[NUM_QUEUES]
      /\ ret' = NoUID
      /\ inside' = \A p \in Prio : ItemsInside(list.queues[p])
                                 /\ ItemsInside(list'.queues[p])

Init == list = Empty /\ ret = NoUID /\ inside = TRUE

Next ==
  \/ \E p \in Prio :
       \/ prepare(p)
       \/ rotate(p)
       \/ pop_first_better(p)
       \/ \E t \in UID : push_front(p, t) \/ push_back(p, t) \/ remove(p, t)
  \/ pop_first
  \/ clear
  \/ DoState

Spec == Init /\ [][Next]_vars

-----------------------------------------------------------------------------
(* Properties. *)

\* Every queue in use keeps a free cell at both ends of its array, so that no
\* push needs to check first ("maintain free space on both sides", rebalance()).
HasRoom(q) == 1 <= q.first /\ q.first <= q.end /\ q.end < q.capacity
FreeSpaceBothSides == \A p \in Prio : Linked(list, p) => HasRoom(list.queues[p])

\* No call has used an index outside the array: neither a push, nor the copy that
\* remove() makes of one cell more than it needs, nor a move to a larger array.
MemorySafe == inside

\* The chain visits exactly the queues that have been used, in order of priority:
\* each leads to the next worse one, and first is the best.
IsNextUsed(l, p, r) ==
  /\ r \in Prio \cup {invalid} /\ p < r
  /\ r \in Prio => Linked(l, r)
  /\ \A s \in Prio : p < s /\ Linked(l, s) => r <= s
Chain(l) ==
  /\ IsNextUsed(l, NULL, l.first)
  /\ \A p \in Prio : Linked(l, p) => IsNextUsed(l, p, l.queues[p].next)
ChainOrdered == Chain(list)

\* The structure behaves as one list of thread ids per priority, in every call.
Items(q) == [i \in 1..size(q) |-> q.data[q.first + i - 1]]
Contents == [p \in Prio |-> Items(list.queues[p])]
Abstract == INSTANCE ReadyQueue WITH rq <- Contents
BehavesAsLists == Abstract!Spec
=============================================================================
