---------------------------- MODULE AddressSpace ----------------------------
(***************************************************************************)
(* What an allocator of address ranges promises: it hands out ranges that  *)
(* lie inside its own and overlap nothing that is still held, and a range  *)
(* changes hands in no other way than by being handed out and given back.  *)
(***************************************************************************)
EXTENDS Integers

CONSTANTS Lo, Hi   \* the addresses Lo .. Hi - 1

VARIABLE held      \* the ranges that are held: [start, size]

Ranges == {r \in [start : Lo..(Hi - 1), size : 1..(Hi - Lo)] : r.start + r.size <= Hi}

Disjoint(r, q) == r.start + r.size <= q.start \/ q.start + q.size <= r.start

Init == held = {}

Reserve ==
  \E r \in Ranges :
    /\ \A q \in held : Disjoint(r, q)
    /\ held' = held \cup {r}

Release == \E r \in held : held' = held \ {r}

Next == Reserve \/ Release

Spec == Init /\ [][Next]_held
=============================================================================
