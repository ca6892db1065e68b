------------------------------ MODULE UidList ------------------------------
(***************************************************************************)
(* Lists of thread ids as the kernel keeps them: the ready queue of a      *)
(* priority and the waitingThreads vector of a kernel object.              *)
(***************************************************************************)
EXTENDS Integers, Sequences

\* e is an element of the sequence s, and no element of s occurs twice.
Holds(s, e) == \E i \in 1..Len(s) : s[i] = e
Distinct(s) == \A i, j \in 1..Len(s) : s[i] = s[j] => i = j

\* s without its element at i.
DropAt(s, i) == [j \in 1..(Len(s) - 1) |-> IF j < i THEN s[j] ELSE s[j + 1]]

\* s without the first occurrence of e.
DropFirst(s, e) ==
  IF Holds(s, e)
  THEN DropAt(s, CHOOSE i \in 1..Len(s) :
                   s[i] = e /\ \A j \in 1..Len(s) : s[j] = e => i <= j)
  ELSE s
=============================================================================
