------------------------------ MODULE Removal ------------------------------
(***************************************************************************)
(* Lists from which elements are taken out wherever they stand.            *)
(***************************************************************************)
EXTENDS Integers, Sequences

\* s without the elements of E; the others keep their order.
Without(s, E) ==
  LET kept[n \in 0..Len(s)] ==
        IF n = 0 THEN <<>>
        ELSE IF s[n] \in E THEN kept[n - 1] ELSE Append(kept[n - 1], s[n])
  IN  kept[Len(s)]
=============================================================================
