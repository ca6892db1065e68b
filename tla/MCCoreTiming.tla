---------------------------- MODULE MCCoreTiming ----------------------------
(* Instances of CoreTiming for TLC. *)
EXTENDS CoreTiming, TLC

CONSTANTS u1, u2, vb

Symmetry == Permutations(UserData)
=============================================================================
