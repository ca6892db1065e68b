---------------------------- MODULE MCKernelSema ----------------------------
(* Instances of KernelSema for TLC. *)
EXTENDS KernelSema, TLC

CONSTANTS t1, t2, t3, s1, s2

Symmetry == Permutations(User)
=============================================================================
