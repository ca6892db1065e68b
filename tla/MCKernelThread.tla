--------------------------- MODULE MCKernelThread ---------------------------
(* Instances of KernelThread for TLC. *)
EXTENDS KernelThread, TLC

CONSTANTS t1, t2, t3

Symmetry == Permutations(User)
=============================================================================
