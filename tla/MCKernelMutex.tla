---------------------------- MODULE MCKernelMutex ----------------------------
(* Instances of KernelMutex for TLC. *)
EXTENDS KernelMutex

CONSTANTS t1, t2, t3, m1, m2

Symmetry == Permutations(User) \cup Permutations(Obj)
=============================================================================
