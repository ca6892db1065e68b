------------------------- MODULE MCKernelCallback -------------------------
(* Model values for KernelCallback. *)
EXTENDS KernelCallback, TLC

CONSTANTS t1, t2, s1, c1

Symmetry == Permutations(User) \cup Permutations(Cb)
=============================================================================
