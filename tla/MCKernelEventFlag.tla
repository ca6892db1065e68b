-------------------------- MODULE MCKernelEventFlag --------------------------
(* Instances of KernelEventFlag for TLC. *)
EXTENDS KernelEventFlag, TLC

CONSTANTS t1, t2, t3, f1, b1, b2

\* All bits or any bit, clearing nothing, the bits asked for, or everything.
AskFor(bits, or, clear, all) == [bits |-> bits, or |-> or, clear |-> clear, all |-> all]
MCAsks == {AskFor({b1}, FALSE, TRUE, FALSE), AskFor({b1, b2}, FALSE, FALSE, FALSE),
           AskFor({b1, b2}, TRUE, FALSE, TRUE)}

Symmetry == Permutations(User)
=============================================================================
