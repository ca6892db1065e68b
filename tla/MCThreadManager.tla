-------------------------- MODULE MCThreadManager --------------------------
(* Instances of ThreadManager for TLC. *)
EXTENDS ThreadManager, TLC

CONSTANTS a, b, c, d, c1, c2

MCPriorityOf == [t \in Task |-> IF t = b THEN 0 ELSE 1]
=============================================================================
