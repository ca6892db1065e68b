--------------------------- MODULE MCThreadQueueList ---------------------------
(* ThreadQueueList for TLC: thread ids are model values. *)
EXTENDS ThreadQueueList

CONSTANTS a, b
=============================================================================
