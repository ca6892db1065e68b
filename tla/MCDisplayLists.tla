---------------------------- MODULE MCDisplayLists ----------------------------
(* Instances of DisplayLists for TLC. *)
EXTENDS DisplayLists, TLC

CONSTANTS l1, l2, t1, v1

MCSubOrder == <<v1>>
Suspends == <<"SUSPEND", "FINISH">>
Pauses == <<"PAUSE", "FINISH", "SYNC", "FINISH", "FINISH">>
MCPrograms == {Suspends, Pauses}
Lists == {"ListEnQueue", "ListUpdateStallAddr", "ListSync", "DrawSync", "SetCallback"}
MCGuests ==
  {Lists \cup {"ListEnQueueHead", "Continue", "Break"},
   Lists \cup {"ListEnQueueHead", "Continue", "ListDeQueue"},
   Lists \cup {"CpuSuspendIntr", "BreakAll"},
   {"ListEnQueue", "ListSync", "DrawSync", "SetCallback", "CpuSuspendIntr",
    "RegisterSubIntrHandler", "ReleaseSubIntrHandler", "DisableSubIntr"},
   Lists \cup {"ListEnQueueHeadRefused", "UnsetCallback", "ListDeQueue", "BreakAll"}}
Symmetry == Permutations(List)

\* The instance is one the theorems of DisplayListProofs are about.
ASSUME OrderlyInstance == Orderly
=============================================================================
