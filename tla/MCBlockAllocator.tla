-------------------------- MODULE MCBlockAllocator --------------------------
(* A range of five grains and a half, as the pool of a VPL may be. *)
EXTENDS BlockAllocator

MCGrains == {<<1, 1>>, <<2, 4>>}
=============================================================================
