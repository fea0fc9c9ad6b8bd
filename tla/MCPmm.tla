-------------------------------- MODULE MCPmm --------------------------------
(***************************************************************************)
(* Two ranges of usable memory with a hole between them; for LowestFits the *)
(* one range on which default_check works.                                  *)
(***************************************************************************)
EXTENDS Pmm

MCRegions == <<<<0, 5>>, <<6, 1>>>>
MCOneRegion == <<<<0, 5>>>>
MCRequests == 1 .. 3
=============================================================================
