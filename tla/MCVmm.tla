------------------------------- MODULE MCVmm -------------------------------
(***************************************************************************)
(* Virtual memory for TLC: five frames and five pages for the self-tests,   *)
(* three of the frames for the free runs.                                   *)
(***************************************************************************)
EXTENDS VmmTests

CONSTANTS f1, f2, f3, f4, f5

MCFrames == {f1, f2, f3, f4, f5}
FrameSymmetry == Permutations(MCFrames)
MCFreeAreas == {vma_create(0, 2, {"R"}), vma_create(2, 4, {"R", "W"}),
                vma_create(4, 6, {"W"}), vma_create(2, 6, {"R", "W"})}
MCFreeAddrs == {0, 2, 3, 5}
=============================================================================
