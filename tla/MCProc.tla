------------------------------- MODULE MCProc -------------------------------
(***************************************************************************)
(* The kernel of lab4 as it stands, where no process ends and copy_mm does *)
(* not fail: pids 1 .. 5, at most four processes beside idle, two hash     *)
(* buckets.                                                                *)
(***************************************************************************)
EXTENDS Proc

MCBuckets == {0, 1}
MCHash == [p \in 1 .. MAX_PID - 1 |-> p % 2]
=============================================================================
