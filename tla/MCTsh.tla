------------------------------- MODULE MCTsh --------------------------------
(***************************************************************************)
(* Small instances of the shell.                                           *)
(***************************************************************************)
EXTENDS Tsh, TLC

PidSymmetry == Permutations(Pids)
=============================================================================
