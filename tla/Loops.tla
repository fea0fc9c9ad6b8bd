------------------------------- MODULE Loops --------------------------------
(***************************************************************************)
(* Loops of the C code as functions of the number of turns, for the search *)
(* of the debug information and the walks along the allocator's links.     *)
(***************************************************************************)
EXTENDS Naturals

\* Where a loop that starts at x and goes on from y to next[y] is after k turns
Iterate(x, next) ==
  LET at[k \in Nat] == IF k = 0 THEN x ELSE next[at[k - 1]]
  IN  at
=============================================================================
