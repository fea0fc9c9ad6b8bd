-------------------------------- MODULE MCMm --------------------------------
(***************************************************************************)
(* A heap of 40 words that starts with 8 free words and grows by 12 or     *)
(* more; blocks of 4, 6 and 16 words, the last at the high end and beyond  *)
(* the sizes for which mm_malloc searches its lists.                       *)
(***************************************************************************)
EXTENDS Mm

MCRequests == {1, 3, 14}
=============================================================================
