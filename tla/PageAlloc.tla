------------------------------ MODULE PageAlloc ------------------------------
(***************************************************************************)
(* What a page manager promises: a request for n pages is refused only if  *)
(* no n contiguous pages are free, and otherwise gets a run of pages that  *)
(* were free; pages are free again once they are given back.               *)
(***************************************************************************)
EXTENDS Integers

CONSTANTS
  Pages,
  Sizes,    \* of runs asked for and given back
  NULL

VARIABLES
  free,     \* the pages nobody holds
  result    \* the last request and its answer: the first page of the run, or NULL

Run(base, n) == base .. base + n - 1

Init == free = {} /\ result = [asked |-> 0, page |-> NULL]

Granted(n) ==
  \E base \in Pages :
    /\ Run(base, n) \subseteq free
    /\ free' = free \ Run(base, n)
    /\ result' = [asked |-> n, page |-> base]

Refused(n) ==
  /\ \A base \in Pages : ~ (Run(base, n) \subseteq free)
  /\ result' = [asked |-> n, page |-> NULL]
  /\ UNCHANGED free

\* the boot code gives the machine's memory to the manager in the same way
GiveBack(base, n) ==
  /\ Run(base, n) \subseteq Pages \ free
  /\ free' = free \cup Run(base, n)
  /\ UNCHANGED result

Next ==
  \/ \E n \in Sizes : Granted(n) \/ Refused(n)
  \/ \E base \in Pages, n \in Sizes : GiveBack(base, n)

Spec == Init /\ [][Next]_<<free, result>>
=============================================================================
