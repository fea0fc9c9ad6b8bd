---------------------------- MODULE FlatMemory ----------------------------
(***************************************************************************)
(* What virtual memory promises the program that uses it: a page holds what *)
(* was last written to it, however often its frame is taken away, and no    *)
(* page fault changes a page that has content.  A page that was never       *)
(* touched holds anything after its first fault: a fresh frame is not       *)
(* cleared.                                                                 *)
(***************************************************************************)

CONSTANTS
    Pages,      \* virtual pages
    Values,     \* contents of a page
    Untouched   \* a page that has no content yet

VARIABLES
    mem,        \* the content of each page
    faulting    \* the program waits for the handler of a page fault

vars == <<mem, faulting>>

Init == mem = [p \in Pages |-> Untouched] /\ faulting = FALSE

\* The program writes, when no fault is being handled.
Write(p) == /\ ~faulting /\ mem[p] # Untouched
            /\ \E v \in Values : mem' = [mem EXCEPT ![p] = v]
            /\ UNCHANGED faulting

\* page_remove gives the page up.
Drop(p) == /\ ~faulting
           /\ mem' = [mem EXCEPT ![p] = Untouched]
           /\ UNCHANGED faulting

Fault == ~faulting /\ faulting' = TRUE /\ UNCHANGED mem

\* The handler brings a page into being, or brings it back as it was.
Touch(p) == /\ faulting /\ faulting' = FALSE
            /\ mem[p] = Untouched
            /\ \E v \in Values : mem' = [mem EXCEPT ![p] = v]

Return == faulting /\ faulting' = FALSE /\ UNCHANGED mem

Next == Fault \/ Return \/ \E p \in Pages : Touch(p) \/ Write(p) \/ Drop(p)

Spec == Init /\ [][Next]_vars
=============================================================================
