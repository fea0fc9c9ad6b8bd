--------------------------------- MODULE Pmm ---------------------------------
(***************************************************************************)
(* The first-fit page manager of the kernel of lab2 (default_pmm.c).  The  *)
(* callers run it with interrupts off, so that one call is never           *)
(* interleaved with another; the loop of default_free_pages that merges    *)
(* the freed block with its neighbours is modelled turn by turn.           *)
(***************************************************************************)
EXTENDS Integers, Sequences, FiniteSets

CONSTANTS
  NPages,     \* page frames are 0 .. NPages - 1
  Regions,    \* the memory ranges page_init finds usable, as <<base, size>>
  Requests,   \* sizes asked for
  NULL        \* no page

Pages == 0 .. NPages - 1
Run(b, n) == b .. b + n - 1

\* The memory map of the boot loader lists usable ranges that do not touch.
ASSUME PmmAssumption ==
  /\ NPages \in Nat \ {0}
  /\ Regions \in Seq(Pages \X (Nat \ {0}))
  /\ \A i \in 1 .. Len(Regions) : Regions[i][1] + Regions[i][2] <= NPages
  /\ \A i, j \in 1 .. Len(Regions) :
       i # j => \/ Regions[i][1] + Regions[i][2] < Regions[j][1]
                \/ Regions[j][1] + Regions[j][2] < Regions[i][1]
  /\ Requests \subseteq Nat \ {0}
  /\ NULL \notin Pages

VARIABLES
  free_list,     \* heads of the free blocks, in list order
  property,      \* size of the block a page heads
  PG_property,   \* the flag of block heads
  nr_free,
  allocated,     \* the pages the callers hold, up to the moment they call free_pages
  booted,        \* how many regions init_memmap was called for
  pc, base, n, le,   \* default_free_pages: place, arguments, list position
  result         \* the last request of alloc_pages and what it returned

vars == <<free_list, property, PG_property, nr_free, allocated, booted, pc, base, n, le, result>>

RegionsPages(k) == UNION {Run(Regions[i][1], Regions[i][2]) : i \in 1 .. k}
Block(p) == Run(p, property[p])

TypeOK ==
  /\ free_list \in Seq(Pages)
  /\ property \in [Pages -> 0 .. NPages]
  /\ PG_property \in [Pages -> BOOLEAN]
  /\ nr_free \in 0 .. NPages
  /\ allocated \subseteq RegionsPages(booted)
  /\ booted \in 0 .. Len(Regions)
  /\ pc \in {"ready", "merge", "panic"}
  /\ base \in Pages
  /\ n \in 0 .. NPages
  /\ le \in 1 .. Len(free_list) + 1
  /\ result \in [asked : {0} \cup Requests, page : Pages \cup {NULL}]

\* default_init, on page structures that page_init has all marked reserved
Init ==
  /\ free_list = <<>>
  /\ property = [p \in Pages |-> 0]
  /\ PG_property = [p \in Pages |-> FALSE]
  /\ nr_free = 0
  /\ allocated = {}
  /\ booted = 0
  /\ pc = "ready"
  /\ base = 0
  /\ n = 0
  /\ le = 1
  /\ result = [asked |-> 0, page |-> NULL]

\* list_add(&free_list, ...) and list_del
ListAdd(p, l) == <<p>> \o l
ListDel(l, i) == [k \in 1 .. Len(l) - 1 |-> IF k < i THEN l[k] ELSE l[k + 1]]

default_init_memmap ==
  /\ pc = "ready"
  /\ booted < Len(Regions)
  /\ booted' = booted + 1
  /\ LET b == Regions[booted + 1][1]
         size == Regions[booted + 1][2]
     IN  /\ property' = [p \in Pages |-> IF p = b THEN size
                                         ELSE IF p \in Run(b, size) THEN 0 ELSE property[p]]
         /\ PG_property' = [p \in Pages |-> IF p = b THEN TRUE
                                            ELSE PG_property[p] /\ p \notin Run(b, size)]
         /\ nr_free' = nr_free + size
         /\ free_list' = ListAdd(b, free_list)
  /\ UNCHANGED <<allocated, pc, base, n, le, result>>

(***************************************************************************)
(* default_alloc_pages.                                                    *)
(***************************************************************************)
\* wrong: a block of exactly the right size is passed over
FittingAbove(size) == {i \in 1 .. Len(free_list) : property[free_list[i]] > size}

Fitting(size) == {i \in 1 .. Len(free_list) : property[free_list[i]] >= size}

AllocRefused(size) ==
  /\ pc = "ready"
  /\ booted = Len(Regions)
  /\ size > nr_free \/ Fitting(size) = {}
  /\ result' = [asked |-> size, page |-> NULL]
  /\ UNCHANGED <<free_list, property, PG_property, nr_free, allocated, booted, pc, base, n, le>>

\* wrong: what the block has too much is dropped
AllocGrantedLost(size) ==
  /\ pc = "ready"
  /\ booted = Len(Regions)
  /\ size <= nr_free
  /\ \E i \in Fitting(size) :
       LET page == free_list[i]
           rest == property[page] - size
       IN  /\ \A j \in Fitting(size) : i <= j
           /\ IF rest > 0
              THEN /\ property' = [property EXCEPT ![page + size] = rest]
                   /\ free_list' = ListDel(free_list, i)
              ELSE /\ free_list' = ListDel(free_list, i)
                   /\ UNCHANGED property
           /\ PG_property' = [PG_property EXCEPT ![page] = FALSE]
           /\ allocated' = allocated \cup Run(page, size)
           /\ result' = [asked |-> size, page |-> page]
  /\ nr_free' = nr_free - size
  /\ UNCHANGED <<booted, pc, base, n, le>>

\* wrong: the whole block is counted as used
AllocGrantedWhole(size) ==
  /\ pc = "ready"
  /\ booted = Len(Regions)
  /\ size <= nr_free
  /\ \E i \in Fitting(size) :
       LET page == free_list[i]
           rest == property[page] - size
       IN  /\ \A j \in Fitting(size) : i <= j
           /\ IF rest > 0
              THEN /\ property' = [property EXCEPT ![page + size] = rest]
                   /\ free_list' = ListAdd(page + size, ListDel(free_list, i))
              ELSE /\ free_list' = ListDel(free_list, i)
                   /\ UNCHANGED property
           /\ PG_property' = [PG_property EXCEPT ![page] = FALSE]
           /\ allocated' = allocated \cup Run(page, size)
           /\ result' = [asked |-> size, page |-> page]
           /\ nr_free' = nr_free - property[page]
  /\ UNCHANGED <<booted, pc, base, n, le>>

\* the first block that fits is unlinked; what it has too much becomes a block
\* at the head of the list, without the flag of block heads
AllocGranted(size) ==
  /\ pc = "ready"
  /\ booted = Len(Regions)
  /\ size <= nr_free
  /\ \E i \in Fitting(size) :
       LET page == free_list[i]
           rest == property[page] - size
       IN  /\ \A j \in Fitting(size) : i <= j
           /\ IF rest > 0
              THEN /\ property' = [property EXCEPT ![page + size] = rest]
                   /\ free_list' = ListAdd(page + size, ListDel(free_list, i))
              ELSE /\ free_list' = ListDel(free_list, i)
                   /\ UNCHANGED property
           /\ PG_property' = [PG_property EXCEPT ![page] = FALSE]
           /\ allocated' = allocated \cup Run(page, size)
           /\ result' = [asked |-> size, page |-> page]
  /\ nr_free' = nr_free - size
  /\ UNCHANGED <<booted, pc, base, n, le>>

(***************************************************************************)
(* default_free_pages.  A caller gives back pages it holds, be it a part   *)
(* of what one call returned (default_check does so).                      *)
(***************************************************************************)
FreeEnter(b, size) ==
  /\ pc = "ready"
  /\ booted = Len(Regions)
  /\ Run(b, size) \subseteq allocated
  /\ pc' = IF \E p \in Run(b, size) : PG_property[p] THEN "panic" ELSE "merge"
  /\ property' = [property EXCEPT ![b] = size]
  /\ PG_property' = [p \in Pages |-> IF p = b THEN TRUE
                                     ELSE PG_property[p] /\ p \notin Run(b, size)]
  /\ base' = b
  /\ n' = size
  /\ le' = 1
  /\ allocated' = allocated \ Run(b, size)
  /\ UNCHANGED <<free_list, nr_free, booted, result>>

At == free_list[le]

\* wrong: the loop ends at the first neighbour found
MergeUpBreak ==
  /\ pc = "merge"
  /\ le <= Len(free_list)
  /\ base + property[base] = At
  /\ property' = [property EXCEPT ![base] = @ + property[At]]
  /\ PG_property' = [PG_property EXCEPT ![At] = FALSE]
  /\ free_list' = ListDel(free_list, le)
  /\ le' = Len(free_list)
  /\ UNCHANGED <<nr_free, allocated, booted, pc, base, n, result>>

\* the block at le begins where the freed one ends: swallow it
MergeUp ==
  /\ pc = "merge"
  /\ le <= Len(free_list)
  /\ base + property[base] = At
  /\ property' = [property EXCEPT ![base] = @ + property[At]]
  /\ PG_property' = [PG_property EXCEPT ![At] = FALSE]
  /\ free_list' = ListDel(free_list, le)
  /\ UNCHANGED <<nr_free, allocated, booted, pc, base, n, le, result>>

\* wrong: the loop ends at the first neighbour found
MergeDownBreak ==
  /\ pc = "merge"
  /\ le <= Len(free_list)
  /\ base + property[base] # At
  /\ At + property[At] = base
  /\ property' = [property EXCEPT ![At] = @ + property[base]]
  /\ PG_property' = [PG_property EXCEPT ![base] = FALSE]
  /\ base' = At
  /\ free_list' = ListDel(free_list, le)
  /\ le' = Len(free_list)
  /\ UNCHANGED <<nr_free, allocated, booted, pc, n, result>>

\* the block at le ends where the freed one begins: it swallows the freed one
MergeDown ==
  /\ pc = "merge"
  /\ le <= Len(free_list)
  /\ base + property[base] # At
  /\ At + property[At] = base
  /\ property' = [property EXCEPT ![At] = @ + property[base]]
  /\ PG_property' = [PG_property EXCEPT ![base] = FALSE]
  /\ base' = At
  /\ free_list' = ListDel(free_list, le)
  /\ UNCHANGED <<nr_free, allocated, booted, pc, n, le, result>>

MergeSkip ==
  /\ pc = "merge"
  /\ le <= Len(free_list)
  /\ base + property[base] # At
  /\ At + property[At] # base
  /\ le' = le + 1
  /\ UNCHANGED <<free_list, property, PG_property, nr_free, allocated, booted, pc, base, n, result>>

\* after the loop: the search for the first block above, whose assertion may
\* fail, and the insertion at the head of the list
Above == {i \in 1 .. Len(free_list) : base + property[base] <= free_list[i]}

FreeLink ==
  /\ pc = "merge"
  /\ le > Len(free_list)
  /\ nr_free' = nr_free + n
  /\ pc' = IF \E i \in Above : /\ \A j \in Above : i <= j
                               /\ base + property[base] = free_list[i]
           THEN "panic" ELSE "ready"
  /\ free_list' = ListAdd(base, free_list)
  /\ base' = 0 /\ n' = 0 /\ le' = 1     \* the locals are gone
  /\ UNCHANGED <<property, PG_property, allocated, booted, result>>

Next ==
  \/ default_init_memmap
  \/ \E size \in Requests : AllocRefused(size) \/ AllocGranted(size)
  \/ \E b \in allocated, size \in Requests : FreeEnter(b, size)
  \/ MergeUp \/ MergeDown \/ MergeSkip
  \/ FreeLink

Spec == Init /\ [][Next]_vars

-----------------------------------------------------------------------------
(***************************************************************************)
(* Properties.                                                             *)
(***************************************************************************)
Listed(p) == \E i \in 1 .. Len(free_list) : p \in Block(free_list[i])
Held(p) == pc = "merge" /\ p \in Block(base)

\* No page is lost and none is handed out while it is in use: the blocks of the
\* list, with the one being freed, are exactly the pages no caller holds.
ListIsFreePages ==
  pc # "panic" =>
    \A p \in Pages : (Listed(p) \/ Held(p)) <=> p \in RegionsPages(booted) \ allocated

\* The blocks of the list are disjoint and no two of them touch: the single
\* pass of default_free_pages merges all there is to merge, in whatever order
\* the blocks are listed.
Apart(p, q) == property[p] + p < q \/ property[q] + q < p

FullyMerged ==
  pc # "panic" =>
    \A i, j \in 1 .. Len(free_list) : i # j => Apart(free_list[i], free_list[j])

\* nr_free is the number of free pages; alloc_pages refuses on its word alone.
NrFreeExact ==
  nr_free = Cardinality(RegionsPages(booted) \ allocated) - (IF pc = "merge" THEN n ELSE 0)

\* None of the assertions of default_free_pages ever fails.
NoPanic == pc # "panic"

\* What default_check asserts in its last part (default_pmm.c:288): of the blocks
\* that are large enough a request gets the one at the lowest address, as if the
\* list were kept in the order of addresses, which the comment asks for (87-89).
\* The code links every block at the head of the list: this does not hold.
LowestFits ==
  [][\/ result' = result
     \/ result'.page = NULL
     \/ \A i \in Fitting(result'.asked) : result'.page <= free_list[i]]_vars

\* The manager implements the promise of PageAlloc: in particular a request is
\* refused only if no run of free pages is long enough.
PA == INSTANCE PageAlloc WITH free <- RegionsPages(booted) \ allocated,
                              Sizes <- Requests \cup 1 .. NPages
PageAllocSpec == PA!Spec
=============================================================================
