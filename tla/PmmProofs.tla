------------------------------ MODULE PmmProofs ------------------------------
(***************************************************************************)
(* The page manager keeps its promise for every memory map and every       *)
(* sequence of requests: the free list holds exactly the free pages, in    *)
(* blocks that cannot be merged further, nr_free counts them, and so a     *)
(* request is refused only if no run of free pages is long enough.         *)
(*                                                                         *)
(* The argument is about the set of block heads; the order of the list     *)
(* matters only for the part the merging loop has passed.                  *)
(***************************************************************************)
EXTENDS Pmm, FiniteSetTheorems, SequenceTheorems, TLAPS

Heads(l) == {l[i] : i \in 1 .. Len(l)}
Passed == {free_list[i] : i \in 1 .. le - 1}
Distinct(l) == \A i, j \in 1 .. Len(l) : l[i] = l[j] => i = j

In(q, p) == q <= p /\ p < q + property[q]

ListInv == /\ free_list \in Seq(Pages) /\ Distinct(free_list)
           /\ le \in 1 .. Len(free_list) + 1
           /\ pc # "merge" => le = 1

VarInv == /\ property \in [Pages -> 0 .. NPages]
          /\ PG_property \in [Pages -> BOOLEAN]
          /\ nr_free \in 0 .. NPages
          /\ allocated \subseteq RegionsPages(booted)
          /\ booted \in 0 .. Len(Regions)
          /\ pc \in {"ready", "merge"}
          /\ base \in Pages
          /\ n \in 0 .. NPages
          /\ result \in [asked : {0} \cup Requests, page : Pages \cup {NULL}]

BlockInv == \A q \in Heads(free_list) : property[q] >= 1 /\ q + property[q] <= NPages

ApartInv == \A q, r \in Heads(free_list) : q # r => Apart(q, r)

\* the block being freed may still touch those the loop has not passed
BaseInv == pc = "merge" =>
             /\ property[base] >= 1 /\ base + property[base] <= NPages
             /\ \A q \in Heads(free_list) : base + property[base] <= q \/ q + property[q] <= base
             /\ \A q \in Passed : Apart(base, q)

CoverInv == \A p \in Pages :
              (\E q \in Heads(free_list) : In(q, p)) \/ (pc = "merge" /\ In(base, p))
                <=> p \in RegionsPages(booted) /\ p \notin allocated

FlagInv == \A p \in Pages : PG_property[p] => p \in Heads(free_list) \/ (pc = "merge" /\ p = base)

BootInv == booted < Len(Regions) => allocated = {} /\ pc = "ready"

IInv == /\ ListInv /\ VarInv /\ BlockInv /\ ApartInv /\ BaseInv /\ CoverInv /\ FlagInv
        /\ BootInv /\ NrFreeExact

-----------------------------------------------------------------------------
(***************************************************************************)
(* Lists and regions.                                                      *)
(***************************************************************************)

\* A page added at the head of a list of other pages.
LEMMA AddHeads ==
  ASSUME NEW l \in Seq(Pages), Distinct(l), NEW p \in Pages, p \notin Heads(l)
  PROVE  /\ ListAdd(p, l) \in Seq(Pages)
         /\ Len(ListAdd(p, l)) = Len(l) + 1
         /\ Distinct(ListAdd(p, l))
         /\ Heads(ListAdd(p, l)) = Heads(l) \cup {p}
<1> DEFINE m == ListAdd(p, l)
           k == Len(l)
<1>1. k \in Nat
  BY LenProperties
<1>2. <<p>> \in Seq(Pages) /\ Len(<<p>>) = 1 /\ <<p>>[1] = p
  OBVIOUS
<1>3. m \in Seq(Pages) /\ Len(m) = k + 1
  BY <1>1, <1>2, ConcatProperties DEF ListAdd
<1>4. m[1] = p /\ \A i \in 1 .. k : m[i + 1] = l[i]
  BY <1>1, <1>2, ConcatProperties DEF ListAdd
<1> HIDE DEF m
<1>5. \A i \in 1 .. k + 1 : i = 1 \/ (i - 1 \in 1 .. k /\ m[i] = l[i - 1])
  <2> SUFFICES ASSUME NEW i \in 1 .. k + 1, i # 1 PROVE i - 1 \in 1 .. k /\ m[i] = l[i - 1]
    OBVIOUS
  <2>1. i - 1 \in 1 .. k /\ (i - 1) + 1 = i
    BY <1>1
  <2>2. m[(i - 1) + 1] = l[i - 1]
    BY <1>4, <2>1
  <2> QED BY <2>1, <2>2
<1>6. \A i \in 1 .. k : l[i] # p /\ l[i] \in Heads(l)
  BY DEF Heads
<1>7. Distinct(m)
  <2> SUFFICES ASSUME NEW i \in 1 .. k + 1, NEW j \in 1 .. k + 1, m[i] = m[j] PROVE i = j
    BY <1>3 DEF Distinct
  <2>1. CASE i = 1 \/ j = 1
    BY <1>4, <1>5, <1>6, <2>1
  <2>2. CASE i # 1 /\ j # 1
    <3>1. i - 1 = j - 1
      BY <1>5, <2>2 DEF Distinct
    <3> HIDE DEF k
    <3> QED BY <1>1, <3>1
  <2> QED BY <2>1, <2>2
<1>8. Heads(m) = Heads(l) \cup {p}
  <2>1. Heads(m) \subseteq Heads(l) \cup {p}
    BY <1>3, <1>4, <1>5 DEF Heads
  <2>2. p \in Heads(m)
    BY <1>1, <1>3, <1>4 DEF Heads
  <2>3. \A i \in 1 .. k : i + 1 \in 1 .. k + 1 /\ l[i] = m[i + 1]
    BY <1>1, <1>4
  <2>4. Heads(l) \subseteq Heads(m)
    BY <1>3, <2>3 DEF Heads
  <2> QED BY <2>1, <2>2, <2>4
<1> QED BY <1>3, <1>7, <1>8 DEF m

\* A page taken from a list; what comes before it stays where it is.
LEMMA DelHeads ==
  ASSUME NEW l \in Seq(Pages), Distinct(l), NEW d \in 1 .. Len(l)
  PROVE  /\ ListDel(l, d) \in Seq(Pages)
         /\ Len(ListDel(l, d)) = Len(l) - 1
         /\ Distinct(ListDel(l, d))
         /\ Heads(ListDel(l, d)) = Heads(l) \ {l[d]}
         /\ \A i \in 1 .. d - 1 : ListDel(l, d)[i] = l[i]
<1> DEFINE m == ListDel(l, d)
           k == Len(l)
           src(i) == IF i < d THEN i ELSE i + 1
<1>1. k \in Nat /\ k - 1 \in Nat /\ d \in 1 .. k
  BY LenProperties
<1>2. \A i \in 1 .. k - 1 : src(i) \in 1 .. k /\ src(i) # d /\ m[i] = l[src(i)]
  BY <1>1 DEF ListDel
<1>3. \A i \in 1 .. k : l[i] \in Pages
  BY ElementOfSeq
<1>4. m \in [1 .. k - 1 -> Pages]
  <2>1. m = [i \in 1 .. k - 1 |-> IF i < d THEN l[i] ELSE l[i + 1]]
    BY DEF ListDel
  <2>2. \A i \in 1 .. k - 1 : (IF i < d THEN l[i] ELSE l[i + 1]) \in Pages
    BY <1>1, <1>3
  <2> QED BY <2>1, <2>2
<1>5. m \in Seq(Pages)
  BY <1>1, <1>4, SeqDef
<1>6. Len(m) = k - 1
  BY <1>1, <1>4, <1>5, LenProperties
<1>7. Distinct(m)
  <2> SUFFICES ASSUME NEW i \in 1 .. k - 1, NEW j \in 1 .. k - 1, m[i] = m[j] PROVE i = j
    BY <1>6 DEF Distinct
  <2>1. src(i) = src(j)
    BY <1>2 DEF Distinct
  <2> QED BY <1>1, <2>1
<1>8. Heads(m) = Heads(l) \ {l[d]}
  <2>1. Heads(m) \subseteq Heads(l) \ {l[d]}
    <3> SUFFICES ASSUME NEW i \in 1 .. k - 1 PROVE m[i] \in Heads(l) \ {l[d]}
      BY <1>6 DEF Heads
    <3>1. l[src(i)] # l[d]
      BY <1>1, <1>2 DEF Distinct
    <3> QED BY <1>2, <3>1 DEF Heads
  <2>2. Heads(l) \ {l[d]} \subseteq Heads(m)
    <3> SUFFICES ASSUME NEW i \in 1 .. k, l[i] # l[d] PROVE l[i] \in Heads(m)
      BY DEF Heads
    <3>1. CASE i < d
      <4>1. i \in 1 .. k - 1 /\ m[i] = l[i]
        BY <1>1, <1>2, <3>1
      <4> QED BY <1>6, <4>1 DEF Heads
    <3>2. CASE i > d
      <4>1. i - 1 \in 1 .. k - 1 /\ m[i - 1] = l[i]
        BY <1>1, <1>2, <3>2
      <4> QED BY <1>6, <4>1 DEF Heads
    <3> QED BY <1>1, <3>1, <3>2
  <2> QED BY <2>1, <2>2
<1> QED BY <1>1, <1>2, <1>5, <1>6, <1>7, <1>8

LEMMA RegionFacts ==
  ASSUME NEW i \in 1 .. Len(Regions)
  PROVE  /\ Regions[i][1] \in Pages /\ Regions[i][2] \in Nat \ {0}
         /\ Regions[i][1] + Regions[i][2] <= NPages
<1>1. Regions[i] \in Pages \X (Nat \ {0})
  BY PmmAssumption, ElementOfSeq
<1> QED BY <1>1, PmmAssumption

LEMMA RegionsPagesDef ==
  ASSUME NEW k \in 0 .. Len(Regions), NEW p \in Int
  PROVE  p \in RegionsPages(k) <=>
           \E i \in 1 .. k : Regions[i][1] <= p /\ p < Regions[i][1] + Regions[i][2]
<1>1. Len(Regions) \in Nat
  BY PmmAssumption, LenProperties
<1>2. \A i \in 1 .. k : i \in 1 .. Len(Regions) /\ Regions[i][1] \in Int /\ Regions[i][2] \in Int
  BY <1>1, RegionFacts DEF Pages
<1>3. \A i \in 1 .. k : p \in Run(Regions[i][1], Regions[i][2]) <=>
                         Regions[i][1] <= p /\ p < Regions[i][1] + Regions[i][2]
  BY <1>2 DEF Run
<1> QED BY <1>3 DEF RegionsPages

LEMMA RegionsInPages ==
  ASSUME NEW k \in 0 .. Len(Regions)
  PROVE  RegionsPages(k) \subseteq Pages
<1>1. Len(Regions) \in Nat
  BY PmmAssumption, LenProperties
<1>2. \A i \in 1 .. k : Run(Regions[i][1], Regions[i][2]) \subseteq Pages
  <2> SUFFICES ASSUME NEW i \in 1 .. k PROVE Run(Regions[i][1], Regions[i][2]) \subseteq Pages
    OBVIOUS
  <2>1. i \in 1 .. Len(Regions)
    BY <1>1
  <2> DEFINE b == Regions[i][1]
             t == Regions[i][2]
  <2>2. b \in Pages /\ t \in Nat /\ b + t <= NPages /\ NPages \in Nat
    BY <2>1, RegionFacts, PmmAssumption
  <2> HIDE DEF b, t
  <2>3. Run(b, t) \subseteq Pages
    BY <2>2 DEF Run, Pages
  <2> QED BY <2>3 DEF b, t
<1> QED BY <1>2 DEF RegionsPages

\* The next region lies apart from those before it.
LEMMA NextRegion ==
  ASSUME NEW k \in 0 .. Len(Regions) - 1
  PROVE  LET b == Regions[k + 1][1]
             s == Regions[k + 1][2]
         IN  /\ b \in Pages /\ s \in Nat \ {0} /\ b + s <= NPages
             /\ \A p \in Int : p \in RegionsPages(k + 1) <=>
                                p \in RegionsPages(k) \/ (b <= p /\ p < b + s)
             /\ \A p \in Int : p \in RegionsPages(k) => p + 1 < b \/ b + s < p
<1> DEFINE b == Regions[k + 1][1]
           s == Regions[k + 1][2]
<1>1. /\ Len(Regions) \in Nat /\ k \in 0 .. Len(Regions) /\ k + 1 \in 0 .. Len(Regions)
      /\ k + 1 \in 1 .. Len(Regions)
  BY PmmAssumption, LenProperties
<1>2. b \in Pages /\ s \in Nat \ {0} /\ b + s <= NPages
  BY <1>1, RegionFacts
<1>3. \A i \in 1 .. k + 1 : i \in 1 .. k \/ i = k + 1
  BY <1>1
<1>4. \A i \in 1 .. k : i \in 1 .. k + 1 /\ i \in 1 .. Len(Regions) /\ i # k + 1
  BY <1>1
<1>5. ASSUME NEW p \in Int
      PROVE  p \in RegionsPages(k + 1) <=> p \in RegionsPages(k) \/ (b <= p /\ p < b + s)
  <2>1. p \in RegionsPages(k + 1) <=>
          \E i \in 1 .. k + 1 : Regions[i][1] <= p /\ p < Regions[i][1] + Regions[i][2]
    BY <1>1, RegionsPagesDef
  <2>2. p \in RegionsPages(k) <=>
          \E i \in 1 .. k : Regions[i][1] <= p /\ p < Regions[i][1] + Regions[i][2]
    BY <1>1, RegionsPagesDef
  <2>3. k + 1 \in 1 .. k + 1
    BY <1>1
  <2> QED BY <1>3, <1>4, <2>1, <2>2, <2>3
<1>6. ASSUME NEW p \in Int, p \in RegionsPages(k)
      PROVE  p + 1 < b \/ b + s < p
  <2>1. PICK i \in 1 .. k : Regions[i][1] <= p /\ p < Regions[i][1] + Regions[i][2]
    BY <1>1, <1>6, RegionsPagesDef
  <2>2. i \in 1 .. Len(Regions) /\ i # k + 1
    BY <1>4
  <2>3. Regions[i][1] \in Int /\ Regions[i][2] \in Int
    BY <2>2, RegionFacts DEF Pages
  <2>4. Regions[i][1] + Regions[i][2] < b \/ b + s < Regions[i][1]
    BY <1>1, <2>2, PmmAssumption
  <2>5. b \in Int /\ s \in Int
    BY <1>2 DEF Pages
  <2> DEFINE q == Regions[i][1]
             t == Regions[i][2]
  <2>6. q \in Int /\ t \in Int /\ q <= p /\ p < q + t /\ (q + t < b \/ b + s < q)
    BY <2>1, <2>3, <2>4
  <2> HIDE DEF q, t, b, s
  <2> QED BY <2>5, <2>6
<1> QED BY <1>2, <1>5, <1>6

-----------------------------------------------------------------------------
(***************************************************************************)
(* Counting pages.                                                         *)
(***************************************************************************)
Free == RegionsPages(booted) \ allocated

LEMMA RunCard ==
  ASSUME NEW b \in Int, NEW s \in Nat
  PROVE  IsFiniteSet(Run(b, s)) /\ Cardinality(Run(b, s)) = s
BY FS_Interval DEF Run

LEMMA Grow ==
  ASSUME NEW F, IsFiniteSet(F), NEW b \in Int, NEW s \in Nat, F \cap Run(b, s) = {}
  PROVE  IsFiniteSet(F \cup Run(b, s)) /\ Cardinality(F \cup Run(b, s)) = Cardinality(F) + s
<1>1. IsFiniteSet(Run(b, s)) /\ Cardinality(Run(b, s)) = s
  BY RunCard
<1>2. Cardinality(F) \in Nat
  BY FS_CardinalityType
<1>3. Cardinality(F \cap Run(b, s)) = 0
  BY FS_EmptySet
<1>4. /\ IsFiniteSet(F \cup Run(b, s))
      /\ Cardinality(F \cup Run(b, s)) =
           Cardinality(F) + Cardinality(Run(b, s)) - Cardinality(F \cap Run(b, s))
  BY <1>1, FS_Union
<1> QED BY <1>1, <1>2, <1>3, <1>4

LEMMA Shrink ==
  ASSUME NEW F, IsFiniteSet(F), NEW b \in Int, NEW s \in Nat, Run(b, s) \subseteq F
  PROVE  IsFiniteSet(F \ Run(b, s)) /\ Cardinality(F \ Run(b, s)) = Cardinality(F) - s
<1>1. F \cap Run(b, s) = Run(b, s)
  OBVIOUS
<1>2. Cardinality(Run(b, s)) = s
  BY RunCard
<1>3. /\ IsFiniteSet(F \ Run(b, s))
      /\ Cardinality(F \ Run(b, s)) = Cardinality(F) - Cardinality(F \cap Run(b, s))
  BY FS_Difference
<1> QED BY <1>1, <1>2, <1>3

\* What the invariant says of the pages and of the list, in the form the steps use.
LEMMA Facts ==
  ASSUME IInv
  PROVE  /\ NPages \in Nat /\ Pages \subseteq Int /\ Len(free_list) \in Nat
         /\ Heads(free_list) \subseteq Pages
         /\ Passed \subseteq Heads(free_list)
         /\ \A i \in 1 .. Len(free_list) : free_list[i] \in Heads(free_list)
         /\ \A p \in Pages : property[p] \in Int
         /\ RegionsPages(booted) \subseteq Pages
         /\ \A q \in Heads(free_list) : q \in RegionsPages(booted) /\ q \notin allocated
         /\ IsFiniteSet(Free) /\ Cardinality(Free) \in 0 .. NPages
         /\ Len(Regions) \in Nat
<1>1. NPages \in Nat /\ Pages \subseteq Int /\ Len(free_list) \in Nat /\ Len(Regions) \in Nat
  BY PmmAssumption, LenProperties DEF IInv, ListInv, Pages
<1>2. Heads(free_list) \subseteq Pages /\ \A i \in 1 .. Len(free_list) : free_list[i] \in Heads(free_list)
  BY ElementOfSeq DEF IInv, ListInv, Heads
<1>3. Passed \subseteq Heads(free_list)
  BY <1>1 DEF IInv, ListInv, Passed, Heads
<1>4. \A p \in Pages : property[p] \in Int
  BY <1>1 DEF IInv, VarInv
<1>5. RegionsPages(booted) \subseteq Pages
  BY RegionsInPages DEF IInv, VarInv
<1>6. ASSUME NEW q \in Heads(free_list)
      PROVE  q \in RegionsPages(booted) /\ q \notin allocated
  <2>1. q \in Pages /\ q \in Int /\ property[q] \in Int /\ property[q] >= 1
    BY <1>1, <1>2, <1>4 DEF IInv, BlockInv
  <2>2. In(q, q)
    BY <2>1 DEF In
  <2> QED BY <2>1, <2>2 DEF IInv, CoverInv
<1>7. IsFiniteSet(Free) /\ Cardinality(Free) \in 0 .. NPages
  <2>1. IsFiniteSet(Pages) /\ Cardinality(Pages) = NPages
    <3>1. Pages = Run(0, NPages)
      BY <1>1 DEF Pages, Run
    <3> QED BY <1>1, <3>1, RunCard
  <2>2. Free \in SUBSET Pages
    BY <1>5 DEF Free
  <2>3. IsFiniteSet(Free) /\ Cardinality(Free) <= NPages
    BY <2>1, <2>2, FS_Subset
  <2> QED BY <1>1, <2>3, FS_CardinalityType
<1> QED BY <1>1, <1>2, <1>3, <1>4, <1>5, <1>6, <1>7

LEMMA InitIInv == Init => IInv
<1> SUFFICES ASSUME Init PROVE IInv
  OBVIOUS
<1>1. free_list \in Seq(Pages) /\ Len(free_list) = 0 /\ Heads(free_list) = {}
  BY EmptySeq DEF Init, Heads
<1>2. NPages \in Nat /\ Len(Regions) \in Nat
  BY PmmAssumption, LenProperties
<1>3. RegionsPages(booted) = {} /\ allocated = {} /\ pc = "ready"
  BY DEF Init, RegionsPages
<1>4. ListInv
  BY <1>1 DEF Init, ListInv, Distinct
<1>5. VarInv
  <2>1. 0 \in Pages
    BY PmmAssumption DEF Pages
  <2> QED BY <1>2, <1>3, <2>1 DEF Init, VarInv
<1>6. NrFreeExact
  <2>1. RegionsPages(booted) \ allocated = {} /\ nr_free = 0 /\ pc # "merge"
    BY <1>3 DEF Init
  <2> QED BY <2>1, FS_EmptySet DEF NrFreeExact
<1>7. BlockInv /\ ApartInv /\ BaseInv /\ CoverInv /\ FlagInv /\ BootInv
  BY <1>1, <1>3 DEF Init, BlockInv, ApartInv, BaseInv, CoverInv, FlagInv, BootInv
<1> QED BY <1>4, <1>5, <1>6, <1>7 DEF IInv

-----------------------------------------------------------------------------
(***************************************************************************)
(* One lemma per action.                                                   *)
(***************************************************************************)
LEMMA BootIInv == IInv /\ default_init_memmap => IInv'
<1> SUFFICES ASSUME IInv, default_init_memmap PROVE IInv'
  OBVIOUS
<1> DEFINE b == Regions[booted + 1][1]
           s == Regions[booted + 1][2]
           H == Heads(free_list)
<1>1. /\ pc = "ready" /\ pc' = pc /\ allocated = {} /\ allocated' = {} /\ le = 1 /\ le' = 1
      /\ booted' = booted + 1 /\ booted \in 0 .. Len(Regions) - 1
      /\ base' = base /\ n' = n /\ result' = result
      /\ nr_free' = nr_free + s /\ free_list' = ListAdd(b, free_list)
      /\ booted \in 0 .. Len(Regions) /\ booted' \in 0 .. Len(Regions)
  <2>1. /\ pc = "ready" /\ booted < Len(Regions) /\ booted' = booted + 1
        /\ nr_free' = nr_free + s /\ free_list' = ListAdd(b, free_list)
        /\ UNCHANGED <<pc, le, base, n, allocated, result>>
    BY DEF default_init_memmap
  <2>2. Len(Regions) \in Nat /\ booted \in 0 .. Len(Regions) /\ allocated = {} /\ le = 1
    BY <2>1, Facts DEF IInv, BootInv, ListInv, VarInv
  <2> HIDE DEF b, s, H
  <2> QED BY <2>1, <2>2
<1>2. /\ b \in Pages /\ b \in Int /\ s \in Nat \ {0} /\ b + s <= NPages
      /\ \A p \in Int : p \in RegionsPages(booted') <=>
                         p \in RegionsPages(booted) \/ (b <= p /\ p < b + s)
      /\ \A p \in Int : p \in RegionsPages(booted) => p + 1 < b \/ b + s < p
  BY <1>1, NextRegion, Facts
<1>3. ASSUME NEW q \in H
      PROVE  /\ q \in Int /\ q \in Pages /\ property[q] \in Int /\ property[q] >= 1
             /\ q + property[q] < b \/ b + s < q
  <2>1. q \in Int /\ q \in Pages /\ property[q] \in Int /\ property[q] >= 1 /\ q + property[q] <= NPages
    BY Facts DEF IInv, BlockInv
  <2>2. \A p \in Pages : q <= p /\ p < q + property[q] => p \in RegionsPages(booted)
    BY DEF IInv, CoverInv, In
  <2>3. q + 1 < b \/ b + s < q
    BY <1>2, <2>1, Facts
  <2>4. CASE q + 1 < b
    <3>1. b - 1 \in Pages /\ b - 1 \in Int
      <4>1. b \in 0 .. NPages - 1 /\ q \in 0 .. NPages - 1 /\ NPages \in Nat
        BY <1>2, <2>1, Facts DEF Pages
      <4> QED BY <2>4, <4>1 DEF Pages
    <3>2. ~ (b - 1 < q + property[q])
      BY <1>2, <2>1, <2>2, <2>4, <3>1
    <3> QED BY <1>2, <2>1, <3>2
  <2> QED BY <2>1, <2>3, <2>4
<1>4. b \notin H
  BY <1>2, <1>3
<1>5. free_list' \in Seq(Pages) /\ Len(free_list') = Len(free_list) + 1
      /\ Distinct(free_list') /\ Heads(free_list') = H \cup {b}
  BY <1>1, <1>2, <1>4, AddHeads DEF IInv, ListInv
<1>6. property' \in [Pages -> 0 .. NPages] /\ property'[b] = s /\ \A q \in H : property'[q] = property[q]
  <2>1. property' = [p \in Pages |-> IF p = b THEN s ELSE IF p \in Run(b, s) THEN 0 ELSE property[p]]
    BY DEF default_init_memmap
  <2>2. s \in 0 .. NPages /\ 0 \in 0 .. NPages
    BY <1>2, Facts DEF Pages
  <2>3. \A q \in H : q \in Pages /\ q \notin Run(b, s) /\ q # b
    BY <1>2, <1>3, <1>4 DEF Run
  <2> QED BY <1>2, <2>1, <2>2, <2>3 DEF IInv, VarInv
<1>7. PG_property' \in [Pages -> BOOLEAN] /\ \A p \in Pages : PG_property'[p] => p = b \/ PG_property[p]
  BY DEF default_init_memmap, IInv, VarInv
<1>8. ListInv'
  BY <1>1, <1>5, Facts DEF ListInv
<1>9. NrFreeExact' /\ nr_free' \in 0 .. NPages
  <2>1. \A p \in Run(b, s) : p \in Int /\ b <= p /\ p < b + s
    BY <1>2 DEF Run
  <2>2. \A p \in Int : b <= p /\ p < b + s => p \in Run(b, s)
    BY <1>2 DEF Run
  <2>3. RegionsPages(booted) \subseteq Int /\ RegionsPages(booted') \subseteq Int
    BY <1>1, RegionsInPages, Facts
  <2>4. RegionsPages(booted') = RegionsPages(booted) \cup Run(b, s)
    BY <1>2, <2>1, <2>2, <2>3
  <2>5. RegionsPages(booted) \cap Run(b, s) = {}
    BY <1>2, <2>1
  <2>6. Free = RegionsPages(booted) /\ Free' = RegionsPages(booted')
    BY <1>1 DEF Free
  <2>7. IsFiniteSet(Free) /\ Cardinality(Free) \in 0 .. NPages /\ NPages \in Nat
    BY Facts
  <2>8. Cardinality(Free') = Cardinality(Free) + s
    BY <1>2, <2>4, <2>5, <2>6, <2>7, Grow
  <2>9. nr_free = Cardinality(Free)
    BY <1>1, <2>7 DEF IInv, NrFreeExact, Free
  <2>10. Cardinality(Free') <= NPages /\ Cardinality(Free') \in Nat
    <3>1. Free' \in SUBSET Pages
      BY <1>1, <2>6, RegionsInPages
    <3>2. Pages = Run(0, NPages)
      BY <2>7 DEF Pages, Run
    <3>3. IsFiniteSet(Pages) /\ Cardinality(Pages) = NPages
      BY <2>7, <3>2, RunCard
    <3> QED BY <3>1, <3>3, FS_Subset, FS_CardinalityType
  <2> QED BY <1>1, <1>2, <2>7, <2>8, <2>9, <2>10 DEF NrFreeExact, Free
<1>10. VarInv'
  BY <1>1, <1>6, <1>7, <1>9 DEF IInv, VarInv
<1>11. BlockInv'
  BY <1>2, <1>3, <1>5, <1>6 DEF IInv, BlockInv
<1>12. ApartInv'
  <2> SUFFICES ASSUME NEW q \in H \cup {b}, NEW r \in H \cup {b}, q # r
               PROVE  \/ property'[q] + q < r
                      \/ property'[r] + r < q
    BY <1>5 DEF ApartInv, Apart
  <2>1. CASE q \in H /\ r \in H
    BY <1>6, <2>1 DEF IInv, ApartInv, Apart
  <2>2. CASE q = b
    BY <1>2, <1>3, <1>6, <2>2
  <2>3. CASE r = b
    BY <1>2, <1>3, <1>6, <2>3
  <2> QED BY <2>1, <2>2, <2>3
<1>13. CoverInv'
  <2> SUFFICES ASSUME NEW p \in Pages
               PROVE  (\E q \in H \cup {b} : q <= p /\ p < q + property'[q]) <=> p \in RegionsPages(booted')
    BY <1>1, <1>5 DEF CoverInv, In
  <2>1. (\E q \in H : q <= p /\ p < q + property[q]) <=> p \in RegionsPages(booted)
    BY <1>1 DEF IInv, CoverInv, In
  <2>2. p \in RegionsPages(booted') <=> p \in RegionsPages(booted) \/ (b <= p /\ p < b + s)
    BY <1>2, Facts
  <2> QED BY <1>6, <2>1, <2>2
<1>14. FlagInv'
  BY <1>1, <1>5, <1>7 DEF IInv, FlagInv
<1>15. BaseInv' /\ BootInv'
  BY <1>1 DEF BaseInv, BootInv
<1> QED BY <1>8, <1>9, <1>10, <1>11, <1>12, <1>13, <1>14, <1>15 DEF IInv

\* The block found keeps all its pages in use or in the list.
LEMMA GrantedIInv ==
  ASSUME IInv, NEW size \in Requests, AllocGranted(size)
  PROVE  /\ IInv'
         /\ PA!Granted(size)
<1> DEFINE H == Heads(free_list)
<1>1. PICK i \in Fitting(size) :
        LET page == free_list[i]
            rest == property[page] - size
        IN  /\ IF rest > 0
               THEN /\ property' = [property EXCEPT ![page + size] = rest]
                    /\ free_list' = ListAdd(page + size, ListDel(free_list, i))
               ELSE /\ free_list' = ListDel(free_list, i)
                    /\ UNCHANGED property
            /\ PG_property' = [PG_property EXCEPT ![page] = FALSE]
            /\ allocated' = allocated \cup Run(page, size)
            /\ result' = [asked |-> size, page |-> page]
  BY DEF AllocGranted
<1> DEFINE page == free_list[i]
           c == property[page]
           l == ListDel(free_list, i)
<1>2. /\ pc = "ready" /\ pc' = pc /\ le = 1 /\ le' = 1
      /\ booted = Len(Regions) /\ booted' = booted
      /\ base' = base /\ n' = n
      /\ size <= nr_free /\ nr_free' = nr_free - size
      /\ size \in Nat /\ size >= 1
  BY PmmAssumption DEF AllocGranted, IInv, ListInv
<1>3. /\ i \in 1 .. Len(free_list) /\ page \in H /\ page \in Pages /\ page \in Int
      /\ c \in Int /\ c >= size /\ page + c <= NPages /\ NPages \in Nat
      /\ H \subseteq Pages /\ H \subseteq Int
      /\ page = free_list[i] /\ c = property[page]
  BY Facts DEF Fitting, IInv, BlockInv
<1>a. /\ IF c - size > 0
         THEN /\ property' = [property EXCEPT ![page + size] = c - size]
              /\ free_list' = ListAdd(page + size, l)
         ELSE /\ free_list' = l
              /\ UNCHANGED property
      /\ PG_property' = [PG_property EXCEPT ![page] = FALSE]
      /\ allocated' = allocated \cup Run(page, size)
      /\ result' = [asked |-> size, page |-> page]
  BY <1>1
<1>4. /\ l \in Seq(Pages) /\ Len(l) = Len(free_list) - 1 /\ Distinct(l) /\ Heads(l) = H \ {page}
  BY <1>3, DelHeads DEF IInv, ListInv
<1> HIDE DEF page, c, l
<1>b. /\ page \in Int /\ c \in Int /\ size \in Int /\ NPages \in Int
      /\ size >= 1 /\ c >= size /\ page + c <= NPages
  BY <1>2, <1>3
<1>5. ASSUME NEW q \in H, q # page
      PROVE  /\ q \in Int /\ q \in Pages /\ property[q] \in Int /\ property[q] >= 1
             /\ page + c < q \/ q + property[q] < page
  <2>1. q \in Pages /\ q \in Int /\ property[q] \in Int
    BY <1>3, Facts
  <2>2. property[q] >= 1
    BY DEF IInv, BlockInv
  <2>3. property[q] + q < page \/ property[page] + page < q
    BY <1>3, <1>5 DEF IInv, ApartInv, Apart
  <2> QED BY <1>3, <2>1, <2>2, <2>3
<1>6. ASSUME NEW p \in Pages
      PROVE  /\ p \in Int
             /\ (\E q \in H : q <= p /\ p < q + property[q]) <=>
                  p \in RegionsPages(booted) /\ p \notin allocated
             /\ p \in Run(page, size) <=> page <= p /\ p < page + size
  <2>1. p \in Int
    BY Facts
  <2>2. p \in Run(page, size) <=> page <= p /\ p < page + size
    BY <1>2, <1>3, <2>1 DEF Run
  <2> QED BY <1>2, <2>1, <2>2 DEF IInv, CoverInv, In
<1>7. Run(page, size) \subseteq Free
  <2> SUFFICES ASSUME NEW p \in Run(page, size) PROVE p \in Free
    OBVIOUS
  <2>1. p \in Int /\ page <= p /\ p < page + size
    BY <1>2, <1>3 DEF Run
  <2>2. p \in Pages
    BY <1>2, <1>3, <2>1 DEF Pages
  <2>3. page <= p /\ p < page + property[page]
    BY <1>2, <1>3, <2>1
  <2> QED BY <1>3, <1>6, <2>2, <2>3 DEF Free
<1>8. Free' = Free \ Run(page, size)
  BY <1>a, <1>2 DEF Free
<1>9. /\ NrFreeExact' /\ nr_free' \in 0 .. NPages
  <2>1. IsFiniteSet(Free) /\ Cardinality(Free) \in 0 .. NPages
    BY Facts
  <2>2. Cardinality(Free') = Cardinality(Free) - size
    BY <1>2, <1>3, <1>7, <1>8, <2>1, Shrink
  <2>3. nr_free = Cardinality(Free)
    BY <1>2, <2>1 DEF IInv, NrFreeExact, Free
  <2> QED BY <1>2, <1>3, <2>1, <2>2, <2>3 DEF NrFreeExact, Free
<1>10. PG_property' \in [Pages -> BOOLEAN] /\ ~ PG_property'[page]
       /\ \A p \in Pages : PG_property'[p] => PG_property[p]
  BY <1>a, <1>3 DEF IInv, VarInv
<1>11. allocated' \subseteq RegionsPages(booted')
  BY <1>a, <1>2, <1>7 DEF IInv, VarInv, Free
<1>12. result' \in [asked : {0} \cup Requests, page : Pages \cup {NULL}]
  BY <1>a, <1>3
<1>13. PA!Granted(size)
  BY <1>a, <1>3, <1>7, <1>8 DEF PA!Granted, Free, Run, PA!Run
<1>14. CASE c - size > 0
  <2> DEFINE x == page + size
             rest == c - size
  <2>0. x = page + size /\ rest = c - size
    OBVIOUS
  <2>1. /\ property' = [property EXCEPT ![x] = rest] /\ free_list' = ListAdd(x, l)
    BY <1>a, <1>14
  <2>2. x \in Pages /\ x \in Int /\ rest \in 0 .. NPages /\ rest >= 1
    <3>1. page \in 0 .. NPages - 1
      BY <1>3 DEF Pages
    <3>2. x \in Int /\ rest \in Int /\ rest >= 1 /\ x <= NPages - 1 /\ x >= 0 /\ rest <= NPages
      <4>1. size \in Int /\ size >= 1
        BY <1>2
      <4>2. page \in Int /\ c \in Int /\ page + c <= NPages /\ NPages \in Int
        BY <1>3
      <4>3. c - size > 0 /\ page >= 0
        BY <1>14, <3>1, <4>2
      <4> QED BY <4>1, <4>2, <4>3
    <3> QED BY <1>3, <3>2 DEF Pages
  <2> HIDE DEF x, rest
  <2>3. x \notin H
    <3> SUFFICES ASSUME x \in H PROVE FALSE
      OBVIOUS
    <3>1. x # page
      BY <1>b, <2>0
    <3>2. page + c < x \/ x + property[x] < page
      BY <1>5, <3>1
    <3>3. property[x] \in Int /\ property[x] >= 1
      BY <1>5, <3>1
    <3> QED BY <1>b, <1>14, <2>0, <3>2, <3>3
  <2>4. /\ free_list' \in Seq(Pages) /\ Distinct(free_list')
        /\ Heads(free_list') = (H \ {page}) \cup {x}
        /\ Len(free_list') = Len(free_list)
    <3>1. x \notin Heads(l)
      BY <1>4, <2>3
    <3> QED BY <1>4, <2>1, <2>2, <3>1, AddHeads, Facts
  <2>5. /\ property' \in [Pages -> 0 .. NPages] /\ property'[x] = rest
        /\ \A q \in H : property'[q] = property[q]
    BY <1>3, <2>1, <2>2, <2>3 DEF IInv, VarInv
  <2>6. ListInv'
    BY <1>2, <2>4, Facts DEF ListInv
  <2>7. VarInv'
    BY <1>2, <1>9, <1>10, <1>11, <1>12, <2>5 DEF IInv, VarInv
  <2>8. BlockInv'
    <3>1. x + property'[x] <= NPages /\ property'[x] >= 1
      BY <1>b, <2>0, <2>2, <2>5
    <3>2. \A q \in H : property'[q] >= 1 /\ q + property'[q] <= NPages
      BY <2>5 DEF IInv, BlockInv
    <3> QED BY <1>2, <2>4, <3>1, <3>2 DEF BlockInv
  <2>9. ApartInv'
    <3> SUFFICES ASSUME NEW q \in (H \ {page}) \cup {x}, NEW r \in (H \ {page}) \cup {x}, q # r
                 PROVE  property'[q] + q < r \/ property'[r] + r < q
      BY <2>4 DEF ApartInv, Apart
    <3>0. ASSUME NEW h \in H, h # page
          PROVE  x + rest < h \/ property[h] + h < x
      <4>1. h \in Int /\ property[h] \in Int /\ (page + c < h \/ h + property[h] < page)
        BY <1>5, <3>0
      <4> QED BY <1>b, <2>0, <4>1
    <3>1. CASE q \in H /\ r \in H
      BY <2>5, <3>1 DEF IInv, ApartInv, Apart
    <3>2. CASE q = x
      <4>1. property'[x] + x < r \/ property'[r] + r < x
        BY <2>2, <2>5, <3>0, <3>2
      <4> QED BY <3>2, <4>1
    <3>3. CASE r = x
      <4>1. property'[x] + x < q \/ property'[q] + q < x
        BY <2>2, <2>5, <3>0, <3>3
      <4> QED BY <3>3, <4>1
    <3> QED BY <3>1, <3>2, <3>3
  <2>10. CoverInv'
    <3> SUFFICES ASSUME NEW p \in Pages
                 PROVE  (\E q \in (H \ {page}) \cup {x} : q <= p /\ p < q + property'[q])
                          <=> p \in RegionsPages(booted) /\ p \notin allocated'
      BY <1>2, <2>4 DEF CoverInv, In
    <3>1. p \in allocated' <=> p \in allocated \/ (page <= p /\ p < page + size)
      BY <1>a, <1>6
    <3>2. (\E q \in (H \ {page}) \cup {x} : q <= p /\ p < q + property'[q]) <=>
            \/ \E q \in H \ {page} : q <= p /\ p < q + property[q]
            \/ page + size <= p /\ p < page + c
      <4>1. \A q \in H : property'[q] = property[q]
        BY <2>5
      <4>2. x + property'[x] = page + c
        BY <1>b, <2>0, <2>5
      <4> QED BY <2>0, <4>1, <4>2
    <3>3. (page <= p /\ p < page + size) => ~ \E q \in H \ {page} : q <= p /\ p < q + property[q]
      <4> SUFFICES ASSUME page <= p, p < page + size, NEW q \in H \ {page}, q <= p, p < q + property[q]
                   PROVE  FALSE
        OBVIOUS
      <4>1. q \in Int /\ property[q] \in Int /\ (page + c < q \/ q + property[q] < page)
        BY <1>5
      <4>2. p \in Int
        BY <1>6
      <4> QED BY <1>b, <4>1, <4>2
    <3>4. (\E q \in H : q <= p /\ p < q + property[q]) <=>
            \/ \E q \in H \ {page} : q <= p /\ p < q + property[q]
            \/ page <= p /\ p < page + c
      BY <1>3
    <3>5. page <= p /\ p < page + c <=>
            (page <= p /\ p < page + size) \/ (page + size <= p /\ p < page + c)
      BY <1>b, <1>6
    <3>6. ~ ((page <= p /\ p < page + size) /\ (page + size <= p /\ p < page + c))
      BY <1>b, <1>6
    <3>7. (\E q \in H : q <= p /\ p < q + property[q]) <=>
            p \in RegionsPages(booted) /\ p \notin allocated
      BY <1>6
    <3> DEFINE Others == \E q \in H \ {page} : q <= p /\ p < q + property[q]
               Given == page <= p /\ p < page + size
               Kept == page + size <= p /\ p < page + c
               Now == \E q \in (H \ {page}) \cup {x} : q <= p /\ p < q + property'[q]
    <3>8. /\ Now <=> Others \/ Kept
          /\ Given => ~ Others
          /\ Others \/ Given \/ Kept <=> p \in RegionsPages(booted) /\ p \notin allocated
          /\ ~ (Given /\ Kept)
          /\ p \in allocated' <=> p \in allocated \/ Given
      BY <3>1, <3>2, <3>3, <3>4, <3>5, <3>6, <3>7
    <3> HIDE DEF Others, Given, Kept, Now
    <3>9. Now <=> p \in RegionsPages(booted) /\ p \notin allocated'
      BY <3>8
    <3> QED BY <3>9 DEF Now
  <2>11. FlagInv'
    BY <1>2, <1>10, <2>4 DEF IInv, FlagInv
  <2> QED BY <1>2, <1>9, <1>13, <2>6, <2>7, <2>8, <2>9, <2>10, <2>11 DEF IInv, BaseInv, BootInv
<1>15. CASE c = size
  <2>1. property' = property /\ free_list' = l
    BY <1>a, <1>2, <1>3, <1>15
  <2>2. ListInv'
    BY <1>2, <1>3, <1>4, <2>1, Facts DEF ListInv
  <2>3. VarInv'
    BY <1>2, <1>9, <1>10, <1>11, <1>12, <2>1 DEF IInv, VarInv
  <2>4. BlockInv' /\ ApartInv'
    BY <1>4, <2>1 DEF IInv, BlockInv, ApartInv, Apart
  <2>5. CoverInv'
    <3> SUFFICES ASSUME NEW p \in Pages
                 PROVE  (\E q \in H \ {page} : q <= p /\ p < q + property[q])
                          <=> p \in RegionsPages(booted) /\ p \notin allocated'
      BY <1>2, <1>4, <2>1 DEF CoverInv, In
    <3>1. p \in allocated' <=> p \in allocated \/ (page <= p /\ p < page + size)
      BY <1>a, <1>6
    <3>2. (page <= p /\ p < page + size) => ~ \E q \in H \ {page} : q <= p /\ p < q + property[q]
      <4> SUFFICES ASSUME page <= p, p < page + size,
                          NEW q \in H \ {page}, q <= p, p < q + property[q]
                   PROVE  FALSE
        OBVIOUS
      <4>1. p \in Int /\ q \in Int /\ property[q] \in Int
        BY <1>5, <1>6
      <4>2. page + c < q \/ q + property[q] < page
        BY <1>5
      <4> QED BY <1>b, <1>15, <4>1, <4>2
    <3> DEFINE Others == \E q \in H \ {page} : q <= p /\ p < q + property[q]
               Given == page <= p /\ p < page + size
    <3>3. (\E q \in H : q <= p /\ p < q + property[q]) <=>
            p \in RegionsPages(booted) /\ p \notin allocated
      BY <1>6
    <3>4. (\E q \in H : q <= p /\ p < q + property[q]) <=> Others \/ Given
      BY <1>2, <1>3, <1>15
    <3> HIDE DEF Others, Given
    <3>5. /\ Others \/ Given <=> p \in RegionsPages(booted) /\ p \notin allocated
          /\ Given => ~ Others
          /\ p \in allocated' <=> p \in allocated \/ Given
      BY <3>1, <3>2, <3>3, <3>4 DEF Others, Given
    <3>6. Others <=> p \in RegionsPages(booted) /\ p \notin allocated'
      BY <3>5
    <3> QED BY <3>6 DEF Others
  <2>6. FlagInv'
    BY <1>2, <1>4, <1>10, <2>1 DEF IInv, FlagInv
  <2> QED BY <1>2, <1>9, <1>13, <2>2, <2>3, <2>4, <2>5, <2>6 DEF IInv, BaseInv, BootInv
<1> QED BY <1>2, <1>3, <1>14, <1>15

\* A caller gives back pages it holds: they are in no block of the list.
LEMMA EnterIInv ==
  ASSUME IInv, NEW b \in allocated, NEW size \in Requests, FreeEnter(b, size)
  PROVE  /\ IInv'
         /\ PA!GiveBack(b, size) /\ size \in 1 .. NPages /\ b \in Pages
<1> DEFINE H == Heads(free_list)
<1>1. /\ pc = "ready" /\ booted = Len(Regions) /\ booted' = booted /\ le = 1 /\ le' = 1
      /\ Run(b, size) \subseteq allocated /\ allocated' = allocated \ Run(b, size)
      /\ property' = [property EXCEPT ![b] = size]
      /\ PG_property' = [p \in Pages |-> IF p = b THEN TRUE ELSE PG_property[p] /\ p \notin Run(b, size)]
      /\ pc' = IF \E p \in Run(b, size) : PG_property[p] THEN "panic" ELSE "merge"
      /\ base' = b /\ n' = size /\ free_list' = free_list /\ nr_free' = nr_free
      /\ result' = result
  BY DEF FreeEnter, IInv, ListInv
<1>2. allocated \subseteq Pages /\ allocated \subseteq RegionsPages(booted)
  BY Facts DEF IInv, VarInv
<1>3. b \in Pages /\ b \in Int /\ size \in Int /\ size >= 1 /\ NPages \in Int
  BY <1>2, PmmAssumption, Facts
<1>4. b + size <= NPages /\ size \in 1 .. NPages
  <2>1. b + size - 1 \in Run(b, size)
    BY <1>3 DEF Run
  <2>2. b + size - 1 \in 0 .. NPages - 1
    BY <1>1, <1>2, <2>1 DEF Pages
  <2>3. b >= 0
    BY <1>3 DEF Pages
  <2> QED BY <1>3, <2>2, <2>3
<1>5. ASSUME NEW p \in Run(b, size)
      PROVE  p \in allocated /\ p \in Pages /\ p \notin H /\ ~ PG_property[p]
  <2>1. p \in allocated /\ p \in Pages
    BY <1>1, <1>2
  <2>2. p \notin H
    BY <2>1, Facts
  <2> QED BY <1>1, <2>1, <2>2 DEF IInv, FlagInv
<1>6. pc' = "merge"
  BY <1>1, <1>5
<1>7. b \notin H /\ \A p \in Int : p \in Run(b, size) <=> b <= p /\ p < b + size
  BY <1>3, Facts DEF Run
<1>8. /\ property' \in [Pages -> 0 .. NPages] /\ property'[b] = size
      /\ \A q \in H : property'[q] = property[q]
  <2>1. size \in 0 .. NPages /\ H \subseteq Pages
    BY <1>4, Facts
  <2> QED BY <1>1, <1>3, <1>7, <2>1 DEF IInv, VarInv
<1>9. ListInv'
  BY <1>1, <1>6 DEF IInv, ListInv
<1>10. Free' = Free \cup Run(b, size) /\ Free \cap Run(b, size) = {}
  BY <1>1, <1>2 DEF Free
<1>11. NrFreeExact'
  <2>1. IsFiniteSet(Free) /\ Cardinality(Free) \in Int
    BY Facts
  <2>2. Cardinality(Free') = Cardinality(Free) + size
    BY <1>3, <1>10, <2>1, Grow
  <2>3. nr_free = Cardinality(Free)
    BY <1>1, <2>1 DEF IInv, NrFreeExact, Free
  <2> QED BY <1>1, <1>3, <1>6, <2>1, <2>2, <2>3 DEF NrFreeExact, Free
<1>12. VarInv'
  BY <1>1, <1>3, <1>4, <1>6, <1>8 DEF IInv, VarInv
<1>13. BlockInv' /\ ApartInv'
  BY <1>1, <1>8 DEF IInv, BlockInv, ApartInv, Apart
<1>14. BaseInv'
  <2>1. ASSUME NEW q \in H
        PROVE  b + size <= q \/ q + property'[q] <= b
    <3>1. q \in Int /\ property[q] \in Int
      BY Facts
    <3>2. ~ (b <= q /\ q < b + size)
      BY <1>5, <1>7, <3>1
    <3>3. ~ (q <= b /\ b < q + property[q])
      BY <1>3 DEF IInv, CoverInv, In
    <3> QED BY <1>3, <1>8, <3>1, <3>2, <3>3
  <2>2. Passed' = {}
    BY <1>1 DEF Passed
  <2> QED BY <1>1, <1>3, <1>4, <1>8, <2>1, <2>2 DEF BaseInv
<1>15. CoverInv'
  <2> SUFFICES ASSUME NEW p \in Pages
               PROVE  (\E q \in H : q <= p /\ p < q + property'[q]) \/ (b <= p /\ p < b + property'[b])
                        <=> p \in RegionsPages(booted) /\ p \notin allocated'
    BY <1>1, <1>6 DEF CoverInv, In
  <2>1. (\E q \in H : q <= p /\ p < q + property[q]) <=> p \in RegionsPages(booted) /\ p \notin allocated
    BY <1>1 DEF IInv, CoverInv, In
  <2>2. p \in Run(b, size) <=> b <= p /\ p < b + size
    BY <1>7, Facts
  <2> QED BY <1>1, <1>2, <1>8, <2>1, <2>2
<1>16. FlagInv'
  BY <1>1, <1>6 DEF IInv, FlagInv
<1>17. BootInv'
  BY <1>1, Facts DEF BootInv
<1>18. PA!GiveBack(b, size)
  <2>1. Run(b, size) \subseteq Pages \ Free
    BY <1>5, <1>10
  <2> QED BY <1>1, <1>10, <2>1 DEF PA!GiveBack, PA!Run, Run, Free
<1> QED BY <1>3, <1>4, <1>9, <1>11, <1>12, <1>13, <1>14, <1>15, <1>16, <1>17, <1>18 DEF IInv

\* What the two merging steps have in common: the block at le leaves the list.
LEMMA AtFacts ==
  ASSUME IInv, pc = "merge", le <= Len(free_list)
  PROVE  LET H == Heads(free_list) IN
         /\ le \in 1 .. Len(free_list)
         /\ At \in H /\ At \in Pages /\ At \in Int /\ property[At] \in Int
         /\ property[At] >= 1 /\ At + property[At] <= NPages
         /\ base \in Pages /\ base \in Int /\ property[base] \in Int
         /\ property[base] >= 1 /\ base + property[base] <= NPages
         /\ NPages \in Int /\ base >= 0 /\ At >= 0
         /\ base \notin H
         /\ \A q \in H : /\ q \in Pages /\ q \in Int /\ property[q] \in Int /\ property[q] >= 1
                         /\ base + property[base] <= q \/ q + property[q] <= base
                         /\ q # At => At + property[At] < q \/ q + property[q] < At
         /\ ListDel(free_list, le) \in Seq(Pages)
         /\ Distinct(ListDel(free_list, le))
         /\ Len(ListDel(free_list, le)) = Len(free_list) - 1
         /\ Heads(ListDel(free_list, le)) = H \ {At}
         /\ {ListDel(free_list, le)[i] : i \in 1 .. le - 1} = Passed
         /\ Passed \subseteq H \ {At}
<1> DEFINE H == Heads(free_list)
<1>1. le \in 1 .. Len(free_list) /\ Len(free_list) \in Nat /\ NPages \in Int
  BY Facts DEF IInv, ListInv
<1>2. At \in H /\ H \subseteq Pages /\ H \subseteq Int /\ base \in Pages
  BY <1>1, Facts DEF At, IInv, VarInv
<1>3. \A q \in H : /\ q \in Pages /\ q \in Int /\ property[q] \in Int /\ property[q] >= 1
                  /\ q + property[q] <= NPages
  BY <1>2, Facts DEF IInv, BlockInv
<1>4. base \in Int /\ property[base] \in Int /\ property[base] >= 1 /\ base + property[base] <= NPages
  BY <1>2, Facts DEF IInv, BaseInv
<1>5. \A q \in H : base + property[base] <= q \/ q + property[q] <= base
  BY DEF IInv, BaseInv
<1>6. \A q \in H : q # At => At + property[At] < q \/ q + property[q] < At
  <2> SUFFICES ASSUME NEW q \in H, q # At PROVE At + property[At] < q \/ q + property[q] < At
    OBVIOUS
  <2>1. property[At] + At < q \/ property[q] + q < At
    BY <1>2 DEF IInv, ApartInv, Apart
  <2> QED BY <1>2, <1>3, <2>1
<1>7. base \notin H
  BY <1>4, <1>5
<1>8. /\ ListDel(free_list, le) \in Seq(Pages)
      /\ Distinct(ListDel(free_list, le))
      /\ Len(ListDel(free_list, le)) = Len(free_list) - 1
      /\ Heads(ListDel(free_list, le)) = H \ {At}
      /\ \A i \in 1 .. le - 1 : ListDel(free_list, le)[i] = free_list[i]
  BY <1>1, DelHeads DEF At, IInv, ListInv
<1>9. {ListDel(free_list, le)[i] : i \in 1 .. le - 1} = Passed
  BY <1>8 DEF Passed
<1>10. Passed \subseteq H \ {At}
  <2> SUFFICES ASSUME NEW i \in 1 .. le - 1 PROVE free_list[i] \in H \ {At}
    BY DEF Passed
  <2>1. i \in 1 .. Len(free_list) /\ i # le
    BY <1>1
  <2> QED BY <1>1, <2>1, Facts DEF IInv, ListInv, Distinct, At
<1>11. base >= 0 /\ At >= 0
  BY <1>2 DEF Pages
<1> QED BY <1>1, <1>2, <1>3, <1>4, <1>5, <1>6, <1>7, <1>8, <1>9, <1>10, <1>11

\* Two touching blocks become one with the lower head lo; hi loses its flag.
LEMMA MergeIInv ==
  ASSUME IInv, pc = "merge", le <= Len(free_list), NEW lo, NEW hi,
         \/ lo = base /\ hi = At /\ base + property[base] = At
         \/ lo = At /\ hi = base /\ At + property[At] = base,
         property' = [property EXCEPT ![lo] = property[base] + property[At]],
         PG_property' = [PG_property EXCEPT ![hi] = FALSE],
         free_list' = ListDel(free_list, le), base' = lo,
         UNCHANGED <<nr_free, allocated, booted, pc, n, le, result>>
  PROVE  IInv'
<1> DEFINE H == Heads(free_list)
           a == property[base]
           c == property[At]
<1>1. /\ le \in 1 .. Len(free_list) /\ Len(free_list) \in Nat
      /\ At \in H /\ At \in Pages /\ base \in Pages /\ base \notin H
      /\ free_list' \in Seq(Pages) /\ Distinct(free_list')
      /\ Len(free_list') = Len(free_list) - 1
      /\ Heads(free_list') = H \ {At}
      /\ Passed' = Passed /\ Passed \subseteq H \ {At}
  BY AtFacts, Facts DEF Passed
<1>2. /\ At \in Int /\ c \in Int /\ c >= 1 /\ At + c <= NPages /\ At >= 0
      /\ base \in Int /\ a \in Int /\ a >= 1 /\ base + a <= NPages /\ base >= 0
      /\ NPages \in Int
  BY AtFacts
<1>3. ASSUME NEW q \in H \ {At}
      PROVE  /\ q \in Pages /\ q \in Int /\ property[q] \in Int /\ property[q] >= 1
             /\ base + a <= q \/ q + property[q] <= base
             /\ At + c < q \/ q + property[q] < At
  BY <1>3, AtFacts
<1>a. /\ a = property[base] /\ c = property[At]
      /\ property' = [property EXCEPT ![lo] = a + c]
  OBVIOUS
<1> HIDE DEF a, c
<1>4. /\ lo \in Pages /\ lo \in Int /\ lo \notin H \ {At}
      /\ a + c \in 0 .. NPages /\ a + c >= 1 /\ lo + (a + c) <= NPages
      /\ lo \in {base, At} /\ hi \in {base, At}
  <2>1. CASE lo = base /\ hi = At /\ base + a = At
    BY <1>1, <1>2, <2>1
  <2>2. CASE lo = At /\ hi = base /\ At + c = base
    BY <1>1, <1>2, <2>2
  <2> QED BY <1>a, <2>1, <2>2
<1>5. /\ property' \in [Pages -> 0 .. NPages] /\ property'[lo] = a + c
      /\ \A q \in H \ {At} : property'[q] = property[q]
  BY <1>a, <1>3, <1>4 DEF IInv, VarInv
<1>6. \A p \in Int : (lo <= p /\ p < lo + (a + c)) <=>
                     (base <= p /\ p < base + a) \/ (At <= p /\ p < At + c)
  <2>1. CASE lo = base /\ base + a = At
    BY <1>2, <2>1
  <2>2. CASE lo = At /\ At + c = base
    BY <1>2, <2>2
  <2> QED BY <1>a, <2>1, <2>2
<1>7. ListInv'
  <2>1. le \in 1 .. Len(free_list')  + 1
    BY <1>1
  <2> QED BY <1>1, <2>1 DEF IInv, ListInv
<1>8. VarInv'
  BY <1>4, <1>5 DEF IInv, VarInv
<1>9. BlockInv' /\ ApartInv'
  BY <1>1, <1>5 DEF IInv, BlockInv, ApartInv, Apart
<1>10. BaseInv'
  <2>1. ASSUME NEW q \in H \ {At}
        PROVE  lo + (a + c) <= q \/ q + property[q] <= lo
    <3>1. CASE lo = base /\ base + a = At
      BY <1>2, <1>3, <3>1
    <3>2. CASE lo = At /\ At + c = base
      BY <1>2, <1>3, <3>2
    <3> QED BY <1>a, <3>1, <3>2
  <2>2. ASSUME NEW q \in Passed
        PROVE  a + c + lo < q \/ property[q] + q < lo
    <3>1. a + base < q \/ property[q] + q < base
      BY <1>a DEF IInv, BaseInv, Apart
    <3>2. /\ q \in Int /\ property[q] \in Int /\ property[q] >= 1
          /\ At + c < q \/ q + property[q] < At
      BY <1>1, <1>3
    <3>3. CASE lo = base /\ base + a = At
      BY <1>2, <3>1, <3>2, <3>3
    <3>4. CASE lo = At /\ At + c = base
      BY <1>2, <3>1, <3>2, <3>4
    <3> QED BY <1>a, <3>3, <3>4
  <2>3. \A q \in Passed : property'[q] = property[q]
    BY <1>1, <1>5
  <2> QED BY <1>1, <1>4, <1>5, <2>1, <2>2, <2>3 DEF BaseInv, Apart
<1>11. CoverInv'
  <2> SUFFICES ASSUME NEW p \in Pages
               PROVE  (\E q \in H \ {At} : q <= p /\ p < q + property'[q]) \/ (lo <= p /\ p < lo + property'[lo])
                        <=> p \in RegionsPages(booted) /\ p \notin allocated
    BY <1>1 DEF CoverInv, In
  <2>1. (\E q \in H : q <= p /\ p < q + property[q]) \/ (base <= p /\ p < base + a)
          <=> p \in RegionsPages(booted) /\ p \notin allocated
    BY <1>a DEF IInv, CoverInv, In
  <2>2. p \in Int
    BY Facts
  <2>3. (\E q \in H : q <= p /\ p < q + property[q]) <=>
          (\E q \in H \ {At} : q <= p /\ p < q + property[q]) \/ (At <= p /\ p < At + c)
    BY <1>1, <1>a
  <2> QED BY <1>5, <1>6, <2>1, <2>2, <2>3
<1>12. FlagInv'
  <2> SUFFICES ASSUME NEW p \in Pages, PG_property'[p]
               PROVE  p \in H \ {At} \/ p = lo
    BY <1>1 DEF FlagInv
  <2>1. PG_property[p] /\ p # hi
    BY <1>1, <1>4 DEF IInv, VarInv
  <2>2. p \in H \/ p = base
    BY <2>1 DEF IInv, FlagInv
  <2> QED BY <2>1, <2>2
<1>13. BootInv' /\ NrFreeExact'
  BY DEF IInv, BootInv, NrFreeExact
<1> QED BY <1>7, <1>8, <1>9, <1>10, <1>11, <1>12, <1>13 DEF IInv

LEMMA UpIInv == IInv /\ MergeUp => IInv'
<1> SUFFICES ASSUME IInv, MergeUp PROVE IInv'
  OBVIOUS
<1>1. property' = [property EXCEPT ![base] = property[base] + property[At]]
  BY AtFacts DEF MergeUp, IInv, VarInv
<1> QED BY <1>1, MergeIInv DEF MergeUp

LEMMA DownIInv == IInv /\ MergeDown => IInv'
<1> SUFFICES ASSUME IInv, MergeDown PROVE IInv'
  OBVIOUS
<1>1. property' = [property EXCEPT ![At] = property[base] + property[At]]
  <2>1. property[At] + property[base] = property[base] + property[At]
    BY AtFacts DEF MergeDown
  <2>2. property' = [property EXCEPT ![At] = property[At] + property[base]]
    BY AtFacts DEF MergeDown, IInv, VarInv
  <2> QED BY <2>1, <2>2
<1> QED BY <1>1, MergeIInv DEF MergeDown

\* A block that touches at neither end is apart for good.
LEMMA SkipIInv == IInv /\ MergeSkip => IInv'
<1> SUFFICES ASSUME IInv, MergeSkip PROVE IInv'
  OBVIOUS
<1> DEFINE H == Heads(free_list)
<1>1. /\ pc = "merge" /\ le' = le + 1 /\ le \in 1 .. Len(free_list) /\ Len(free_list) \in Nat
      /\ base + property[base] # At /\ At + property[At] # base
      /\ UNCHANGED <<free_list, property, PG_property, nr_free, allocated, booted, pc, base, n, result>>
  BY AtFacts, Facts DEF MergeSkip
<1>2. Passed' \subseteq Passed \cup {At}
  <2> SUFFICES ASSUME NEW i \in 1 .. le PROVE free_list[i] \in Passed \cup {At}
    BY <1>1 DEF Passed
  <2>1. i \in 1 .. le - 1 \/ i = le
    BY <1>1
  <2> QED BY <2>1 DEF Passed, At
<1>3. Apart(base, At)
  <2>1. At \in H /\ At \in Int /\ property[At] \in Int /\ base \in Int /\ property[base] \in Int
    BY <1>1, AtFacts
  <2>2. base + property[base] <= At \/ At + property[At] <= base
    BY <1>1, <2>1 DEF IInv, BaseInv
  <2> QED BY <1>1, <2>1, <2>2 DEF Apart
<1>4. BaseInv'
  BY <1>1, <1>2, <1>3 DEF IInv, BaseInv, Apart
<1>5. ListInv'
  BY <1>1 DEF IInv, ListInv
<1>6. VarInv' /\ BlockInv' /\ ApartInv' /\ CoverInv' /\ FlagInv' /\ BootInv' /\ NrFreeExact'
  BY <1>1 DEF IInv, VarInv, BlockInv, ApartInv, CoverInv, FlagInv, BootInv, NrFreeExact, Apart, In
<1> QED BY <1>4, <1>5, <1>6 DEF IInv

\* At the end of the loop every block of the list has been passed.
LEMMA LinkIInv == IInv /\ FreeLink => IInv'
<1> SUFFICES ASSUME IInv, FreeLink PROVE IInv'
  OBVIOUS
<1> DEFINE H == Heads(free_list)
<1>1. /\ pc = "merge" /\ le = Len(free_list) + 1 /\ Len(free_list) \in Nat
      /\ le' = 1 /\ base' = 0 /\ n' = 0 /\ nr_free' = nr_free + n
      /\ free_list' = ListAdd(base, free_list)
      /\ UNCHANGED <<property, PG_property, allocated, booted, result>>
  BY Facts DEF FreeLink, IInv, ListInv
<1>2. Passed = H
  BY <1>1 DEF Passed, Heads
<1>3. /\ base \in Pages /\ base \in Int /\ property[base] \in Int /\ property[base] >= 1
      /\ base + property[base] <= NPages
      /\ \A q \in H : q \in Int /\ Apart(base, q)
      /\ Apart(base, base) => FALSE
  BY <1>1, <1>2, Facts DEF IInv, BaseInv, VarInv, Apart
<1>4. base \notin H
  BY <1>3
<1>5. free_list' \in Seq(Pages) /\ Len(free_list') = Len(free_list) + 1
      /\ Distinct(free_list') /\ Heads(free_list') = H \cup {base}
  BY <1>1, <1>3, <1>4, AddHeads DEF IInv, ListInv
<1>6. pc' = "ready"
  <2> SUFFICES ASSUME NEW i \in Above, base + property[base] = free_list[i] PROVE FALSE
    BY DEF FreeLink
  <2>1. free_list[i] \in H
    BY Facts DEF Above
  <2>2. property[free_list[i]] \in Int /\ property[free_list[i]] >= 1 /\ free_list[i] \in Int
    BY <2>1, Facts DEF IInv, BlockInv
  <2>3. \/ property[base] + base < free_list[i]
        \/ property[free_list[i]] + free_list[i] < base
    BY <1>3, <2>1 DEF Apart
  <2> QED BY <1>3, <2>2, <2>3
<1>7. ListInv'
  BY <1>1, <1>5, <1>6 DEF ListInv
<1>8. NrFreeExact' /\ nr_free' \in 0 .. NPages
  <2>1. Free' = Free /\ Cardinality(Free) \in 0 .. NPages /\ n \in Int /\ nr_free \in Int
    BY <1>1, Facts DEF Free, IInv, VarInv
  <2>2. nr_free = Cardinality(Free) - n
    BY <1>1 DEF IInv, NrFreeExact, Free
  <2> QED BY <1>1, <1>6, <2>1, <2>2 DEF NrFreeExact, Free
<1>9. VarInv'
  <2>1. 0 \in Pages /\ 0 \in 0 .. NPages
    BY PmmAssumption DEF Pages
  <2> QED BY <1>1, <1>6, <1>8, <2>1 DEF IInv, VarInv
<1>10. BlockInv'
  BY <1>1, <1>3, <1>5 DEF IInv, BlockInv
<1>11. ApartInv'
  <2>1. \A q, r \in H : q # r => Apart(q, r)
    BY DEF IInv, ApartInv
  <2>2. \A q \in H : Apart(base, q) /\ Apart(q, base)
    BY <1>3 DEF Apart
  <2> QED BY <1>1, <1>5, <2>1, <2>2 DEF ApartInv, Apart
<1>12. CoverInv'
  BY <1>1, <1>5, <1>6 DEF IInv, CoverInv, In
<1>13. FlagInv'
  BY <1>1, <1>5, <1>6 DEF IInv, FlagInv
<1>14. BaseInv' /\ BootInv'
  BY <1>1, <1>6 DEF BaseInv, BootInv, IInv
<1> QED BY <1>7, <1>8, <1>9, <1>10, <1>11, <1>12, <1>13, <1>14 DEF IInv

-----------------------------------------------------------------------------
(***************************************************************************)
(* What the manager promises.                                              *)
(***************************************************************************)

\* A run of free pages lies in one block, for two blocks never touch; so if no
\* block is long enough, no run is.
LEMMA NoRun ==
  ASSUME IInv, pc = "ready", NEW size \in Requests, Fitting(size) = {},
         NEW b \in Pages, Run(b, size) \subseteq Free
  PROVE  FALSE
<1> DEFINE H == Heads(free_list)
<1>1. b \in Int /\ size \in Int /\ size >= 1 /\ NPages \in Int
  BY PmmAssumption, Facts
<1>2. \A p \in Int : p \in Run(b, size) <=> b <= p /\ p < b + size
  BY <1>1 DEF Run
<1>3. \A p \in Run(b, size) : \E q \in H : q <= p /\ p < q + property[q]
  BY Facts DEF IInv, CoverInv, In, Free
<1>4. \A q \in H : q \in Int /\ property[q] \in Int /\ property[q] < size
  <2> SUFFICES ASSUME NEW i \in 1 .. Len(free_list)
               PROVE  free_list[i] \in Int /\ property[free_list[i]] \in Int /\ property[free_list[i]] < size
    BY DEF Heads
  <2>1. free_list[i] \in Int /\ property[free_list[i]] \in Int
    BY Facts
  <2>2. ~ (property[free_list[i]] >= size)
    BY DEF Fitting
  <2> QED BY <1>1, <2>1, <2>2
<1>5. PICK q \in H : q <= b /\ b < q + property[q]
  BY <1>1, <1>2, <1>3
<1>6. q + property[q] \in Run(b, size)
  BY <1>1, <1>2, <1>4, <1>5
<1>7. PICK r \in H : r <= q + property[q] /\ q + property[q] < r + property[r]
  BY <1>3, <1>6
<1>8. r # q
  BY <1>4, <1>5, <1>7
<1>9. property[q] + q < r \/ property[r] + r < q
  BY <1>8 DEF IInv, ApartInv, Apart
<1> QED BY <1>1, <1>4, <1>5, <1>7, <1>9

LEMMA RefusedImplements ==
  ASSUME IInv, NEW size \in Requests, AllocRefused(size)
  PROVE  PA!Refused(size)
<1>1. pc = "ready" /\ (size > nr_free \/ Fitting(size) = {})
  BY DEF AllocRefused
<1>2. ASSUME NEW b \in Pages, Run(b, size) \subseteq Free
      PROVE  FALSE
  <2>1. CASE Fitting(size) = {}
    BY <1>1, <1>2, <2>1, NoRun
  <2>2. CASE size > nr_free
    <3>1. b \in Int /\ size \in Nat /\ IsFiniteSet(Free) /\ Cardinality(Free) \in Int
      BY PmmAssumption, Facts
    <3>2. nr_free = Cardinality(Free)
      BY <1>1, <3>1 DEF IInv, NrFreeExact, Free
    <3>3. Cardinality(Run(b, size)) <= Cardinality(Free)
      BY <1>2, <3>1, FS_Subset
    <3>4. Cardinality(Run(b, size)) = size
      BY <3>1, RunCard
    <3> QED BY <2>2, <3>1, <3>2, <3>3, <3>4
  <2> QED BY <1>1, <2>1, <2>2
<1> QED BY <1>2 DEF AllocRefused, PA!Refused, PA!Run, Run, Free

LEMMA OtherStepsIInv ==
  ASSUME IInv, (\E size \in Requests : AllocRefused(size)) \/ UNCHANGED vars
  PROVE  IInv'
<1>1. UNCHANGED <<free_list, property, PG_property, nr_free, allocated, booted, pc, base, n, le>>
  BY DEF AllocRefused, vars
<1>2. result' \in [asked : {0} \cup Requests, page : Pages \cup {NULL}]
  BY DEF AllocRefused, vars, IInv, VarInv
<1> QED BY <1>1, <1>2
        DEF IInv, ListInv, VarInv, BlockInv, ApartInv, BaseInv, CoverInv, FlagInv, BootInv,
            NrFreeExact, Passed, In, Apart

LEMMA NextIInv == IInv /\ [Next]_vars => IInv'
BY BootIInv, GrantedIInv, EnterIInv, UpIInv, DownIInv, SkipIInv, LinkIInv, OtherStepsIInv
   DEF Next

LEMMA SpecIInv == Spec => []IInv
BY InitIInv, NextIInv, PTL DEF Spec

\* The free list and the block being freed hold exactly the pages nobody holds:
\* none is lost, and none is handed out while it is in use.
THEOREM ListIsFreePagesCorrect == Spec => []ListIsFreePages
<1>1. IInv => ListIsFreePages
  <2> SUFFICES ASSUME IInv, NEW p \in Pages
               PROVE  (Listed(p) \/ Held(p)) <=> p \in RegionsPages(booted) \ allocated
    BY DEF ListIsFreePages
  <2>1. p \in Int /\ \A q \in Pages : q \in Int /\ property[q] \in Int
    BY Facts
  <2>2. \A q \in Pages : p \in Block(q) <=> q <= p /\ p < q + property[q]
    BY <2>1 DEF Block, Run
  <2>3. Listed(p) <=> \E q \in Heads(free_list) : In(q, p)
    BY <2>2, Facts DEF Listed, Heads, In
  <2>4. Held(p) <=> pc = "merge" /\ In(base, p)
    BY <2>2 DEF Held, In, IInv, VarInv
  <2> QED BY <2>3, <2>4 DEF IInv, CoverInv
<1> QED BY SpecIInv, <1>1, PTL

\* One pass over the list, in whatever order, leaves no two blocks that touch.
THEOREM FullyMergedCorrect == Spec => []FullyMerged
<1>1. IInv => FullyMerged
  <2> SUFFICES ASSUME IInv, NEW i \in 1 .. Len(free_list), NEW j \in 1 .. Len(free_list), i # j
               PROVE  Apart(free_list[i], free_list[j])
    BY DEF FullyMerged
  <2>1. free_list[i] # free_list[j]
    BY DEF IInv, ListInv, Distinct
  <2> QED BY <2>1, Facts DEF IInv, ApartInv
<1> QED BY SpecIInv, <1>1, PTL

\* No assertion of default_free_pages fails.
THEOREM NoPanicCorrect == Spec => []NoPanic
<1>1. IInv => NoPanic
  BY DEF IInv, VarInv, NoPanic
<1> QED BY SpecIInv, <1>1, PTL

\* nr_free counts the free pages.
THEOREM NrFreeExactCorrect == Spec => []NrFreeExact
<1>1. IInv => NrFreeExact
  BY DEF IInv
<1> QED BY SpecIInv, <1>1, PTL

\* First fit on the list implements the promise of PageAlloc: whatever has been
\* allocated and freed, a request is refused only if no run of free pages of its
\* size exists, and what is granted was free.
THEOREM PageAllocCorrect == Spec => PageAllocSpec
<1>1. Init => PA!Init
  <2> SUFFICES ASSUME Init PROVE PA!Init
    OBVIOUS
  <2>1. RegionsPages(booted) = {}
    BY DEF Init, RegionsPages
  <2> QED BY <2>1 DEF Init, PA!Init
<1>2. IInv /\ [Next]_vars => [PA!Next]_<<RegionsPages(booted) \ allocated, result>>
  <2> SUFFICES ASSUME IInv, [Next]_vars
               PROVE  PA!Next \/ UNCHANGED <<RegionsPages(booted) \ allocated, result>>
    BY DEF PA!Next
  <2>1. CASE default_init_memmap
    <3> DEFINE b == Regions[booted + 1][1]
               s == Regions[booted + 1][2]
    <3>1. /\ allocated = {} /\ allocated' = {} /\ booted' = booted + 1 /\ result' = result
          /\ booted \in 0 .. Len(Regions) - 1 /\ booted \in 0 .. Len(Regions)
      BY <2>1, Facts DEF default_init_memmap, IInv, BootInv, VarInv
    <3>2. /\ b \in Pages /\ s \in Nat \ {0} /\ b + s <= NPages
          /\ \A p \in Int : p \in RegionsPages(booted + 1) <=>
                             p \in RegionsPages(booted) \/ (b <= p /\ p < b + s)
          /\ \A p \in Int : p \in RegionsPages(booted) => p + 1 < b \/ b + s < p
      BY <3>1, NextRegion
    <3>3. /\ b \in Int /\ b >= 0 /\ NPages \in Int /\ s \in 1 .. NPages
      BY <3>2, Facts DEF Pages
    <3> HIDE DEF b, s
    <3>4. \A p \in Int : p \in Run(b, s) <=> b <= p /\ p < b + s
      BY <3>2, <3>3 DEF Run
    <3>5. Run(b, s) \subseteq Int
      BY <3>3 DEF Run
    <3>6. RegionsPages(booted') \subseteq Int /\ RegionsPages(booted) \subseteq Int
      <4>1. booted + 1 \in 0 .. Len(Regions)
        BY <3>1, Facts
      <4> QED BY <3>1, <4>1, RegionsInPages, Facts
    <3>7. RegionsPages(booted') = RegionsPages(booted) \cup Run(b, s)
      BY <3>1, <3>2, <3>4, <3>5, <3>6
    <3>8. Run(b, s) \subseteq Pages \ RegionsPages(booted)
      <4> SUFFICES ASSUME NEW p \in Run(b, s) PROVE p \in Pages /\ p \notin RegionsPages(booted)
        OBVIOUS
      <4>1. p \in Int /\ b <= p /\ p < b + s
        BY <3>4, <3>5
      <4>2. p \in Pages
        BY <3>2, <3>3, <4>1 DEF Pages
      <4>3. p \notin RegionsPages(booted)
        BY <3>2, <3>3, <4>1
      <4> QED BY <4>2, <4>3
    <3>9. PA!GiveBack(b, s)
      BY <3>1, <3>7, <3>8 DEF PA!GiveBack, PA!Run, Run
    <3> QED BY <3>2, <3>3, <3>9 DEF PA!Next
  <2>2. ASSUME NEW size \in Requests, AllocRefused(size)
        PROVE  PA!Next
    BY <2>2, RefusedImplements DEF PA!Next
  <2>3. ASSUME NEW size \in Requests, AllocGranted(size)
        PROVE  PA!Next
    BY <2>3, GrantedIInv DEF PA!Next
  <2>4. ASSUME NEW b \in allocated, NEW size \in Requests, FreeEnter(b, size)
        PROVE  PA!Next
    BY <2>4, EnterIInv DEF PA!Next
  <2>5. CASE MergeUp \/ MergeDown \/ MergeSkip \/ FreeLink \/ UNCHANGED vars
    BY <2>5 DEF MergeUp, MergeDown, MergeSkip, FreeLink, vars
  <2> QED BY <2>1, <2>2, <2>3, <2>4, <2>5 DEF Next
<1> QED BY <1>1, <1>2, SpecIInv, PTL DEF Spec, PageAllocSpec, PA!Spec
=============================================================================
