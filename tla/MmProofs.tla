------------------------------ MODULE MmProofs ------------------------------
(***************************************************************************)
(* The allocator keeps its heap consistent and the caller's data intact,   *)
(* for every heap size, chunk size, number of lists and request size.      *)
(*                                                                         *)
(* The code finds everything by following words: sizes in tags, links in   *)
(* free blocks.  The proofs say instead where the blocks B are, how long   *)
(* they are (s) and which of them are free (F), and show what each C       *)
(* function makes of (B, s, F) while the words keep agreeing with it:      *)
(*   Shape     the blocks tile the heap and the tags say so;               *)
(*   Linked    the lists hold the free blocks, linked both ways; the ranks *)
(*             R decrease down each list, so that every walk ends;         *)
(*   Sound     both, and no two free blocks are neighbours;                *)
(*   Serves    Sound, and the allocated blocks are those the driver holds, *)
(*             large enough and filled as it filled them.                  *)
(* The inductive invariant MmInv says that some B, s and F Serve.          *)
(***************************************************************************)
EXTENDS Mm, NatLemmas, FiniteSetTheorems

\* A search that some turn ends is ended by the first such turn.
LEMMA TurnsFirst ==
  ASSUME NEW at, NEW stop, NEW m \in 0 .. MAX_HEAP, at[m] \in stop
  PROVE  /\ Turns(at, stop) \in 0 .. m
         /\ at[Turns(at, stop)] \in stop
         /\ \A j \in Nat : j < Turns(at, stop) => at[j] \notin stop
<1> DEFINE Hits == {k \in 0 .. m : at[k] \in stop}
<1>1. m \in Nat /\ MAX_HEAP \in Nat /\ m <= MAX_HEAP
  BY MmAssumption
<1>2. PICK k \in Hits : \A j \in Hits : k <= j
  <2>1. Hits \in SUBSET Nat /\ Hits # {}
    BY <1>1
  <2> HIDE DEF Hits
  <2> QED BY <2>1, LeastNat
<1>3. k \in 0 .. MAX_HEAP /\ at[k] \in stop /\ \A j \in 0 .. k - 1 : at[j] \notin stop
  BY <1>1, <1>2
<1>4. /\ Turns(at, stop) \in 0 .. MAX_HEAP /\ at[Turns(at, stop)] \in stop
      /\ \A j \in 0 .. Turns(at, stop) - 1 : at[j] \notin stop
  BY <1>3 DEF Turns
<1>5. ~ (m < Turns(at, stop))
  BY <1>1, <1>4
<1> QED BY <1>1, <1>4, <1>5

\* Halving is monotone and stays in the naturals.
LEMMA HalvedMonotone ==
  ASSUME NEW s \in Nat, NEW t \in Nat, s <= t
  PROVE  \A k \in Nat : Halved(s, k) \in Nat /\ Halved(t, k) \in Nat /\ Halved(s, k) <= Halved(t, k)
<1> DEFINE half == [x \in Nat |-> x \div 2]
           a == Iterate(s, half)
           b == Iterate(t, half)
           Bad == {k \in Nat : ~(a[k] \in Nat /\ b[k] \in Nat /\ a[k] <= b[k])}
<1>1. SUFFICES Bad = {}
  BY DEF Halved
<1>2. SUFFICES ASSUME Bad # {} PROVE FALSE
  OBVIOUS
<1>3. a[0] = s /\ b[0] = t /\ \A k \in Nat : a[k + 1] = half[a[k]] /\ b[k + 1] = half[b[k]]
  <2> HIDE DEF half
  <2> QED BY IterateStep
<1>4. PICK k \in Bad : \A j \in Bad : k <= j
  <2>1. Bad \in SUBSET Nat
    OBVIOUS
  <2> HIDE DEF Bad
  <2> QED BY <1>2, <2>1, LeastNat
<1> HIDE DEF a, b
<1>5. k # 0 /\ k \in Nat
  BY <1>3, <1>4
<1>6. k - 1 \in Nat /\ k - 1 + 1 = k /\ ~(k <= k - 1)
  BY <1>5
<1>7. a[k - 1] \in Nat /\ b[k - 1] \in Nat /\ a[k - 1] <= b[k - 1]
  BY <1>4, <1>6
<1>8. a[k] = half[a[k - 1]] /\ b[k] = half[b[k - 1]]
  <2> HIDE DEF half
  <2> QED BY <1>3, <1>6
<1>9. a[k] \in Nat /\ b[k] \in Nat /\ a[k] <= b[k]
  BY <1>7, <1>8
<1> QED BY <1>4, <1>9

\* The list of a size is one of the lists: the last, or the one whose number is
\* the turns that bring the size to 1.
LEMMA ListOfIs ==
  ASSUME NEW size \in Nat
  PROVE  /\ ListOf(size) \in Lists
         /\ ListOf(size) = LISTMAX - 1 \/ Halved(size, ListOf(size)) <= 1
<1> DEFINE Good == {l \in Lists : l = LISTMAX - 1 \/ Halved(size, l) <= 1}
<1>1. LISTMAX \in Nat \ {0}
  BY MmAssumption
<1>2. PICK l \in Good : \A k \in Good : l <= k
  <2>1. Good \in SUBSET Nat /\ LISTMAX - 1 \in Good
    BY <1>1 DEF Lists
  <2> HIDE DEF Good
  <2> QED BY <2>1, LeastNat
<1>3. \A k \in 0 .. l - 1 : Halved(size, k) > 1
  <2>1. \A k \in 0 .. l - 1 : k \in Lists /\ k \in Nat /\ ~(l <= k)
    BY <1>1, <1>2 DEF Lists
  <2>2. \A k \in 0 .. l - 1 : ~(Halved(size, k) <= 1)
    BY <1>2, <2>1
  <2> QED BY <2>1, <2>2, HalvedMonotone
<1> QED BY <1>2, <1>3 DEF ListOf

-----------------------------------------------------------------------------
\* The words of the heap: tags, links and the driver's marks
Word  == -MaxBlocks .. 2 * MAX_HEAP
Heaps == [mem : [Addr -> Word], brk : 0 .. MAX_HEAP, lists : [Lists -> Addr], ptr : Int]

\* Where a block can start
Starts == {p \in Nat : 4 <= p /\ p + 1 < MAX_HEAP /\ p % 2 = 0}

\* What the lists over the words m link is L, where s gives the sizes of its
\* blocks: the links down and up are inverse to each other, a block with no
\* link up is the head of its list, and the links down go down in R.
LinksDown(m, s, L, R) ==
  \A p \in L : m[p] # NULL =>
    m[p] \in L /\ m[m[p] + 1] = p /\ ListOf(s[m[p]]) = ListOf(s[p]) /\ R[m[p]] < R[p]
LinksUp(m, s, L) ==
  \A p \in L : m[p + 1] # NULL => m[p + 1] \in L /\ m[m[p + 1]] = p
HeadsUp(m, lists, s, L) ==
  \A p \in L : m[p + 1] = NULL => lists[ListOf(s[p])] = p
Heads(m, lists, s, L) ==
  \A l \in Lists : lists[l] # NULL =>
    lists[l] \in L /\ ListOf(s[lists[l]]) = l /\ m[lists[l] + 1] = NULL
Linked(m, lists, s, L, R) ==
  /\ L \subseteq Starts /\ s \in [Nat -> Nat] /\ R \in [Nat -> Nat]
  /\ LinksDown(m, s, L, R) /\ LinksUp(m, s, L) /\ HeadsUp(m, lists, s, L) /\ Heads(m, lists, s, L)

\* The walk along list l ends after m entries, all of them blocks of L of that list.
WalksOver(h, l, s, L, m) ==
  /\ m \in 0 .. MAX_HEAP /\ Entries(h, l)[m] = NULL
  /\ \A k \in Nat : k < m => Entries(h, l)[k] \in L /\ ListOf(s[Entries(h, l)[k]]) = l

\* The walk along a list comes to its end, over blocks of that list only.
LEMMA WalkEnds ==
  ASSUME NEW h \in Heaps, NEW s, NEW L, NEW R, Linked(h.mem, h.lists, s, L, R), NEW l \in Lists
  PROVE  \E m : WalksOver(h, l, s, L, m)
<1> DEFINE at == Entries(h, l)
           Ok(k) == at[k] \in L /\ ListOf(s[at[k]]) = l
<1>1. MAX_HEAP \in Nat
  BY MmAssumption
<1>2. at[0] = h.lists[l] /\ \A k \in Nat : at[k + 1] = h.mem[at[k]]
  BY IterateStep DEF Entries
<1> HIDE DEF at
<1>3. at[0] = NULL \/ Ok(0)
  BY <1>2 DEF Linked, Heads
<1>4. ASSUME NEW k \in Nat, Ok(k)
      PROVE  at[k + 1] = NULL \/ (Ok(k + 1) /\ R[at[k + 1]] < R[at[k]])
  BY <1>2, <1>4 DEF Linked, LinksDown
<1>5. ASSUME NEW n \in Nat, \A k \in Nat : k < n => at[k] # NULL
      PROVE  \A k \in Nat : k < n => Ok(k)
  <2> DEFINE Bad == {k \in Nat : k < n /\ ~Ok(k)}
  <2>1. SUFFICES ASSUME Bad # {} PROVE FALSE
    OBVIOUS
  <2>2. PICK k \in Bad : \A j \in Bad : k <= j
    <3>1. Bad \in SUBSET Nat
      OBVIOUS
    <3> HIDE DEF Bad
    <3> QED BY <2>1, <3>1, LeastNat
  <2> HIDE DEF Ok
  <2>3. k \in Nat /\ k < n /\ ~Ok(k) /\ at[k] # NULL
    BY <2>2, <1>5
  <2>4. k # 0
    BY <2>3, <1>3
  <2>5. k - 1 \in Nat /\ k - 1 < n /\ ~(k <= k - 1) /\ k - 1 + 1 = k
    BY <2>3, <2>4
  <2>6. Ok(k - 1)
    BY <2>2, <2>5
  <2> QED BY <1>4, <2>3, <2>5, <2>6
<1>6. \E k \in 0 .. MAX_HEAP : at[k] = NULL
  <2>1. SUFFICES ASSUME \A k \in 0 .. MAX_HEAP : at[k] # NULL PROVE FALSE
    OBVIOUS
  <2>2. \A k \in Nat : k < MAX_HEAP + 1 => Ok(k)
    <3>1. \A k \in Nat : k < MAX_HEAP + 1 => at[k] # NULL
      BY <1>1, <2>1
    <3>2. MAX_HEAP + 1 \in Nat
      BY <1>1
    <3> HIDE DEF Ok
    <3> QED BY <1>5, <3>1, <3>2
  <2>3. \A k \in 0 .. MAX_HEAP : at[k] \in 1 .. MAX_HEAP /\ R[at[k]] \in Nat
    <3> SUFFICES ASSUME NEW k \in 0 .. MAX_HEAP PROVE at[k] \in 1 .. MAX_HEAP /\ R[at[k]] \in Nat
      OBVIOUS
    <3>1. at[k] \in L
      BY <1>1, <2>2
    <3>2. at[k] \in Starts
      BY <3>1 DEF Linked
    <3>3. at[k] \in Nat /\ at[k] \in 1 .. MAX_HEAP
      BY <1>1, <3>2 DEF Starts
    <3> QED BY <3>3 DEF Linked
  <2>4. \A i, j \in 0 .. MAX_HEAP : i < j => R[at[j]] < R[at[i]]
    <3> DEFINE Bad == {j \in 0 .. MAX_HEAP : \E i \in 0 .. MAX_HEAP : i < j /\ ~(R[at[j]] < R[at[i]])}
    <3>1. SUFFICES ASSUME Bad # {} PROVE FALSE
      OBVIOUS
    <3>2. PICK j \in Bad : \A k \in Bad : j <= k
      <4>1. Bad \in SUBSET Nat
        BY <1>1
      <4> HIDE DEF Bad
      <4> QED BY <3>1, <4>1, LeastNat
    <3>3. PICK i \in 0 .. MAX_HEAP : i < j /\ ~(R[at[j]] < R[at[i]])
      BY <3>2
    <3>4. /\ j \in 0 .. MAX_HEAP /\ j - 1 \in 0 .. MAX_HEAP /\ j - 1 \in Nat /\ j - 1 + 1 = j
          /\ ~(j <= j - 1) /\ (i = j - 1 \/ i < j - 1)
      BY <1>1, <3>2, <3>3
    <3>5. R[at[j]] < R[at[j - 1]]
      <4>1. Ok(j - 1) /\ at[j - 1 + 1] # NULL
        BY <1>1, <2>1, <2>2, <3>4
      <4> HIDE DEF Ok
      <4> QED BY <1>4, <3>4, <4>1
    <3>6. R[at[j]] \in Nat /\ R[at[j - 1]] \in Nat /\ R[at[i]] \in Nat
      BY <2>3, <3>3, <3>4
    <3>7. i # j - 1
      BY <3>3, <3>5
    <3>8. j - 1 \notin Bad
      BY <3>2, <3>4
    <3>9. R[at[j - 1]] < R[at[i]]
      BY <3>4, <3>7, <3>8
    <3> QED BY <3>3, <3>5, <3>6, <3>9
  <2> DEFINE f == [k \in 0 .. MAX_HEAP |-> at[k]]
  <2>5. f \in [0 .. MAX_HEAP -> 1 .. MAX_HEAP]
    BY <2>3
  <2>6. /\ IsFiniteSet(0 .. MAX_HEAP) /\ Cardinality(0 .. MAX_HEAP) = MAX_HEAP + 1
        /\ IsFiniteSet(1 .. MAX_HEAP) /\ Cardinality(1 .. MAX_HEAP) = MAX_HEAP
    BY <1>1, FS_Interval
  <2>7. PICK i, j \in 0 .. MAX_HEAP : i # j /\ f[i] = f[j]
    <3>1. Cardinality(1 .. MAX_HEAP) < Cardinality(0 .. MAX_HEAP)
      BY <1>1, <2>6
    <3> HIDE DEF f
    <3> QED BY <2>5, <2>6, <3>1, FS_PigeonHole
  <2>8. at[i] = at[j] /\ (i < j \/ j < i)
    BY <1>1, <2>7
  <2>9. R[at[i]] \in Nat
    BY <2>3
  <2> QED BY <2>4, <2>8, <2>9
<1>7. PICK m \in {k \in Nat : at[k] = NULL} : \A k \in {j \in Nat : at[j] = NULL} : m <= k
  <2> DEFINE T == {k \in Nat : at[k] = NULL}
  <2>1. T \in SUBSET Nat /\ T # {}
    BY <1>1, <1>6
  <2> HIDE DEF T
  <2>2. \E m \in T : \A k \in T : m <= k
    BY <2>1, LeastNat
  <2> QED BY <2>2 DEF T
<1>8. m \in Nat /\ m <= MAX_HEAP /\ at[m] = NULL /\ \A k \in Nat : k < m => at[k] # NULL
  BY <1>1, <1>6, <1>7
<1>9. \A k \in Nat : k < m => Ok(k)
  <2> HIDE DEF Ok
  <2> QED BY <1>5, <1>8
<1>10. m \in 0 .. MAX_HEAP
  BY <1>1, <1>8
<1> QED BY <1>8, <1>9, <1>10 DEF at, WalksOver

\* before and after are neighbours in list l, NULL past either end of it.
Neighbours(m, lists, s, L, l, before, after) ==
  /\ after # NULL => after \in L /\ ListOf(s[after]) = l
  /\ before = NULL => after = lists[l]
  /\ before # NULL => before \in L /\ ListOf(s[before]) = l /\ m[before] = after

\* insert_node stops between two neighbours of the list.
LEMMA SpotIs ==
  ASSUME NEW h \in Heaps, NEW s, NEW L, NEW R, Linked(h.mem, h.lists, s, L, R),
         NEW l \in Lists, NEW size
  PROVE  Neighbours(h.mem, h.lists, s, L, l, Spot(h, l, size).before, Spot(h, l, size).after)
<1> DEFINE at == Entries(h, l)
           k == Turns(at, LargeEnough(h, size))
<1>1. PICK m : WalksOver(h, l, s, L, m)
  BY WalkEnds
<1>2. m \in 0 .. MAX_HEAP /\ at[m] = NULL /\ \A j \in Nat : j < m => at[j] \in L /\ ListOf(s[at[j]]) = l
  BY <1>1 DEF WalksOver
<1>3. at[0] = h.lists[l] /\ \A j \in Nat : at[j + 1] = h.mem[at[j]]
  BY IterateStep DEF Entries
<1>4. k \in 0 .. m
  <2>1. at[m] \in LargeEnough(h, size)
    BY <1>2 DEF LargeEnough, NULL
  <2> HIDE DEF at
  <2> QED BY <1>2, <2>1, TurnsFirst
<1>5. Spot(h, l, size) = [before |-> IF k = 0 THEN NULL ELSE at[k - 1], after |-> at[k]]
  BY DEF Spot
<1> HIDE DEF at, k
<1>6. k \in Nat /\ m \in Nat /\ (k = m \/ k < m)
  BY <1>2, <1>4, MmAssumption
<1>7. at[k] # NULL => at[k] \in L /\ ListOf(s[at[k]]) = l
  BY <1>2, <1>6
<1>8. CASE k = 0
  BY <1>3, <1>5, <1>7, <1>8 DEF Neighbours
<1>9. CASE k # 0
  <2>1. k - 1 \in Nat /\ k - 1 < m /\ k - 1 + 1 = k
    BY <1>6, <1>9
  <2>2. at[k - 1] \in L /\ ListOf(s[at[k - 1]]) = l /\ at[k] = h.mem[at[k - 1]]
    BY <1>2, <1>3, <2>1
  <2>3. at[k - 1] # NULL
    BY <2>2 DEF Linked, Starts, NULL
  <2> QED BY <1>5, <1>7, <1>9, <2>2, <2>3 DEF Neighbours
<1> QED BY <1>8, <1>9

\* A search of a list returns an entry of it that is large enough, or none.
LEMMA FirstInIs ==
  ASSUME NEW h \in Heaps, NEW s, NEW L, NEW R, Linked(h.mem, h.lists, s, L, R),
         NEW l \in Lists, NEW size
  PROVE  FirstIn(h, l, size) # NULL =>
           FirstIn(h, l, size) \in L /\ size <= GET_SIZE(h, HDRP(FirstIn(h, l, size)))
<1> DEFINE at == Entries(h, l)
           k == Turns(at, LargeEnough(h, size))
<1>1. PICK m : WalksOver(h, l, s, L, m)
  BY WalkEnds
<1>2. m \in 0 .. MAX_HEAP /\ at[m] = NULL /\ \A j \in Nat : j < m => at[j] \in L /\ ListOf(s[at[j]]) = l
  BY <1>1 DEF WalksOver
<1>3. k \in 0 .. m /\ at[k] \in LargeEnough(h, size)
  <2>1. at[m] \in LargeEnough(h, size)
    BY <1>2 DEF LargeEnough, NULL
  <2> HIDE DEF at
  <2> QED BY <1>2, <2>1, TurnsFirst
<1>4. FirstIn(h, l, size) = at[k]
  BY DEF FirstIn
<1> HIDE DEF at, k
<1>5. k \in Nat /\ m \in Nat /\ (k = m \/ k < m)
  BY <1>2, <1>3, MmAssumption
<1>6. at[k] # NULL => at[k] \in L
  BY <1>2, <1>5
<1> QED BY <1>3, <1>4, <1>6 DEF LargeEnough

\* The m turns of the walk along list l pass every block of L of that list.
PassesAll(h, l, s, L, m) ==
  \A p \in L : ListOf(s[p]) = l => \E k \in Nat : k < m /\ Entries(h, l)[k] = p

\* The walk along a list passes every block of that list before it ends.
LEMMA WalkAll ==
  ASSUME NEW h \in Heaps, NEW s, NEW L, NEW R, Linked(h.mem, h.lists, s, L, R),
         NEW l \in Lists, NEW m, WalksOver(h, l, s, L, m)
  PROVE  PassesAll(h, l, s, L, m)
<1> DEFINE at == Entries(h, l)
           Bad == {p \in L : ListOf(s[p]) = l /\ \A k \in Nat : k < m => at[k] # p}
<1>1. MAX_HEAP \in Nat /\ m \in Nat /\ at[m] = NULL
  BY MmAssumption DEF WalksOver
<1>2. SUFFICES ASSUME Bad # {} PROVE FALSE
  BY DEF PassesAll
<1>3. at[0] = h.lists[l] /\ \A k \in Nat : at[k + 1] = h.mem[at[k]]
  BY IterateStep DEF Entries
<1>4. L \subseteq 1 .. MAX_HEAP /\ R \in [Nat -> Nat]
  BY <1>1 DEF Linked, Starts
<1>5. PICK b \in Nat : \A i \in 1 .. MAX_HEAP : R[i] <= b
  <2> DEFINE f == [i \in 1 .. MAX_HEAP |-> R[i]]
  <2>1. f \in [1 .. MAX_HEAP -> Nat]
    BY <1>1, <1>4
  <2>2. \E b \in Nat : \A i \in 1 .. MAX_HEAP : f[i] <= b
    <3> HIDE DEF f
    <3> QED BY <1>1, <2>1, ArrayBounded
  <2> QED BY <2>2
<1> DEFINE T == {b - R[p] : p \in Bad}
<1>6. T \in SUBSET Nat /\ T # {}
  <2>1. ASSUME NEW p \in Bad PROVE b - R[p] \in Nat
    <3>1. p \in 1 .. MAX_HEAP /\ R[p] \in Nat
      BY <1>1, <1>4
    <3>2. R[p] <= b
      BY <1>5, <3>1
    <3> QED BY <3>1, <3>2
  <2> HIDE DEF Bad
  <2> QED BY <1>2, <2>1
<1>7. PICK p \in Bad : \A q \in Bad : b - R[p] <= b - R[q]
  <2>1. \E t \in T : \A u \in T : t <= u
    <3> HIDE DEF T
    <3> QED BY <1>6, LeastNat
  <2> HIDE DEF Bad
  <2> QED BY <2>1
<1>8. p \in L /\ ListOf(s[p]) = l /\ \A k \in Nat : k < m => at[k] # p
  BY <1>7
<1> HIDE DEF at
<1>9. CASE h.mem[p + 1] = NULL
  <2>1. at[0] = p
    BY <1>3, <1>8, <1>9 DEF Linked, HeadsUp
  <2>2. m # 0
    BY <1>1, <1>8, <2>1, <1>4 DEF NULL
  <2> QED BY <1>1, <1>8, <2>1, <2>2
<1>10. CASE h.mem[p + 1] # NULL
  <2> DEFINE q == h.mem[p + 1]
  <2>1. q \in L /\ h.mem[q] = p
    BY <1>8, <1>10 DEF Linked, LinksUp
  <2>2. p # NULL
    BY <1>4, <1>8 DEF NULL
  <2>3. ListOf(s[q]) = l /\ R[p] < R[q]
    BY <1>8, <2>1, <2>2 DEF Linked, LinksDown
  <2>4. q \notin Bad
    <3>1. p \in 1 .. MAX_HEAP /\ q \in 1 .. MAX_HEAP
      BY <1>4, <1>8, <2>1
    <3>2. R[p] \in Nat /\ R[q] \in Nat
      BY <1>1, <1>4, <3>1
    <3>3. ~(b - R[p] <= b - R[q])
      BY <2>3, <3>2
    <3> QED BY <1>7, <3>3
  <2>5. PICK k \in Nat : k < m /\ at[k] = q
    BY <2>1, <2>3, <2>4
  <2>6. at[k + 1] = p
    BY <1>3, <2>1, <2>5
  <2>7. k + 1 # m
    BY <1>1, <2>2, <2>6
  <2>8. k + 1 \in Nat /\ k + 1 < m
    BY <1>1, <2>5, <2>7
  <2> QED BY <1>8, <2>6, <2>8
<1> QED BY <1>9, <1>10

-----------------------------------------------------------------------------
\* One write of a word, of a list's head and of the answer.
LEMMA PutIs ==
  ASSUME NEW h \in Heaps, NEW a \in Addr, NEW v \in Word
  PROVE  /\ PUT(h, a, v) \in Heaps
         /\ PUT(h, a, v).mem = [h.mem EXCEPT ![a] = v]
         /\ PUT(h, a, v).brk = h.brk /\ PUT(h, a, v).lists = h.lists /\ PUT(h, a, v).ptr = h.ptr
BY DEF PUT, Heaps

\* Writing the head of a list changes that head only.
LEMMA HeadIs ==
  ASSUME NEW h \in Heaps, NEW l \in Lists, NEW p \in Addr
  PROVE  LET g == [h EXCEPT !.lists[l] = p]
         IN  /\ g \in Heaps /\ g.lists = [h.lists EXCEPT ![l] = p]
             /\ g.mem = h.mem /\ g.brk = h.brk /\ g.ptr = h.ptr
BY DEF Heaps

\* Answering a pointer changes nothing else.
LEMMA PtrIs ==
  ASSUME NEW h \in Heaps, NEW p \in Int
  PROVE  LET g == [h EXCEPT !.ptr = p]
         IN  /\ g \in Heaps /\ g.ptr = p
             /\ g.mem = h.mem /\ g.brk = h.brk /\ g.lists = h.lists
BY DEF Heaps

\* A block's links are two words of the heap, its own.
LEMMA StartsAre ==
  ASSUME NEW p \in Starts
  PROVE  /\ p \in Addr /\ p + 1 \in Addr /\ p # NULL /\ p \in Nat /\ p \in Word
         /\ \A q \in Starts : q # p + 1
BY MmAssumption DEF Starts, Addr, NULL, Word

\* g is h but for words of W, and its lists may differ.
LinkWords(L) == L \cup {p + 1 : p \in L}
OnlyIn(h, g, W) ==
  /\ g \in Heaps /\ g.brk = h.brk /\ g.ptr = h.ptr
  /\ \A a \in Addr : a \notin W => g.mem[a] = h.mem[a]

\* The words and the heads after p is taken out from between pred and succ.
LEMMA Unlinked ==
  ASSUME NEW m, NEW lists \in [Lists -> Addr], NEW s, NEW L, NEW R, Linked(m, lists, s, L, R), NEW p \in L,
         NEW m2, NEW lists2,
         \A q \in L \ {p} : /\ m2[q] = (IF q = m[p + 1] THEN m[p] ELSE m[q])
                            /\ m2[q + 1] = (IF q = m[p] THEN m[p + 1] ELSE m[q + 1]),
         lists2 = IF m[p + 1] = NULL THEN [lists EXCEPT ![ListOf(s[p])] = m[p]] ELSE lists
  PROVE  Linked(m2, lists2, s, L \ {p}, R)
<1> DEFINE pred == m[p]
           succ == m[p + 1]
           K    == L \ {p}
           l    == ListOf(s[p])
<1>1. /\ L \subseteq Starts /\ s \in [Nat -> Nat] /\ R \in [Nat -> Nat]
      /\ \A q \in L : q # NULL /\ q \in Nat /\ R[q] \in Nat
  BY StartsAre DEF Linked
<1>2. \A q \in L : m[q] # NULL =>
        m[q] \in L /\ m[m[q] + 1] = q /\ ListOf(s[m[q]]) = ListOf(s[q]) /\ R[m[q]] < R[q]
  BY DEF Linked, LinksDown
<1>3. \A q \in L : m[q + 1] # NULL => m[q + 1] \in L /\ m[m[q + 1]] = q
  BY DEF Linked, LinksUp
<1>4. \A q \in L : m[q + 1] = NULL => lists[ListOf(s[q])] = q
  BY DEF Linked, HeadsUp
<1>5. \A k \in Lists : lists[k] # NULL =>
        lists[k] \in L /\ ListOf(s[lists[k]]) = k /\ m[lists[k] + 1] = NULL
  BY DEF Linked, Heads
<1>6. pred # NULL => pred \in K /\ m[pred + 1] = p /\ ListOf(s[pred]) = l /\ R[pred] < R[p]
  BY <1>1, <1>2
<1>7. succ # NULL => succ \in K /\ m[succ] = p /\ ListOf(s[succ]) = l /\ R[p] < R[succ]
  BY <1>1, <1>2, <1>3
<1>8. \A q \in K : /\ m2[q] = (IF q = succ THEN pred ELSE m[q])
                   /\ m2[q + 1] = (IF q = pred THEN succ ELSE m[q + 1])
  OBVIOUS
<1>9. l \in Lists
  BY <1>1, ListOfIs
<1>10. \A k \in Lists : lists2[k] = IF succ = NULL /\ k = l THEN pred ELSE lists[k]
  BY <1>9
<1> HIDE DEF pred, succ, l
<1>11. LinksDown(m2, s, K, R)
  <2> SUFFICES ASSUME NEW q \in K, m2[q] # NULL
               PROVE  m2[q] \in K /\ m2[m2[q] + 1] = q /\ ListOf(s[m2[q]]) = ListOf(s[q]) /\ R[m2[q]] < R[q]
    BY DEF LinksDown
  <2>1. CASE q = succ
    <3>1. pred \in K /\ m2[q] = pred
      BY <1>6, <1>8, <2>1
    <3>2. m2[pred + 1] = succ
      BY <1>8, <3>1
    <3>3. R[pred] < R[p] /\ R[p] < R[succ] /\ ListOf(s[pred]) = ListOf(s[succ])
      BY <1>1, <1>6, <1>7, <2>1, <3>1
    <3>4. R[pred] < R[succ]
      BY <1>1, <2>1, <3>1, <3>3
    <3> QED BY <2>1, <3>1, <3>2, <3>3, <3>4
  <2>2. CASE q # succ
    <3>1. m2[q] = m[q] /\ q # NULL /\ m[q] # NULL
      BY <1>1, <1>8, <2>2
    <3>2. m[q] \in L /\ m[m[q] + 1] = q /\ ListOf(s[m[q]]) = ListOf(s[q]) /\ R[m[q]] < R[q]
      BY <1>2, <3>1
    <3>3. m[q] # p
      BY <2>2, <3>2 DEF succ
    <3>4. m[q] # pred
      BY <1>6, <3>1, <3>2
    <3>5. m2[m[q] + 1] = q
      BY <1>8, <3>2, <3>3, <3>4
    <3> QED BY <3>1, <3>2, <3>3, <3>5
  <2> QED BY <2>1, <2>2
<1>12. LinksUp(m2, s, K)
  <2> SUFFICES ASSUME NEW q \in K, m2[q + 1] # NULL
               PROVE  m2[q + 1] \in K /\ m2[m2[q + 1]] = q
    BY DEF LinksUp
  <2>1. CASE q = pred
    BY <1>7, <1>8, <2>1
  <2>2. CASE q # pred
    <3>1. m2[q + 1] = m[q + 1] /\ m[q + 1] \in L /\ m[m[q + 1]] = q
      BY <1>3, <1>8, <2>2
    <3>2. m[q + 1] # p
      BY <2>2, <3>1 DEF pred
    <3>3. m[q + 1] # succ
      BY <1>1, <1>7, <3>1
    <3> QED BY <1>8, <3>1, <3>2, <3>3
  <2> QED BY <2>1, <2>2
<1>13. HeadsUp(m2, lists2, s, K)
  <2> SUFFICES ASSUME NEW q \in K, m2[q + 1] = NULL
               PROVE  lists2[ListOf(s[q])] = q
    BY DEF HeadsUp
  <2>1. ListOf(s[q]) \in Lists
    BY <1>1, ListOfIs
  <2>2. CASE q = pred
    BY <1>1, <1>6, <1>8, <1>9, <1>10, <2>2
  <2>3. CASE q # pred
    <3>1. lists[ListOf(s[q])] = q
      BY <1>4, <1>8, <2>3
    <3>2. succ = NULL => lists[l] = p
      BY <1>4 DEF succ, l
    <3> QED BY <1>10, <2>1, <3>1, <3>2
  <2> QED BY <2>2, <2>3
<1>14. Heads(m2, lists2, s, K)
  <2> SUFFICES ASSUME NEW k \in Lists, lists2[k] # NULL
               PROVE  lists2[k] \in K /\ ListOf(s[lists2[k]]) = k /\ m2[lists2[k] + 1] = NULL
    BY DEF Heads
  <2>1. CASE succ = NULL /\ k = l
    BY <1>6, <1>8, <1>10, <2>1
  <2>2. CASE ~(succ = NULL /\ k = l)
    <3>1. lists2[k] = lists[k] /\ lists[k] \in L /\ ListOf(s[lists[k]]) = k /\ m[lists[k] + 1] = NULL
      BY <1>5, <1>10, <2>2
    <3>2. lists[k] # p
      BY <2>2, <3>1 DEF succ, l
    <3>3. lists[k] # pred
      BY <1>1, <1>6, <3>1
    <3> QED BY <1>8, <3>1, <3>2, <3>3
  <2> QED BY <2>1, <2>2
<1>15. K \subseteq Starts
  BY <1>1
<1> QED BY <1>1, <1>11, <1>12, <1>13, <1>14, <1>15 DEF Linked

\* delete_node takes a block out of its list and writes no word but links.
LEMMA DeleteNode ==
  ASSUME NEW h \in Heaps, NEW s, NEW L, NEW R, Linked(h.mem, h.lists, s, L, R), NEW p \in L,
         GET_SIZE(h, HDRP(p)) = s[p]
  PROVE  /\ OnlyIn(h, delete_node(h, p), LinkWords(L \ {p}))
         /\ Linked(delete_node(h, p).mem, delete_node(h, p).lists, s, L \ {p}, R)
<1> DEFINE pred  == h.mem[p]
           succ  == h.mem[p + 1]
           l     == ListOf(s[p])
           below == IF pred = NULL THEN h ELSE PUT(h, pred + 1, succ)
           g     == IF succ = NULL THEN [below EXCEPT !.lists[l] = pred] ELSE PUT(below, succ, pred)
<1>1. delete_node(h, p) = g
  BY DEF delete_node, PRED, SUCC
<1>2. L \subseteq Starts /\ s \in [Nat -> Nat] /\ R \in [Nat -> Nat]
  BY DEF Linked
<1>3. pred # NULL => pred \in L /\ pred # p
  BY <1>2, StartsAre DEF Linked, LinksDown
<1>4. succ # NULL => succ \in L /\ succ # p
  <2>1. succ # NULL => succ \in L /\ h.mem[succ] = p
    BY DEF Linked, LinksUp
  <2>2. succ # NULL => R[p] < R[succ] /\ R[p] \in Nat
    BY <2>1, <1>2, StartsAre DEF Linked, LinksDown
  <2> QED BY <2>1, <2>2
<1>5. l \in Lists
  BY <1>2, ListOfIs, StartsAre
<1>6. pred \in Word /\ succ \in Word /\ pred \in Addr
  <2>1. NULL \in Addr
    BY MmAssumption DEF NULL, Addr
  <2> QED BY <1>2, <1>3, <2>1, StartsAre DEF Heaps
<1> HIDE DEF pred, succ, l
<1>7. /\ below \in Heaps
      /\ below.mem = (IF pred = NULL THEN h.mem ELSE [h.mem EXCEPT ![pred + 1] = succ])
      /\ below.brk = h.brk /\ below.ptr = h.ptr /\ below.lists = h.lists
  <2>1. CASE pred = NULL
    BY <2>1
  <2>2. CASE pred # NULL
    <3>1. pred + 1 \in Addr
      BY <1>2, <1>3, <2>2, StartsAre
    <3> QED BY <2>2, <3>1, <1>6, PutIs
  <2> QED BY <2>1, <2>2
<1> HIDE DEF below
<1>8. /\ g \in Heaps
      /\ g.mem = (IF succ = NULL THEN below.mem ELSE [below.mem EXCEPT ![succ] = pred])
      /\ g.brk = h.brk /\ g.ptr = h.ptr
      /\ g.lists = IF succ = NULL THEN [h.lists EXCEPT ![l] = pred] ELSE h.lists
  <2>1. CASE succ = NULL
    BY <1>5, <1>6, <1>7, <2>1, HeadIs
  <2>2. CASE succ # NULL
    <3>1. succ \in Addr
      BY <1>2, <1>4, <2>2, StartsAre
    <3> QED BY <1>6, <1>7, <2>2, <3>1, PutIs
  <2> QED BY <2>1, <2>2
<1>9. /\ g.mem \in [Addr -> Word] /\ h.mem \in [Addr -> Word] /\ below.mem \in [Addr -> Word]
      /\ h.lists \in [Lists -> Addr]
  BY <1>7, <1>8 DEF Heaps
<1> HIDE DEF g
<1>10. ASSUME NEW a \in Addr
       PROVE  g.mem[a] = IF succ # NULL /\ a = succ THEN pred
                         ELSE IF pred # NULL /\ a = pred + 1 THEN succ ELSE h.mem[a]
  BY <1>7, <1>8, <1>9
<1>11. OnlyIn(h, g, LinkWords(L \ {p}))
  <2>1. ASSUME NEW a \in Addr, a \notin LinkWords(L \ {p}) PROVE g.mem[a] = h.mem[a]
    BY <1>3, <1>4, <1>10, <2>1 DEF LinkWords
  <2> QED BY <1>8, <2>1 DEF OnlyIn
<1>12. Linked(g.mem, g.lists, s, L \ {p}, R)
  <2>1. ASSUME NEW q \in L \ {p}
        PROVE  /\ g.mem[q] = (IF q = h.mem[p + 1] THEN h.mem[p] ELSE h.mem[q])
               /\ g.mem[q + 1] = (IF q = h.mem[p] THEN h.mem[p + 1] ELSE h.mem[q + 1])
    <3>1. q \in Addr /\ q + 1 \in Addr /\ q # NULL /\ q \in Nat
      BY <1>2, StartsAre
    <3>2. (pred # NULL => pred \in Nat /\ q # pred + 1) /\ (succ # NULL => q + 1 # succ)
      BY <1>2, <1>3, <1>4, StartsAre
    <3>3. pred # NULL /\ q + 1 = pred + 1 => q = pred
      BY <3>1, <3>2
    <3> QED BY <1>10, <3>1, <3>2, <3>3 DEF pred, succ
  <2>2. g.lists = IF h.mem[p + 1] = NULL THEN [h.lists EXCEPT ![ListOf(s[p])] = h.mem[p]] ELSE h.lists
    BY <1>8 DEF pred, succ, l
  <2> QED BY <1>9, <2>1, <2>2, Unlinked
<1> QED BY <1>1, <1>11, <1>12

\* m2 is m with p linked in between before and after, at the links of L and p.
PutIn(m, m2, L, p, before, after) ==
  \A q \in L \cup {p} :
    /\ m2[q] = (IF q = p THEN after ELSE IF q = before THEN p ELSE m[q])
    /\ m2[q + 1] = (IF q = p THEN before ELSE IF q = after THEN p ELSE m[q + 1])

\* The words and the heads after p is put in between before and after.
LEMMA Inserted ==
  ASSUME NEW m, NEW lists \in [Lists -> Addr], NEW s, NEW L, NEW R, Linked(m, lists, s, L, R),
         NEW p \in Starts, p \notin L, NEW before, NEW after,
         Neighbours(m, lists, s, L, ListOf(s[p]), before, after),
         NEW m2, NEW lists2, PutIn(m, m2, L, p, before, after),
         lists2 = IF before = NULL THEN [lists EXCEPT ![ListOf(s[p])] = p] ELSE lists
  PROVE  \E Q : Linked(m2, lists2, s, L \cup {p}, Q)
<1> DEFINE K == L \cup {p}
           l == ListOf(s[p])
           Q == [q \in Nat |-> IF q = p THEN IF after = NULL THEN 0 ELSE 2 * R[after] + 2
                                        ELSE 2 * R[q] + 1]
<1>1. /\ L \subseteq Starts /\ s \in [Nat -> Nat] /\ R \in [Nat -> Nat] /\ p # NULL
      /\ \A q \in L : q # NULL /\ q \in Nat /\ R[q] \in Nat /\ q # p
  BY StartsAre DEF Linked
<1>2. \A q \in L : m[q] # NULL =>
        m[q] \in L /\ m[m[q] + 1] = q /\ ListOf(s[m[q]]) = ListOf(s[q]) /\ R[m[q]] < R[q]
  BY DEF Linked, LinksDown
<1>3. \A q \in L : m[q + 1] # NULL => m[q + 1] \in L /\ m[m[q + 1]] = q
  BY DEF Linked, LinksUp
<1>4. \A q \in L : m[q + 1] = NULL => lists[ListOf(s[q])] = q
  BY DEF Linked, HeadsUp
<1>5. \A k \in Lists : lists[k] # NULL =>
        lists[k] \in L /\ ListOf(s[lists[k]]) = k /\ m[lists[k] + 1] = NULL
  BY DEF Linked, Heads
<1>6. /\ after # NULL => after \in L /\ ListOf(s[after]) = l
      /\ before = NULL => after = lists[l]
      /\ before # NULL => before \in L /\ ListOf(s[before]) = l /\ m[before] = after
  BY DEF Neighbours
<1>7. l \in Lists
  BY <1>1, ListOfIs, StartsAre
<1>8. after # NULL => after \in L /\ ListOf(s[after]) = l /\ m[after + 1] = before
  BY <1>2, <1>5, <1>7, <1>6
<1>9. \A q \in K : /\ m2[q] = (IF q = p THEN after ELSE IF q = before THEN p ELSE m[q])
                   /\ m2[q + 1] = (IF q = p THEN before ELSE IF q = after THEN p ELSE m[q + 1])
  BY DEF PutIn
<1>10. \A k \in Lists : lists2[k] = IF before = NULL /\ k = l THEN p ELSE lists[k]
  BY <1>7
<1>11. /\ Q \in [Nat -> Nat]
       /\ after # NULL => Q[after] < Q[p]
       /\ before # NULL => Q[p] < Q[before]
       /\ \A q, r \in L : R[q] < R[r] => Q[q] < Q[r]
  <2>1. p \in Nat
    BY StartsAre
  <2>2. after # NULL => Q[after] = 2 * R[after] + 1 /\ Q[p] = 2 * R[after] + 2 /\ R[after] \in Nat
    BY <1>1, <1>8, <2>1
  <2>3. after = NULL => Q[p] = 0
    BY <2>1
  <2>4. before # NULL => Q[before] = 2 * R[before] + 1 /\ R[before] \in Nat
    BY <1>1, <1>6
  <2>5. before # NULL /\ after # NULL => R[after] < R[before]
    BY <1>2, <1>6
  <2>6. before # NULL => Q[p] < Q[before]
    <3> HIDE DEF Q
    <3> QED BY <2>2, <2>3, <2>4, <2>5
  <2>7. \A q \in L : Q[q] = 2 * R[q] + 1
    BY <1>1
  <2>8. \A q, r \in L : R[q] < R[r] => Q[q] < Q[r]
    <3> HIDE DEF Q
    <3> QED BY <1>1, <2>7
  <2>9. ASSUME NEW q \in Nat PROVE Q[q] \in Nat
    BY <1>1, <1>8, <2>9
  <2>10. Q \in [Nat -> Nat]
    BY <2>9
  <2> HIDE DEF Q
  <2> QED BY <2>2, <2>6, <2>8, <2>10
<1> HIDE DEF l, Q
<1>12. LinksDown(m2, s, K, Q)
  <2> SUFFICES ASSUME NEW q \in K, m2[q] # NULL
               PROVE  m2[q] \in K /\ m2[m2[q] + 1] = q /\ ListOf(s[m2[q]]) = ListOf(s[q]) /\ Q[m2[q]] < Q[q]
    BY DEF LinksDown
  <2>1. CASE q = p
    <3>1. m2[q] = after /\ after \in L /\ m2[after + 1] = p
      BY <1>1, <1>6, <1>8, <1>9, <2>1
    <3> QED BY <1>8, <1>6, <1>11, <2>1, <3>1 DEF l
  <2>2. CASE q # p /\ q = before
    <3>1. m2[q] = p /\ m2[p + 1] = q
      BY <1>9, <2>2
    <3>2. before # NULL
      BY <1>1, <1>6, <2>2
    <3> QED BY <1>11, <1>6, <2>2, <3>1, <3>2 DEF l
  <2>3. CASE q # p /\ q # before
    <3>1. m2[q] = m[q] /\ q \in L /\ q # NULL /\ m[q] # NULL
      BY <1>1, <1>6, <1>9, <2>3
    <3>2. m[q] \in L /\ m[m[q] + 1] = q /\ ListOf(s[m[q]]) = ListOf(s[q]) /\ R[m[q]] < R[q]
      BY <1>2, <1>6, <3>1
    <3>3. m[q] # after
      BY <1>8, <1>6, <2>3, <3>1, <3>2
    <3>4. m2[m[q] + 1] = q
      BY <1>1, <1>6, <1>9, <3>2, <3>3
    <3> QED BY <1>11, <3>1, <3>2, <3>4
  <2> QED BY <2>1, <2>2, <2>3
<1>13. LinksUp(m2, s, K)
  <2> SUFFICES ASSUME NEW q \in K, m2[q + 1] # NULL
               PROVE  m2[q + 1] \in K /\ m2[m2[q + 1]] = q
    BY DEF LinksUp
  <2>1. CASE q = p
    BY <1>1, <1>6, <1>9, <2>1
  <2>2. CASE q # p /\ q = after
    BY <1>9, <2>2
  <2>3. CASE q # p /\ q # after
    <3>1. q \in L /\ m2[q + 1] = m[q + 1] /\ m[q + 1] \in L /\ m[m[q + 1]] = q
      BY <1>3, <1>6, <1>9, <2>3
    <3>2. m[q + 1] # before
      BY <1>1, <1>6, <2>3, <3>1
    <3> QED BY <1>1, <1>6, <1>9, <3>1, <3>2
  <2> QED BY <2>1, <2>2, <2>3
<1>14. HeadsUp(m2, lists2, s, K)
  <2> SUFFICES ASSUME NEW q \in K, m2[q + 1] = NULL
               PROVE  lists2[ListOf(s[q])] = q
    BY DEF HeadsUp
  <2>1. ListOf(s[q]) \in Lists
    BY <1>1, <1>6, ListOfIs, StartsAre
  <2>2. CASE q = p
    BY <1>7, <1>9, <1>10, <2>2 DEF l
  <2>3. CASE q # p
    <3>1. q \in L /\ q # after /\ m[q + 1] = NULL
      BY <1>1, <1>6, <1>9, <2>3
    <3>2. lists[ListOf(s[q])] = q
      BY <1>4, <3>1
    <3>3. ~(before = NULL /\ ListOf(s[q]) = l)
      BY <1>6, <3>1, <3>2
    <3> QED BY <1>10, <2>1, <3>2, <3>3
  <2> QED BY <2>2, <2>3
<1>15. Heads(m2, lists2, s, K)
  <2> SUFFICES ASSUME NEW k \in Lists, lists2[k] # NULL
               PROVE  lists2[k] \in K /\ ListOf(s[lists2[k]]) = k /\ m2[lists2[k] + 1] = NULL
    BY DEF Heads
  <2>1. CASE before = NULL /\ k = l
    BY <1>9, <1>10, <2>1 DEF l
  <2>2. CASE ~(before = NULL /\ k = l)
    <3>1. lists2[k] = lists[k] /\ lists[k] \in L /\ ListOf(s[lists[k]]) = k /\ m[lists[k] + 1] = NULL
      BY <1>5, <1>6, <1>10, <2>2
    <3>2. lists[k] # after
      BY <1>1, <1>6, <1>8, <2>2, <3>1
    <3> QED BY <1>1, <1>6, <1>9, <3>1, <3>2
  <2> QED BY <2>1, <2>2
<1>16. K \subseteq Starts
  BY <1>1
<1>17. Linked(m2, lists2, s, K, Q)
  BY <1>1, <1>6, <1>11, <1>12, <1>13, <1>14, <1>15, <1>16 DEF Linked
<1> QED BY <1>17

\* insert_node puts a block into the list of its size and writes no word but links.
LEMMA InsertNode ==
  ASSUME NEW h \in Heaps, NEW s, NEW L, NEW R, Linked(h.mem, h.lists, s, L, R), NEW p \in Starts, p \notin L,
         NEW size, size = s[p]
  PROVE  /\ OnlyIn(h, insert_node(h, p, size), LinkWords(L \cup {p}))
         /\ \E Q : Linked(insert_node(h, p, size).mem, insert_node(h, p, size).lists, s, L \cup {p}, Q)
<1> DEFINE l      == ListOf(size)
           spot   == Spot(h, l, InWords(Halved(size, l)))
           before == spot.before
           after  == spot.after
           one    == PUT(h, p, after)
           linked == PUT(one, p + 1, before)
           below  == IF after = NULL THEN linked ELSE PUT(linked, after + 1, p)
           g      == IF before = NULL THEN [below EXCEPT !.lists[l] = p] ELSE PUT(below, before, p)
<1>1. insert_node(h, p, size) = g
  BY DEF insert_node, LinkAt
<1>2. L \subseteq Starts /\ s \in [Nat -> Nat]
  BY DEF Linked
<1>3. l \in Lists /\ l = ListOf(s[p])
  BY <1>2, ListOfIs, StartsAre
<1> HIDE DEF l
<1>4. Neighbours(h.mem, h.lists, s, L, l, before, after)
  BY <1>3, SpotIs
<1>5. /\ after # NULL => after \in L /\ ListOf(s[after]) = l
      /\ before = NULL => after = h.lists[l]
      /\ before # NULL => before \in L /\ ListOf(s[before]) = l /\ h.mem[before] = after
  BY <1>4 DEF Neighbours
<1> HIDE DEF before, after
<1>6. NULL \in Word /\ NULL \in Addr
  BY MmAssumption DEF NULL, Addr, Word
<1>7. after \in Word /\ before \in Word /\ p \in Word /\ p \in Addr /\ p + 1 \in Addr
  BY <1>2, <1>5, <1>6, StartsAre
<1>8. /\ one \in Heaps /\ one.mem = [h.mem EXCEPT ![p] = after]
      /\ one.brk = h.brk /\ one.ptr = h.ptr /\ one.lists = h.lists
  BY <1>7, PutIs
<1> HIDE DEF one
<1>9. /\ linked \in Heaps /\ linked.mem = [one.mem EXCEPT ![p + 1] = before]
      /\ linked.brk = h.brk /\ linked.ptr = h.ptr /\ linked.lists = h.lists
  BY <1>7, <1>8, PutIs
<1> HIDE DEF linked
<1>10. /\ below \in Heaps
       /\ below.mem = (IF after = NULL THEN linked.mem ELSE [linked.mem EXCEPT ![after + 1] = p])
       /\ below.brk = h.brk /\ below.ptr = h.ptr /\ below.lists = h.lists
  <2>1. CASE after = NULL
    BY <1>9, <2>1
  <2>2. CASE after # NULL
    <3>1. after + 1 \in Addr
      BY <1>2, <1>5, <2>2, StartsAre
    <3> QED BY <1>7, <1>9, <2>2, <3>1, PutIs
  <2> QED BY <2>1, <2>2
<1> HIDE DEF below
<1>11. /\ g \in Heaps
       /\ g.mem = (IF before = NULL THEN below.mem ELSE [below.mem EXCEPT ![before] = p])
       /\ g.brk = h.brk /\ g.ptr = h.ptr
       /\ g.lists = IF before = NULL THEN [h.lists EXCEPT ![l] = p] ELSE h.lists
  <2>1. CASE before = NULL
    BY <1>3, <1>7, <1>10, <2>1, HeadIs
  <2>2. CASE before # NULL
    <3>1. before \in Addr
      BY <1>2, <1>5, <2>2, StartsAre
    <3> QED BY <1>7, <1>10, <2>2, <3>1, PutIs
  <2> QED BY <2>1, <2>2
<1>12. /\ g.mem \in [Addr -> Word] /\ h.mem \in [Addr -> Word] /\ below.mem \in [Addr -> Word]
       /\ one.mem \in [Addr -> Word] /\ linked.mem \in [Addr -> Word]
       /\ h.lists \in [Lists -> Addr]
  BY <1>8, <1>9, <1>10, <1>11 DEF Heaps
<1> HIDE DEF g
<1>13. ASSUME NEW a \in Addr
       PROVE  g.mem[a] = IF before # NULL /\ a = before THEN p
                         ELSE IF after # NULL /\ a = after + 1 THEN p
                         ELSE IF a = p + 1 THEN before
                         ELSE IF a = p THEN after ELSE h.mem[a]
  <2>1. one.mem[a] = IF a = p THEN after ELSE h.mem[a]
    BY <1>8, <1>12
  <2>2. linked.mem[a] = IF a = p + 1 THEN before ELSE one.mem[a]
    BY <1>9, <1>12
  <2>3. below.mem[a] = IF after # NULL /\ a = after + 1 THEN p ELSE linked.mem[a]
    BY <1>10, <1>12
  <2>4. g.mem[a] = IF before # NULL /\ a = before THEN p ELSE below.mem[a]
    BY <1>11, <1>12
  <2> QED BY <2>1, <2>2, <2>3, <2>4
<1>14. OnlyIn(h, g, LinkWords(L \cup {p}))
  <2>1. ASSUME NEW a \in Addr, a \notin LinkWords(L \cup {p}) PROVE g.mem[a] = h.mem[a]
    BY <1>5, <1>13, <2>1 DEF LinkWords
  <2> QED BY <1>11, <2>1 DEF OnlyIn
<1>15. \E Q : Linked(g.mem, g.lists, s, L \cup {p}, Q)
  <2>1. ASSUME NEW q \in L \cup {p}
        PROVE  /\ g.mem[q] = (IF q = p THEN after ELSE IF q = before THEN p ELSE h.mem[q])
               /\ g.mem[q + 1] = (IF q = p THEN before ELSE IF q = after THEN p ELSE h.mem[q + 1])
    <3>1. q \in Addr /\ q + 1 \in Addr /\ q # NULL /\ q \in Nat /\ p \in Nat /\ q \in Starts
      BY <1>2, StartsAre
    <3>2. /\ after # NULL => after \in Nat /\ q # after + 1 /\ after # p
          /\ before # NULL => before # q + 1 /\ before # p
          /\ q # p + 1 /\ q + 1 # p
      <4>1. after # NULL => after \in Starts /\ after # p
        BY <1>2, <1>5
      <4>2. before # NULL => before \in Starts /\ before # p
        BY <1>2, <1>5
      <4> QED BY <3>1, <4>1, <4>2, StartsAre
    <3>3. /\ after # NULL /\ q + 1 = after + 1 => q = after
          /\ q + 1 = p + 1 => q = p
      BY <3>1, <3>2
    <3>4. g.mem[q] = (IF q = p THEN after ELSE IF q = before THEN p ELSE h.mem[q])
      BY <1>13, <3>1, <3>2
    <3>5. g.mem[q + 1] = (IF q = p THEN before ELSE IF q = after THEN p ELSE h.mem[q + 1])
      BY <1>13, <3>1, <3>2, <3>3
    <3> QED BY <3>4, <3>5
  <2>2. PutIn(h.mem, g.mem, L, p, before, after)
    BY <2>1 DEF PutIn
  <2>3. /\ Neighbours(h.mem, h.lists, s, L, ListOf(s[p]), before, after)
        /\ g.lists = IF before = NULL THEN [h.lists EXCEPT ![ListOf(s[p])] = p] ELSE h.lists
    BY <1>3, <1>4, <1>11
  <2> QED BY <1>12, <2>3, <2>2, Inserted
<1> QED BY <1>1, <1>14, <1>15

-----------------------------------------------------------------------------
\* The blocks B of sizes s tile the heap from word 4 to brk.
Sized(B, s, brk) ==
  \A p \in B : /\ 4 <= p /\ p % 2 = 0 /\ 4 <= s[p] /\ s[p] % 2 = 0
               /\ p + s[p] <= brk /\ p + s[p] \in B \cup {brk}
Apart(B, s) == \A p, q \in B : p < q => p + s[p] <= q
Reached(B, s, brk) == \A q \in B \cup {brk} : q = 4 \/ \E p \in B : p + s[p] = q
Layout(B, s, brk) ==
  /\ B \subseteq Nat /\ s \in [Nat -> Nat]
  /\ brk \in 4 .. MAX_HEAP /\ brk % 2 = 0 /\ 4 \in B \cup {brk}
  /\ Sized(B, s, brk) /\ Apart(B, s) /\ Reached(B, s, brk)

\* Both tags of each block say its size and whether it is in F, the free ones;
\* the prologue's and the epilogue's are those mm_init and extend_heap wrote.
Bit(p, F) == IF p \in F THEN 0 ELSE 1
Tags(m, B, s, F, brk) ==
  /\ \A p \in B : m[p - 1] = s[p] + Bit(p, F) /\ m[p + s[p] - 2] = s[p] + Bit(p, F)
  /\ m[1] = 3 /\ m[2] = 3 /\ m[brk - 1] = 1

Shape(h, B, s, F) ==
  h \in Heaps /\ F \subseteq B /\ Layout(B, s, h.brk) /\ Tags(h.mem, B, s, F, h.brk)
FreeList(h, s, L) == \E R : Linked(h.mem, h.lists, s, L, R)

\* No payload word of a block of A differs.
Kept(h, g, s, A) == \A q \in A : \A a \in q .. q + s[q] - 3 : g.mem[a] = h.mem[a]

\* A block is aligned, of at least four words, and ends where another one or the epilogue is.
LEMMA BlockIs ==
  ASSUME NEW B, NEW s, NEW brk, Layout(B, s, brk), NEW p \in B
  PROVE  /\ p \in Nat /\ s[p] \in Nat /\ brk \in Nat /\ p \in Starts
         /\ 4 <= p /\ 4 <= s[p] /\ p + s[p] <= brk /\ brk <= MAX_HEAP
         /\ p % 2 = 0 /\ s[p] % 2 = 0 /\ brk % 2 = 0 /\ p # brk
         /\ p + s[p] \in B \cup {brk}
<1>1. MAX_HEAP \in Nat
  BY MmAssumption
<1> QED BY <1>1 DEF Layout, Sized, Starts

\* Blocks do not overlap.
LEMMA BlocksApart ==
  ASSUME NEW B, NEW s, NEW brk, Layout(B, s, brk), NEW p \in B, NEW q \in B
  PROVE  p = q \/ p + s[p] <= q \/ q + s[q] <= p
<1>1. p \in Nat /\ q \in Nat
  BY BlockIs
<1> QED BY <1>1 DEF Layout, Apart

\* A block's links are no tags, and no part of another block's payload.
LEMMA LinksAreNoTags ==
  ASSUME NEW B, NEW s, NEW brk, Layout(B, s, brk), NEW p \in B, NEW q \in B
  PROVE  /\ p # q - 1 /\ p # q + s[q] - 2 /\ p # 1 /\ p # 2 /\ p # brk - 1
         /\ p + 1 # q - 1 /\ p + 1 # q + s[q] - 2 /\ p + 1 # 1 /\ p + 1 # 2 /\ p + 1 # brk - 1
         /\ p # q => p \notin q .. q + s[q] - 3 /\ p + 1 \notin q .. q + s[q] - 3
<1>1. /\ p \in Nat /\ s[p] \in Nat /\ 4 <= p /\ 4 <= s[p] /\ p + s[p] <= brk /\ brk \in Nat /\ p % 2 = 0
      /\ q \in Nat /\ s[q] \in Nat /\ 4 <= q /\ 4 <= s[q] /\ q % 2 = 0 /\ s[q] % 2 = 0
  BY BlockIs
<1>2. p = q \/ p + s[p] <= q \/ q + s[q] <= p
  BY BlocksApart
<1>3. p # q - 1 /\ p + 1 # q + s[q] - 2
  BY <1>1
<1> QED BY <1>1, <1>2, <1>3

\* What the macros read of a block, of the epilogue and of the block below.
LEMMA TagsRead ==
  ASSUME NEW h, NEW B, NEW s, NEW F, Shape(h, B, s, F), NEW p \in B
  PROVE  /\ GET_SIZE(h, HDRP(p)) = s[p]
         /\ GET_ALLOC(h, HDRP(p)) = Bit(p, F)
         /\ NEXT_BLKP(h, p) = p + s[p]
<1>1. s[p] \in Nat /\ s[p] % 2 = 0
  BY BlockIs DEF Shape
<1>2. h.mem[p - 1] = s[p] + Bit(p, F)
  BY DEF Shape, Tags
<1> QED BY <1>1, <1>2 DEF GET_SIZE, GET_ALLOC, NEXT_BLKP, HDRP, Bit

\* What the header at a block or at the epilogue tells coalesce and mm_realloc.
LEMMA NextRead ==
  ASSUME NEW h, NEW B, NEW s, NEW F, Shape(h, B, s, F), NEW q \in B \cup {h.brk}
  PROVE  /\ (GET_ALLOC(h, HDRP(q)) = 0) <=> q \in F
         /\ GET_SIZE(h, HDRP(q)) = IF q \in B THEN s[q] ELSE 0
<1>1. CASE q \in B
  BY <1>1, TagsRead DEF Bit
<1>2. CASE q \notin B
  <2>1. h.mem[q - 1] = 1 /\ q \notin F
    BY <1>2 DEF Shape, Tags
  <2> QED BY <1>2, <2>1 DEF GET_ALLOC, GET_SIZE, HDRP
<1> QED BY <1>1, <1>2

\* What the footer below a block, or the prologue's, tells coalesce.
LEMMA PrevRead ==
  ASSUME NEW h, NEW B, NEW s, NEW F, Shape(h, B, s, F), NEW p \in B \cup {h.brk}
  PROVE  IF p = 4 THEN GET_ALLOC(h, HDRP(PREV_BLKP(h, p))) = 1
         ELSE /\ PREV_BLKP(h, p) \in B /\ PREV_BLKP(h, p) + s[PREV_BLKP(h, p)] = p
              /\ (GET_ALLOC(h, HDRP(PREV_BLKP(h, p))) = 0) <=> PREV_BLKP(h, p) \in F
<1>1. CASE p = 4
  <2>1. h.mem[1] = 3 /\ h.mem[2] = 3
    BY DEF Shape, Tags
  <2>2. PREV_BLKP(h, 4) = 2
    BY <2>1 DEF PREV_BLKP, GET_SIZE
  <2> QED BY <1>1, <2>1, <2>2 DEF GET_ALLOC, HDRP
<1>2. CASE p # 4
  <2>1. PICK q \in B : q + s[q] = p
    BY <1>2 DEF Shape, Layout, Reached
  <2>2. s[q] \in Nat /\ s[q] % 2 = 0 /\ q \in Nat
    BY BlockIs DEF Shape
  <2>3. h.mem[p - 2] = s[q] + Bit(q, F)
    BY <2>1, <2>2 DEF Shape, Tags
  <2>4. GET_SIZE(h, p - 2) = s[q]
    BY <2>2, <2>3 DEF GET_SIZE, Bit
  <2>5. PREV_BLKP(h, p) = q
    BY <2>1, <2>2, <2>4 DEF PREV_BLKP
  <2> QED BY <1>2, <2>1, <2>5, NextRead
<1> QED BY <1>1, <1>2

\* Writing links of listed blocks keeps the tags and the payloads of the others.
LEMMA LinksKeep ==
  ASSUME NEW h, NEW B, NEW s, NEW F, Shape(h, B, s, F), NEW L \in SUBSET B,
         NEW g, OnlyIn(h, g, LinkWords(L))
  PROVE  Shape(g, B, s, F) /\ Kept(h, g, s, B \ L)
<1>1. Layout(B, s, h.brk) /\ MAX_HEAP \in Nat
  BY MmAssumption DEF Shape
<1>2. \A a \in Addr : (\A q \in L : a # q /\ a # q + 1) => g.mem[a] = h.mem[a]
  BY DEF OnlyIn, LinkWords
<1>3. ASSUME NEW p \in B PROVE g.mem[p - 1] = h.mem[p - 1] /\ g.mem[p + s[p] - 2] = h.mem[p + s[p] - 2]
  <2>1. p - 1 \in Addr /\ p + s[p] - 2 \in Addr
    BY <1>1, BlockIs DEF Addr
  <2>2. \A q \in L : q # p - 1 /\ q + 1 # p - 1 /\ q # p + s[p] - 2 /\ q + 1 # p + s[p] - 2
    BY <1>1, LinksAreNoTags
  <2> QED BY <1>2, <2>1, <2>2
<1>4. g.mem[1] = 3 /\ g.mem[2] = 3 /\ g.mem[h.brk - 1] = 1
  <2>1. 1 \in Addr /\ 2 \in Addr /\ h.brk - 1 \in Addr
    BY <1>1 DEF Layout, Addr
  <2>2. \A q \in L : q # 1 /\ q # 2 /\ q # h.brk - 1 /\ q + 1 # 1 /\ q + 1 # 2 /\ q + 1 # h.brk - 1
    BY <1>1, LinksAreNoTags
  <2> QED BY <1>2, <2>1, <2>2 DEF Shape, Tags
<1>5. Kept(h, g, s, B \ L)
  <2> SUFFICES ASSUME NEW q \in B \ L, NEW a \in q .. q + s[q] - 3 PROVE g.mem[a] = h.mem[a]
    BY DEF Kept
  <2>1. a \in Addr
    BY <1>1, BlockIs DEF Addr
  <2>2. \A p \in L : a # p /\ a # p + 1
    BY <1>1, LinksAreNoTags
  <2> QED BY <1>2, <2>1, <2>2
<1> QED BY <1>3, <1>4, <1>5 DEF Shape, Tags, OnlyIn

-----------------------------------------------------------------------------
\* g is h but for the two tags of a block at p.
Tagged(h, g, p, size, c) ==
  /\ OnlyIn(h, g, {p - 1, p + size - 2}) /\ g.lists = h.lists
  /\ g.mem[p - 1] = size + c /\ g.mem[p + size - 2] = size + c

\* Tag writes the two words of the block's tags.
LEMMA TagIs ==
  ASSUME NEW h \in Heaps, NEW p \in Nat, 4 <= p, NEW size \in Nat, 4 <= size, size % 2 = 0,
         p + size <= MAX_HEAP, NEW c \in {0, 1}
  PROVE  Tagged(h, Tag(h, p, size, c), p, size, c)
<1> DEFINE one == PUT(h, p - 1, size + c)
           two == PUT(one, p + size - 2, size + c)
<1>1. MAX_HEAP \in Nat /\ 8 <= MAX_HEAP /\ MaxBlocks \in Nat
  BY MmAssumption
<1>2. p - 1 \in Addr /\ p + size - 2 \in Addr /\ size + c \in Word /\ p - 1 # p + size - 2
  BY <1>1 DEF Addr, Word
<1>3. /\ one \in Heaps /\ one.mem = [h.mem EXCEPT ![p - 1] = size + c]
      /\ one.brk = h.brk /\ one.lists = h.lists /\ one.ptr = h.ptr
  BY <1>2, PutIs
<1>4. h.mem \in [Addr -> Word] /\ one.mem \in [Addr -> Word]
  BY <1>3 DEF Heaps
<1> HIDE DEF one
<1>5. one.mem[p - 1] = size + c
  BY <1>2, <1>3, <1>4
<1>6. GET_SIZE(one, p - 1) = size
  BY <1>5 DEF GET_SIZE
<1>7. Tag(h, p, size, c) = two
  <2>1. FTRP(one, p) = p + size - 2
    BY <1>6 DEF FTRP, HDRP
  <2> QED BY <2>1 DEF Tag, HDRP, PACK, one
<1>8. /\ two \in Heaps /\ two.mem = [one.mem EXCEPT ![p + size - 2] = size + c]
      /\ two.brk = h.brk /\ two.lists = h.lists /\ two.ptr = h.ptr
  BY <1>2, <1>3, PutIs
<1> HIDE DEF two
<1>9. /\ \A a \in Addr : a \notin {p - 1, p + size - 2} => two.mem[a] = h.mem[a]
      /\ two.mem[p - 1] = size + c /\ two.mem[p + size - 2] = size + c
  BY <1>2, <1>3, <1>4, <1>5, <1>8
<1> QED BY <1>7, <1>8, <1>9 DEF OnlyIn, Tagged

\* The blocks of L have the same links and sizes.
SameLinks(h, g, s, s2, L) ==
  /\ g.lists = h.lists
  /\ \A q \in L : g.mem[q] = h.mem[q] /\ g.mem[q + 1] = h.mem[q + 1] /\ s2[q] = s[q]

\* The lists stay linked while nobody writes their links or changes their sizes.
LEMMA StaysLinked ==
  ASSUME NEW h, NEW s, NEW L, FreeList(h, s, L), NEW g, NEW s2 \in [Nat -> Nat], SameLinks(h, g, s, s2, L)
  PROVE  FreeList(g, s2, L)
<1>1. PICK R : Linked(h.mem, h.lists, s, L, R)
  BY DEF FreeList
<1>2. LinksDown(g.mem, s2, L, R)
  <2> SUFFICES ASSUME NEW p \in L, g.mem[p] # NULL
               PROVE  /\ g.mem[p] \in L /\ g.mem[g.mem[p] + 1] = p
                      /\ ListOf(s2[g.mem[p]]) = ListOf(s2[p]) /\ R[g.mem[p]] < R[p]
    BY DEF LinksDown
  <2>1. g.mem[p] = h.mem[p] /\ s2[p] = s[p]
    BY DEF SameLinks
  <2>2. /\ h.mem[p] \in L /\ h.mem[h.mem[p] + 1] = p
        /\ ListOf(s[h.mem[p]]) = ListOf(s[p]) /\ R[h.mem[p]] < R[p]
    BY <1>1, <2>1 DEF Linked, LinksDown
  <2>3. g.mem[h.mem[p] + 1] = h.mem[h.mem[p] + 1] /\ s2[h.mem[p]] = s[h.mem[p]]
    BY <2>2 DEF SameLinks
  <2> QED BY <2>1, <2>2, <2>3
<1>3. LinksUp(g.mem, s2, L)
  BY <1>1 DEF SameLinks, Linked, LinksUp
<1>4. HeadsUp(g.mem, g.lists, s2, L)
  BY <1>1 DEF SameLinks, Linked, HeadsUp
<1>5. Heads(g.mem, g.lists, s2, L)
  BY <1>1 DEF SameLinks, Linked, Heads
<1>6. Linked(g.mem, g.lists, s2, L, R)
  BY <1>1, <1>2, <1>3, <1>4, <1>5 DEF Linked
<1> QED BY <1>6 DEF FreeList

\* The blocks from p up to e become one.
Between(B, p, e) == {q \in B : p <= q /\ q < e}

\* Blocks below p, from p up to e, and from e on: no block straddles p or e.
LEMMA BetweenEnds ==
  ASSUME NEW B, NEW s, NEW brk, Layout(B, s, brk), NEW p \in B, NEW e \in B \cup {brk}, p < e
  PROVE  /\ e \in Nat /\ e % 2 = 0 /\ e <= brk
         /\ \A q \in B : q + s[q] <= p \/ (p <= q /\ q + s[q] <= e) \/ e <= q
         /\ p + s[p] <= e /\ p \in Between(B, p, e)
<1>1. e \in Nat /\ e % 2 = 0 /\ e <= brk /\ p \in Nat /\ brk \in Nat
  <2>1. \A q \in B : q \in Nat /\ s[q] \in Nat /\ q % 2 = 0 /\ q + s[q] <= brk
    BY BlockIs
  <2>2. brk \in Nat /\ brk % 2 = 0
    BY MmAssumption DEF Layout
  <2> QED BY <2>1, <2>2
<1>2. ASSUME NEW q \in B PROVE q + s[q] <= p \/ (p <= q /\ q + s[q] <= e) \/ e <= q
  <2>1. q \in Nat /\ s[q] \in Nat /\ 4 <= s[q] /\ q + s[q] <= brk
    BY BlockIs
  <2>2. q < e => q + s[q] <= e
    BY <2>1, <1>1, BlocksApart, BlockIs
  <2>3. p = q \/ q + s[q] <= p \/ p + s[p] <= q
    BY BlocksApart
  <2>4. s[p] \in Nat
    BY BlockIs
  <2> QED BY <1>1, <2>1, <2>2, <2>3, <2>4
<1>3. p + s[p] <= e
  <2>1. s[p] \in Nat /\ 4 <= s[p]
    BY BlockIs
  <2> QED BY <1>1, <1>2, <2>1
<1> QED BY <1>1, <1>2, <1>3 DEF Between

\* Blocks that fill the words from p up to e may be one block.
LEMMA MergeLayout ==
  ASSUME NEW B, NEW s, NEW brk, Layout(B, s, brk), NEW p \in B, NEW e \in B \cup {brk}, p < e
  PROVE  Layout((B \ Between(B, p, e)) \cup {p}, [s EXCEPT ![p] = e - p], brk)
<1> DEFINE X  == Between(B, p, e)
           B2 == (B \ X) \cup {p}
           s2 == [s EXCEPT ![p] = e - p]
<1>1. /\ e \in Nat /\ e % 2 = 0 /\ e <= brk /\ p + s[p] <= e /\ p \in X /\ X \subseteq B
      /\ \A q \in B : q + s[q] <= p \/ (p <= q /\ q + s[q] <= e) \/ e <= q
  BY BetweenEnds DEF Between
<1>2. \A q \in B : /\ q \in Nat /\ s[q] \in Nat /\ brk \in Nat /\ 4 <= q /\ 4 <= s[q] /\ q + s[q] <= brk
                   /\ q % 2 = 0 /\ s[q] % 2 = 0 /\ q + s[q] \in B \cup {brk} /\ q # brk
  BY BlockIs
<1>3. \A q \in B : q \in X <=> p <= q /\ q < e
  BY DEF Between
<1>4. e - p \in Nat /\ 4 <= e - p /\ (e - p) % 2 = 0
  BY <1>1, <1>2
<1>5. s2 \in [Nat -> Nat] /\ s2[p] = e - p /\ \A q \in B : q # p => s2[q] = s[q]
  BY <1>2, <1>4 DEF Layout
<1>6. B2 \subseteq B /\ p \in B2 /\ e \in B2 \cup {brk}
  BY <1>1, <1>3
<1>7. \A q \in B : q \notin X => q + s[q] <= p \/ e <= q
  BY <1>1, <1>2, <1>3
<1> HIDE DEF X, s2
<1>8. Sized(B2, s2, brk)
  <2> SUFFICES ASSUME NEW q \in B2
               PROVE  /\ 4 <= q /\ q % 2 = 0 /\ 4 <= s2[q] /\ s2[q] % 2 = 0
                      /\ q + s2[q] <= brk /\ q + s2[q] \in B2 \cup {brk}
    BY DEF Sized
  <2>1. CASE q = p
    <3>1. p + s2[p] = e
      BY <1>1, <1>2, <1>5
    <3> QED BY <1>1, <1>2, <1>4, <1>5, <1>6, <2>1, <3>1
  <2>2. CASE q # p
    <3>1. q \in B /\ q \notin X /\ s2[q] = s[q]
      BY <1>5, <2>2
    <3>2. q + s[q] \in B \cup {brk}
      BY <1>2, <3>1
    <3>3. q + s[q] \in X => q + s[q] = p
      BY <1>1, <1>2, <1>3, <1>7, <3>1, <3>2
    <3> QED BY <1>2, <3>1, <3>2, <3>3
  <2> QED BY <2>1, <2>2
<1>9. Apart(B2, s2)
  <2> SUFFICES ASSUME NEW q \in B2, NEW r \in B2, q < r PROVE q + s2[q] <= r
    BY DEF Apart
  <2>1. CASE q = p
    <3>1. r \in B /\ r \notin X
      BY <1>1, <1>2, <2>1
    <3>2. e <= r
      BY <1>1, <1>2, <1>3, <2>1, <3>1
    <3> QED BY <1>1, <1>2, <1>5, <2>1, <3>2
  <2>2. CASE q # p
    BY <1>5, <1>6, <2>2 DEF Layout, Apart
  <2> QED BY <2>1, <2>2
<1>10. Reached(B2, s2, brk)
  <2> SUFFICES ASSUME NEW r \in B2 \cup {brk}, r # 4 PROVE \E q \in B2 : q + s2[q] = r
    BY DEF Reached
  <2>1. PICK q \in B : q + s[q] = r
    BY <1>6 DEF Layout, Reached
  <2>2. CASE q \notin X
    <3>1. q \in B2 /\ q # p
      BY <1>1, <2>2
    <3> QED BY <1>5, <2>1, <3>1
  <2>3. CASE q \in X
    <3>1. p <= q /\ q < e /\ q < r /\ r <= e
      BY <1>1, <1>2, <1>3, <2>1, <2>3
    <3>2. r \notin X
      <4>1. r # p
        BY <1>1, <1>2, <3>1
      <4>2. brk \notin X
        BY <1>1, <1>2
      <4> QED BY <4>1, <4>2
    <3>3. r = e
      BY <1>1, <1>2, <1>3, <1>6, <3>1, <3>2
    <3>4. p + s2[p] = r
      BY <1>1, <1>2, <1>5, <3>3
    <3> QED BY <3>4
  <2> QED BY <2>2, <2>3
<1>11. 4 \in B2 \cup {brk}
  <2>1. 4 \in X => p = 4
    BY <1>1, <1>2, <1>3
  <2> QED BY <2>1 DEF Layout
<1>12. Layout(B2, s2, brk)
  BY <1>5, <1>6, <1>8, <1>9, <1>10, <1>11 DEF Layout
<1> QED BY <1>12 DEF X, s2

\* g is h with the blocks X made one of size words at p, free if c is 0.
Merged(h, B, s, F, L, p, X, size, c, g) ==
  LET s2 == [s EXCEPT ![p] = size]
  IN  /\ Shape(g, (B \ X) \cup {p}, s2, (F \ X) \cup (IF c = 0 THEN {p} ELSE {}))
      /\ FreeList(g, s2, L) /\ Kept(h, g, s, (B \ X) \cup {p})
      /\ g.brk = h.brk /\ g.ptr = h.ptr

\* A pair of tags around the blocks from p up to e makes them one.
LEMMA Merge ==
  ASSUME NEW h, NEW B, NEW s, NEW F, Shape(h, B, s, F), NEW L \in SUBSET B, FreeList(h, s, L),
         NEW p \in B, NEW e \in B \cup {h.brk}, p < e, L \cap Between(B, p, e) = {},
         NEW size, size = e - p, NEW c \in {0, 1}
  PROVE  Merged(h, B, s, F, L, p, Between(B, p, e), size, c, Tag(h, p, size, c))
<1> DEFINE g  == Tag(h, p, size, c)
           X  == Between(B, p, e)
           s2 == [s EXCEPT ![p] = size]
           B2 == (B \ X) \cup {p}
           F2 == (F \ X) \cup (IF c = 0 THEN {p} ELSE {})
<1>1. Layout(B, s, h.brk) /\ h \in Heaps /\ F \subseteq B /\ Tags(h.mem, B, s, F, h.brk) /\ MAX_HEAP \in Nat
  BY MmAssumption DEF Shape
<1>2. /\ e \in Nat /\ e % 2 = 0 /\ e <= h.brk /\ p + s[p] <= e /\ p \in X /\ X \subseteq B
      /\ \A q \in B : q + s[q] <= p \/ (p <= q /\ q + s[q] <= e) \/ e <= q
  BY <1>1, BetweenEnds DEF Between
<1>3. \A q \in B : /\ q \in Nat /\ s[q] \in Nat /\ h.brk \in Nat /\ 4 <= q /\ 4 <= s[q] /\ q + s[q] <= h.brk
                   /\ h.brk <= MAX_HEAP /\ q % 2 = 0 /\ s[q] % 2 = 0
  BY <1>1, BlockIs
<1>4. Layout(B2, s2, h.brk)
  BY <1>1, MergeLayout
<1>5. size \in Nat /\ 4 <= size /\ size % 2 = 0 /\ p + size = e /\ p + size <= MAX_HEAP
  BY <1>1, <1>2, <1>3
<1>6. /\ OnlyIn(h, g, {p - 1, p + size - 2}) /\ g.lists = h.lists
      /\ g.mem[p - 1] = size + c /\ g.mem[p + size - 2] = size + c
  <2>1. p \in Nat /\ 4 <= p /\ h \in Heaps
    BY <1>1, <1>3
  <2>2. size \in Nat /\ 4 <= size /\ size % 2 = 0 /\ p + size <= MAX_HEAP
    BY <1>5
  <2>3. Tagged(h, g, p, size, c)
    BY <2>1, <2>2, TagIs
  <2> HIDE DEF g
  <2> QED BY <2>3 DEF Tagged
<1>7. s2 \in [Nat -> Nat] /\ s2[p] = size /\ \A q \in B : q # p => s2[q] = s[q]
  BY <1>1, <1>3, <1>5 DEF Layout
<1>8. \A q \in B : q \in X <=> p <= q /\ q < e
  BY DEF Between
<1>9. \A a \in Addr : a # p - 1 /\ a # e - 2 => g.mem[a] = h.mem[a]
  <2>1. p + size - 2 = e - 2
    BY <1>2, <1>3, <1>5
  <2> HIDE DEF g
  <2> QED BY <1>6, <2>1 DEF OnlyIn
<1>10. L \cap X = {}
  OBVIOUS
<1> HIDE DEF g, X, s2
<1>11. ASSUME NEW q \in B, q \notin X
       PROVE  g.mem[q - 1] = h.mem[q - 1] /\ g.mem[q + s[q] - 2] = h.mem[q + s[q] - 2]
  <2>1. q + s[q] <= p \/ e <= q
    BY <1>2, <1>3, <1>8, <1>11
  <2>2. q - 1 \in Addr /\ q + s[q] - 2 \in Addr
    BY <1>1, <1>3 DEF Addr
  <2>3. q - 1 # p - 1 /\ q + s[q] - 2 # e - 2
    BY <1>2, <1>3, <1>11, <2>1
  <2>4. q - 1 # e - 2 /\ q + s[q] - 2 # p - 1
    BY <1>2, <1>3
  <2> QED BY <1>9, <2>2, <2>3, <2>4
<1>12. ASSUME NEW q \in B2
       PROVE  g.mem[q - 1] = s2[q] + Bit(q, F2) /\ g.mem[q + s2[q] - 2] = s2[q] + Bit(q, F2)
  <2>1. CASE q = p
    <3>1. Bit(p, F2) = c
      BY <1>2 DEF Bit
    <3> QED BY <1>5, <1>6, <1>7, <2>1, <3>1
  <2>2. CASE q # p
    <3>1. q \in B /\ q \notin X /\ s2[q] = s[q] /\ Bit(q, F2) = Bit(q, F)
      BY <1>7, <2>2 DEF Bit
    <3> QED BY <1>1, <1>11, <3>1 DEF Tags
  <2> QED BY <2>1, <2>2
<1>13. g.mem[1] = 3 /\ g.mem[2] = 3 /\ g.mem[h.brk - 1] = 1
  <2>1. 1 \in Addr /\ 2 \in Addr /\ h.brk - 1 \in Addr
    BY <1>1, <1>3 DEF Addr
  <2>2. 1 # p - 1 /\ 2 # p - 1 /\ 1 # e - 2 /\ 2 # e - 2 /\ h.brk - 1 # p - 1
    BY <1>2, <1>3
  <2>3. h.brk - 1 # e - 2
    BY <1>1, <1>2 DEF Layout
  <2> QED BY <1>1, <1>9, <2>1, <2>2, <2>3 DEF Tags
<1>14. Shape(g, B2, s2, F2)
  <2>1. F2 \subseteq B2
    BY <1>1
  <2>2. g \in Heaps /\ g.brk = h.brk
    BY <1>6 DEF OnlyIn
  <2> HIDE DEF B2, F2
  <2> QED BY <1>4, <1>12, <1>13, <2>1, <2>2 DEF Shape, Tags
<1>15. FreeList(g, s2, L)
  <2>1. ASSUME NEW q \in L PROVE g.mem[q] = h.mem[q] /\ g.mem[q + 1] = h.mem[q + 1] /\ s2[q] = s[q]
    <3>1. q \in B /\ q \notin X /\ q # p
      BY <1>2, <1>10
    <3>2. q + s[q] <= p \/ e <= q
      BY <1>2, <1>3, <1>8, <3>1
    <3>3. q \in Addr /\ q + 1 \in Addr
      BY <1>1, <1>3, <3>1 DEF Addr
    <3>4. q # p - 1 /\ q # e - 2 /\ q + 1 # p - 1 /\ q + 1 # e - 2
      BY <1>2, <1>3, <3>1, <3>2
    <3> QED BY <1>7, <1>9, <3>1, <3>3, <3>4
  <2>2. SameLinks(h, g, s, s2, L)
    BY <1>6, <2>1 DEF SameLinks
  <2> QED BY <1>7, <2>2, StaysLinked
<1>16. Kept(h, g, s, B2)
  <2> SUFFICES ASSUME NEW q \in B2, NEW a \in q .. q + s[q] - 3 PROVE g.mem[a] = h.mem[a]
    BY DEF Kept
  <2>1. q \in B /\ (q = p \/ q \notin X)
    BY <1>2
  <2>2. q = p \/ q + s[q] <= p \/ e <= q
    BY <1>2, <1>3, <1>8, <2>1
  <2>3. a \in Addr
    BY <1>1, <1>3, <2>1 DEF Addr
  <2>4. a # p - 1 /\ a # e - 2
    BY <1>2, <1>3, <2>1, <2>2
  <2> QED BY <1>9, <2>3, <2>4
<1> QED BY <1>6, <1>14, <1>15, <1>16 DEF g, X, s2, OnlyIn, Merged

\* A block becomes two.
LEMMA DivideLayout ==
  ASSUME NEW B, NEW s, NEW brk, Layout(B, s, brk), NEW p \in B, NEW n \in Nat, NEW k \in Nat,
         n + k = s[p], 4 <= n, 4 <= k, n % 2 = 0, k % 2 = 0
  PROVE  /\ Layout(B \cup {p + n}, [s EXCEPT ![p] = n, ![p + n] = k], brk)
         /\ p + n \notin B
<1> DEFINE r  == p + n
           B2 == B \cup {r}
           s2 == [s EXCEPT ![p] = n, ![r] = k]
<1>1. \A q \in B : /\ q \in Nat /\ s[q] \in Nat /\ brk \in Nat /\ 4 <= q /\ 4 <= s[q] /\ q + s[q] <= brk
                   /\ q % 2 = 0 /\ s[q] % 2 = 0 /\ q + s[q] \in B \cup {brk} /\ q # brk
  BY BlockIs
<1>2. \A q \in B : p = q \/ p + s[p] <= q \/ q + s[q] <= p
  BY BlocksApart
<1>3. r \in Nat /\ r % 2 = 0 /\ 4 <= r /\ p < r /\ r + k = p + s[p] /\ p + n = r /\ p \in Nat
  BY <1>1
<1>4. r \notin B
  BY <1>1, <1>2, <1>3
<1>5. s2 \in [Nat -> Nat] /\ s2[p] = n /\ s2[r] = k /\ \A q \in B : q # p => s2[q] = s[q]
  BY <1>1, <1>3, <1>4 DEF Layout
<1> HIDE DEF r, s2
<1>6. Sized(B2, s2, brk)
  <2> SUFFICES ASSUME NEW q \in B2
               PROVE  /\ 4 <= q /\ q % 2 = 0 /\ 4 <= s2[q] /\ s2[q] % 2 = 0
                      /\ q + s2[q] <= brk /\ q + s2[q] \in B2 \cup {brk}
    BY DEF Sized
  <2>1. CASE q = p
    BY <1>1, <1>3, <1>5, <2>1
  <2>2. CASE q = r
    BY <1>1, <1>3, <1>5, <2>2
  <2>3. CASE q # p /\ q # r
    BY <1>1, <1>5, <2>3
  <2> QED BY <2>1, <2>2, <2>3
<1>7. Apart(B2, s2)
  <2> SUFFICES ASSUME NEW q \in B2, NEW t \in B2, q < t PROVE q + s2[q] <= t
    BY DEF Apart
  <2>1. CASE q = p
    BY <1>1, <1>2, <1>3, <1>5, <2>1
  <2>2. CASE q = r
    <3>1. t \in B /\ t # p
      BY <1>3, <2>2
    <3>2. t \in Nat /\ s[t] \in Nat /\ s[p] \in Nat
      BY <1>1, <3>1
    <3>3. p + s[p] <= t
      BY <1>2, <1>3, <2>2, <3>1, <3>2
    <3> QED BY <1>3, <1>5, <2>2, <3>3
  <2>3. CASE q # p /\ q # r /\ t = r
    BY <1>1, <1>2, <1>3, <1>5, <2>3
  <2>4. CASE q # p /\ q # r /\ t # r
    BY <1>5, <2>4 DEF Layout, Apart
  <2> QED BY <2>1, <2>2, <2>3, <2>4
<1>8. Reached(B2, s2, brk)
  <2> SUFFICES ASSUME NEW t \in B2 \cup {brk}, t # 4 PROVE \E q \in B2 : q + s2[q] = t
    BY DEF Reached
  <2>1. CASE t = r
    BY <1>3, <1>5, <2>1
  <2>2. CASE t # r
    <3>1. PICK q \in B : q + s[q] = t
      BY <2>2 DEF Layout, Reached
    <3>2. CASE q = p
      BY <1>3, <1>5, <3>1, <3>2
    <3>3. CASE q # p
      BY <1>5, <3>1, <3>3
    <3> QED BY <3>2, <3>3
  <2> QED BY <2>1, <2>2
<1>9. Layout(B2, s2, brk)
  BY <1>1, <1>3, <1>5, <1>6, <1>7, <1>8 DEF Layout
<1> QED BY <1>4, <1>9 DEF r, s2

\* The blocks of n words at p and of k words at r make up one of whole words.
Cut(p, r, n, k, whole) ==
  /\ n \in Nat /\ 4 <= n /\ n % 2 = 0 /\ k \in Nat /\ 4 <= k /\ k % 2 = 0
  /\ r = p + n /\ n + k = whole

\* g is h with the block at p made two, of n and of k words, free if c and if d is 0.
Divided(h, B, s, F, L, p, r, n, k, c, d, g) ==
  LET s2 == [s EXCEPT ![p] = n, ![r] = k]
  IN  /\ Shape(g, B \cup {r}, s2,
               (F \ {p}) \cup (IF c = 0 THEN {p} ELSE {}) \cup (IF d = 0 THEN {r} ELSE {}))
      /\ FreeList(g, s2, L) /\ Kept(h, g, s, B \ {p})
      /\ g.brk = h.brk /\ g.ptr = h.ptr

\* Two pairs of tags make one block two.
LEMMA Divide ==
  ASSUME NEW h, NEW B, NEW s, NEW F, Shape(h, B, s, F), NEW L \in SUBSET B, FreeList(h, s, L),
         NEW p \in B, p \notin L, NEW n, NEW k, NEW r, Cut(p, r, n, k, s[p]),
         NEW c \in {0, 1}, NEW d \in {0, 1}
  PROVE  Divided(h, B, s, F, L, p, r, n, k, c, d, Tag(Tag(h, p, n, c), r, k, d))
<1> DEFINE one == Tag(h, p, n, c)
           g   == Tag(one, r, k, d)
           s2  == [s EXCEPT ![p] = n, ![r] = k]
           B2  == B \cup {r}
           F2  == (F \ {p}) \cup (IF c = 0 THEN {p} ELSE {}) \cup (IF d = 0 THEN {r} ELSE {})
<1>1. /\ n \in Nat /\ 4 <= n /\ n % 2 = 0 /\ k \in Nat /\ 4 <= k /\ k % 2 = 0
      /\ r = p + n /\ n + k = s[p]
  BY DEF Cut
<1> USE <1>1
<1>2. Layout(B, s, h.brk) /\ h \in Heaps /\ F \subseteq B /\ Tags(h.mem, B, s, F, h.brk) /\ MAX_HEAP \in Nat
  BY MmAssumption DEF Shape
<1>3. Layout(B2, s2, h.brk) /\ r \notin B
  BY <1>2, DivideLayout
<1>4. \A q \in B : /\ q \in Nat /\ s[q] \in Nat /\ h.brk \in Nat /\ 4 <= q /\ 4 <= s[q] /\ q + s[q] <= h.brk
                   /\ h.brk <= MAX_HEAP /\ q % 2 = 0 /\ s[q] % 2 = 0
  BY <1>2, BlockIs
<1>5. \A q \in B : p = q \/ p + s[p] <= q \/ q + s[q] <= p
  BY <1>2, BlocksApart
<1>6. /\ r \in Nat /\ r % 2 = 0 /\ 4 <= r /\ p < r /\ r + k = p + s[p] /\ p + n = r /\ p \in Nat /\ 4 <= p
      /\ p + n <= MAX_HEAP /\ r + k <= MAX_HEAP
  BY <1>2, <1>4
<1>7. /\ OnlyIn(h, one, {p - 1, p + n - 2}) /\ one.lists = h.lists
      /\ one.mem[p - 1] = n + c /\ one.mem[p + n - 2] = n + c
  <2>1. h \in Heaps /\ p \in Nat /\ 4 <= p /\ p + n <= MAX_HEAP
    BY <1>2, <1>6
  <2>2. n \in Nat /\ 4 <= n /\ n % 2 = 0
    BY <1>2
  <2>3. Tagged(h, one, p, n, c)
    BY <2>1, <2>2, TagIs
  <2> HIDE DEF one
  <2> QED BY <2>3 DEF Tagged
<1>8. one \in Heaps
  BY <1>7 DEF OnlyIn
<1> HIDE DEF one
<1>9. /\ OnlyIn(one, g, {r - 1, r + k - 2}) /\ g.lists = one.lists
      /\ g.mem[r - 1] = k + d /\ g.mem[r + k - 2] = k + d
  <2>1. Tagged(one, Tag(one, r, k, d), r, k, d)
    BY <1>2, <1>6, <1>8, TagIs
  <2> QED BY <2>1 DEF Tagged
<1>10. s2 \in [Nat -> Nat] /\ s2[p] = n /\ s2[r] = k /\ \A q \in B : q # p => s2[q] = s[q]
  BY <1>2, <1>3, <1>4, <1>6 DEF Layout
<1> HIDE DEF g, s2
<1>11. \A a \in Addr : a \notin {p - 1, r - 2, r - 1, p + s[p] - 2} => g.mem[a] = h.mem[a]
  <2>1. p + n - 2 = r - 2 /\ r + k - 2 = p + s[p] - 2
    BY <1>4, <1>6
  <2> QED BY <1>7, <1>9, <2>1 DEF OnlyIn
<1>12. g.mem[p - 1] = n + c /\ g.mem[r - 2] = n + c
  <2>1. p - 1 \in Addr /\ r - 2 \in Addr
    BY <1>2, <1>4, <1>6 DEF Addr
  <2>2. p - 1 # r - 1 /\ p - 1 # r + k - 2 /\ r - 2 # r - 1 /\ r - 2 # r + k - 2
    BY <1>6
  <2>3. p + n - 2 = r - 2
    BY <1>6
  <2> QED BY <1>7, <1>9, <2>1, <2>2, <2>3 DEF OnlyIn
<1>13. ASSUME NEW q \in B, q # p
       PROVE  g.mem[q - 1] = h.mem[q - 1] /\ g.mem[q + s[q] - 2] = h.mem[q + s[q] - 2]
  <2>1. q - 1 \in Addr /\ q + s[q] - 2 \in Addr
    BY <1>2, <1>4 DEF Addr
  <2>2. q + s[q] <= p \/ p + s[p] <= q
    BY <1>5, <1>13
  <2>3. q - 1 \notin {p - 1, r - 2, r - 1, p + s[p] - 2}
    BY <1>4, <1>6, <2>2
  <2>4. q + s[q] - 2 \notin {p - 1, r - 2, r - 1, p + s[p] - 2}
    BY <1>4, <1>6, <2>2
  <2> QED BY <1>11, <2>1, <2>3, <2>4
<1>14. ASSUME NEW q \in B2
       PROVE  g.mem[q - 1] = s2[q] + Bit(q, F2) /\ g.mem[q + s2[q] - 2] = s2[q] + Bit(q, F2)
  <2>1. CASE q = p
    <3>1. Bit(p, F2) = c /\ p + s2[p] - 2 = r - 2
      BY <1>3, <1>6, <1>10 DEF Bit
    <3> QED BY <1>10, <1>12, <2>1, <3>1
  <2>2. CASE q = r
    <3>1. Bit(r, F2) = d
      BY <1>2, <1>3, <1>6 DEF Bit
    <3> QED BY <1>9, <1>10, <2>2, <3>1
  <2>3. CASE q # p /\ q # r
    <3>1. q \in B /\ s2[q] = s[q] /\ Bit(q, F2) = Bit(q, F)
      BY <1>10, <2>3 DEF Bit
    <3> QED BY <1>2, <1>13, <2>3, <3>1 DEF Tags
  <2> QED BY <2>1, <2>2, <2>3
<1>15. g.mem[1] = 3 /\ g.mem[2] = 3 /\ g.mem[h.brk - 1] = 1
  <2>1. 1 \in Addr /\ 2 \in Addr /\ h.brk - 1 \in Addr
    BY <1>2, <1>4 DEF Addr
  <2>2. {1, 2, h.brk - 1} \cap {p - 1, r - 2, r - 1, p + s[p] - 2} = {}
    BY <1>4, <1>6
  <2> QED BY <1>2, <1>11, <2>1, <2>2 DEF Tags
<1>16. Shape(g, B2, s2, F2)
  <2>1. F2 \subseteq B2
    BY <1>2
  <2>2. g \in Heaps /\ g.brk = h.brk
    BY <1>7, <1>9 DEF OnlyIn
  <2> HIDE DEF B2, F2
  <2> QED BY <1>3, <1>14, <1>15, <2>1, <2>2 DEF Shape, Tags
<1>17. FreeList(g, s2, L)
  <2>1. ASSUME NEW q \in L PROVE g.mem[q] = h.mem[q] /\ g.mem[q + 1] = h.mem[q + 1] /\ s2[q] = s[q]
    <3>1. q \in B /\ q # p
      OBVIOUS
    <3>2. q + s[q] <= p \/ p + s[p] <= q
      BY <1>5, <3>1
    <3>3. q \in Addr /\ q + 1 \in Addr
      BY <1>2, <1>4, <3>1 DEF Addr
    <3>4. q \notin {p - 1, r - 2, r - 1, p + s[p] - 2} /\ q + 1 \notin {p - 1, r - 2, r - 1, p + s[p] - 2}
      BY <1>4, <1>6, <3>1, <3>2
    <3> QED BY <1>10, <1>11, <3>1, <3>3, <3>4
  <2>2. g.lists = h.lists
    BY <1>7, <1>9
  <2>3. SameLinks(h, g, s, s2, L)
    BY <2>1, <2>2 DEF SameLinks
  <2> QED BY <1>10, <2>3, StaysLinked
<1>18. Kept(h, g, s, B \ {p})
  <2> SUFFICES ASSUME NEW q \in B \ {p}, NEW a \in q .. q + s[q] - 3 PROVE g.mem[a] = h.mem[a]
    BY DEF Kept
  <2>1. q + s[q] <= p \/ p + s[p] <= q
    BY <1>5
  <2>2. a \in Addr
    BY <1>2, <1>4 DEF Addr
  <2>3. a \notin {p - 1, r - 2, r - 1, p + s[p] - 2}
    BY <1>4, <1>6, <2>1
  <2> QED BY <1>11, <2>2, <2>3
<1>19. g.brk = h.brk /\ g.ptr = h.ptr
  BY <1>7, <1>9 DEF OnlyIn
<1> QED BY <1>16, <1>17, <1>18, <1>19 DEF g, s2, one, Divided

\* A block is added at the end of the heap.
LEMMA GrowLayout ==
  ASSUME NEW B, NEW s, NEW brk, Layout(B, s, brk), NEW n \in Nat, 4 <= n, n % 2 = 0, brk + n <= MAX_HEAP
  PROVE  Layout(B \cup {brk}, [s EXCEPT ![brk] = n], brk + n)
<1> DEFINE B2 == B \cup {brk}
           s2 == [s EXCEPT ![brk] = n]
           end == brk + n
<1>1. \A q \in B : /\ q \in Nat /\ s[q] \in Nat /\ 4 <= q /\ 4 <= s[q] /\ q + s[q] <= brk
                   /\ q % 2 = 0 /\ s[q] % 2 = 0 /\ q + s[q] \in B \cup {brk} /\ q # brk
  BY BlockIs
<1>2. brk \in Nat /\ 4 <= brk /\ brk % 2 = 0 /\ end \in 4 .. MAX_HEAP /\ end % 2 = 0
  BY MmAssumption DEF Layout
<1>3. s2 \in [Nat -> Nat] /\ s2[brk] = n /\ \A q \in B : s2[q] = s[q]
  BY <1>1, <1>2 DEF Layout
<1> HIDE DEF s2
<1>4. Sized(B2, s2, end)
  <2> SUFFICES ASSUME NEW q \in B2
               PROVE  /\ 4 <= q /\ q % 2 = 0 /\ 4 <= s2[q] /\ s2[q] % 2 = 0
                      /\ q + s2[q] <= end /\ q + s2[q] \in B2 \cup {end}
    BY DEF Sized
  <2>1. CASE q = brk
    BY <1>2, <1>3, <2>1
  <2>2. CASE q \in B
    <3>1. s2[q] = s[q] /\ q + s[q] \in B2
      BY <1>1, <1>3, <2>2
    <3> QED BY <1>1, <1>2, <2>2, <3>1
  <2> QED BY <2>1, <2>2
<1>5. Apart(B2, s2)
  <2> SUFFICES ASSUME NEW q \in B2, NEW t \in B2, q < t PROVE q + s2[q] <= t
    BY DEF Apart
  <2>1. q \in B
    BY <1>1, <1>2
  <2>2. CASE t = brk
    BY <1>1, <1>3, <2>1, <2>2
  <2>3. CASE t \in B
    BY <1>3, <2>1, <2>3 DEF Layout, Apart
  <2> QED BY <2>2, <2>3
<1>6. Reached(B2, s2, end)
  <2> SUFFICES ASSUME NEW t \in B2 \cup {end}, t # 4 PROVE \E q \in B2 : q + s2[q] = t
    BY DEF Reached
  <2>1. CASE t = end
    BY <1>3, <2>1
  <2>2. CASE t # end
    <3>1. PICK q \in B : q + s[q] = t
      BY <2>2 DEF Layout, Reached
    <3> QED BY <1>3, <3>1
  <2> QED BY <2>1, <2>2
<1>7. 4 \in B2 \cup {end} /\ B2 \subseteq Nat
  BY <1>1, <1>2 DEF Layout
<1>8. Layout(B2, s2, end)
  BY <1>2, <1>3, <1>4, <1>5, <1>6, <1>7 DEF Layout
<1> QED BY <1>8 DEF s2

\* What extend_heap makes of the heap before it lists the new block.
Ended(h, size) ==
  LET tagged == Tag(mem_sbrk(h, size), h.brk, size, 0)
  IN  PUT(tagged, HDRP(NEXT_BLKP(tagged, h.brk)), PACK(0, 1))

\* The words extend_heap takes are one more free block below the new epilogue.
LEMMA Grow ==
  ASSUME NEW h, NEW B, NEW s, NEW F, Shape(h, B, s, F), NEW L \in SUBSET B, FreeList(h, s, L),
         NEW n \in Nat, 4 <= n, n % 2 = 0, h.brk + n <= MAX_HEAP
  PROVE  LET g  == Ended(h, n)
             s2 == [s EXCEPT ![h.brk] = n]
         IN  /\ Shape(g, B \cup {h.brk}, s2, F \cup {h.brk})
             /\ FreeList(g, s2, L) /\ Kept(h, g, s, B)
             /\ g.brk = h.brk + n /\ g.ptr = h.ptr
<1> DEFINE brk == h.brk
           end == brk + n
           one == mem_sbrk(h, n)
           two == Tag(one, brk, n, 0)
           g   == PUT(two, end - 1, 1)
           s2  == [s EXCEPT ![brk] = n]
           B2  == B \cup {brk}
           F2  == F \cup {brk}
<1>1. /\ Layout(B, s, brk) /\ h \in Heaps /\ F \subseteq B /\ Tags(h.mem, B, s, F, brk)
      /\ MAX_HEAP \in Nat /\ brk \in Nat /\ 4 <= brk /\ brk % 2 = 0
  BY MmAssumption DEF Shape, Layout
<1>2. Layout(B2, s2, end)
  BY <1>1, GrowLayout
<1>3. \A q \in B : /\ q \in Nat /\ s[q] \in Nat /\ 4 <= q /\ 4 <= s[q] /\ q + s[q] <= brk
                   /\ q % 2 = 0 /\ s[q] % 2 = 0 /\ q # brk
  BY <1>1, BlockIs
<1>4. end \in Nat /\ end \in 0 .. MAX_HEAP
  BY <1>1
<1>5. one \in Heaps /\ one.mem = h.mem /\ one.lists = h.lists /\ one.ptr = h.ptr /\ one.brk = end
  BY <1>1, <1>4 DEF mem_sbrk, Heaps
<1> HIDE DEF one
<1>6. Tagged(one, two, brk, n, 0)
  BY <1>1, <1>5, TagIs
<1>7. two \in Heaps /\ two.brk = end /\ two.ptr = h.ptr /\ two.lists = h.lists
  BY <1>5, <1>6 DEF Tagged, OnlyIn
<1>8. g = Ended(h, n)
  <2>1. two.mem[brk - 1] = n
    BY <1>1, <1>6 DEF Tagged
  <2>2. NEXT_BLKP(two, brk) = end
    BY <2>1, <1>1 DEF NEXT_BLKP, GET_SIZE
  <2> QED BY <2>2 DEF Ended, HDRP, PACK, one
<1>9. end - 1 \in Addr /\ 1 \in Word
  BY <1>1, <1>4, MmAssumption DEF Addr, Word
<1> HIDE DEF two
<1>10. /\ g \in Heaps /\ g.mem = [two.mem EXCEPT ![end - 1] = 1]
       /\ g.brk = end /\ g.ptr = h.ptr /\ g.lists = h.lists
  BY <1>7, <1>9, PutIs
<1>11. two.mem \in [Addr -> Word]
  BY <1>7 DEF Heaps
<1>12. s2 \in [Nat -> Nat] /\ s2[brk] = n /\ \A q \in B : s2[q] = s[q]
  BY <1>1, <1>3 DEF Layout
<1> HIDE DEF g, s2
<1>13. \A a \in Addr : a \notin {brk - 1, end - 2, end - 1} => g.mem[a] = h.mem[a]
  <2>1. brk + n - 2 = end - 2
    BY <1>1
  <2> QED BY <1>5, <1>6, <1>10, <1>11, <2>1 DEF Tagged, OnlyIn
<1>14. g.mem[brk - 1] = n /\ g.mem[end - 2] = n /\ g.mem[end - 1] = 1
  <2>1. brk - 1 \in Addr /\ end - 2 \in Addr /\ brk - 1 # end - 1 /\ end - 2 # end - 1
    BY <1>1, <1>4 DEF Addr
  <2>2. two.mem[brk - 1] = n /\ two.mem[end - 2] = n
    BY <1>1, <1>6 DEF Tagged
  <2> QED BY <1>9, <1>10, <1>11, <2>1, <2>2
<1>15. ASSUME NEW q \in B2
       PROVE  g.mem[q - 1] = s2[q] + Bit(q, F2) /\ g.mem[q + s2[q] - 2] = s2[q] + Bit(q, F2)
  <2>1. CASE q = brk
    <3>1. Bit(q, F2) = 0 /\ q + s2[q] - 2 = end - 2
      BY <1>1, <1>12, <2>1 DEF Bit
    <3> QED BY <1>12, <1>14, <2>1, <3>1
  <2>2. CASE q \in B
    <3>1. s2[q] = s[q] /\ Bit(q, F2) = Bit(q, F)
      BY <1>3, <1>12, <2>2 DEF Bit
    <3>2. q - 1 \in Addr /\ q + s[q] - 2 \in Addr
      BY <1>1, <1>3, <1>4, <2>2 DEF Addr
    <3>3. q - 1 \notin {brk - 1, end - 2, end - 1} /\ q + s[q] - 2 \notin {brk - 1, end - 2, end - 1}
      BY <1>1, <1>3, <2>2
    <3> QED BY <1>1, <1>13, <2>2, <3>1, <3>2, <3>3 DEF Tags
  <2> QED BY <2>1, <2>2
<1>16. g.mem[1] = 3 /\ g.mem[2] = 3
  <2>1. 1 \in Addr /\ 2 \in Addr
    BY <1>1, <1>4 DEF Addr
  <2>2. {1, 2} \cap {brk - 1, end - 2, end - 1} = {}
    BY <1>1
  <2> QED BY <1>1, <1>13, <2>1, <2>2 DEF Tags
<1>17. Shape(g, B2, s2, F2)
  <2>1. F2 \subseteq B2
    BY <1>1
  <2> HIDE DEF B2, F2
  <2> QED BY <1>2, <1>10, <1>14, <1>15, <1>16, <2>1 DEF Shape, Tags
<1>18. FreeList(g, s2, L)
  <2>1. ASSUME NEW q \in L PROVE g.mem[q] = h.mem[q] /\ g.mem[q + 1] = h.mem[q + 1] /\ s2[q] = s[q]
    <3>1. q \in Addr /\ q + 1 \in Addr
      BY <1>1, <1>3, <1>4 DEF Addr
    <3>2. q \notin {brk - 1, end - 2, end - 1} /\ q + 1 \notin {brk - 1, end - 2, end - 1}
      BY <1>1, <1>3
    <3> QED BY <1>12, <1>13, <3>1, <3>2
  <2>2. SameLinks(h, g, s, s2, L)
    BY <1>10, <2>1 DEF SameLinks
  <2> QED BY <1>12, <2>2, StaysLinked
<1>19. Kept(h, g, s, B)
  <2> SUFFICES ASSUME NEW q \in B, NEW a \in q .. q + s[q] - 3 PROVE g.mem[a] = h.mem[a]
    BY DEF Kept
  <2>1. a \in Addr
    BY <1>1, <1>3, <1>4 DEF Addr
  <2>2. a \notin {brk - 1, end - 2, end - 1}
    BY <1>1, <1>3
  <2> QED BY <1>13, <2>1, <2>2
<1> QED BY <1>8, <1>10, <1>17, <1>18, <1>19 DEF s2

-----------------------------------------------------------------------------
\* g is h with the same blocks, F free and L listed, and the payloads of A as they were.
Moved(h, g, B, s, F, L, A) ==
  /\ Shape(g, B, s, F) /\ FreeList(g, s, L) /\ Kept(h, g, s, A)
  /\ g.brk = h.brk /\ g.ptr = h.ptr

\* delete_node on a heap whose blocks L are listed.
LEMMA TakeOut ==
  ASSUME NEW h, NEW B, NEW s, NEW F, Shape(h, B, s, F), NEW L \in SUBSET B, FreeList(h, s, L), NEW p \in L
  PROVE  Moved(h, delete_node(h, p), B, s, F, L \ {p}, B \ (L \ {p}))
<1> DEFINE g == delete_node(h, p)
<1>1. PICK R : Linked(h.mem, h.lists, s, L, R)
  BY DEF FreeList
<1>2. GET_SIZE(h, HDRP(p)) = s[p] /\ h \in Heaps
  <2>1. p \in B
    OBVIOUS
  <2>2. GET_SIZE(h, HDRP(p)) = s[p]
    BY <2>1, TagsRead
  <2> QED BY <2>2 DEF Shape
<1>3. OnlyIn(h, g, LinkWords(L \ {p})) /\ Linked(g.mem, g.lists, s, L \ {p}, R)
  BY <1>1, <1>2, DeleteNode
<1> HIDE DEF g
<1>4. L \ {p} \in SUBSET B
  OBVIOUS
<1>5. Shape(g, B, s, F) /\ Kept(h, g, s, B \ (L \ {p}))
  BY <1>3, <1>4, LinksKeep
<1> QED BY <1>3, <1>5 DEF FreeList, OnlyIn, Moved, g

\* insert_node on a heap whose blocks L are listed.
LEMMA PutBack ==
  ASSUME NEW h, NEW B, NEW s, NEW F, Shape(h, B, s, F), NEW L \in SUBSET B, FreeList(h, s, L),
         NEW p \in B, p \notin L, NEW size, size = s[p]
  PROVE  Moved(h, insert_node(h, p, size), B, s, F, L \cup {p}, B \ (L \cup {p}))
<1> DEFINE g == insert_node(h, p, size)
           K == L \cup {p}
<1>1. PICK R : Linked(h.mem, h.lists, s, L, R)
  BY DEF FreeList
<1>2. p \in Starts /\ h \in Heaps
  BY BlockIs DEF Shape
<1>3. OnlyIn(h, g, LinkWords(K)) /\ \E Q : Linked(g.mem, g.lists, s, K, Q)
  BY <1>1, <1>2, InsertNode
<1> HIDE DEF g
<1>4. K \in SUBSET B
  OBVIOUS
<1>5. Shape(g, B, s, F) /\ Kept(h, g, s, B \ K)
  <2> HIDE DEF K
  <2> QED BY <1>3, <1>4, LinksKeep
<1> QED BY <1>3, <1>5 DEF FreeList, OnlyIn, Moved, g

\* Payloads that two steps keep are kept by both.
LEMMA KeptTrans ==
  ASSUME NEW f, NEW g, NEW h, NEW s, NEW t, NEW A, NEW A1, NEW A2, A \subseteq A1, A \subseteq A2,
         Kept(f, g, s, A1), Kept(g, h, t, A2), \A q \in A : t[q] = s[q]
  PROVE  Kept(f, h, s, A)
BY DEF Kept

\* The answer is no part of the heap's shape.
LEMMA PtrKeeps ==
  ASSUME NEW h, NEW B, NEW s, NEW F, Shape(h, B, s, F), FreeList(h, s, F), NEW p \in Int
  PROVE  LET g == [h EXCEPT !.ptr = p]
         IN  Shape(g, B, s, F) /\ FreeList(g, s, F) /\ g.brk = h.brk /\ g.ptr = p /\ g.mem = h.mem
<1> DEFINE g == [h EXCEPT !.ptr = p]
<1>1. h \in Heaps
  BY DEF Shape
<1>2. g \in Heaps /\ g.ptr = p /\ g.mem = h.mem /\ g.brk = h.brk /\ g.lists = h.lists
  BY <1>1, PtrIs
<1> HIDE DEF g
<1> QED BY <1>2 DEF Shape, FreeList, g

\* A consistent heap: tiled, its free blocks listed, no two of them neighbours.
NoTwo(s, F) == \A q \in F : q + s[q] \notin F
Sound(h, B, s, F) == Shape(h, B, s, F) /\ FreeList(h, s, F) /\ NoTwo(s, F)

\* g is a consistent heap that has the blocks A of h as they were, allocated.
Becomes(h, s, A, g, C, t, G) ==
  /\ Sound(g, C, t, G)
  /\ A \subseteq C \ G /\ (\A q \in A : t[q] = s[q]) /\ Kept(h, g, s, A)

\* What coalesce answers for the free block p.
Coalesces(h, B, s, F, p, g, C, t, G) ==
  /\ Becomes(h, s, B \ F, g, C, t, G) /\ C \ G = B \ F
  /\ g.brk = h.brk /\ g.ptr \in G /\ s[p] <= t[g.ptr]
  /\ g.ptr = p \/ (g.ptr \in F /\ g.ptr + s[g.ptr] = p)
  /\ \A q \in F : q + s[q] = p => g.ptr = q
  /\ p + s[p] = h.brk => g.ptr + t[g.ptr] = h.brk

\* coalesce around p, whose blocks X from first up to e are all free
LEMMA CoalesceMerges ==
  ASSUME NEW h, NEW B, NEW s, NEW F, Shape(h, B, s, F), NEW p \in F,
         \A q \in F : q + s[q] \in F => q = p \/ q + s[q] = p,
         NEW first \in F, NEW e \in B \cup {h.brk}, first < e, e \notin F,
         Between(B, first, e) \subseteq F, p \in Between(B, first, e),
         first = p \/ first + s[first] = p,
         \A q \in F : q + s[q] # first,
         NEW alone, Shape(alone, B, s, F), FreeList(alone, s, F \ Between(B, first, e)),
         Kept(h, alone, s, B \ F), alone.brk = h.brk,
         NEW size, size = e - first,
         p + s[p] = h.brk => e = h.brk
  PROVE  \E C, t, G : Coalesces(h, B, s, F, p,
           [insert_node(Tag(alone, first, size, 0), first, size) EXCEPT !.ptr = first], C, t, G)
<1> DEFINE X == Between(B, first, e)
           C == (B \ X) \cup {first}
           G == (F \ X) \cup {first}
           t == [s EXCEPT ![first] = size]
           tagged == Tag(alone, first, size, 0)
           put    == insert_node(tagged, first, size)
           g      == [put EXCEPT !.ptr = first]
<1>1. Layout(B, s, h.brk) /\ F \subseteq B
  BY DEF Shape
<1>2. /\ e \in Nat /\ e <= h.brk /\ first \in X /\ X \subseteq B
      /\ \A q \in B : q + s[q] <= first \/ (first <= q /\ q + s[q] <= e) \/ e <= q
  BY <1>1, BetweenEnds DEF Between
<1>3. \A q \in B : q \in Nat /\ s[q] \in Nat /\ 4 <= s[q] /\ h.brk \in Nat
  BY <1>1, BlockIs
<1>4. F \ X \in SUBSET B /\ (F \ X) \cap X = {} /\ first \in B /\ X \subseteq F
  BY <1>1
<1>5. /\ Shape(tagged, C, t, G) /\ FreeList(tagged, t, F \ X)
      /\ Kept(alone, tagged, s, C) /\ tagged.brk = h.brk
  <2>1. /\ Shape(tagged, C, t, (F \ X) \cup (IF 0 = 0 THEN {first} ELSE {}))
        /\ FreeList(tagged, t, F \ X) /\ Kept(alone, tagged, s, C) /\ tagged.brk = alone.brk
    <3> DEFINE L == F \ X
    <3>1. L \in SUBSET B /\ FreeList(alone, s, L) /\ L \cap Between(B, first, e) = {}
      BY <1>4
    <3>2. first \in B /\ e \in B \cup {alone.brk} /\ first < e /\ 0 \in {0, 1}
      BY <1>4
    <3> HIDE DEF L
    <3>3. /\ Shape(tagged, C, t, (F \ X) \cup (IF 0 = 0 THEN {first} ELSE {}))
          /\ FreeList(tagged, t, L) /\ Kept(alone, tagged, s, C) /\ tagged.brk = alone.brk
      <4>1. Merged(alone, B, s, F, L, first, X, size, 0, tagged)
        BY <3>1, <3>2, Merge
      <4> QED BY <4>1 DEF Merged
    <3> QED BY <3>3 DEF L
  <2>2. (F \ X) \cup (IF 0 = 0 THEN {first} ELSE {}) = G
    OBVIOUS
  <2> QED BY <2>1, <2>2
<1>6. /\ t \in [Nat -> Nat] /\ t[first] = size /\ \A q \in B : q # first => t[q] = s[q]
  <2>1. size \in Nat
    BY <1>2, <1>3, <1>4
  <2> QED BY <1>1, <1>3, <2>1 DEF Layout
<1> HIDE DEF X, t, tagged
<1>7. /\ Shape(put, C, t, G) /\ FreeList(put, t, G) /\ Kept(tagged, put, t, C \ G) /\ put.brk = h.brk
  <2>1. F \ X \in SUBSET C /\ first \in C /\ first \notin F \ X /\ (F \ X) \cup {first} = G
    BY <1>1, <1>2
  <2> HIDE DEF C, G
  <2>2. Moved(tagged, put, C, t, G, G, C \ G)
    BY <1>5, <1>6, <2>1, PutBack
  <2> HIDE DEF put
  <2> QED BY <1>5, <2>2 DEF Moved
<1> HIDE DEF put
<1>8. Shape(g, C, t, G) /\ FreeList(g, t, G) /\ g.brk = h.brk /\ g.ptr = first /\ g.mem = put.mem
  <2>1. first \in Int
    BY <1>3, <1>4
  <2> HIDE DEF C, G
  <2> QED BY <1>7, <2>1, PtrKeeps
<1> HIDE DEF g
<1>9. C \ G = B \ F /\ \A q \in B \ F : q # first /\ t[q] = s[q]
  BY <1>2, <1>4, <1>6
<1>10. Kept(h, g, s, B \ F)
  <2>1. Kept(h, tagged, s, B \ F)
    BY <1>4, <1>5, KeptTrans
  <2>2. Kept(h, put, s, B \ F)
    BY <1>7, <1>9, <2>1, KeptTrans
  <2> QED BY <1>8, <2>2 DEF Kept
<1>11. NoTwo(t, G)
  <2> SUFFICES ASSUME NEW q \in G, q + t[q] \in G PROVE FALSE
    BY DEF NoTwo
  <2>1. CASE q = first
    BY <1>2, <1>3, <1>4, <1>6, <2>1
  <2>2. CASE q # first
    <3>1. q \in F /\ q \notin X /\ t[q] = s[q] /\ q + s[q] # first
      BY <1>1, <1>6, <2>2
    <3>2. q + s[q] \in F /\ q + s[q] \notin X
      BY <3>1
    <3> QED BY <3>1, <3>2 DEF X
  <2> QED BY <2>1, <2>2
<1>12. s[p] <= t[first]
  <2>1. first <= p /\ p + s[p] <= e
    <3>1. p \in X /\ p \in B
      BY <1>1 DEF X
    <3>2. first <= p /\ p < e
      BY <3>1 DEF X, Between
    <3> QED BY <1>2, <1>3, <1>4, <3>1, <3>2
  <2> QED BY <1>1, <1>2, <1>3, <1>4, <1>6, <2>1
<1>13. p + s[p] = h.brk => first + t[first] = h.brk
  BY <1>2, <1>3, <1>4, <1>6
<1>14. \A q \in F : q + s[q] = p => first = q
  <2> SUFFICES ASSUME NEW q \in F, q + s[q] = p, first # q PROVE FALSE
    OBVIOUS
  <2>1. q \in B /\ first \in B /\ first + s[first] = p
    BY <1>1
  <2>2. q + s[q] <= first \/ first + s[first] <= q
    BY <1>1, <2>1, BlocksApart
  <2> QED BY <1>3, <2>1, <2>2
<1>15. Coalesces(h, B, s, F, p, g, C, t, G)
  BY <1>8, <1>9, <1>10, <1>11, <1>12, <1>13, <1>14 DEF Coalesces, Becomes, Sound
<1> QED BY <1>15 DEF g, put, tagged

\* A heap reached from h by moves that keep the blocks, but list L of the free F only.
Listing(h, g, B, s, F, L) ==
  Shape(g, B, s, F) /\ FreeList(g, s, L) /\ Kept(h, g, s, B \ F) /\ g.brk = h.brk

\* delete_node under a condition, as coalesce calls it for its neighbours.
LEMMA TakeOutIf ==
  ASSUME NEW h, NEW B, NEW s, NEW F, NEW f, NEW L \in SUBSET F, Listing(h, f, B, s, F, L),
         NEW c, NEW q, c => q \in L
  PROVE  Listing(h, IF c THEN delete_node(f, q) ELSE f, B, s, F, L \ (IF c THEN {q} ELSE {}))
<1>1. CASE ~c
  <2>1. L \ (IF c THEN {q} ELSE {}) = L
    BY <1>1
  <2>2. (IF c THEN delete_node(f, q) ELSE f) = f
    BY <1>1
  <2> QED BY <2>1, <2>2
<1>2. CASE c
  <2> DEFINE g == delete_node(f, q)
  <2>1. L \in SUBSET B /\ q \in L /\ Shape(f, B, s, F) /\ FreeList(f, s, L)
    BY <1>2 DEF Listing, Shape
  <2>2. /\ Shape(g, B, s, F) /\ FreeList(g, s, L \ {q}) /\ Kept(f, g, s, B \ (L \ {q}))
        /\ g.brk = f.brk
    <3>1. ASSUME NEW K \in SUBSET B, FreeList(f, s, K), NEW r \in K
          PROVE  Moved(f, delete_node(f, r), B, s, F, K \ {r}, B \ (K \ {r}))
      BY <2>1, <3>1, TakeOut
    <3> QED BY <2>1, <3>1 DEF Moved
  <2> HIDE DEF g
  <2>3. Kept(h, g, s, B \ F)
    <3>1. B \ F \subseteq B \ (L \ {q}) /\ Kept(h, f, s, B \ F)
      BY DEF Listing
    <3> QED BY <2>2, <3>1, KeptTrans
  <2>4. Listing(h, g, B, s, F, L \ {q})
    BY <2>2, <2>3 DEF Listing
  <2>5. L \ (IF c THEN {q} ELSE {}) = L \ {q}
    BY <1>2
  <2>6. (IF c THEN delete_node(f, q) ELSE f) = g
    BY <1>2 DEF g
  <2> QED BY <2>4, <2>5, <2>6
<1> QED BY <1>1, <1>2

\* coalesce leaves a consistent heap, if p is the one block that may have free
\* neighbours: p is listed alone or as part of a larger free block.
LEMMA CoalesceIs ==
  ASSUME NEW h, NEW B, NEW s, NEW F, Shape(h, B, s, F), FreeList(h, s, F), NEW p \in F,
         \A q \in F : q + s[q] \in F => q = p \/ q + s[q] = p
  PROVE  \E C, t, G : Coalesces(h, B, s, F, p, coalesce(h, p), C, t, G)
<1> DEFINE prev     == PREV_BLKP(h, p)
           next     == NEXT_BLKP(h, p)
           prevFree == GET_ALLOC(h, HDRP(prev)) = 0
           nextFree == GET_ALLOC(h, HDRP(next)) = 0
           first    == IF prevFree THEN prev ELSE p
           e        == next + IF nextFree THEN GET_SIZE(h, HDRP(next)) ELSE 0
           size     == next - first + IF nextFree THEN GET_SIZE(h, HDRP(next)) ELSE 0
           own      == delete_node(h, p)
           less     == IF prevFree THEN delete_node(own, prev) ELSE own
           alone    == IF nextFree THEN delete_node(less, next) ELSE less
           P        == IF prevFree THEN {prev} ELSE {}
           N        == IF nextFree THEN {next} ELSE {}
<1>1. Layout(B, s, h.brk) /\ F \subseteq B /\ p \in B
  BY DEF Shape
<1>2. \A q \in B : /\ q \in Nat /\ s[q] \in Nat /\ h.brk \in Nat /\ 4 <= q /\ 4 <= s[q] /\ q + s[q] <= h.brk
                   /\ q + s[q] \in B \cup {h.brk} /\ q # h.brk
  BY <1>1, BlockIs
<1>3. \A q, r \in B : q = r \/ q + s[q] <= r \/ r + s[r] <= q
  BY <1>1, BlocksApart
<1>4. next = p + s[p] /\ next \in B \cup {h.brk} /\ next \in Nat
  BY <1>1, <1>2, TagsRead
<1>5. nextFree <=> next \in F
  BY <1>4, NextRead
<1>6. GET_SIZE(h, HDRP(next)) = IF next \in B THEN s[next] ELSE 0
  BY <1>4, NextRead
<1>7. IF p = 4 THEN ~prevFree ELSE prev \in B /\ prev + s[prev] = p /\ (prevFree <=> prev \in F)
  <2>1. p \in B \cup {h.brk}
    BY <1>1
  <2> QED BY <2>1, PrevRead
<1>8. coalesce(h, p) = IF prevFree \/ nextFree
                       THEN [insert_node(Tag(alone, first, size, 0), first, size) EXCEPT !.ptr = first]
                       ELSE [h EXCEPT !.ptr = p]
  BY DEF coalesce
<1> HIDE DEF prev, next, prevFree, nextFree
<1>9. Listing(h, alone, B, s, F, ((F \ {p}) \ P) \ N)
  <2>1. Listing(h, own, B, s, F, F \ {p})
    <3>1. F \in SUBSET B
      BY <1>1
    <3>2. /\ Shape(own, B, s, F) /\ FreeList(own, s, F \ {p}) /\ Kept(h, own, s, B \ (F \ {p}))
          /\ own.brk = h.brk
      BY <3>1, TakeOut DEF Moved
    <3> HIDE DEF own
    <3> QED BY <3>2 DEF Listing, Kept
  <2> HIDE DEF own
  <2>2. Listing(h, less, B, s, F, (F \ {p}) \ P)
    <3>1. prevFree => prev \in F \ {p}
      BY <1>1, <1>2, <1>7
    <3>2. F \ {p} \in SUBSET F
      OBVIOUS
    <3> QED BY <2>1, <3>1, <3>2, TakeOutIf
  <2>3. nextFree => next \in (F \ {p}) \ P
    BY <1>1, <1>2, <1>4, <1>5, <1>7
  <2>4. (F \ {p}) \ P \in SUBSET F
    OBVIOUS
  <2> HIDE DEF less, P
  <2> QED BY <2>2, <2>3, <2>4, TakeOutIf
<1>10. first \in F /\ (first = p \/ first + s[first] = p) /\ first <= p
  BY <1>1, <1>2, <1>7
<1>11. /\ e \in B \cup {h.brk} /\ next <= e /\ e \in Nat /\ size = e - first
       /\ e = IF nextFree THEN next + s[next] ELSE next
  <2>1. e = IF nextFree THEN next + s[next] ELSE next
    BY <1>1, <1>4, <1>5, <1>6
  <2>2. e \in B \cup {h.brk} /\ next <= e /\ e \in Nat
    <3>1. CASE nextFree
      <4>1. next \in B /\ e = next + s[next]
        BY <1>1, <1>5, <2>1, <3>1
      <4> QED BY <1>2, <4>1
    <3>2. CASE ~nextFree
      BY <1>4, <2>1, <3>2
    <3> QED BY <3>1, <3>2
  <2>3. size = e - first
    <3>1. first \in Nat
      BY <1>1, <1>2, <1>10
    <3>2. nextFree => GET_SIZE(h, HDRP(next)) \in Nat
      BY <1>1, <1>2, <1>5, <1>6
    <3> HIDE DEF first
    <3> QED BY <1>4, <3>1, <3>2
  <2> QED BY <2>1, <2>2, <2>3
<1>12. /\ first \in Nat /\ p \in Nat /\ next \in Nat /\ first <= p /\ p < next /\ next <= e
       /\ nextFree => next < e
  <2>1. first \in B
    BY <1>1, <1>10
  <2>2. p < next
    BY <1>1, <1>2, <1>4
  <2>3. nextFree => next < e
    BY <1>1, <1>2, <1>5, <1>11
  <2> HIDE DEF first, e
  <2> QED BY <1>1, <1>2, <1>4, <1>10, <1>11, <2>1, <2>2, <2>3
<1>13. Between(B, first, e) = {p} \cup P \cup N
  <2>1. {p} \cup P \cup N \subseteq Between(B, first, e)
    <3>1. p \in B /\ first <= p /\ p < e
      <4> HIDE DEF first, e
      <4> QED BY <1>1, <1>11, <1>12
    <3>2. prevFree => prev \in B /\ first <= prev /\ prev < e
      <4>1. prevFree => first = prev /\ first \in B
        BY <1>1, <1>10
      <4> HIDE DEF first, e
      <4> QED BY <1>11, <1>12, <4>1
    <3>3. nextFree => next \in B /\ first <= next /\ next < e
      <4> HIDE DEF first, e
      <4> QED BY <1>1, <1>5, <1>12
    <3> HIDE DEF first, e
    <3> QED BY <3>1, <3>2, <3>3 DEF Between
  <2>2. ASSUME NEW q \in B, first <= q, q < e, q # p PROVE q \in P \cup N
    <3>1. CASE q < p
      <4>1. prevFree
        BY <1>1, <1>2, <2>2, <3>1
      <4>2. q = prev
        BY <1>1, <1>2, <1>3, <1>7, <2>2, <3>1, <4>1
      <4> QED BY <4>1, <4>2
    <3>2. CASE p < q
      <4>1. next <= q
        BY <1>1, <1>2, <1>3, <1>4, <3>2
      <4>2. nextFree
        BY <1>2, <1>4, <1>11, <2>2, <4>1
      <4>3. next \in B /\ (q = next \/ next + s[next] <= q)
        BY <1>1, <1>2, <1>3, <1>5, <4>1, <4>2
      <4>4. q = next
        <5>1. e = next + s[next] /\ e \in Nat /\ q \in Nat /\ q < e
          <6> HIDE DEF e
          <6> QED BY <1>2, <1>11, <2>2, <4>2
        <5> HIDE DEF e
        <5> QED BY <4>3, <5>1
      <4> QED BY <4>2, <4>4
    <3> QED BY <1>1, <1>2, <2>2, <3>1, <3>2
  <2> QED BY <2>1, <2>2 DEF Between
<1>14. e \notin F
  <2>1. CASE nextFree
    <3>1. next \in F /\ e = next + s[next] /\ p < next
      BY <1>1, <1>2, <1>4, <1>5, <1>11, <2>1
    <3> QED BY <1>1, <1>2, <3>1
  <2>2. CASE ~nextFree
    BY <1>5, <1>11, <2>2
  <2> QED BY <2>1, <2>2
<1>15. \A q \in F : q + s[q] # first
  <2> SUFFICES ASSUME NEW q \in F, q + s[q] = first PROVE FALSE
    OBVIOUS
  <2>1. CASE prevFree
    <3>1. q + s[q] \in F
      BY <1>10
    <3> QED BY <1>1, <1>2, <1>7, <2>1, <3>1
  <2>2. CASE ~prevFree
    <3>1. first = p /\ q + s[q] = p /\ p # 4 /\ q \in B
      BY <1>1, <1>2, <2>2
    <3>2. prev \in B /\ prev + s[prev] = p /\ prev \notin F
      BY <1>7, <2>2, <3>1
    <3> QED BY <1>2, <1>3, <3>1, <3>2
  <2> QED BY <2>1, <2>2
<1>16. Between(B, first, e) \subseteq F /\ p \in Between(B, first, e)
  BY <1>5, <1>7, <1>13
<1>17. p + s[p] = h.brk => e = h.brk
  BY <1>1, <1>2, <1>4, <1>5, <1>11
<1>18. first < e
  <2> HIDE DEF first, e
  <2> QED BY <1>11, <1>12
<1>19. /\ Shape(alone, B, s, F) /\ FreeList(alone, s, F \ Between(B, first, e))
       /\ Kept(h, alone, s, B \ F) /\ alone.brk = h.brk
  <2>1. ((F \ {p}) \ P) \ N = F \ Between(B, first, e)
    BY <1>13
  <2> QED BY <1>9, <2>1 DEF Listing
<1>20. CASE prevFree \/ nextFree
  <2>1. coalesce(h, p) = [insert_node(Tag(alone, first, size, 0), first, size) EXCEPT !.ptr = first]
    BY <1>8, <1>20
  <2>2. size = e - first /\ e \in B \cup {h.brk}
    BY <1>11
  <2> HIDE DEF first, e, size, alone
  <2> QED BY <1>10, <1>14, <1>15, <1>16, <1>17, <1>18, <1>19, <2>1, <2>2, CoalesceMerges
<1>21. CASE ~(prevFree \/ nextFree)
  <2> DEFINE g == [h EXCEPT !.ptr = p]
  <2>1. Shape(g, B, s, F) /\ FreeList(g, s, F) /\ g.brk = h.brk /\ g.ptr = p /\ g.mem = h.mem
    BY <1>1, <1>2, PtrKeeps
  <2> HIDE DEF g
  <2>2. NoTwo(s, F)
    <3> SUFFICES ASSUME NEW q \in F, q + s[q] \in F PROVE FALSE
      BY DEF NoTwo
    <3>1. q = p \/ q + s[q] = p
      OBVIOUS
    <3>2. q + s[q] # p
      BY <1>15, <1>21
    <3> QED BY <1>4, <1>5, <1>21, <3>1, <3>2
  <2>3. Becomes(h, s, B \ F, g, B, s, F)
    BY <1>1, <2>1, <2>2 DEF Becomes, Sound, Kept
  <2>4. Coalesces(h, B, s, F, p, g, B, s, F)
    <3>1. \A q \in F : q + s[q] # p
      BY <1>15, <1>21
    <3> QED BY <1>1, <1>2, <2>1, <2>3, <3>1 DEF Coalesces
  <2> QED BY <1>8, <1>21, <2>4 DEF g
<1> QED BY <1>20, <1>21

\* What came before a step that keeps A may be taken together with it.
LEMMA BecomesAfter ==
  ASSUME NEW f, NEW h, NEW s, NEW s2, NEW A, NEW g, NEW C, NEW t, NEW G,
         Kept(f, h, s, A), \A q \in A : s2[q] = s[q], Becomes(h, s2, A, g, C, t, G)
  PROVE  Becomes(f, s, A, g, C, t, G)
<1>1. Kept(h, g, s2, A)
  BY DEF Becomes
<1>2. Kept(f, g, s, A)
  BY <1>1, KeptTrans
<1> QED BY <1>2 DEF Becomes

\* One consistent heap after another.
LEMMA BecomesTrans ==
  ASSUME NEW f, NEW h, NEW s, NEW B, NEW s2, NEW F, NEW A, NEW g, NEW C, NEW t, NEW G,
         Becomes(f, s, A, h, B, s2, F), Becomes(h, s2, A, g, C, t, G)
  PROVE  Becomes(f, s, A, g, C, t, G)
<1>1. Kept(f, h, s, A) /\ \A q \in A : s2[q] = s[q]
  BY DEF Becomes
<1> QED BY <1>1, BecomesAfter

\* ALIGN rounds up to an even number.
LEMMA AlignIs ==
  ASSUME NEW n \in Nat
  PROVE  /\ ALIGN(n) \in Nat /\ ALIGN(n) % 2 = 0 /\ n <= ALIGN(n)
         /\ n % 2 = 0 => ALIGN(n) = n
BY DEF ALIGN

\* A block has room for the payload and its tags, and is aligned.
LEMMA BlockSizeIs ==
  ASSUME NEW n \in Nat, n # 0
  PROVE  /\ BlockSize(n) \in Nat /\ BlockSize(n) % 2 = 0 /\ 4 <= BlockSize(n) /\ n + 2 <= BlockSize(n)
<1>1. n + 2 \in Nat
  OBVIOUS
<1>2. ALIGN(n + 2) \in Nat /\ ALIGN(n + 2) % 2 = 0 /\ n + 2 <= ALIGN(n + 2)
  BY <1>1, AlignIs
<1> QED BY <1>2 DEF BlockSize

\* What extend_heap answers when the heap can grow.
Extends(h, B, s, F, n, g, C, t, G) ==
  /\ Becomes(h, s, B \ F, g, C, t, G) /\ C \ G = B \ F
  /\ g.brk = h.brk + n /\ g.ptr \in G /\ n <= t[g.ptr] /\ g.ptr + t[g.ptr] = g.brk
  /\ g.ptr = h.brk \/ (g.ptr \in F /\ g.ptr + s[g.ptr] = h.brk)
  /\ \A q \in F : q + s[q] = h.brk => g.ptr = q

\* extend_heap answers the last block of the heap, now of n words at least.
LEMMA ExtendIs ==
  ASSUME NEW h, NEW B, NEW s, NEW F, Sound(h, B, s, F), NEW n \in Nat, 4 <= n, CanGrow(h, n)
  PROVE  \E C, t, G : Extends(h, B, s, F, ALIGN(n), extend_heap(h, n), C, t, G)
<1> DEFINE size == ALIGN(n)
           p    == h.brk
           end  == Ended(h, size)
           put  == insert_node(end, p, size)
           B2   == B \cup {p}
           F2   == F \cup {p}
           s2   == [s EXCEPT ![p] = size]
           g    == coalesce(put, p)
<1>1. /\ Shape(h, B, s, F) /\ FreeList(h, s, F) /\ NoTwo(s, F)
      /\ Layout(B, s, h.brk) /\ F \subseteq B /\ h.brk \in Nat /\ s \in [Nat -> Nat]
  BY DEF Sound, Shape, Layout
<1>2. \A q \in B : q \in Nat /\ s[q] \in Nat /\ q + s[q] \in B \cup {h.brk} /\ q # h.brk
  BY <1>1, BlockIs
<1>3. size \in Nat /\ 4 <= size /\ size % 2 = 0 /\ h.brk + size <= MAX_HEAP
  <2>1. size \in Nat /\ size % 2 = 0 /\ n <= size
    BY AlignIs
  <2> HIDE DEF size
  <2> QED BY <2>1 DEF CanGrow, size
<1>4. extend_heap(h, n) = g
  BY DEF extend_heap, Ended
<1> HIDE DEF size
<1>5. /\ Shape(end, B2, s2, F2) /\ FreeList(end, s2, F) /\ Kept(h, end, s, B)
      /\ end.brk = h.brk + size
  <2>1. F \in SUBSET B
    BY <1>1
  <2> QED BY <1>1, <1>3, <2>1, Grow
<1>6. s2[p] = size /\ \A q \in B : s2[q] = s[q]
  BY <1>1, <1>2
<1> HIDE DEF end, s2
<1>7. /\ Shape(put, B2, s2, F2) /\ FreeList(put, s2, F2) /\ Kept(end, put, s2, B2 \ F2)
      /\ put.brk = h.brk + size
  <2>1. F \in SUBSET B2 /\ p \in B2 /\ p \notin F /\ size = s2[p] /\ F2 = F \cup {p}
    BY <1>1, <1>2, <1>6
  <2> HIDE DEF B2, F2, p
  <2> QED BY <1>5, <2>1, PutBack DEF Moved
<1> HIDE DEF put
<1>8. ASSUME NEW q \in F2, q + s2[q] \in F2 PROVE q = p \/ q + s2[q] = p
  BY <1>1, <1>6, <1>8 DEF NoTwo
<1>9. PICK C, t, G : Coalesces(put, B2, s2, F2, p, g, C, t, G)
  <2>1. p \in F2
    OBVIOUS
  <2> HIDE DEF B2, F2, p
  <2> QED BY <1>7, <1>8, <2>1, CoalesceIs
<1> HIDE DEF g
<1>10. B2 \ F2 = B \ F
  BY <1>1, <1>2
<1>11. Becomes(h, s, B \ F, g, C, t, G)
  <2>1. Kept(h, put, s, B \ F)
    <3>1. \A q \in B \ F : s2[q] = s[q]
      BY <1>6
    <3>2. B \ F \subseteq B
      OBVIOUS
    <3> QED BY <1>5, <1>7, <1>10, <3>1, <3>2, KeptTrans
  <2>2. Becomes(put, s2, B \ F, g, C, t, G)
    BY <1>9, <1>10 DEF Coalesces
  <2>3. \A q \in B \ F : s2[q] = s[q]
    BY <1>6
  <2> QED BY <2>1, <2>2, <2>3, BecomesAfter
<1>12. /\ g.brk = h.brk + size /\ g.ptr \in G /\ size <= t[g.ptr] /\ g.ptr + t[g.ptr] = h.brk + size
  BY <1>6, <1>7, <1>9 DEF Coalesces
<1>13. g.ptr = h.brk \/ (g.ptr \in F /\ g.ptr + s[g.ptr] = h.brk)
  BY <1>1, <1>6, <1>9 DEF Coalesces
<1>14. \A q \in F : q + s[q] = h.brk => g.ptr = q
  BY <1>1, <1>6, <1>9 DEF Coalesces
<1>15. Extends(h, B, s, F, size, g, C, t, G)
  BY <1>9, <1>10, <1>11, <1>12, <1>13, <1>14 DEF Extends, Coalesces
<1> QED BY <1>4, <1>15 DEF size

\* A block keeps its size and takes another tag.
LEMMA Retag ==
  ASSUME NEW h, NEW B, NEW s, NEW F, Shape(h, B, s, F), NEW L \in SUBSET B, FreeList(h, s, L),
         NEW p \in B, p \notin L, NEW size, size = s[p], NEW c \in {0, 1}
  PROVE  Moved(h, Tag(h, p, size, c), B, s, (F \ {p}) \cup (IF c = 0 THEN {p} ELSE {}), L, B)
<1> DEFINE g  == Tag(h, p, size, c)
           e  == p + s[p]
           X  == Between(B, p, e)
           s2 == [s EXCEPT ![p] = size]
<1>1. Layout(B, s, h.brk) /\ s \in [Nat -> Nat]
  BY DEF Shape, Layout
<1>2. \A q \in B : q \in Nat /\ s[q] \in Nat /\ 4 <= s[q] /\ q + s[q] \in B \cup {h.brk}
  BY <1>1, BlockIs
<1>3. \A q \in B : q = p \/ q + s[q] <= p \/ p + s[p] <= q
  BY <1>1, BlocksApart
<1>4. X = {p}
  BY <1>2, <1>3 DEF Between
<1>5. s2 = s
  BY <1>1
<1>6. /\ Shape(g, (B \ X) \cup {p}, s2, (F \ X) \cup (IF c = 0 THEN {p} ELSE {}))
      /\ FreeList(g, s2, L) /\ Kept(h, g, s, (B \ X) \cup {p})
      /\ g.brk = h.brk /\ g.ptr = h.ptr
  <2>1. p < e /\ e \in B \cup {h.brk} /\ size = e - p
    BY <1>2
  <2>2. L \cap Between(B, p, e) = {}
    BY <1>4
  <2> HIDE DEF e
  <2>3. Merged(h, B, s, F, L, p, X, size, c, g)
    BY <2>1, <2>2, Merge
  <2> QED BY <2>3 DEF Merged
<1>7. (B \ {p}) \cup {p} = B
  OBVIOUS
<1> HIDE DEF X, s2, g
<1> QED BY <1>4, <1>5, <1>6, <1>7 DEF g, Moved

\* mm_free leaves a consistent heap without the block and with all others.
Freed(h, B, s, F, p, g, C, t, G) ==
  /\ Becomes(h, s, (B \ F) \ {p}, g, C, t, G) /\ C \ G = (B \ F) \ {p}
  /\ g.brk = h.brk

\* mm_free gives up the block p and keeps the others.
LEMMA FreeIs ==
  ASSUME NEW h, NEW B, NEW s, NEW F, Sound(h, B, s, F), NEW p \in B \ F
  PROVE  \E C, t, G : Freed(h, B, s, F, p, mm_free(h, p), C, t, G)
<1> DEFINE size   == GET_SIZE(h, HDRP(p))
           tagged == Tag(h, p, size, 0)
           put    == insert_node(tagged, p, size)
           F2     == F \cup {p}
           g      == coalesce(put, p)
<1>1. /\ Shape(h, B, s, F) /\ FreeList(h, s, F) /\ NoTwo(s, F)
      /\ Layout(B, s, h.brk) /\ F \subseteq B /\ p \in B /\ p \notin F
  BY DEF Sound, Shape
<1>2. size = s[p]
  BY <1>1, TagsRead
<1>3. mm_free(h, p) = g
  BY DEF mm_free
<1> HIDE DEF size
<1>4. /\ Shape(tagged, B, s, F2) /\ FreeList(tagged, s, F) /\ Kept(h, tagged, s, B)
      /\ tagged.brk = h.brk
  <2>1. /\ Shape(tagged, B, s, (F \ {p}) \cup (IF 0 = 0 THEN {p} ELSE {}))
        /\ FreeList(tagged, s, F) /\ Kept(h, tagged, s, B) /\ tagged.brk = h.brk
    <3>1. F \in SUBSET B /\ 0 \in {0, 1}
      BY <1>1
    <3> QED BY <1>1, <1>2, <3>1, Retag DEF Moved
  <2>2. (F \ {p}) \cup (IF 0 = 0 THEN {p} ELSE {}) = F2
    BY <1>1
  <2> QED BY <2>1, <2>2
<1> HIDE DEF tagged
<1>5. /\ Shape(put, B, s, F2) /\ FreeList(put, s, F2) /\ Kept(tagged, put, s, B \ F2)
      /\ put.brk = h.brk
  <2>1. F \in SUBSET B
    BY <1>1
  <2> QED BY <1>1, <1>2, <1>4, <2>1, PutBack DEF Moved
<1> HIDE DEF put
<1>6. ASSUME NEW q \in F2, q + s[q] \in F2 PROVE q = p \/ q + s[q] = p
  BY <1>1, <1>6 DEF NoTwo
<1>7. PICK C, t, G : Coalesces(put, B, s, F2, p, g, C, t, G)
  <2>1. p \in F2
    OBVIOUS
  <2> HIDE DEF F2
  <2> QED BY <1>5, <1>6, <2>1, CoalesceIs
<1> HIDE DEF g
<1>8. B \ F2 = (B \ F) \ {p}
  OBVIOUS
<1>9. Kept(h, put, s, B \ F2)
  <2>1. B \ F2 \subseteq B
    OBVIOUS
  <2> QED BY <1>4, <1>5, <2>1, KeptTrans
<1>10. Becomes(h, s, B \ F2, g, C, t, G)
  BY <1>7, <1>9, BecomesAfter DEF Coalesces
<1>11. Freed(h, B, s, F, p, g, C, t, G)
  BY <1>5, <1>7, <1>8, <1>10 DEF Coalesces, Freed
<1> QED BY <1>3, <1>11

-----------------------------------------------------------------------------
\* place answers a new block of at least size words, out of the free block p.
Places(h, B, s, F, size, g, C, t, G) ==
  /\ Becomes(h, s, B \ F, g, C, t, G)
  /\ g.ptr \in C /\ g.ptr \notin B \ F /\ C \ G = (B \ F) \cup {g.ptr}
  /\ size <= t[g.ptr] /\ g.brk = h.brk
Placed(h, B, s, F, size, g) == \E C, t, G : Places(h, B, s, F, size, g, C, t, G)

\* A free block p is cut in two, one, x, goes back to the lists and y is given away.
LEMMA SplitIs ==
  ASSUME NEW h, NEW B, NEW s, NEW F, Sound(h, B, s, F), NEW p \in F,
         NEW taken, Listing(h, taken, B, s, F, F \ {p}),
         NEW n, NEW k, NEW r, Cut(p, r, n, k, s[p]),
         NEW c, NEW d, NEW x, NEW y, NEW f, NEW a,
         \/ c = 0 /\ d = 1 /\ x = p /\ y = r /\ f = n /\ a = k
         \/ c = 1 /\ d = 0 /\ x = r /\ y = p /\ f = k /\ a = n
  PROVE  Placed(h, B, s, F, a,
           [insert_node(Tag(Tag(taken, p, n, c), r, k, d), x, f) EXCEPT !.ptr = y])
<1> DEFINE two == Tag(Tag(taken, p, n, c), r, k, d)
           put == insert_node(two, x, f)
           g   == [put EXCEPT !.ptr = y]
           L   == F \ {p}
           C   == B \cup {r}
           G   == L \cup {x}
           t   == [s EXCEPT ![p] = n, ![r] = k]
<1>1. /\ NoTwo(s, F) /\ Layout(B, s, h.brk) /\ F \subseteq B /\ p \in B
      /\ s \in [Nat -> Nat] /\ h.brk \in Nat
  BY DEF Sound, Shape, Layout
<1>2. \A q \in B : /\ q \in Nat /\ s[q] \in Nat /\ 4 <= q /\ 4 <= s[q]
                   /\ q + s[q] <= h.brk /\ q + s[q] \in B \cup {h.brk} /\ q # h.brk
  BY <1>1, BlockIs
<1>3. /\ Shape(taken, B, s, F) /\ FreeList(taken, s, L) /\ Kept(h, taken, s, B \ F)
      /\ taken.brk = h.brk
  BY DEF Listing
<1>4. L \in SUBSET B /\ p \notin L
  BY <1>1
<1>5. /\ n \in Nat /\ 4 <= n /\ n % 2 = 0 /\ k \in Nat /\ 4 <= k /\ k % 2 = 0
      /\ r = p + n /\ n + k = s[p]
  BY DEF Cut
<1>6. r \notin B /\ r \in Nat /\ r # h.brk /\ r + k = p + s[p] /\ r # p
  <2>1. r \notin B
    BY <1>1, <1>5, DivideLayout
  <2> QED BY <1>1, <1>2, <1>5, <2>1
<1>7. t \in [Nat -> Nat] /\ t[p] = n /\ t[r] = k /\ \A q \in B : q # p => t[q] = s[q]
  BY <1>1, <1>2, <1>6, <1>5
<1>8. c \in {0, 1} /\ d \in {0, 1}
  OBVIOUS
<1>9. (F \ {p}) \cup (IF c = 0 THEN {p} ELSE {}) \cup (IF d = 0 THEN {r} ELSE {}) = G
  OBVIOUS
<1>10. /\ Shape(two, C, t, G) /\ FreeList(two, t, L) /\ Kept(taken, two, s, B \ {p}) /\ two.brk = h.brk
  <2> HIDE DEF L
  <2>1. Divided(taken, B, s, F, L, p, r, n, k, c, d, two)
    <3>1. Shape(taken, B, s, F) /\ FreeList(taken, s, L) /\ p \in B
      BY <1>1, <1>3
    <3>2. L \in SUBSET B /\ p \notin L
      BY <1>4
    <3> QED BY <1>8, <3>1, <3>2, Divide
  <2>2. two.brk = h.brk
    BY <1>3, <2>1 DEF Divided
  <2> QED BY <1>9, <2>1, <2>2 DEF Divided
<1>11. /\ x \in C /\ x \notin L /\ f = t[x] /\ a = t[y]
       /\ y \in C /\ y \notin G /\ y \notin B \ F /\ y \in Int /\ a \in Nat
  BY <1>1, <1>2, <1>6, <1>7, <1>5
<1>12. C \ G = (B \ F) \cup {y} /\ \A q \in B \ F : q \in B /\ q # p /\ q \in C \ G
  BY <1>1, <1>6
<1>13. NoTwo(t, G)
  <2> SUFFICES ASSUME NEW q \in G, q + t[q] \in G PROVE FALSE
    BY DEF NoTwo
  <2>1. \A u \in F : u + s[u] \notin F
    BY <1>1 DEF NoTwo
  <2>2. CASE q = p
    BY <1>1, <1>6, <1>7, <1>5, <2>2
  <2>3. CASE q = r
    <3>1. q + t[q] = p + s[p] /\ q + t[q] # q
      BY <1>6, <1>7, <1>5, <2>3
    <3> QED BY <1>1, <1>6, <2>1, <2>3, <3>1
  <2>4. CASE q # p /\ q # r
    <3>1. q \in F /\ t[q] = s[q]
      BY <1>1, <1>7, <2>4
    <3>2. q + s[q] \notin F /\ q + s[q] # r
      BY <1>1, <1>2, <1>6, <2>1, <3>1
    <3> QED BY <3>1, <3>2
  <2> QED BY <2>2, <2>3, <2>4
<1> HIDE DEF two, t
<1>14. /\ Shape(put, C, t, G) /\ FreeList(put, t, G) /\ Kept(two, put, t, C \ G) /\ put.brk = h.brk
  <2>1. L \in SUBSET C
    BY <1>4
  <2>2. G = L \cup {x}
    OBVIOUS
  <2>3. Shape(two, C, t, G) /\ FreeList(two, t, L) /\ two.brk = h.brk
    BY <1>10
  <2>4. x \in C /\ x \notin L /\ f = t[x]
    BY <1>11
  <2> HIDE DEF C, G, L
  <2>5. Moved(two, put, C, t, G, L \cup {x}, C \ (L \cup {x}))
    BY <2>1, <2>3, <2>4, PutBack DEF put
  <2> QED BY <2>2, <2>3, <2>5 DEF Moved
<1> HIDE DEF put
<1>15. Shape(g, C, t, G) /\ FreeList(g, t, G) /\ g.brk = h.brk /\ g.ptr = y /\ g.mem = put.mem
  <2> HIDE DEF C, G
  <2> QED BY <1>11, <1>14, PtrKeeps
<1> HIDE DEF g
<1>16. Kept(h, g, s, B \ F)
  <2>1. Kept(h, two, s, B \ F)
    <3>1. B \ F \subseteq B \ {p}
      BY <1>12
    <3> QED BY <1>3, <1>10, <3>1, KeptTrans
  <2>2. Kept(h, put, s, B \ F)
    <3>1. B \ F \subseteq C \ G /\ \A q \in B \ F : t[q] = s[q]
      BY <1>7, <1>12
    <3> QED BY <1>14, <2>1, <3>1, KeptTrans
  <2> QED BY <1>15, <2>2 DEF Kept
<1>17. Becomes(h, s, B \ F, g, C, t, G)
  <2>1. B \ F \subseteq C \ G /\ \A q \in B \ F : t[q] = s[q]
    BY <1>7, <1>12
  <2> HIDE DEF C, G
  <2> QED BY <1>13, <1>15, <1>16, <2>1 DEF Becomes, Sound
<1>18. Places(h, B, s, F, a, g, C, t, G)
  <2>1. a <= t[y]
    BY <1>11
  <2> HIDE DEF C, G
  <2> QED BY <1>11, <1>12, <1>15, <1>17, <2>1 DEF Places
<1> QED BY <1>18 DEF g, put, two, Placed

\* place gives away a block of the size asked for, and lists what remains of it.
LEMMA PlaceIs ==
  ASSUME NEW h, NEW B, NEW s, NEW F, Sound(h, B, s, F), NEW p \in F,
         NEW size \in Nat, 4 <= size, size % 2 = 0, size <= s[p]
  PROVE  \E C, t, G : Places(h, B, s, F, size, place(h, p, size), C, t, G)
<1> DEFINE whole     == GET_SIZE(h, HDRP(p))
           remainder == whole - size
           taken     == delete_node(h, p)
           high      == p + remainder
           low       == p + size
<1>1. /\ Shape(h, B, s, F) /\ FreeList(h, s, F) /\ NoTwo(s, F) /\ BigBlock \in Nat
      /\ Layout(B, s, h.brk) /\ F \subseteq B /\ p \in B /\ s \in [Nat -> Nat] /\ h.brk \in Nat
  BY MmAssumption DEF Sound, Shape, Layout
<1>2. \A q \in B : /\ q \in Nat /\ s[q] \in Nat /\ 4 <= q /\ 4 <= s[q] /\ s[q] % 2 = 0
                   /\ q + s[q] <= h.brk /\ q + s[q] \in B \cup {h.brk} /\ q # h.brk
  BY <1>1, BlockIs
<1>3. whole = s[p]
  BY <1>1, TagsRead
<1>4. remainder \in Nat /\ size + remainder = s[p] /\ remainder % 2 = 0 /\ remainder + size = s[p]
  BY <1>1, <1>2, <1>3
<1> DEFINE L == F \ {p}
<1>5. /\ Shape(taken, B, s, F) /\ FreeList(taken, s, L) /\ Kept(h, taken, s, B \ L)
      /\ taken.brk = h.brk
  <2>1. F \in SUBSET B
    BY <1>1
  <2> QED BY <1>1, <2>1, TakeOut DEF Moved, L
<1>6. L \in SUBSET B /\ p \notin L
  BY <1>1
<1>7. \A q \in F : q + s[q] \notin F
  BY <1>1 DEF NoTwo
<1> HIDE DEF whole, taken, L
<1>8. CASE remainder < 4
  <2> DEFINE g == [Tag(taken, p, whole, 1) EXCEPT !.ptr = p]
             tagged == Tag(taken, p, whole, 1)
  <2>1. place(h, p, size) = g
    BY <1>1, <1>4, <1>8 DEF place, whole, taken
  <2>2. /\ Shape(tagged, B, s, L) /\ FreeList(tagged, s, L) /\ Kept(taken, tagged, s, B)
        /\ tagged.brk = h.brk
    <3>1. /\ Shape(tagged, B, s, (F \ {p}) \cup (IF 1 = 0 THEN {p} ELSE {}))
          /\ FreeList(tagged, s, L) /\ Kept(taken, tagged, s, B) /\ tagged.brk = taken.brk
      <4>1. 1 \in {0, 1} /\ Shape(taken, B, s, F) /\ FreeList(taken, s, L)
        BY <1>5
      <4>2. p \in B /\ L \in SUBSET B /\ p \notin L /\ whole = s[p]
        BY <1>1, <1>3, <1>6
      <4>3. Moved(taken, tagged, B, s, (F \ {p}) \cup (IF 1 = 0 THEN {p} ELSE {}), L, B)
        BY <4>1, <4>2, Retag
      <4> QED BY <4>3 DEF Moved
    <3>2. (F \ {p}) \cup (IF 1 = 0 THEN {p} ELSE {}) = L
      BY DEF L
    <3> QED BY <1>5, <3>1, <3>2
  <2> HIDE DEF tagged
  <2>3. Shape(g, B, s, L) /\ FreeList(g, s, L) /\ g.brk = h.brk /\ g.ptr = p /\ g.mem = tagged.mem
    <3>1. p \in Int
      BY <1>1, <1>2
    <3>2. g = [tagged EXCEPT !.ptr = p]
      BY DEF tagged
    <3> HIDE DEF g
    <3> QED BY <2>2, <3>1, <3>2, PtrKeeps
  <2> HIDE DEF g
  <2>4. NoTwo(s, L)
    BY <1>7 DEF NoTwo, L
  <2>5. Kept(h, g, s, B \ F)
    <3>1. B \ F \subseteq B \ L /\ B \ F \subseteq B
      BY DEF L
    <3>2. Kept(h, tagged, s, B \ F)
      BY <1>5, <2>2, <3>1, KeptTrans
    <3> QED BY <2>3, <3>2 DEF Kept
  <2>6. B \ L = (B \ F) \cup {p} /\ B \ F \subseteq B \ L
    BY <1>1 DEF L
  <2>7. Places(h, B, s, F, size, g, B, s, L)
    <3>1. size <= s[p] /\ p \notin B \ F
      OBVIOUS
    <3> QED BY <1>1, <2>3, <2>4, <2>5, <2>6, <3>1 DEF Places, Becomes, Sound
  <2> QED BY <2>1, <2>7

<1>9. Listing(h, taken, B, s, F, F \ {p})
  <2>1. Kept(h, taken, s, B \ F)
    <3>1. B \ F \subseteq B \ L
      BY DEF L
    <3> QED BY <1>5, <3>1 DEF Kept
  <2> QED BY <1>5, <2>1 DEF L, Listing
<1>10. CASE remainder >= 4 /\ size >= BigBlock
  <2>1. place(h, p, size) =
          [insert_node(Tag(Tag(taken, p, remainder, 0), high, size, 1), p, remainder)
             EXCEPT !.ptr = high]
    BY <1>1, <1>4, <1>10 DEF place, whole, taken
  <2>2. Cut(p, high, remainder, size, s[p])
    <3> HIDE DEF remainder
    <3>1. 4 <= remainder
      BY <1>4, <1>10
    <3> QED BY <1>4, <3>1, Zenon DEF Cut
  <2> HIDE DEF remainder, high
  <2>3. Placed(h, B, s, F, size,
          [insert_node(Tag(Tag(taken, p, remainder, 0), high, size, 1), p, remainder)
             EXCEPT !.ptr = high])
    BY <1>9, <2>2, SplitIs
  <2> QED BY <2>1, <2>3 DEF Placed
<1>11. CASE remainder >= 4 /\ size < BigBlock
  <2>1. place(h, p, size) =
          [insert_node(Tag(Tag(taken, p, size, 1), low, remainder, 0), low, remainder)
             EXCEPT !.ptr = p]
    BY <1>1, <1>4, <1>11 DEF place, whole, taken
  <2>2. Cut(p, low, size, remainder, s[p])
    <3> HIDE DEF remainder
    <3>1. 4 <= remainder
      BY <1>4, <1>11
    <3> QED BY <1>4, <3>1, Zenon DEF Cut
  <2> HIDE DEF remainder, low
  <2>3. Placed(h, B, s, F, size,
          [insert_node(Tag(Tag(taken, p, size, 1), low, remainder, 0), low, remainder)
             EXCEPT !.ptr = p])
    BY <1>9, <2>2, SplitIs
  <2> QED BY <2>1, <2>3 DEF Placed
<1> QED BY <1>1, <1>4, <1>8, <1>10, <1>11

\* Only the answer changes.
LEMMA AnswerIs ==
  ASSUME NEW h, NEW B, NEW s, NEW F, Sound(h, B, s, F), NEW p \in Int
  PROVE  /\ Becomes(h, s, B \ F, [h EXCEPT !.ptr = p], B, s, F)
         /\ [h EXCEPT !.ptr = p].ptr = p /\ [h EXCEPT !.ptr = p].brk = h.brk
         /\ [h EXCEPT !.ptr = p].mem = h.mem
<1> DEFINE g == [h EXCEPT !.ptr = p]
<1>1. Shape(h, B, s, F) /\ FreeList(h, s, F) /\ NoTwo(s, F) /\ F \subseteq B
  BY DEF Sound, Shape
<1>2. Shape(g, B, s, F) /\ FreeList(g, s, F) /\ g.brk = h.brk /\ g.ptr = p /\ g.mem = h.mem
  BY <1>1, PtrKeeps
<1> HIDE DEF g
<1>3. Becomes(h, s, B \ F, g, B, s, F)
  BY <1>1, <1>2 DEF Becomes, Sound, Kept
<1> QED BY <1>2, <1>3 DEF g

\* A search that some list answers gives a block away and leaves the heap's end.
LEMMA FoundIs ==
  ASSUME NEW h, NEW B, NEW s, NEW F, Sound(h, B, s, F), NEW n \in Nat, n # 0,
         Searched(h, BlockSize(n)) # {}
  PROVE  \E C, t, G : Places(h, B, s, F, BlockSize(n), mm_malloc(h, n), C, t, G)
<1> DEFINE size == BlockSize(n)
           hits == Searched(h, size)
           l    == CHOOSE k \in hits : \A j \in hits : k <= j
           p    == FirstIn(h, l, size)
<1>1. Shape(h, B, s, F) /\ FreeList(h, s, F) /\ h \in Heaps /\ F \subseteq B
  BY DEF Sound, Shape
<1>2. size \in Nat /\ 4 <= size /\ size % 2 = 0
  BY BlockSizeIs
<1>3. mm_malloc(h, n) = place(h, p, size)
  BY DEF mm_malloc, PlaceAt
<1> HIDE DEF size
<1>4. hits # {}
  BY DEF size
<1>5. l \in hits
  <2>1. hits \in SUBSET Nat
    BY MmAssumption DEF Searched, Lists
  <2>2. \E k \in hits : \A j \in hits : k <= j
    <3> HIDE DEF hits
    <3> QED BY <1>4, <2>1, LeastNat
  <2> HIDE DEF hits
  <2> QED BY <2>2
<1>6. l \in Lists /\ p # NULL
  <2> HIDE DEF l
  <2> QED BY <1>5 DEF Searched
<1> HIDE DEF l
<1>7. PICK R : Linked(h.mem, h.lists, s, F, R)
  BY <1>1 DEF FreeList
<1>8. p \in F /\ size <= GET_SIZE(h, HDRP(p))
  BY <1>1, <1>6, <1>7, FirstInIs
<1> HIDE DEF p
<1>9. size <= s[p]
  <2>1. p \in B
    BY <1>1, <1>8
  <2> QED BY <1>1, <1>8, <2>1, TagsRead
<1>10. PICK C, t, G : Places(h, B, s, F, size, place(h, p, size), C, t, G)
  BY <1>2, <1>8, <1>9, PlaceIs
<1> QED BY <1>3, <1>10 DEF size

\* mm_malloc answers NULL or a new block, of at least size words.
Mallocs(h, B, s, F, size, g, C, t, G) ==
  /\ Becomes(h, s, B \ F, g, C, t, G)
  /\ \/ g.ptr = NULL /\ C \ G = B \ F
     \/ g.ptr \in C /\ g.ptr \notin B \ F /\ C \ G = (B \ F) \cup {g.ptr} /\ size <= t[g.ptr]

\* mm_malloc keeps the heap consistent and every allocated block as it is.
LEMMA MallocIs ==
  ASSUME NEW h, NEW B, NEW s, NEW F, Sound(h, B, s, F), NEW n \in Nat, n # 0
  PROVE  \E C, t, G : Mallocs(h, B, s, F, BlockSize(n), mm_malloc(h, n), C, t, G)
<1> DEFINE size  == BlockSize(n)
           hits  == Searched(h, size)
           more  == MAX(size, CHUNKSIZE)
           grown == extend_heap(h, more)
<1>1. size \in Nat /\ 4 <= size /\ size % 2 = 0
  BY BlockSizeIs
<1>2. hits = {} => mm_malloc(h, n) = IF grown.ptr = NULL THEN grown ELSE place(grown, grown.ptr, size)
  BY DEF mm_malloc, PlaceAt
<1> HIDE DEF size
<1>3. CASE hits # {}
  <2>1. PICK C, t, G : Places(h, B, s, F, BlockSize(n), mm_malloc(h, n), C, t, G)
    BY <1>3, FoundIs DEF size
  <2>2. Mallocs(h, B, s, F, BlockSize(n), mm_malloc(h, n), C, t, G)
    BY <2>1 DEF Places, Mallocs
  <2> QED BY <2>2
<1>4. more \in Nat /\ 4 <= more /\ size <= more
  BY <1>1, MmAssumption DEF MAX
<1>5. CASE hits = {} /\ CanGrow(h, more)
  <2> HIDE DEF more
  <2>1. PICK C, t, G : Extends(h, B, s, F, ALIGN(more), grown, C, t, G)
    BY <1>4, <1>5, ExtendIs
  <2> HIDE DEF grown
  <2>2. /\ Becomes(h, s, B \ F, grown, C, t, G) /\ C \ G = B \ F /\ Sound(grown, C, t, G)
        /\ grown.ptr \in G /\ ALIGN(more) <= t[grown.ptr]
    BY <2>1 DEF Extends, Becomes
  <2>3. grown.ptr \in C /\ t[grown.ptr] \in Nat /\ grown.ptr # NULL
    <3>1. Layout(C, t, grown.brk) /\ grown.ptr \in C
      BY <2>2 DEF Sound, Shape
    <3>2. \A q \in C : q \in Nat /\ t[q] \in Nat /\ 4 <= q
      BY <3>1, BlockIs
    <3> QED BY <3>1, <3>2 DEF NULL
  <2>4. size <= t[grown.ptr]
    <3>1. ALIGN(more) \in Nat /\ more <= ALIGN(more)
      BY <1>4, AlignIs
    <3> QED BY <1>1, <1>4, <2>2, <2>3, <3>1
  <2>5. PICK D, u, H : Places(grown, C, t, G, size, place(grown, grown.ptr, size), D, u, H)
    BY <1>1, <2>2, <2>4, PlaceIs
  <2>6. mm_malloc(h, n) = place(grown, grown.ptr, size)
    BY <1>2, <1>5, <2>3
  <2>7. Becomes(h, s, B \ F, mm_malloc(h, n), D, u, H)
    <3>1. Becomes(grown, t, B \ F, mm_malloc(h, n), D, u, H)
      BY <2>2, <2>5, <2>6 DEF Places
    <3> QED BY <2>2, <3>1, BecomesTrans
  <2>8. Mallocs(h, B, s, F, size, mm_malloc(h, n), D, u, H)
    BY <2>2, <2>5, <2>6, <2>7 DEF Places, Mallocs
  <2> QED BY <2>8 DEF size
<1>6. CASE hits = {} /\ ~CanGrow(h, more)
  <2>1. grown = [h EXCEPT !.ptr = NULL]
    BY <1>6 DEF extend_heap
  <2>2. NULL \in Int
    BY DEF NULL
  <2>3. Becomes(h, s, B \ F, grown, B, s, F) /\ grown.ptr = NULL
    BY <2>1, <2>2, AnswerIs
  <2> HIDE DEF grown
  <2>4. mm_malloc(h, n) = grown
    BY <1>2, <1>6, <2>3
  <2>5. Mallocs(h, B, s, F, size, mm_malloc(h, n), B, s, F)
    BY <2>3, <2>4 DEF Mallocs
  <2> QED BY <2>5 DEF size
<1> QED BY <1>3, <1>5, <1>6

-----------------------------------------------------------------------------
\* g is h but for payload words of the block to.
OnlyPayload(h, g, s, to) ==
  /\ g \in Heaps /\ g.brk = h.brk /\ g.lists = h.lists
  /\ \A a \in Addr : a \notin to .. to + s[to] - 3 => g.mem[a] = h.mem[a]

\* What the caller writes in its block is nothing to the allocator.
LEMMA PayloadIs ==
  ASSUME NEW h, NEW B, NEW s, NEW F, Sound(h, B, s, F), NEW to \in B \ F,
         NEW g, OnlyPayload(h, g, s, to)
  PROVE  Sound(g, B, s, F) /\ Kept(h, g, s, B \ {to})
<1>1. /\ Shape(h, B, s, F) /\ FreeList(h, s, F) /\ NoTwo(s, F) /\ MAX_HEAP \in Nat
      /\ Layout(B, s, h.brk) /\ F \subseteq B /\ Tags(h.mem, B, s, F, h.brk) /\ s \in [Nat -> Nat]
  BY MmAssumption DEF Sound, Shape, Layout
<1>2. \A q \in B : /\ q \in Nat /\ s[q] \in Nat /\ h.brk \in Nat /\ 4 <= q /\ 4 <= s[q] /\ q + s[q] <= h.brk
                   /\ h.brk <= MAX_HEAP
  BY <1>1, BlockIs
<1>3. \A q \in B : q = to \/ q + s[q] <= to \/ to + s[to] <= q
  BY <1>1, BlocksApart
<1>4. g \in Heaps /\ g.brk = h.brk /\ g.lists = h.lists
  BY DEF OnlyPayload
<1>5. \A a \in Addr : a \notin to .. to + s[to] - 3 => g.mem[a] = h.mem[a]
  BY DEF OnlyPayload
<1>6. ASSUME NEW q \in B PROVE g.mem[q - 1] = h.mem[q - 1] /\ g.mem[q + s[q] - 2] = h.mem[q + s[q] - 2]
  <2>1. q - 1 \in Addr /\ q + s[q] - 2 \in Addr
    BY <1>1, <1>2 DEF Addr
  <2>2. q - 1 \notin to .. to + s[to] - 3 /\ q + s[q] - 2 \notin to .. to + s[to] - 3
    BY <1>2, <1>3
  <2> QED BY <1>5, <2>1, <2>2
<1>7. g.mem[1] = h.mem[1] /\ g.mem[2] = h.mem[2] /\ g.mem[h.brk - 1] = h.mem[h.brk - 1]
  <2>1. 1 \in Addr /\ 2 \in Addr /\ h.brk - 1 \in Addr
    BY <1>1 DEF Layout, Addr
  <2>2. {1, 2, h.brk - 1} \cap (to .. to + s[to] - 3) = {}
    BY <1>2
  <2> QED BY <1>5, <2>1, <2>2
<1>8. Shape(g, B, s, F)
  BY <1>1, <1>4, <1>6, <1>7 DEF Shape, Tags
<1>9. FreeList(g, s, F)
  <2>1. ASSUME NEW q \in F PROVE g.mem[q] = h.mem[q] /\ g.mem[q + 1] = h.mem[q + 1]
    <3>1. q \in Addr /\ q + 1 \in Addr
      BY <1>1, <1>2 DEF Addr
    <3>2. q \notin to .. to + s[to] - 3 /\ q + 1 \notin to .. to + s[to] - 3
      BY <1>1, <1>2, <1>3
    <3> QED BY <1>5, <3>1, <3>2
  <2>2. SameLinks(h, g, s, s, F)
    BY <1>4, <2>1 DEF SameLinks
  <2> QED BY <1>1, <2>2, StaysLinked
<1>10. Kept(h, g, s, B \ {to})
  <2> SUFFICES ASSUME NEW q \in B \ {to}, NEW a \in q .. q + s[q] - 3 PROVE g.mem[a] = h.mem[a]
    BY DEF Kept
  <2>1. a \in Addr
    BY <1>1, <1>2 DEF Addr
  <2>2. a \notin to .. to + s[to] - 3
    BY <1>2, <1>3
  <2> QED BY <1>5, <2>1, <2>2
<1> QED BY <1>1, <1>8, <1>9, <1>10 DEF Sound

\* memcpy writes the payload of its target, and the source's words arrive.
LEMMA CopyIs ==
  ASSUME NEW h, NEW B, NEW s, NEW F, Sound(h, B, s, F), NEW to \in B \ F, NEW from \in B \ F,
         NEW k \in Nat, k + 2 <= s[to], k <= s[from]
  PROVE  /\ OnlyPayload(h, Copy(h, to, from, k), s, to) /\ Copy(h, to, from, k).ptr = h.ptr
         /\ \A j \in 0 .. k - 1 : Copy(h, to, from, k).mem[to + j] = h.mem[from + j]
<1> DEFINE g == Copy(h, to, from, k)
           m == [a \in Addr |-> IF a \in to .. to + k - 1 THEN h.mem[a - to + from] ELSE h.mem[a]]
<1>1. h \in Heaps /\ Layout(B, s, h.brk) /\ to \in B /\ from \in B /\ MAX_HEAP \in Nat
  BY MmAssumption DEF Sound, Shape
<1>2. /\ to \in Nat /\ s[to] \in Nat /\ 4 <= to /\ to + s[to] <= MAX_HEAP
      /\ from \in Nat /\ s[from] \in Nat /\ 4 <= from /\ from + s[from] <= MAX_HEAP
  <2>1. \A q \in B : q \in Nat /\ s[q] \in Nat /\ 4 <= q /\ q + s[q] <= h.brk /\ h.brk <= MAX_HEAP /\ h.brk \in Nat
    BY <1>1, BlockIs
  <2> QED BY <1>1, <2>1
<1>3. h.mem \in [Addr -> Word] /\ g = [h EXCEPT !.mem = m]
  BY <1>1 DEF Heaps, Copy
<1>4. m \in [Addr -> Word]
  <2> SUFFICES ASSUME NEW a \in Addr, a \in to .. to + k - 1 PROVE a - to + from \in Addr
    BY <1>3
  <2> QED BY <1>1, <1>2 DEF Addr
<1>5. \A j \in 0 .. k - 1 : m[to + j] = h.mem[from + j]
  <2> SUFFICES ASSUME NEW j \in 0 .. k - 1 PROVE m[to + j] = h.mem[from + j]
    OBVIOUS
  <2>1. to + j \in Addr /\ to + j \in to .. to + k - 1 /\ (to + j) - to + from = from + j
    BY <1>1, <1>2 DEF Addr
  <2> QED BY <2>1
<1>6. \A a \in Addr : a \notin to .. to + s[to] - 3 => m[a] = h.mem[a]
  BY <1>2
<1> HIDE DEF m
<1>7. g \in Heaps /\ g.mem = m /\ g.brk = h.brk /\ g.lists = h.lists /\ g.ptr = h.ptr
  BY <1>1, <1>3, <1>4 DEF Heaps
<1> HIDE DEF g
<1> QED BY <1>5, <1>6, <1>7 DEF OnlyPayload, g

\* The block p and the free block q above it become one block that is p's.
Absorbs(h, B, s, F, p, whole, g, C, t, G) ==
  /\ Becomes(h, s, (B \ F) \ {p}, g, C, t, G) /\ C \ G = B \ F
  /\ t[p] = whole /\ g.ptr = p /\ Kept(h, g, s, {p})

\* mm_realloc makes the block p and the free block q above it one allocated block.
LEMMA AbsorbIs ==
  ASSUME NEW h, NEW B, NEW s, NEW F, Sound(h, B, s, F), NEW p \in B \ F, NEW q \in F,
         p + s[p] = q, NEW whole, whole = s[p] + s[q]
  PROVE  \E C, t, G : Absorbs(h, B, s, F, p, whole, [Tag(delete_node(h, q), p, whole, 1) EXCEPT !.ptr = p], C, t, G)
<1> DEFINE taken  == delete_node(h, q)
           tagged == Tag(taken, p, whole, 1)
           g      == [tagged EXCEPT !.ptr = p]
           e      == q + s[q]
           X      == Between(B, p, e)
           L      == F \ {q}
           C      == B \ {q}
           t      == [s EXCEPT ![p] = whole]
<1>1. /\ Shape(h, B, s, F) /\ FreeList(h, s, F) /\ NoTwo(s, F)
      /\ Layout(B, s, h.brk) /\ F \subseteq B /\ p \in B /\ q \in B /\ p \notin F /\ s \in [Nat -> Nat]
  BY DEF Sound, Shape, Layout
<1>2. \A r \in B : r \in Nat /\ s[r] \in Nat /\ 4 <= s[r] /\ r + s[r] \in B \cup {h.brk}
  BY <1>1, BlockIs
<1>3. \A r, u \in B : r = u \/ r + s[r] <= u \/ u + s[u] <= r
  BY <1>1, BlocksApart
<1>4. e \in B \cup {h.brk} /\ e \in Nat /\ p < e /\ whole = e - p /\ p \in Nat /\ p < q /\ q < e
  BY <1>1, <1>2
<1>5. X = {p, q}
  <2>1. \A r \in B : p <= r /\ r < e => r = p \/ r = q
    BY <1>1, <1>2, <1>3
  <2>2. p <= p /\ p < e /\ p <= q /\ q < e
    <3>1. q \in Nat
      BY <1>1, <1>2
    <3> HIDE DEF e
    <3> QED BY <1>4, <3>1
  <2> HIDE DEF e
  <2>3. \A r : r \in X <=> r \in B /\ p <= r /\ r < e
    BY DEF Between
  <2> HIDE DEF X
  <2> QED BY <1>1, <2>1, <2>2, <2>3
<1>6. /\ Shape(taken, B, s, F) /\ FreeList(taken, s, L) /\ Kept(h, taken, s, B \ L)
      /\ taken.brk = h.brk
  <2>1. F \in SUBSET B
    BY <1>1
  <2> QED BY <1>1, <2>1, TakeOut DEF Moved
<1> HIDE DEF taken
<1>7. /\ Shape(tagged, C, t, L) /\ FreeList(tagged, t, L) /\ Kept(taken, tagged, s, C)
  <2>1. L \in SUBSET B /\ L \cap Between(B, p, e) = {} /\ 1 \in {0, 1}
    BY <1>1, <1>5
  <2>2. p \in B /\ e \in B \cup {taken.brk} /\ p < e /\ whole = e - p
    BY <1>1, <1>4, <1>6
  <2>3. (B \ X) \cup {p} = C /\ (F \ X) \cup (IF 1 = 0 THEN {p} ELSE {}) = L
    BY <1>1, <1>4, <1>5
  <2> HIDE DEF e, L, C, t, tagged
  <2>4. Merged(taken, B, s, F, L, p, X, whole, 1, tagged)
    BY <1>6, <2>1, <2>2, Merge DEF tagged
  <2> HIDE DEF X
  <2> QED BY <2>3, <2>4 DEF Merged, t
<1> HIDE DEF tagged
<1>8. t[p] = whole /\ \A r \in B : r # p => t[r] = s[r]
  BY <1>1, <1>2
<1> HIDE DEF t
<1>9. Shape(g, C, t, L) /\ FreeList(g, t, L) /\ g.ptr = p /\ g.mem = tagged.mem
  <2>1. p \in Int
    BY <1>4
  <2> HIDE DEF C, L
  <2> QED BY <1>7, <2>1, PtrKeeps
<1> HIDE DEF g
<1>10. Kept(h, g, s, B \ F)
  <2>1. B \ F \subseteq B \ L /\ B \ F \subseteq C
    OBVIOUS
  <2>2. Kept(h, tagged, s, B \ F)
    <3> HIDE DEF L, C
    <3> QED BY <1>6, <1>7, <2>1, KeptTrans
  <2> QED BY <1>9, <2>2 DEF Kept
<1>11. NoTwo(t, L)
  <2> SUFFICES ASSUME NEW r \in L PROVE r + t[r] \notin L
    BY DEF NoTwo
  <2> QED BY <1>1, <1>8 DEF NoTwo
<1>12. C \ L = B \ F
  BY <1>1
<1>13. Becomes(h, s, (B \ F) \ {p}, g, C, t, L)
  <2>1. Sound(g, C, t, L)
    BY <1>9, <1>11 DEF Sound
  <2>2. Kept(h, g, s, (B \ F) \ {p})
    BY <1>10 DEF Kept
  <2>3. \A r \in (B \ F) \ {p} : t[r] = s[r]
    BY <1>8
  <2> HIDE DEF C, L
  <2> QED BY <1>12, <2>1, <2>2, <2>3 DEF Becomes
<1>14. Absorbs(h, B, s, F, p, whole, g, C, t, L)
  <2>1. Kept(h, g, s, {p})
    BY <1>1, <1>10 DEF Kept
  <2> QED BY <1>8, <1>9, <1>12, <1>13, <2>1 DEF Absorbs
<1> QED BY <1>14 DEF g, tagged, taken

\* What ShortGap says of the heap h.
Gap(h, p, size) ==
  LET next == NEXT_BLKP(h, p)
  IN  /\ GET_ALLOC(h, HDRP(next)) = 0
      /\ NEXT_BLKP(h, next) # h.brk
      /\ GET_SIZE(h, HDRP(p)) + GET_SIZE(h, HDRP(next)) < size

\* mm_realloc changes nothing and answers NULL or CRASH, or answers a block that
\* holds what p held, in place of p.
Reallocs(h, B, s, F, p, size, g, C, t, G) ==
  \/ Becomes(h, s, B \ F, g, C, t, G) /\ C \ G = B \ F /\ g.ptr \in {NULL, CRASH}
  \/ /\ Becomes(h, s, (B \ F) \ {p}, g, C, t, G) /\ C \ G = ((B \ F) \ {p}) \cup {g.ptr}
     /\ g.ptr \notin (B \ F) \ {p} /\ size <= t[g.ptr]
     /\ \A k \in 0 .. s[p] - 3 : g.mem[g.ptr + k] = h.mem[p + k]

\* What it makes of them is an answer of mm_realloc if it is large enough.
LEMMA AbsorbIsRealloc ==
  ASSUME NEW h, NEW B, NEW s, NEW F, NEW p \in B \ F, p \in Nat, s[p] \in Nat, NEW size, NEW whole, size <= whole,
         NEW g, NEW C, NEW t, NEW G, Absorbs(h, B, s, F, p, whole, g, C, t, G)
  PROVE  Reallocs(h, B, s, F, p, size, g, C, t, G)
<1>1. g.ptr = p /\ t[p] = whole /\ Kept(h, g, s, {p})
  BY DEF Absorbs
<1>2. \A k \in 0 .. s[p] - 3 : g.mem[p + k] = h.mem[p + k]
  <2> SUFFICES ASSUME NEW k \in 0 .. s[p] - 3 PROVE g.mem[p + k] = h.mem[p + k]
    OBVIOUS
  <2>1. p + k \in p .. p + s[p] - 3
    OBVIOUS
  <2> QED BY <1>1, <2>1 DEF Kept
<1>3. ((B \ F) \ {p}) \cup {p} = B \ F
  OBVIOUS
<1> QED BY <1>1, <1>2, <1>3 DEF Absorbs, Reallocs

\* The block grows into the free block above it.
LEMMA ReallocFits ==
  ASSUME NEW h, NEW B, NEW s, NEW F, Sound(h, B, s, F), NEW p \in B \ F, NEW q \in F, p + s[p] = q,
         NEW size \in Nat, size <= s[p] + s[q]
  PROVE  \E C, t, G : Reallocs(h, B, s, F, p, size,
           [Tag(delete_node([h EXCEPT !.ptr = p], q), p, s[p] + s[q], 1) EXCEPT !.ptr = p], C, t, G)
<1> DEFINE grown == [h EXCEPT !.ptr = p]
           whole == s[p] + s[q]
           g == [Tag(delete_node(grown, q), p, whole, 1) EXCEPT !.ptr = p]
<1>1. Layout(B, s, h.brk) /\ p \in B
  BY DEF Sound, Shape
<1>2. p \in Nat /\ s[p] \in Nat
  BY <1>1, BlockIs
<1>3. Becomes(h, s, B \ F, grown, B, s, F) /\ grown.mem = h.mem
  BY <1>2, AnswerIs
<1> HIDE DEF grown
<1>4. Sound(grown, B, s, F)
  BY <1>3 DEF Becomes
<1>5. PICK C, t, G : Absorbs(grown, B, s, F, p, whole, g, C, t, G)
  <2> HIDE DEF whole
  <2>1. whole = s[p] + s[q]
    BY DEF whole
  <2> QED BY <1>4, <2>1, AbsorbIs
<1> HIDE DEF g
<1>6. Absorbs(h, B, s, F, p, whole, g, C, t, G)
  BY <1>3, <1>5 DEF Absorbs, Becomes, Kept
<1>7. Reallocs(h, B, s, F, p, size, g, C, t, G)
  <2> HIDE DEF whole
  <2>1. size <= whole
    BY DEF whole
  <2> QED BY <1>2, <1>6, <2>1, AbsorbIsRealloc
<1> QED BY <1>7 DEF g, grown

\* The block grows into the end of the heap, which is extended by more words.
LEMMA ReallocGrows ==
  ASSUME NEW h, NEW B, NEW s, NEW F, Sound(h, B, s, F), NEW p \in B \ F,
         NEW next, next = p + s[p],
         NEW above,
         (next = h.brk /\ above = 0) \/ (next \in F /\ next + s[next] = h.brk /\ above = s[next]),
         NEW size \in Nat, NEW more \in Nat, 4 <= more, more % 2 = 0, size <= s[p] + above + more,
         CanGrow(h, more), NEW grown, grown = extend_heap(h, more), NEW whole, whole = s[p] + above + more
  PROVE  \E C, t, G : /\ Reallocs(h, B, s, F, p, size,
                           [Tag(delete_node(grown, NEXT_BLKP(grown, p)), p, whole, 1) EXCEPT !.ptr = p], C, t, G)
                      /\ grown.ptr # NULL
<1> DEFINE q == grown.ptr
           g == [Tag(delete_node(grown, q), p, whole, 1) EXCEPT !.ptr = p]
<1>1. Layout(B, s, h.brk) /\ p \in B /\ p \notin F /\ F \subseteq B
  BY DEF Sound, Shape
<1>2. \A r \in B : r \in Nat /\ s[r] \in Nat /\ 4 <= s[r] /\ h.brk \in Nat
  BY <1>1, BlockIs
<1>3. PICK C, t, G : Extends(h, B, s, F, more, grown, C, t, G)
  <2>1. ALIGN(more) = more
    BY AlignIs
  <2> QED BY <2>1, ExtendIs
<1>4. /\ Becomes(h, s, B \ F, grown, C, t, G) /\ C \ G = B \ F /\ Sound(grown, C, t, G)
      /\ p \in C \ G /\ t[p] = s[p] /\ grown.brk = h.brk + more /\ q \in G /\ q + t[q] = h.brk + more
  BY <1>1, <1>3 DEF Extends, Becomes
<1>5. Layout(C, t, grown.brk) /\ Shape(grown, C, t, G) /\ p \in C /\ q \in C
  BY <1>4 DEF Sound, Shape
<1>6. q \in Nat /\ t[q] \in Nat /\ 4 <= q
  <2>1. \A r \in C : r \in Nat /\ t[r] \in Nat /\ 4 <= r
    BY <1>5, BlockIs
  <2> QED BY <1>5, <2>1
<1>7. q = next
  <2>1. CASE next = h.brk
    <3>1. q = h.brk \/ (q \in F /\ q + s[q] = h.brk)
      BY <1>3 DEF Extends
    <3>2. ASSUME q \in F, q + s[q] = h.brk PROVE FALSE
      <4>1. q = p \/ q + s[q] <= p \/ p + s[p] <= q
        BY <1>1, <3>2, BlocksApart
      <4> QED BY <1>1, <1>2, <2>1, <3>2, <4>1
    <3> QED BY <2>1, <3>1, <3>2
  <2>2. CASE next \in F /\ next + s[next] = h.brk
    BY <1>3, <2>2 DEF Extends
  <2> QED BY <2>1, <2>2
<1>8. NEXT_BLKP(grown, p) = q
  <2>1. NEXT_BLKP(grown, p) = p + t[p]
    BY <1>5, TagsRead
  <2> QED BY <1>4, <1>7, <2>1
<1>9. whole = t[p] + t[q]
  <2>1. p + whole = h.brk + more
    BY <1>1, <1>2
  <2> QED BY <1>1, <1>2, <1>4, <1>6, <1>7, <2>1
<1>10. PICK D, u, H : Absorbs(grown, C, t, G, p, whole, g, D, u, H)
  <2>1. p + t[p] = q /\ p \in C \ G /\ q \in G
    BY <1>4, <1>7
  <2> HIDE DEF q
  <2> QED BY <1>4, <1>9, <2>1, AbsorbIs
<1> HIDE DEF g
<1>11. Absorbs(h, B, s, F, p, whole, g, D, u, H)
  <2>1. Becomes(h, s, (B \ F) \ {p}, grown, C, t, G)
    BY <1>4 DEF Becomes, Kept
  <2>2. Becomes(grown, t, (B \ F) \ {p}, g, D, u, H) /\ D \ H = B \ F
    BY <1>4, <1>10 DEF Absorbs
  <2>3. Becomes(h, s, (B \ F) \ {p}, g, D, u, H)
    BY <2>1, <2>2, BecomesTrans
  <2>4. Kept(h, g, s, {p})
    <3>1. Kept(h, grown, s, {p})
      BY <1>1, <1>4 DEF Becomes, Kept
    <3>2. Kept(grown, g, t, {p})
      BY <1>10 DEF Absorbs
    <3> QED BY <1>4, <3>1, <3>2, KeptTrans
  <2> QED BY <1>10, <2>2, <2>3, <2>4 DEF Absorbs
<1>12. Reallocs(h, B, s, F, p, size, g, D, u, H)
  BY <1>1, <1>2, <1>11, AbsorbIsRealloc
<1>13. grown.ptr # NULL
  BY <1>6 DEF NULL
<1> QED BY <1>8, <1>12, <1>13 DEF g

\* The data moves to a new block and the old one is freed.
LEMMA ReallocMoves ==
  ASSUME NEW h, NEW B, NEW s, NEW F, Sound(h, B, s, F), NEW p \in B \ F,
         NEW size \in Nat, s[p] < size,
         NEW moved, moved = mm_malloc(h, size), moved.ptr # NULL
  PROVE  \E C, t, G : Reallocs(h, B, s, F, p, size,
           [mm_free(Copy(moved, moved.ptr, p, s[p]), p) EXCEPT !.ptr = moved.ptr], C, t, G)
<1> DEFINE q      == moved.ptr
           A      == (B \ F) \ {p}
           copied == Copy(moved, q, p, s[p])
           freed  == mm_free(copied, p)
           g      == [freed EXCEPT !.ptr = q]
<1>1. Layout(B, s, h.brk) /\ p \in B /\ p \notin F
  BY DEF Sound, Shape
<1>2. p \in Nat /\ s[p] \in Nat /\ size # 0
  BY <1>1, BlockIs
<1>3. PICK C, t, G : Mallocs(h, B, s, F, BlockSize(size), moved, C, t, G)
  BY <1>2, MallocIs
<1>4. /\ Becomes(h, s, B \ F, moved, C, t, G) /\ q \in C /\ q \notin B \ F /\ C \ G = (B \ F) \cup {q}
      /\ BlockSize(size) <= t[q]
  BY <1>3 DEF Mallocs
<1> HIDE DEF q
<1>5. Sound(moved, C, t, G) /\ Kept(h, moved, s, B \ F) /\ \A r \in B \ F : t[r] = s[r]
  BY <1>4 DEF Becomes
<1>6. q \in C \ G /\ p \in C \ G /\ p # q /\ t[p] = s[p]
  BY <1>4, <1>5
<1>7. q \in Nat /\ t[q] \in Nat /\ s[p] + 2 <= t[q] /\ size <= t[q]
  <2>1. BlockSize(size) \in Nat /\ size + 2 <= BlockSize(size)
    BY <1>2, BlockSizeIs
  <2>2. Layout(C, t, moved.brk)
    BY <1>5 DEF Sound, Shape
  <2>3. q \in Nat /\ t[q] \in Nat
    BY <1>4, <2>2, BlockIs
  <2> QED BY <1>2, <1>4, <2>1, <2>3
<1>8. /\ OnlyPayload(moved, copied, t, q)
      /\ \A j \in 0 .. s[p] - 1 : copied.mem[q + j] = moved.mem[p + j]
  <2>1. s[p] \in Nat /\ s[p] + 2 <= t[q] /\ s[p] <= t[p]
    BY <1>2, <1>6, <1>7
  <2> QED BY <1>5, <1>6, <2>1, CopyIs
<1> HIDE DEF copied
<1>9. Sound(copied, C, t, G) /\ Kept(moved, copied, t, C \ {q})
  BY <1>5, <1>6, <1>8, PayloadIs
<1>10. PICK D, u, H : Freed(copied, C, t, G, p, freed, D, u, H)
  BY <1>6, <1>9, FreeIs
<1> HIDE DEF freed
<1>11. Becomes(copied, t, (C \ G) \ {p}, freed, D, u, H) /\ D \ H = (C \ G) \ {p}
  BY <1>10 DEF Freed
<1>12. (C \ G) \ {p} = A \cup {q}
  BY <1>4, <1>6
<1>13. Becomes(freed, u, D \ H, g, D, u, H) /\ g.ptr = q /\ g.mem = freed.mem
  <2>1. Sound(freed, D, u, H) /\ q \in Int
    BY <1>7, <1>11 DEF Becomes
  <2> QED BY <2>1, AnswerIs
<1> HIDE DEF g
<1>14. Becomes(copied, t, A \cup {q}, g, D, u, H)
  BY <1>11, <1>12, <1>13, BecomesTrans
<1>15. Becomes(h, s, A, g, D, u, H)
  <2>1. Kept(h, copied, s, A)
    <3>1. A \subseteq B \ F /\ A \subseteq C \ {q} /\ \A r \in A : t[r] = s[r]
      BY <1>4, <1>5
    <3> HIDE DEF A
    <3> QED BY <1>5, <1>9, <3>1, KeptTrans
  <2>2. Becomes(copied, t, A, g, D, u, H)
    BY <1>14 DEF Becomes, Kept
  <2>3. \A r \in A : t[r] = s[r]
    BY <1>5
  <2> HIDE DEF A
  <2> QED BY <2>1, <2>2, <2>3, BecomesAfter
<1>16. D \ H = A \cup {g.ptr} /\ g.ptr \notin A
  BY <1>4, <1>11, <1>12, <1>13
<1>17. size <= u[g.ptr]
  <2>1. u[q] = t[q]
    BY <1>14 DEF Becomes
  <2> QED BY <1>7, <1>13, <2>1
<1>18. ASSUME NEW k \in 0 .. s[p] - 3 PROVE g.mem[g.ptr + k] = h.mem[p + k]
  <2>1. k \in 0 .. s[p] - 1 /\ q + k \in q .. q + t[q] - 3 /\ p + k \in p .. p + s[p] - 3
    BY <1>2, <1>7
  <2>2. g.mem[q + k] = copied.mem[q + k]
    BY <1>14, <2>1 DEF Becomes, Kept
  <2>3. moved.mem[p + k] = h.mem[p + k]
    BY <1>1, <1>5, <2>1 DEF Kept
  <2> QED BY <1>8, <1>13, <2>1, <2>2, <2>3
<1>19. Reallocs(h, B, s, F, p, size, g, D, u, H)
  BY <1>15, <1>16, <1>17, <1>18 DEF Reallocs
<1> QED BY <1>19 DEF g, freed, copied, q

\* mm_realloc answers a block that holds what p held, unless its free neighbour is
\* short and not the heap's last block.
LEMMA ReallocIs ==
  ASSUME NEW h, NEW B, NEW s, NEW F, Sound(h, B, s, F), NEW p \in B \ F,
         NEW n \in Nat, n # 0, ~Gap(h, p, BlockSize(n))
  PROVE  \E C, t, G : Reallocs(h, B, s, F, p, BlockSize(n), mm_realloc(h, p, n), C, t, G)
<1> DEFINE size  == BlockSize(n)
           have  == GET_SIZE(h, HDRP(p))
           next  == NEXT_BLKP(h, p)
           above == GET_SIZE(h, HDRP(next))
           spare == have + above - size
           more  == IF spare < 0 THEN MAX(-spare, CHUNKSIZE) ELSE 0
           grown == IF spare < 0 THEN extend_heap(h, more) ELSE [h EXCEPT !.ptr = p]
           taken == delete_node(grown, NEXT_BLKP(grown, p))
           moved == mm_malloc(h, size)
           g     == mm_realloc(h, p, n)
<1>1. Shape(h, B, s, F) /\ Layout(B, s, h.brk) /\ F \subseteq B /\ p \in B /\ p \notin F
  BY DEF Sound, Shape
<1>2. \A q \in B : /\ q \in Nat /\ s[q] \in Nat /\ 4 <= s[q] /\ s[q] % 2 = 0
                   /\ q + s[q] \in B \cup {h.brk} /\ q # h.brk
  BY <1>1, BlockIs
<1>3. size \in Nat /\ size % 2 = 0 /\ 4 <= size
  BY BlockSizeIs
<1>4. have = s[p] /\ next = p + s[p]
  BY <1>1, TagsRead
<1>5. next \in B \cup {h.brk}
  BY <1>1, <1>2, <1>4
<1>6. (GET_ALLOC(h, HDRP(next)) = 0 <=> next \in F) /\ above = IF next \in B THEN s[next] ELSE 0
  BY <1>1, <1>5, NextRead
<1>7. /\ above \in Nat /\ above % 2 = 0 /\ (above = 0 <=> next = h.brk)
      /\ have \in Nat /\ have % 2 = 0
  BY <1>1, <1>2, <1>4, <1>5, <1>6
<1>8. g = IF have >= size THEN [h EXCEPT !.ptr = p]
          ELSE IF GET_ALLOC(h, HDRP(next)) = 0 \/ above = 0
          THEN IF grown.ptr = NULL THEN grown
               ELSE [Tag(taken, p, size + spare + more, 1) EXCEPT !.ptr = p]
          ELSE IF moved.ptr = NULL THEN [moved EXCEPT !.ptr = CRASH]
          ELSE [mm_free(Copy(moved, moved.ptr, p, have), p) EXCEPT !.ptr = moved.ptr]
  BY DEF mm_realloc
<1>9. next \in F /\ have + above < size => next + s[next] = h.brk
  <2>1. next \in F => NEXT_BLKP(h, next) = next + s[next]
    BY <1>1, TagsRead
  <2> QED BY <1>6, <2>1 DEF Gap
<1> HIDE DEF size, have, above, next, g
<1>10. CASE have >= size
  <2>1. g = [h EXCEPT !.ptr = p]
    BY <1>8, <1>10
  <2>2. Becomes(h, s, B \ F, g, B, s, F) /\ g.ptr = p
    <3>1. p \in Int
      BY <1>1, <1>2
    <3> QED BY <2>1, <3>1, AnswerIs
  <2>3. Absorbs(h, B, s, F, p, s[p], g, B, s, F)
    BY <1>1, <2>2 DEF Absorbs, Becomes, Kept
  <2>4. Reallocs(h, B, s, F, p, size, g, B, s, F)
    <3>1. p \in Nat /\ s[p] \in Nat /\ size <= s[p]
      BY <1>1, <1>2, <1>3, <1>4, <1>10
    <3> QED BY <2>3, <3>1, AbsorbIsRealloc
  <2> QED BY <2>4 DEF g, size
<1>11. CASE have < size /\ (next \in F \/ above = 0) /\ size <= have + above
  <2>1. next \in F /\ spare >= 0 /\ size + spare + more = s[p] + s[next]
    BY <1>1, <1>3, <1>4, <1>6, <1>7, <1>11
  <2>2. grown = [h EXCEPT !.ptr = p]
    BY <1>3, <1>7, <2>1
  <2>3. grown.mem = h.mem /\ grown.ptr = p
    <3>1. p \in Int
      BY <1>1, <1>2
    <3> HIDE DEF grown
    <3> QED BY <2>2, <3>1, AnswerIs
  <2>4. NEXT_BLKP(grown, p) = next
    BY <2>3 DEF NEXT_BLKP, GET_SIZE, next
  <2>5. grown.ptr # NULL
    <3>1. 4 <= p /\ p \in Nat
      BY <1>1, BlockIs
    <3> HIDE DEF grown
    <3> QED BY <2>3, <3>1 DEF NULL
  <2>6. g = [Tag(delete_node([h EXCEPT !.ptr = p], next), p, s[p] + s[next], 1) EXCEPT !.ptr = p]
    <3> HIDE DEF grown, spare, more
    <3> QED BY <1>3, <1>6, <1>7, <1>8, <1>11, <2>1, <2>2, <2>4, <2>5
  <2>7. \E C, t, G : Reallocs(h, B, s, F, p, size,
           [Tag(delete_node([h EXCEPT !.ptr = p], next), p, s[p] + s[next], 1) EXCEPT !.ptr = p], C, t, G)
    <3>1. size \in Nat /\ size <= s[p] + s[next] /\ p + s[p] = next /\ next \in F
      BY <1>1, <1>3, <1>4, <1>6, <1>11, <2>1
    <3> QED BY <3>1, ReallocFits
  <2> QED BY <2>6, <2>7 DEF g, size
<1>12. CASE have < size /\ (next \in F \/ above = 0) /\ ~(size <= have + above)
  <2>1. /\ spare < 0 /\ more \in Nat /\ 4 <= more /\ more % 2 = 0 /\ size <= s[p] + above + more
        /\ size + spare + more = s[p] + above + more
    <3>1. have + above < size
      BY <1>3, <1>7, <1>12
    <3>2. spare < 0 /\ -spare \in Nat /\ spare % 2 = 0 /\ spare \in Int /\ (-spare) % 2 = 0
      BY <1>3, <1>7, <3>1
    <3>3. more = MAX(-spare, CHUNKSIZE)
      BY <3>2
    <3>4. CHUNKSIZE \in Nat /\ 4 <= CHUNKSIZE /\ CHUNKSIZE % 2 = 0
      BY MmAssumption
    <3>5. size + spare = s[p] + above /\ s[p] \in Nat
      BY <1>3, <1>4, <1>7
    <3> HIDE DEF spare, more
    <3>6. more \in Nat /\ 4 <= more /\ more % 2 = 0 /\ -spare <= more
      BY <3>2, <3>3, <3>4 DEF MAX
    <3> QED BY <1>3, <1>7, <3>2, <3>5, <3>6
  <2>2. grown = extend_heap(h, more)
    BY <2>1
  <2> HIDE DEF spare, more, grown
  <2>3. CASE CanGrow(h, more)
    <3>1. (next = h.brk /\ above = 0) \/ (next \in F /\ next + s[next] = h.brk /\ above = s[next])
      <4>1. next \in F => have + above < size
        BY <1>3, <1>7, <1>12
      <4> QED BY <1>1, <1>6, <1>7, <1>9, <1>12, <4>1
    <3> DEFINE whole == s[p] + above + more
    <3>2. \E C, t, G : /\ Reallocs(h, B, s, F, p, size,
                           [Tag(delete_node(grown, NEXT_BLKP(grown, p)), p, whole, 1) EXCEPT !.ptr = p], C, t, G)
                       /\ grown.ptr # NULL
      <4>1. whole = s[p] + above + more /\ size \in Nat /\ next = p + s[p]
        BY <1>3, <1>4
      <4> HIDE DEF whole
      <4> QED BY <2>1, <2>2, <2>3, <3>1, <4>1, ReallocGrows
    <3>3. g = [Tag(delete_node(grown, NEXT_BLKP(grown, p)), p, whole, 1) EXCEPT !.ptr = p]
      <4>1. ~(have >= size) /\ size + spare + more = whole
        BY <1>3, <1>7, <1>12, <2>1
      <4> HIDE DEF whole
      <4> QED BY <1>6, <1>8, <1>12, <3>2, <4>1
    <3> QED BY <3>2, <3>3 DEF g, size
  <2>4. CASE ~CanGrow(h, more)
    <3>1. grown = [h EXCEPT !.ptr = NULL]
      BY <2>2, <2>4 DEF extend_heap
    <3>2. Becomes(h, s, B \ F, grown, B, s, F) /\ grown.ptr = NULL
      <4>1. NULL \in Int
        BY DEF NULL
      <4> QED BY <3>1, <4>1, AnswerIs
    <3>3. g = grown
      <4>1. ~(have >= size)
        BY <1>3, <1>7, <1>12
      <4> QED BY <1>6, <1>8, <1>12, <3>2, <4>1
    <3>4. Reallocs(h, B, s, F, p, size, g, B, s, F)
      BY <3>2, <3>3 DEF Reallocs
    <3> QED BY <3>4 DEF g, size
  <2> QED BY <2>3, <2>4
<1>13. CASE have < size /\ next \notin F /\ above # 0
  <2>1. ~(have >= size)
    BY <1>3, <1>7, <1>13
  <2>2. CASE moved.ptr = NULL
    <3>1. g = [moved EXCEPT !.ptr = CRASH]
      BY <1>6, <1>8, <1>13, <2>1, <2>2
    <3>2. PICK C, t, G : Mallocs(h, B, s, F, BlockSize(size), moved, C, t, G)
      <4>1. size # 0
        BY <1>3
      <4> QED BY <1>3, <4>1, MallocIs
    <3> HIDE DEF moved
    <3>3. Becomes(h, s, B \ F, moved, C, t, G) /\ Sound(moved, C, t, G) /\ C \ G = B \ F
      <4>1. NULL \notin C
        <5>1. Becomes(h, s, B \ F, moved, C, t, G)
          BY <3>2 DEF Mallocs
        <5>2. Layout(C, t, moved.brk)
          BY <5>1 DEF Becomes, Sound, Shape
        <5>3. \A q \in C : 4 <= q
          BY <5>2, BlockIs
        <5> QED BY <5>3 DEF NULL
      <4> QED BY <2>2, <3>2, <4>1 DEF Mallocs, Becomes
    <3>4. Becomes(moved, t, B \ F, g, C, t, G) /\ g.ptr = CRASH
      <4>1. CRASH \in Int
        BY DEF CRASH
      <4> QED BY <3>1, <3>3, <4>1, AnswerIs
    <3>5. Reallocs(h, B, s, F, p, size, g, C, t, G)
      BY <3>3, <3>4, BecomesTrans DEF Reallocs
    <3> QED BY <3>5 DEF g, size
  <2>3. CASE moved.ptr # NULL
    <3>1. g = [mm_free(Copy(moved, moved.ptr, p, s[p]), p) EXCEPT !.ptr = moved.ptr]
      BY <1>4, <1>6, <1>8, <1>13, <2>1, <2>3
    <3>2. \E C, t, G : Reallocs(h, B, s, F, p, size,
             [mm_free(Copy(moved, moved.ptr, p, s[p]), p) EXCEPT !.ptr = moved.ptr], C, t, G)
      <4>1. moved = mm_malloc(h, size) /\ size \in Nat /\ s[p] < size
        BY <1>3, <1>4, <1>13
      <4> HIDE DEF moved
      <4> QED BY <2>3, <4>1, ReallocMoves
    <3> QED BY <3>1, <3>2 DEF g, size
  <2> QED BY <2>2, <2>3
<1> QED BY <1>3, <1>7, <1>10, <1>11, <1>12, <1>13

\* mm_init leaves one free block that is the whole heap.
LEMMA PrologueIs ==
  ASSUME NEW h \in Heaps
  PROVE  LET empty == [mem_sbrk([h EXCEPT !.brk = 0], 4) EXCEPT !.lists = [l \in Lists |-> NULL]]
             g     == PUT(PUT(PUT(PUT(empty, 0, 0), 1, PACK(2, 1)), 2, PACK(2, 1)), 3, PACK(0, 1))
         IN  Sound(g, {}, [a \in Nat |-> 0], {}) /\ g.brk = 4
<1> DEFINE empty == [mem_sbrk([h EXCEPT !.brk = 0], 4) EXCEPT !.lists = [l \in Lists |-> NULL]]
           one   == PUT(empty, 0, 0)
           two   == PUT(one, 1, PACK(2, 1))
           three == PUT(two, 2, PACK(2, 1))
           g     == PUT(three, 3, PACK(0, 1))
           s     == [a \in Nat |-> 0]
<1>1. MAX_HEAP \in Nat /\ 8 <= MAX_HEAP /\ MaxBlocks \in Nat
  BY MmAssumption
<1>2. /\ 0 \in Addr /\ 1 \in Addr /\ 2 \in Addr /\ 3 \in Addr
      /\ 0 \in Word /\ PACK(2, 1) \in Word /\ PACK(0, 1) \in Word
      /\ PACK(2, 1) = 3 /\ PACK(0, 1) = 1 /\ NULL \in Addr
  BY <1>1 DEF Addr, Word, PACK, NULL
<1>3. empty \in Heaps /\ empty.brk = 4 /\ empty.lists = [l \in Lists |-> NULL]
  <2> DEFINE zero == [h EXCEPT !.brk = 0]
             risen == mem_sbrk(zero, 4)
             none == [l \in Lists |-> NULL]
  <2>1. zero \in Heaps /\ zero.brk = 0
    BY <1>1 DEF Heaps
  <2> HIDE DEF zero
  <2>2. risen \in Heaps /\ risen.brk = 4
    BY <1>1, <2>1 DEF mem_sbrk, Heaps
  <2> HIDE DEF risen
  <2>3. none \in [Lists -> Addr]
    BY <1>2
  <2> HIDE DEF none
  <2>4. empty = [risen EXCEPT !.lists = none]
    BY DEF risen, zero, none
  <2> HIDE DEF empty
  <2>5. empty \in Heaps /\ empty.brk = 4 /\ empty.lists = none
    BY <2>2, <2>3, <2>4 DEF Heaps
  <2> QED BY <2>5 DEF none
<1> HIDE DEF empty
<1>4. one \in Heaps /\ one.brk = 4 /\ one.lists = empty.lists
  BY <1>2, <1>3, PutIs
<1> HIDE DEF one
<1>5. two \in Heaps /\ two.brk = 4 /\ two.lists = empty.lists /\ two.mem[1] = 3
  <2>1. two \in Heaps /\ two.brk = 4 /\ two.lists = empty.lists /\ two.mem = [one.mem EXCEPT ![1] = PACK(2, 1)]
    BY <1>2, <1>4, PutIs
  <2> QED BY <1>2, <1>4, <2>1 DEF Heaps
<1> HIDE DEF two
<1>6. three \in Heaps /\ three.brk = 4 /\ three.lists = empty.lists /\ three.mem[1] = 3 /\ three.mem[2] = 3
  <2>1. /\ three \in Heaps /\ three.brk = 4 /\ three.lists = empty.lists
        /\ three.mem = [two.mem EXCEPT ![2] = PACK(2, 1)]
    BY <1>2, <1>5, PutIs
  <2> QED BY <1>2, <1>5, <2>1 DEF Heaps
<1> HIDE DEF three
<1>7. g \in Heaps /\ g.brk = 4 /\ g.lists = empty.lists /\ g.mem[1] = 3 /\ g.mem[2] = 3 /\ g.mem[3] = 1
  <2>1. g \in Heaps /\ g.brk = 4 /\ g.lists = empty.lists /\ g.mem = [three.mem EXCEPT ![3] = PACK(0, 1)]
    BY <1>2, <1>6, PutIs
  <2> QED BY <1>2, <1>6, <2>1 DEF Heaps
<1> HIDE DEF g
<1>8. Layout({}, s, 4)
  BY <1>1 DEF Layout, Sized, Apart, Reached
<1>9. Shape(g, {}, s, {})
  BY <1>7, <1>8 DEF Shape, Tags
<1>10. Linked(g.mem, g.lists, s, {}, s)
  BY <1>3, <1>7 DEF Linked, LinksDown, LinksUp, HeadsUp, Heads
<1>11. Sound(g, {}, s, {})
  BY <1>9, <1>10 DEF Sound, FreeList, NoTwo
<1> QED BY <1>7, <1>11 DEF g, three, two, one, empty

\* mm_init leaves a consistent heap without allocated blocks, whatever was there.
LEMMA InitIs ==
  ASSUME NEW h \in Heaps
  PROVE  \E C, t, G : Sound(mm_init(h), C, t, G) /\ C \ G = {} /\ mm_init(h).ptr = NULL
<1> DEFINE empty == [mem_sbrk([h EXCEPT !.brk = 0], 4) EXCEPT !.lists = [l \in Lists |-> NULL]]
           first == PUT(PUT(PUT(PUT(empty, 0, 0), 1, PACK(2, 1)), 2, PACK(2, 1)), 3, PACK(0, 1))
           s     == [a \in Nat |-> 0]
           grown == extend_heap(first, INITCHUNKSIZE)
           g     == [grown EXCEPT !.ptr = NULL]
<1>1. Sound(first, {}, s, {}) /\ first.brk = 4
  BY PrologueIs
<1>2. mm_init(h) = g
  BY DEF mm_init
<1> HIDE DEF first, s
<1>3. INITCHUNKSIZE \in Nat /\ 4 <= INITCHUNKSIZE /\ CanGrow(first, INITCHUNKSIZE)
  <2>1. INITCHUNKSIZE \in Nat /\ INITCHUNKSIZE % 2 = 0 /\ 4 + INITCHUNKSIZE <= MAX_HEAP /\ 4 <= INITCHUNKSIZE
    BY MmAssumption
  <2>2. ALIGN(INITCHUNKSIZE) = INITCHUNKSIZE
    BY <2>1, AlignIs
  <2> QED BY <1>1, <2>1, <2>2 DEF CanGrow
<1>4. PICK C, t, G : Extends(first, {}, s, {}, ALIGN(INITCHUNKSIZE), grown, C, t, G)
  BY <1>1, <1>3, ExtendIs
<1> HIDE DEF grown
<1>5. Sound(grown, C, t, G) /\ C \ G = {}
  BY <1>4 DEF Extends, Becomes
<1>6. Becomes(grown, t, C \ G, g, C, t, G) /\ g.ptr = NULL
  <2>1. NULL \in Int
    BY DEF NULL
  <2> QED BY <1>5, <2>1, AnswerIs
<1> QED BY <1>2, <1>5, <1>6 DEF Becomes

-----------------------------------------------------------------------------
\* The driver's table b holds exactly the blocks O, each large enough for what
\* it was asked for and with the driver's marks in place.
HeldIn(b) == {i \in Index : b[i] # None}
Tables    == [Index -> [lo : Nat, size : Nat]]
Holds(h, b, i, s) ==
  /\ b.size \in Requests /\ b.size + 2 <= s[b.lo]
  /\ \A a \in Words(b) : h.mem[a] = Mark(i)
Holdings(h, b, O, s) ==
  /\ b \in Tables /\ O = {b[i].lo : i \in HeldIn(b)}
  /\ \A i, j \in HeldIn(b) : b[i].lo = b[j].lo => i = j
  /\ \A i \in HeldIn(b) : Holds(h, b[i], i, s)

\* b2 holds some of what b holds.
Fewer(b2, b) == b2 \in Tables /\ \A i \in HeldIn(b2) : b2[i] = b[i]

\* A payload that is kept still holds what the driver filled it with.
LEMMA HoldsKept ==
  ASSUME NEW h, NEW b \in [lo : Nat, size : Nat], NEW i, NEW s, Holds(h, b, i, s), s[b.lo] \in Nat,
         NEW g, NEW O, Kept(h, g, s, O), b.lo \in O, NEW t, t[b.lo] = s[b.lo]
  PROVE  Holds(g, b, i, t)
<1>1. \A a \in Words(b) : a \in b.lo .. b.lo + s[b.lo] - 3
  BY DEF Words, Holds
<1> QED BY <1>1 DEF Holds, Kept

\* So does every payload of the table.
LEMMA HoldingsKept ==
  ASSUME NEW h, NEW b, NEW A, NEW s, Holdings(h, b, A, s), \A q \in A : s[q] \in Nat,
         NEW b2, Fewer(b2, b), NEW O, O = {b2[i].lo : i \in HeldIn(b2)},
         NEW g, Kept(h, g, s, O), NEW t, \A q \in O : t[q] = s[q]
  PROVE  Holdings(g, b2, O, t)
<1>1. b2 \in Tables /\ \A i \in HeldIn(b2) : i \in HeldIn(b) /\ b2[i] = b[i] /\ b2[i].lo \in O
  BY DEF Fewer, HeldIn
<1>2. \A i, j \in HeldIn(b2) : b2[i].lo = b2[j].lo => i = j
  BY <1>1 DEF Holdings
<1>3. ASSUME NEW i \in HeldIn(b2) PROVE Holds(g, b2[i], i, t)
  <2>1. b2[i] \in [lo : Nat, size : Nat]
    BY <1>1 DEF Tables, HeldIn
  <2>2. Holds(h, b2[i], i, s) /\ s[b2[i].lo] \in Nat
    BY <1>1 DEF Holdings
  <2>3. b2[i].lo \in O /\ t[b2[i].lo] = s[b2[i].lo]
    BY <1>1
  <2> QED BY <2>1, <2>2, <2>3, HoldsKept
<1> QED BY <1>1, <1>2, <1>3 DEF Holdings

\* What the driver and the allocator agree on between two requests.
Serves(h, b, B, s, F) == Sound(h, B, s, F) /\ Holdings(h, b, B \ F, s)

\* The driver gives up what b2 lacks and the allocator's answer keeps the rest.
LEMMA ServesStill ==
  ASSUME NEW h, NEW b, NEW B, NEW s, NEW F, Serves(h, b, B, s, F),
         NEW b2, Fewer(b2, b), NEW O, O = {b2[i].lo : i \in HeldIn(b2)},
         NEW g, NEW C, NEW t, NEW G, Becomes(h, s, O, g, C, t, G), C \ G = O
  PROVE  Serves([g EXCEPT !.ptr = NULL], b2, C, t, G)
<1>1. \A q \in B \ F : s[q] \in Nat
  BY BlockIs DEF Serves, Sound, Shape
<1>2. Holdings(g, b2, O, t)
  BY <1>1, HoldingsKept DEF Serves, Becomes
<1> DEFINE f == [g EXCEPT !.ptr = NULL]
<1>3. Becomes(g, t, C \ G, f, C, t, G) /\ f.mem = g.mem
  <2>1. Sound(g, C, t, G) /\ NULL \in Int
    BY DEF Becomes, NULL
  <2> QED BY <2>1, AnswerIs
<1> HIDE DEF f
<1>4. Holdings(f, b2, O, t)
  BY <1>2, <1>3 DEF Holdings, Holds
<1> QED BY <1>3, <1>4 DEF Serves, Becomes, f

\* g is h but for the payload of block q, of which the words of b hold i's mark.
Filled(h, g, t, q, b, i) == OnlyPayload(h, g, t, q) /\ \A a \in Words(b) : g.mem[a] = Mark(i)

\* Filling a block is a write to its payload.
LEMMA FillIs ==
  ASSUME NEW h, NEW C, NEW t, NEW G, Sound(h, C, t, G), NEW q \in C \ G,
         NEW i \in Index, NEW b, b.size \in Nat, b.lo = q, b.size + 2 <= t[q]
  PROVE  Filled(h, [Fill(h, i, b) EXCEPT !.ptr = NULL], t, q, b, i)
<1> DEFINE n == b.size
           g == [Fill(h, i, b) EXCEPT !.ptr = NULL]
           m == [a \in Addr |-> IF a \in Words(b) THEN Mark(i) ELSE h.mem[a]]
<1>1. h \in Heaps /\ Layout(C, t, h.brk) /\ q \in C /\ MAX_HEAP \in Nat
  BY MmAssumption DEF Sound, Shape
<1>2. q \in Nat /\ t[q] \in Nat /\ q + t[q] <= MAX_HEAP
  <2>1. \A r \in C : r \in Nat /\ t[r] \in Nat /\ r + t[r] <= h.brk /\ h.brk <= MAX_HEAP /\ h.brk \in Nat
    BY <1>1, BlockIs
  <2> QED BY <1>1, <2>1
<1>3. Words(b) = q .. q + n - 1
  BY DEF Words
<1>4. Mark(i) \in Word
  BY MmAssumption DEF Mark, Word, Index
<1>5. m \in [Addr -> Word]
  BY <1>1, <1>4 DEF Heaps
<1>6. \A a \in Words(b) : m[a] = Mark(i)
  BY <1>1, <1>2, <1>3 DEF Addr
<1>7. \A a \in Addr : a \notin q .. q + t[q] - 3 => m[a] = h.mem[a]
  BY <1>2, <1>3
<1> DEFINE filled == [h EXCEPT !.mem = m]
<1>8. Fill(h, i, b) = filled
  BY <1>1 DEF Fill, Heaps
<1> HIDE DEF m
<1>9. /\ filled \in Heaps /\ filled.mem = m /\ filled.brk = h.brk /\ filled.lists = h.lists
  BY <1>1, <1>5 DEF Heaps
<1> HIDE DEF filled
<1>10. g \in Heaps /\ g.mem = m /\ g.brk = h.brk /\ g.lists = h.lists
  <2>1. NULL \in Int
    BY DEF NULL
  <2>2. g = [filled EXCEPT !.ptr = NULL]
    BY <1>8
  <2> QED BY <1>9, <2>1, <2>2 DEF Heaps
<1> QED BY <1>6, <1>7, <1>10 DEF OnlyPayload, Filled

\* The driver accepts block new of the heap g as i's, next to what b holds.
Accepts(g, b, i, new, C, t, G) ==
  /\ AddRange(g, new, {b[j] : j \in HeldIn(b)}) /\ new.lo \notin {NULL, CRASH}
  /\ Serves([Fill(g, i, new) EXCEPT !.ptr = NULL], [b EXCEPT ![i] = new], C, t, G)

\* The driver accepts a new block and the allocator serves the table with it.
LEMMA TakeServes ==
  ASSUME NEW g, NEW b, NEW C, NEW t, NEW G, NEW O, Sound(g, C, t, G), Holdings(g, b, O, t),
         g.ptr \in Int, g.ptr \notin O, C \ G = O \cup {g.ptr},
         NEW i \in Index \ HeldIn(b), NEW n \in Requests, BlockSize(n) <= t[g.ptr],
         NEW new \in [lo : Int, size : Int], new.lo = g.ptr, new.size = n
  PROVE  Accepts(g, b, i, new, C, t, G)
<1> DEFINE q  == g.ptr
           f  == [Fill(g, i, new) EXCEPT !.ptr = NULL]
           b2 == [b EXCEPT ![i] = new]
<1>1. Layout(C, t, g.brk) /\ q \in C /\ q \notin G /\ O \subseteq C
  BY DEF Sound, Shape
<1>2. \A r \in C : r \in Nat /\ t[r] \in Nat /\ 4 <= r /\ r % 2 = 0 /\ r + t[r] <= g.brk /\ g.brk \in Nat
  BY <1>1, BlockIs
<1>3. n \in Nat /\ n # 0 /\ n + 2 <= t[q]
  <2>1. n \in Nat /\ n # 0
    BY MmAssumption
  <2>2. BlockSize(n) \in Nat /\ n + 2 <= BlockSize(n)
    BY <2>1, BlockSizeIs
  <2> QED BY <1>1, <1>2, <2>1, <2>2
<1>4. new.lo = q /\ new.size = n /\ Words(new) = q .. q + n - 1
  BY DEF Words
<1>5. b \in Tables /\ O = {b[j].lo : j \in HeldIn(b)}
  BY DEF Holdings
<1> HIDE DEF q
<1>6. ASSUME NEW j \in HeldIn(b)
      PROVE  /\ b[j].lo \in O /\ b[j].lo \in C /\ b[j].lo \in Nat /\ b[j].size \in Nat /\ b[j].size + 2 <= t[b[j].lo]
             /\ b[j].lo + t[b[j].lo] <= q \/ q + t[q] <= b[j].lo
  <2>1. b[j].lo \in O /\ b[j].lo \in C /\ b[j].lo # q
    BY <1>1, <1>5 DEF q
  <2>2. b[j].lo \in Nat /\ b[j].size \in Nat
    BY <1>5 DEF Tables, HeldIn
  <2>3. b[j].size + 2 <= t[b[j].lo]
    BY DEF Holdings, Holds
  <2>4. b[j].lo + t[b[j].lo] <= q \/ q + t[q] <= b[j].lo
    <3> DEFINE r == b[j].lo
    <3>1. r \in C /\ q \in C /\ r # q
      BY <1>1, <2>1
    <3> HIDE DEF r
    <3>2. r + t[r] <= q \/ q + t[q] <= r
      BY <1>1, <3>1, BlocksApart
    <3> QED BY <3>2 DEF r
  <2> QED BY <2>1, <2>2, <2>3, <2>4
<1>7. AddRange(g, new, {b[j] : j \in HeldIn(b)})
  <2>1. q \in Nat /\ t[q] \in Nat /\ q + t[q] <= g.brk /\ g.brk \in Nat /\ q % 2 = 0 /\ 4 <= q
    BY <1>1, <1>2
  <2>2. ASSUME NEW j \in HeldIn(b) PROVE q \notin Words(b[j]) /\ q + n - 1 \notin Words(b[j])
    <3>1. t[b[j].lo] \in Nat
      BY <1>2, <1>6
    <3> QED BY <1>3, <1>6, <2>1, <3>1 DEF Words
  <2>3. q \in 0 .. g.brk - 1 /\ q + n - 1 \in 0 .. g.brk - 1
    BY <1>3, <2>1
  <2>4. \A o \in {b[j] : j \in HeldIn(b)} : q \notin Words(o) /\ q + n - 1 \notin Words(o)
    BY <2>2
  <2> QED BY <1>4, <2>1, <2>3, <2>4 DEF AddRange
<1>8. new.lo \notin {NULL, CRASH}
  BY <1>1, <1>2, <1>4 DEF NULL, CRASH
<1>9. /\ OnlyPayload(g, f, t, q) /\ \A a \in Words(new) : f.mem[a] = Mark(i)
  <2>1. q \in C \ G /\ i \in Index /\ new.size \in Nat /\ new.size + 2 <= t[q] /\ new.lo = q
    BY <1>1, <1>3, <1>4
  <2>2. Filled(g, f, t, q, new, i)
    BY <2>1, FillIs
  <2> QED BY <2>2 DEF Filled
<1> HIDE DEF f
<1>10. Sound(f, C, t, G) /\ Kept(g, f, t, C \ {q})
  <2>1. q \in C \ G
    BY <1>1
  <2> QED BY <1>9, <2>1, PayloadIs
<1>11. Holdings(f, b, O, t)
  <2>1. \A r \in O : t[r] \in Nat
    BY <1>1, <1>2
  <2>2. Fewer(b, b)
    BY <1>5 DEF Fewer
  <2>3. Kept(g, f, t, O)
    BY <1>1, <1>10 DEF Kept, q
  <2> QED BY <1>5, <2>1, <2>2, <2>3, HoldingsKept
<1>12. b2 \in Tables /\ b2[i] = new /\ \A j \in Index : j # i => b2[j] = b[j]
  <2>1. new \in [lo : Nat, size : Nat]
    BY <1>1, <1>2, <1>3 DEF q
  <2> QED BY <1>5, <2>1 DEF Tables
<1> HIDE DEF b2
<1>13. HeldIn(b2) = HeldIn(b) \cup {i} /\ i \notin HeldIn(b)
  <2>1. new # None
    BY <1>1, <1>2, <1>4 DEF None, NULL
  <2> QED BY <1>12, <2>1 DEF HeldIn
<1>14. ASSUME NEW j \in HeldIn(b2) PROVE j # i => j \in HeldIn(b) /\ b2[j] = b[j]
  BY <1>12, <1>13 DEF HeldIn
<1>15. {b2[j].lo : j \in HeldIn(b2)} = C \ G
  <2>1. {b2[j].lo : j \in HeldIn(b2)} = O \cup {q}
    BY <1>4, <1>5, <1>12, <1>13, <1>14
  <2> QED BY <2>1 DEF q
<1>16. \A j, k \in HeldIn(b2) : b2[j].lo = b2[k].lo => j = k
  <2>1. \A j \in HeldIn(b) : b[j].lo # q
    BY <1>5 DEF q
  <2>2. \A j, k \in HeldIn(b) : b[j].lo = b[k].lo => j = k
    BY DEF Holdings
  <2> QED BY <1>4, <1>12, <1>14, <2>1, <2>2
<1>17. ASSUME NEW j \in HeldIn(b2) PROVE Holds(f, b2[j], j, t)
  <2>1. CASE j = i
    BY <1>3, <1>4, <1>9, <1>12, <2>1 DEF Holds
  <2>2. CASE j # i
    BY <1>11, <1>14, <2>2 DEF Holdings
  <2> QED BY <2>1, <2>2
<1>18. Serves(f, b2, C, t, G)
  BY <1>10, <1>12, <1>15, <1>16, <1>17 DEF Serves, Holdings
<1> QED BY <1>7, <1>8, <1>18 DEF f, b2, Accepts

\* b2 is the table b without index i; O are the blocks it holds.
Without(b, b2, i, O) ==
  /\ Fewer(b2, b) /\ HeldIn(b2) = HeldIn(b) \ {i}
  /\ \A j \in HeldIn(b2) : b2[j] = b[j]
  /\ {b2[j].lo : j \in HeldIn(b2)} = O

\* The table without what index i holds.
LEMMA WithoutIs ==
  ASSUME NEW h, NEW b, NEW A, NEW s, Holdings(h, b, A, s), NEW i \in Index,
         NEW O, O = A \ (IF i \in HeldIn(b) THEN {b[i].lo} ELSE {})
  PROVE  Without(b, [b EXCEPT ![i] = None], i, O)
<1> DEFINE b2 == [b EXCEPT ![i] = None]
<1>1. b \in Tables /\ A = {b[j].lo : j \in HeldIn(b)} /\ \A j, k \in HeldIn(b) : b[j].lo = b[k].lo => j = k
  BY DEF Holdings
<1>2. b2 \in Tables /\ b2[i] = None /\ \A j \in Index : j # i => b2[j] = b[j]
  <2>1. None \in [lo : Nat, size : Nat]
    BY DEF None, NULL
  <2> QED BY <1>1, <2>1 DEF Tables
<1> HIDE DEF b2
<1>3. HeldIn(b2) = HeldIn(b) \ {i}
  BY <1>2 DEF HeldIn
<1>4. \A j \in HeldIn(b2) : j \in HeldIn(b) /\ j # i /\ b2[j] = b[j]
  BY <1>2, <1>3 DEF HeldIn
<1>5. {b2[j].lo : j \in HeldIn(b2)} = A \ (IF i \in HeldIn(b) THEN {b[i].lo} ELSE {})
  <2>1. ASSUME NEW j \in HeldIn(b2) PROVE b2[j].lo \in A \ (IF i \in HeldIn(b) THEN {b[i].lo} ELSE {})
    BY <1>1, <1>4
  <2>2. ASSUME NEW q \in A \ (IF i \in HeldIn(b) THEN {b[i].lo} ELSE {})
        PROVE  \E j \in HeldIn(b2) : q = b2[j].lo
    <3>1. PICK j \in HeldIn(b) : q = b[j].lo
      BY <1>1
    <3>2. j # i
      BY <2>2, <3>1
    <3>3. j \in HeldIn(b2) /\ b2[j] = b[j]
      BY <1>3, <1>4, <3>1, <3>2
    <3> QED BY <3>1, <3>3
  <2> QED BY <2>1, <2>2
<1>6. Without(b, b2, i, O)
  BY <1>2, <1>3, <1>4, <1>5 DEF Fewer, Without
<1> QED BY <1>6 DEF b2

\* What the driver makes of the answer h, if h is one that mm_malloc or mm_realloc gives.
Answers(B, s, F, O, n, h, kept, C, t, G) ==
  \/ Becomes(heap, s, B \ F, h, C, t, G) /\ C \ G = B \ F /\ h.ptr \in {NULL, CRASH}
  \/ /\ Becomes(heap, s, O, h, C, t, G) /\ C \ G = O \cup {h.ptr} /\ h.ptr \notin O
     /\ BlockSize(n) <= t[h.ptr] /\ kept

Good(st) == st \in {"running", "refused", "crashed"}

\* Whatever the answer, the driver and the allocator agree after Take.
LEMMA TakeIs ==
  ASSUME NEW B, NEW s, NEW F, Serves(heap, blocks, B, s, F), Good(status),
         NEW i \in Index, NEW n \in Requests, NEW h, NEW kept,
         NEW O, O = (B \ F) \ (IF i \in Held THEN {blocks[i].lo} ELSE {}),
         NEW C, NEW t, NEW G, Answers(B, s, F, O, n, h, kept, C, t, G),
         Take(i, [lo |-> h.ptr, size |-> n], h, kept)
  PROVE  Serves(heap', blocks', C, t, G) /\ heap'.ptr = NULL /\ Good(status')
<1> DEFINE new == [lo |-> h.ptr, size |-> n]
           b2  == [blocks EXCEPT ![i] = None]
<1>1. Held = HeldIn(blocks) /\ Holdings(heap, blocks, B \ F, s) /\ Sound(heap, B, s, F) /\ blocks \in Tables
  BY DEF Held, HeldIn, Serves, Holdings
<1>2. /\ Fewer(b2, blocks) /\ HeldIn(b2) = Held \ {i} /\ \A j \in HeldIn(b2) : b2[j] = blocks[j]
      /\ {b2[j].lo : j \in HeldIn(b2)} = O
  <2>1. Without(blocks, b2, i, O)
    BY <1>1, WithoutIs
  <2> HIDE DEF b2
  <2> QED BY <1>1, <2>1 DEF Without
<1>3. /\ [b2 EXCEPT ![i] = new] = [blocks EXCEPT ![i] = new]
      /\ i \notin HeldIn(b2)
  <2>1. [b2 EXCEPT ![i] = new] = [blocks EXCEPT ![i] = new]
    BY <1>1 DEF Tables
  <2>2. i \notin HeldIn(b2)
    <3> HIDE DEF b2
    <3> QED BY <1>2
  <2> QED BY <2>1, <2>2
<1>4. Others(i) = {b2[j] : j \in HeldIn(b2)}
  <2> HIDE DEF b2
  <2> QED BY <1>2 DEF Others
<1> HIDE DEF b2
<1>5. \A q \in B \ F : s[q] \in Nat
  BY <1>1, BlockIs DEF Sound, Shape
<1>6. CASE h.ptr \in {NULL, CRASH} /\ Becomes(heap, s, B \ F, h, C, t, G) /\ C \ G = B \ F
  <2>1. heap' = [h EXCEPT !.ptr = NULL] /\ blocks' = blocks /\ Good(status')
    BY <1>6 DEF Take, Good
  <2>2. Fewer(blocks, blocks) /\ B \ F = {blocks[j].lo : j \in HeldIn(blocks)}
    BY <1>1 DEF Fewer, Holdings
  <2>3. Serves([h EXCEPT !.ptr = NULL], blocks, C, t, G)
    BY <1>6, <2>2, ServesStill
  <2>4. [h EXCEPT !.ptr = NULL].ptr = NULL
    <3>1. NULL \in Int /\ Sound(h, C, t, G)
      BY <1>6 DEF Becomes, NULL
    <3> QED BY <3>1, AnswerIs
  <2> QED BY <2>1, <2>3, <2>4
<1>7. CASE /\ Becomes(heap, s, O, h, C, t, G) /\ C \ G = O \cup {h.ptr} /\ h.ptr \notin O
           /\ BlockSize(n) <= t[h.ptr] /\ kept
  <2>1. Sound(h, C, t, G) /\ Kept(heap, h, s, O) /\ \A q \in O : t[q] = s[q]
    BY <1>7 DEF Becomes
  <2>2. Holdings(h, b2, O, t)
    BY <1>1, <1>2, <1>5, <2>1, HoldingsKept
  <2>3. h.ptr \in Int
    <3>1. h.ptr \in C /\ Layout(C, t, h.brk)
      BY <1>7, <2>1 DEF Sound, Shape
    <3>2. \A q \in C : q \in Nat
      BY <3>1, BlockIs
    <3> QED BY <3>1, <3>2
  <2>4. i \in Index \ HeldIn(b2)
    BY <1>3
  <2>5. /\ AddRange(h, new, {b2[j] : j \in HeldIn(b2)}) /\ new.lo \notin {NULL, CRASH}
        /\ Serves([Fill(h, i, new) EXCEPT !.ptr = NULL], [b2 EXCEPT ![i] = new], C, t, G)
    <3>1. new \in [lo : Int, size : Int] /\ new.lo = h.ptr /\ new.size = n
      BY <2>3, MmAssumption
    <3> HIDE DEF new
    <3>2. Accepts(h, b2, i, new, C, t, G)
      BY <1>7, <2>1, <2>2, <2>3, <2>4, <3>1, TakeServes
    <3> QED BY <3>2 DEF Accepts
  <2>6. heap' = [Fill(h, i, new) EXCEPT !.ptr = NULL] /\ blocks' = [blocks EXCEPT ![i] = new] /\ status' = status
    <3>1. Take(i, new, h, kept)
      OBVIOUS
    <3> HIDE DEF new
    <3> QED BY <1>4, <1>7, <2>5, <3>1 DEF Take
  <2>7. Serves(heap', blocks', C, t, G)
    BY <1>3, <2>5, <2>6
  <2>8. heap'.ptr = NULL
    <3>1. h \in Heaps
      BY <2>1 DEF Sound, Shape
    <3>2. Fill(h, i, new) = [h EXCEPT !.mem = [a \in Addr |-> IF a \in Words(new) THEN Mark(i) ELSE h.mem[a]]]
      BY <3>1 DEF Fill, Heaps
    <3> QED BY <2>6, <3>1, <3>2 DEF Heaps
  <2> QED BY <2>6, <2>7, <2>8
<1> QED BY <1>6, <1>7 DEF Answers

-----------------------------------------------------------------------------
\* Between two requests the heap is one that serves the driver's table.
Served == \E B, s, F : Serves(heap, blocks, B, s, F)
MmInv  == Served /\ heap.ptr = NULL /\ Good(status) /\ ops \in 0 .. MaxOps

\* A heap fresh from mm_init serves the empty table.
LEMMA NothingHeld ==
  ASSUME NEW h \in Heaps, NEW g, g = mm_init(h), NEW b, b = [i \in Index |-> None]
  PROVE  (\E C, t, G : Serves(g, b, C, t, G)) /\ g.ptr = NULL
<1>1. PICK C, t, G : Sound(g, C, t, G) /\ C \ G = {} /\ g.ptr = NULL
  BY InitIs
<1>2. b \in Tables /\ HeldIn(b) = {}
  BY DEF Tables, HeldIn, None, NULL
<1>3. Holdings(g, b, {}, t)
  BY <1>2 DEF Holdings
<1> QED BY <1>1, <1>3 DEF Serves

\* The invariant holds at the start of the first trace.
LEMMA MmInit == Init => MmInv
<1> SUFFICES ASSUME Init PROVE MmInv
  OBVIOUS
<1> DEFINE h == [mem |-> [a \in Addr |-> 0], brk |-> 0, lists |-> [l \in Lists |-> NULL], ptr |-> NULL]
<1>1. h \in Heaps
  BY MmAssumption DEF Heaps, Word, Addr, NULL
<1>2. heap = mm_init(h) /\ blocks = [i \in Index |-> None]
  BY DEF Init
<1>3. Served /\ heap.ptr = NULL
  <2> HIDE DEF h
  <2> QED BY <1>1, <1>2, NothingHeld DEF Served
<1> QED BY <1>3, MmAssumption DEF Init, MmInv, Good

\* A malloc of the trace keeps the invariant.
LEMMA MallocStep ==
  ASSUME MmInv, NEW i \in Index, NEW n \in Requests, Malloc(i, n)
  PROVE  Served' /\ heap'.ptr = NULL /\ Good(status')
<1> DEFINE h == mm_malloc(heap, n)
<1>1. PICK B, s, F : Serves(heap, blocks, B, s, F)
  BY DEF MmInv, Served
<1>2. PICK C, t, G : Mallocs(heap, B, s, F, BlockSize(n), h, C, t, G)
  <2>1. n \in Nat /\ n # 0
    BY MmAssumption
  <2> QED BY <1>1, <2>1, MallocIs DEF Serves
<1>3. i \notin Held /\ Take(i, [lo |-> h.ptr, size |-> n], h, TRUE)
  BY DEF Malloc
<1> DEFINE O == (B \ F) \ (IF i \in Held THEN {blocks[i].lo} ELSE {})
<1>4. Answers(B, s, F, O, n, h, TRUE, C, t, G)
  <2>1. O = B \ F
    BY <1>3
  <2> HIDE DEF O, h
  <2> QED BY <1>2, <2>1 DEF Mallocs, Answers
<1>5. Serves(heap', blocks', C, t, G) /\ heap'.ptr = NULL /\ Good(status')
  <2>1. Good(status)
    BY DEF MmInv
  <2> HIDE DEF h
  <2> QED BY <1>1, <1>3, <1>4, <2>1, TakeIs
<1> QED BY <1>5 DEF Served

\* A realloc of the trace that ShortGap does not describe keeps it.
LEMMA ReallocStep ==
  ASSUME GrowsIntoGap = FALSE, MmInv, NEW i \in Index, NEW n \in Requests, Realloc(i, n)
  PROVE  Served' /\ heap'.ptr = NULL /\ Good(status')
<1> DEFINE old  == blocks[i]
           p    == old.lo
           h    == mm_realloc(heap, p, n)
           kept == \A k \in 0 .. n - 1 : k < old.size => h.mem[h.ptr + k] = Mark(i)
<1>1. PICK B, s, F : Serves(heap, blocks, B, s, F)
  BY DEF MmInv, Served
<1>2. i \in Held /\ ~ShortGap(p, n) /\ Take(i, [lo |-> h.ptr, size |-> n], h, kept)
  BY DEF Realloc
<1>3. Held = HeldIn(blocks) /\ Holdings(heap, blocks, B \ F, s) /\ Sound(heap, B, s, F)
  BY <1>1 DEF Held, HeldIn, Serves
<1>4. p \in B \ F /\ Holds(heap, old, i, s) /\ old \in [lo : Nat, size : Nat]
  BY <1>2, <1>3 DEF Holdings, Tables
<1>5. n \in Nat /\ n # 0
  BY MmAssumption
<1>6. PICK C, t, G : Reallocs(heap, B, s, F, p, BlockSize(n), h, C, t, G)
  <2>1. ~Gap(heap, p, BlockSize(n))
    BY <1>2 DEF ShortGap, Gap
  <2> HIDE DEF p
  <2> QED BY <1>3, <1>4, <1>5, <2>1, ReallocIs
<1>7. s[p] \in Nat /\ p \in Nat
  <2>1. Layout(B, s, heap.brk) /\ p \in B
    BY <1>3, <1>4 DEF Sound, Shape
  <2> HIDE DEF p
  <2> QED BY <2>1, BlockIs
<1>8. (\A k \in 0 .. s[p] - 3 : h.mem[h.ptr + k] = heap.mem[p + k]) => kept
  <2> SUFFICES ASSUME \A k \in 0 .. s[p] - 3 : h.mem[h.ptr + k] = heap.mem[p + k],
                      NEW k \in 0 .. n - 1, k < old.size
               PROVE  h.mem[h.ptr + k] = Mark(i)
    OBVIOUS
  <2>1. old.size \in Nat /\ old.size + 2 <= s[p] /\ \A a \in p .. p + old.size - 1 : heap.mem[a] = Mark(i)
    BY <1>4 DEF Holds, Words
  <2>2. k \in 0 .. s[p] - 3 /\ p + k \in p .. p + old.size - 1
    <3> HIDE DEF p, old
    <3> QED BY <1>5, <1>7, <2>1
  <2> HIDE DEF p, old, h
  <2> QED BY <2>1, <2>2
<1> DEFINE O == (B \ F) \ (IF i \in Held THEN {blocks[i].lo} ELSE {})
<1>9. Answers(B, s, F, O, n, h, kept, C, t, G)
  <2>1. O = (B \ F) \ {p}
    BY <1>2
  <2> HIDE DEF O, h, kept, p
  <2> QED BY <1>6, <1>8, <2>1 DEF Reallocs, Answers
<1>10. Serves(heap', blocks', C, t, G) /\ heap'.ptr = NULL /\ Good(status')
  <2>1. Good(status)
    BY DEF MmInv
  <2>2. O = (B \ F) \ (IF i \in Held THEN {blocks[i].lo} ELSE {})
    OBVIOUS
  <2> HIDE DEF h, kept, O
  <2> QED BY <1>1, <1>2, <1>9, <2>1, <2>2, TakeIs
<1> QED BY <1>10 DEF Served

\* A free keeps it.
LEMMA FreeStep ==
  ASSUME MmInv, NEW i \in Index, Free(i)
  PROVE  Served' /\ heap'.ptr = NULL /\ Good(status')
<1> DEFINE p  == blocks[i].lo
           h  == mm_free(heap, p)
           b2 == [blocks EXCEPT ![i] = None]
<1>1. PICK B, s, F : Serves(heap, blocks, B, s, F)
  BY DEF MmInv, Served
<1>2. i \in Held /\ heap' = [h EXCEPT !.ptr = NULL] /\ blocks' = b2 /\ Good(status')
  BY DEF Free, MmInv
<1>3. Held = HeldIn(blocks) /\ Holdings(heap, blocks, B \ F, s) /\ Sound(heap, B, s, F)
  BY <1>1 DEF Held, HeldIn, Serves
<1>4. p \in B \ F
  BY <1>2, <1>3 DEF Holdings
<1> DEFINE O == (B \ F) \ (IF i \in HeldIn(blocks) THEN {p} ELSE {})
<1>5. Without(blocks, b2, i, O)
  BY <1>3, WithoutIs
<1>6. O = (B \ F) \ {p}
  BY <1>2, <1>3
<1> HIDE DEF O, b2, p
<1>7. PICK C, t, G : Freed(heap, B, s, F, p, h, C, t, G)
  BY <1>3, <1>4, FreeIs
<1> HIDE DEF h
<1>8. Becomes(heap, s, O, h, C, t, G) /\ C \ G = O
  BY <1>6, <1>7 DEF Freed
<1>9. Serves([h EXCEPT !.ptr = NULL], b2, C, t, G)
  BY <1>1, <1>5, <1>8, ServesStill DEF Without
<1>10. [h EXCEPT !.ptr = NULL].ptr = NULL
  <2>1. NULL \in Int /\ Sound(h, C, t, G)
    BY <1>8 DEF Becomes, NULL
  <2> QED BY <2>1, AnswerIs
<1> QED BY <1>2, <1>9, <1>10 DEF Served

\* And so does the start of the next trace, over the words of the last one.
LEMMA NextTraceStep ==
  ASSUME MmInv, NextTrace
  PROVE  Served' /\ heap'.ptr = NULL /\ Good(status')
<1>1. heap \in Heaps
  BY DEF MmInv, Served, Serves, Sound, Shape
<1>2. heap' = mm_init(heap) /\ blocks' = [i \in Index |-> None] /\ Good(status')
  BY DEF NextTrace, Good
<1>3. (\E C, t, G : Serves(heap', blocks', C, t, G)) /\ heap'.ptr = NULL
  BY <1>1, <1>2, NothingHeld
<1> QED BY <1>2, <1>3 DEF Served

\* Every step keeps the invariant.
LEMMA MmStep ==
  ASSUME GrowsIntoGap = FALSE, MmInv, [Next]_vars
  PROVE  MmInv'
<1>1. ASSUME Next PROVE ops' \in 0 .. MaxOps
  <2>1. ops \in 0 .. MaxOps /\ MaxOps \in Nat
    BY MmAssumption DEF MmInv
  <2>2. (\E i \in Index : Operation) \/ NextTrace
    <3>1. ASSUME NEW i \in Index, NEW n \in Requests, Malloc(i, n) \/ Realloc(i, n) PROVE Operation
      BY <3>1, Zenon DEF Malloc, Realloc
    <3>2. ASSUME NEW i \in Index, Free(i) PROVE Operation
      BY <3>2, Zenon DEF Free
    <3> QED BY <1>1, <3>1, <3>2, Zenon DEF Next
  <2>3. ops < MaxOps /\ ops' = ops + 1
    BY <2>2, Zenon DEF Operation, NextTrace
  <2> QED BY <2>1, <2>3
<1>2. ASSUME Next PROVE Served' /\ heap'.ptr = NULL /\ Good(status')
  <2>1. ASSUME NEW i \in Index, NEW n \in Requests, Malloc(i, n)
        PROVE  Served' /\ heap'.ptr = NULL /\ Good(status')
    BY <2>1, MallocStep
  <2>2. ASSUME NEW i \in Index, NEW n \in Requests, Realloc(i, n)
        PROVE  Served' /\ heap'.ptr = NULL /\ Good(status')
    BY <2>2, ReallocStep
  <2>3. ASSUME NEW i \in Index, Free(i)
        PROVE  Served' /\ heap'.ptr = NULL /\ Good(status')
    BY <2>3, FreeStep
  <2>4. CASE NextTrace
    BY <2>4, NextTraceStep
  <2> QED BY <1>2, <2>1, <2>2, <2>3, <2>4 DEF Next
<1>3. CASE UNCHANGED vars
  BY <1>3 DEF vars, MmInv, Served, Good
<1> QED BY <1>1, <1>2, <1>3 DEF MmInv

\* After every request of every trace the allocator's heap is consistent and serves the
\* driver's table, for every size of heap, chunk and list array and for every request
\* size, if no realloc is of the kind ShortGap describes.
THEOREM MmInvariant ==
  ASSUME GrowsIntoGap = FALSE
  PROVE  Spec => []MmInv
<1>1. MmInv /\ [Next]_vars => MmInv'
  BY MmStep
<1> QED BY <1>1, MmInit, PTL DEF Spec

-----------------------------------------------------------------------------
(***************************************************************************)
(* What the invariant says of the properties the runs check.               *)
(***************************************************************************)

\* The walk up the headers passes every block and ends at the epilogue.
WalksUp(at, B, n) ==
  /\ n \in 0 .. MAX_HEAP /\ n = Turns(at, Ends)
  /\ \A k \in 0 .. n : at[k] \in B \cup {heap.brk}
  /\ \A q \in B \cup {heap.brk} : \E k \in 0 .. n : at[k] = q

\* The headers lead from the first block over every block to the epilogue.
LEMMA WalkUp ==
  ASSUME NEW B, NEW s, NEW F, Shape(heap, B, s, F)
  PROVE  \E n : WalksUp(Iterate(4, [p \in Nat |-> NEXT_BLKP(heap, p)]), B, n)
<1> DEFINE next == [p \in Nat |-> NEXT_BLKP(heap, p)]
           at   == Iterate(4, next)
           n    == Turns(at, Ends)
<1>1. /\ Layout(B, s, heap.brk) /\ MAX_HEAP \in Nat /\ heap.brk \in Nat /\ heap.brk <= MAX_HEAP
      /\ 4 \in B \cup {heap.brk} /\ Reached(B, s, heap.brk)
  BY MmAssumption DEF Shape, Layout
<1>2. at[0] = 4 /\ \A k \in Nat : at[k + 1] = next[at[k]]
  BY IterateStep
<1>3. ASSUME NEW p \in B
      PROVE  /\ p \in Nat /\ p \notin Ends /\ p < heap.brk /\ s[p] \in Nat /\ 4 <= s[p]
             /\ next[p] = p + s[p] /\ p + s[p] \in B \cup {heap.brk}
  <2>1. GET_SIZE(heap, HDRP(p)) = s[p] /\ NEXT_BLKP(heap, p) = p + s[p]
    BY TagsRead
  <2>2. /\ p \in Nat /\ s[p] \in Nat /\ 4 <= s[p] /\ p + s[p] <= heap.brk
        /\ p + s[p] \in B \cup {heap.brk}
    BY <1>1, BlockIs
  <2> QED BY <1>1, <2>1, <2>2 DEF Ends
<1>4. heap.brk \in Ends
  BY <1>1 DEF Ends
<1> HIDE DEF next, at
<1>5. PICK m \in 0 .. MAX_HEAP : at[m] \in Ends
  <2>1. SUFFICES ASSUME \A k \in 0 .. MAX_HEAP : at[k] \notin Ends PROVE FALSE
    OBVIOUS
  <2> DEFINE Bad == {k \in 0 .. MAX_HEAP : ~(at[k] \in B /\ k < at[k])}
  <2>2. Bad = {}
    <3>1. SUFFICES ASSUME Bad # {} PROVE FALSE
      OBVIOUS
    <3>2. PICK k \in Bad : \A j \in Bad : k <= j
      <4>1. Bad \in SUBSET Nat
        BY <1>1
      <4> HIDE DEF Bad
      <4> QED BY <3>1, <4>1, LeastNat
    <3>3. k # 0
      <4>1. 0 \in 0 .. MAX_HEAP /\ at[0] = 4 /\ 0 < 4
        BY <1>1, <1>2
      <4>2. 4 \in B
        BY <1>1, <1>4, <2>1, <4>1
      <4> QED BY <3>2, <4>1, <4>2
    <3>4. k \in 0 .. MAX_HEAP /\ k - 1 \in 0 .. MAX_HEAP /\ k - 1 \in Nat /\ ~(k <= k - 1)
      BY <1>1, <3>2, <3>3
    <3>5. at[k - 1] \in B /\ k - 1 < at[k - 1]
      BY <3>2, <3>4
    <3>6. at[k] = next[at[k - 1]]
      <4>1. at[(k - 1) + 1] = next[at[k - 1]]
        BY <1>2, <3>4
      <4>2. (k - 1) + 1 = k
        BY <3>4
      <4> QED BY <4>1, <4>2
    <3>7. at[k] = at[k - 1] + s[at[k - 1]] /\ at[k] \in B \cup {heap.brk}
      BY <1>3, <3>5, <3>6
    <3>8. at[k] \in B
      BY <1>4, <2>1, <3>4, <3>7
    <3>9. k < at[k]
      <4>1. at[k - 1] \in Nat /\ s[at[k - 1]] \in Nat /\ 4 <= s[at[k - 1]]
        BY <1>3, <3>5
      <4> QED BY <3>4, <3>5, <3>7, <4>1
    <3> QED BY <3>2, <3>8, <3>9
  <2>3. at[MAX_HEAP] \in B /\ MAX_HEAP < at[MAX_HEAP]
    BY <1>1, <2>2
  <2>4. at[MAX_HEAP] \in Nat /\ at[MAX_HEAP] < heap.brk
    BY <1>3, <2>3
  <2> QED BY <1>1, <2>3, <2>4
<1>6. n \in 0 .. m /\ at[n] \in Ends /\ \A j \in Nat : j < n => at[j] \notin Ends
  BY <1>5, TurnsFirst
<1> HIDE DEF n
<1>7. n \in 0 .. MAX_HEAP /\ n \in Nat
  BY <1>1, <1>5, <1>6
<1>8. \A k \in 0 .. n : at[k] \in B \cup {heap.brk}
  <2> DEFINE Bad == {k \in 0 .. n : at[k] \notin B \cup {heap.brk}}
  <2>1. SUFFICES ASSUME Bad # {} PROVE FALSE
    OBVIOUS
  <2>2. PICK k \in Bad : \A j \in Bad : k <= j
    <3>1. Bad \in SUBSET Nat
      BY <1>7
    <3> HIDE DEF Bad
    <3> QED BY <2>1, <3>1, LeastNat
  <2>3. k # 0
    BY <1>1, <1>2, <2>2
  <2>4. k - 1 \in 0 .. n /\ k - 1 \in Nat /\ k - 1 < n /\ ~(k <= k - 1) /\ (k - 1) + 1 = k
    BY <1>7, <2>2, <2>3
  <2>5. at[k - 1] \in B
    <3>1. at[k - 1] \in B \cup {heap.brk}
      BY <2>2, <2>4
    <3> QED BY <1>4, <1>6, <2>4, <3>1
  <2>6. at[k] = next[at[k - 1]]
    <3>1. at[(k - 1) + 1] = next[at[k - 1]]
      BY <1>2, <2>4
    <3> QED BY <2>4, <3>1
  <2> QED BY <1>3, <2>2, <2>5, <2>6
<1>9. \A q \in B \cup {heap.brk} : \E k \in 0 .. n : at[k] = q
  <2> DEFINE Bad == {q \in B \cup {heap.brk} : \A k \in 0 .. n : at[k] # q}
  <2>1. SUFFICES ASSUME Bad # {} PROVE FALSE
    OBVIOUS
  <2>2. PICK q \in Bad : \A j \in Bad : q <= j
    <3>1. Bad \in SUBSET Nat
      BY <1>1, <1>3
    <3> HIDE DEF Bad
    <3> QED BY <2>1, <3>1, LeastNat
  <2>3. q # 4
    BY <1>2, <1>7, <2>2
  <2>4. PICK p \in B : p + s[p] = q
    BY <1>1, <2>2, <2>3 DEF Reached
  <2>5. p \in Nat /\ ~(q <= p) /\ p \notin Ends /\ next[p] = q
    BY <1>3, <2>4
  <2>6. PICK k \in 0 .. n : at[k] = p
    BY <2>2, <2>5
  <2>7. k # n
    BY <1>6, <2>5, <2>6
  <2>8. k \in Nat /\ k + 1 \in 0 .. n
    BY <1>7, <2>6, <2>7
  <2>9. at[k + 1] = q
    BY <1>2, <2>5, <2>6, <2>8
  <2> QED BY <2>2, <2>8, <2>9
<1>10. WalksUp(at, B, n)
  BY <1>7, <1>8, <1>9 DEF WalksUp, n
<1> QED BY <1>10 DEF at, next
\* The blocks and the free blocks that the runs see are those of the invariant.
LEMMA BlockSetIs ==
  ASSUME NEW B, NEW s, NEW F, Shape(heap, B, s, F)
  PROVE  BlockSet = B \cup {heap.brk} /\ FreeBlocks = F
<1> DEFINE at == Iterate(4, [p \in Nat |-> NEXT_BLKP(heap, p)])
<1>1. PICK n : WalksUp(at, B, n)
  BY WalkUp
<1>2. BlockSet = {at[k] : k \in 0 .. Turns(at, Ends)}
  BY Zenon DEF BlockSet, Passed
<1> HIDE DEF at
<1>3. BlockSet = B \cup {heap.brk}
  BY <1>1, <1>2 DEF WalksUp
<1>4. F \subseteq B
  BY DEF Shape
<1>5. \A q \in B \cup {heap.brk} : IsFree(q) <=> q \in F
  BY NextRead DEF IsFree
<1> QED BY <1>3, <1>4, <1>5 DEF FreeBlocks

\* What a list links are the free blocks of its sizes.
LEMMA ListedIs ==
  ASSUME NEW B, NEW s, NEW F, Shape(heap, B, s, F), FreeList(heap, s, F), NEW l \in Lists
  PROVE  Listed(l) = {p \in F : ListOf(s[p]) = l}
<1> DEFINE at == Entries(heap, l)
           n  == Turns(at, Int \ F)
<1>1. heap \in Heaps /\ FreeBlocks = F
  BY BlockSetIs DEF Shape
<1>2. PICK R : Linked(heap.mem, heap.lists, s, F, R)
  BY DEF FreeList
<1>3. PICK m : WalksOver(heap, l, s, F, m)
  BY <1>1, <1>2, WalkEnds
<1>4. /\ m \in 0 .. MAX_HEAP /\ m \in Nat /\ at[m] = NULL /\ NULL \notin F
      /\ \A k \in Nat : k < m => at[k] \in F /\ ListOf(s[at[k]]) = l
  BY <1>2, <1>3, MmAssumption DEF WalksOver, Linked, Starts, NULL
<1>5. \A p \in F : ListOf(s[p]) = l => \E k \in Nat : k < m /\ at[k] = p
  <2>1. PassesAll(heap, l, s, F, m)
    BY <1>1, <1>2, <1>3, WalkAll
  <2> QED BY <2>1 DEF PassesAll
<1>6. Listed(l) = {at[k] : k \in 0 .. n} \ {NULL}
  BY <1>1 DEF Listed, Passed
<1> HIDE DEF at
<1>7. n = m
  <2>1. at[m] \in Int \ F
    BY <1>4 DEF NULL
  <2>2. n \in 0 .. m /\ at[n] \in Int \ F
    BY <1>4, <2>1, TurnsFirst
  <2> HIDE DEF n
  <2> QED BY <1>4, <2>2
<1> HIDE DEF n
<1> QED BY <1>4, <1>5, <1>6, <1>7

\* The ranges of the variables.
LEMMA InvTypes ==
  ASSUME MmInv
  PROVE  TypeOK
<1>1. PICK B, s, F : Serves(heap, blocks, B, s, F)
  BY DEF MmInv, Served
<1>2. heap \in Heaps /\ F \subseteq B /\ Layout(B, s, heap.brk) /\ Holdings(heap, blocks, B \ F, s)
  BY <1>1 DEF Serves, Sound, Shape
<1>3. /\ heap.mem \in [Addr -> -MaxBlocks .. 2 * MAX_HEAP]
      /\ heap.brk \in 0 .. MAX_HEAP /\ heap.lists \in [Lists -> Addr]
  BY <1>2 DEF Heaps, Word
<1>4. heap.brk % 2 = 0
  BY <1>2 DEF Layout
<1>5. ASSUME NEW i \in Held
      PROVE  blocks[i].lo \in Addr /\ blocks[i].lo % 2 = 0 /\ blocks[i].size \in Requests
  <2>1. i \in HeldIn(blocks)
    BY DEF Held, HeldIn
  <2>2. blocks[i].lo \in B /\ blocks[i].size \in Requests
    BY <1>2, <2>1 DEF Holdings, Holds
  <2>3. blocks[i].lo \in Starts /\ blocks[i].lo % 2 = 0
    BY <1>2, <2>2, BlockIs
  <2> QED BY <2>2, <2>3, StartsAre
<1>6. heap.ptr = NULL /\ status \in {"running", "refused", "rejected", "crashed"} /\ ops \in 0 .. MaxOps
  BY DEF MmInv, Good
<1> QED BY <1>3, <1>4, <1>5, <1>6 DEF TypeOK

\* The blocks tile the heap and those that are not free are the driver's.
LEMMA InvTiles ==
  ASSUME NEW B, NEW s, NEW F, Serves(heap, blocks, B, s, F)
  PROVE  HeapTiled
<1>1. /\ Shape(heap, B, s, F) /\ F \subseteq B /\ Layout(B, s, heap.brk)
      /\ Tags(heap.mem, B, s, F, heap.brk) /\ Holdings(heap, blocks, B \ F, s)
  BY DEF Serves, Sound, Shape
<1>2. BlockSet = B \cup {heap.brk} /\ FreeBlocks = F
  BY <1>1, BlockSetIs
<1>3. heap.brk \notin B
  BY <1>1, BlockIs
<1>4. heap.mem[HDRP(heap.brk)] = PACK(0, 1)
  BY <1>1 DEF Tags, HDRP, PACK
<1>5. ASSUME NEW p \in B
      PROVE  heap.mem[FTRP(heap, p)] = heap.mem[HDRP(p)]
  <2>1. GET_SIZE(heap, HDRP(p)) = s[p]
    BY <1>1, TagsRead
  <2>2. heap.mem[p - 1] = heap.mem[p + s[p] - 2]
    BY <1>1 DEF Tags
  <2>3. FTRP(heap, p) = p + s[p] - 2 /\ HDRP(p) = p - 1
    BY <2>1 DEF FTRP, HDRP
  <2> QED BY <2>2, <2>3
<1>6. B \ F = {blocks[i].lo : i \in Held}
  BY <1>1 DEF Holdings, HeldIn, Held
<1>7. BlockSet \ (FreeBlocks \cup {heap.brk}) = B \ F /\ BlockSet \ {heap.brk} = B /\ heap.brk \in BlockSet
  BY <1>1, <1>2, <1>3
<1> QED BY <1>4, <1>5, <1>6, <1>7 DEF HeapTiled

\* Each list holds the free blocks of its sizes, linked both ways.
LEMMA InvLists ==
  ASSUME NEW B, NEW s, NEW F, Sound(heap, B, s, F)
  PROVE  ListsExact
<1>1. Shape(heap, B, s, F) /\ F \subseteq B /\ FreeList(heap, s, F)
  BY DEF Sound, Shape
<1>2. PICK R : Linked(heap.mem, heap.lists, s, F, R)
  BY <1>1 DEF FreeList
<1>3. FreeBlocks = F
  BY <1>1, BlockSetIs
<1> SUFFICES ASSUME NEW l \in Lists
             PROVE  /\ Listed(l) = {p \in FreeBlocks : ListOf(GET_SIZE(heap, HDRP(p))) = l}
                    /\ heap.lists[l] # NULL => SUCC(heap, heap.lists[l]) = NULL
                    /\ \A p \in Listed(l) : PRED(heap, p) # NULL => SUCC(heap, PRED(heap, p)) = p
  BY DEF ListsExact
<1>4. Listed(l) = {p \in F : ListOf(s[p]) = l}
  BY <1>1, ListedIs
<1>5. \A p \in F : GET_SIZE(heap, HDRP(p)) = s[p]
  BY <1>1, TagsRead
<1>6. Listed(l) = {p \in FreeBlocks : ListOf(GET_SIZE(heap, HDRP(p))) = l}
  BY <1>3, <1>4, <1>5
<1>7. heap.lists[l] # NULL => SUCC(heap, heap.lists[l]) = NULL
  BY <1>2 DEF Linked, Heads, SUCC
<1>8. \A p \in Listed(l) : PRED(heap, p) # NULL => SUCC(heap, PRED(heap, p)) = p
  BY <1>2, <1>4 DEF Linked, LinksDown, SUCC, PRED
<1> QED BY <1>6, <1>7, <1>8

\* What HeapConsistent says follows from the invariant.
LEMMA InvConsistent ==
  ASSUME MmInv
  PROVE  HeapConsistent
<1>1. PICK B, s, F : Serves(heap, blocks, B, s, F)
  BY DEF MmInv, Served
<1>2. Sound(heap, B, s, F) /\ Shape(heap, B, s, F) /\ F \subseteq B /\ NoTwo(s, F)
  BY <1>1 DEF Serves, Sound, Shape
<1>3. Coalesced
  <2>1. FreeBlocks = F
    BY <1>2, BlockSetIs
  <2>2. \A p \in F : NEXT_BLKP(heap, p) = p + s[p]
    BY <1>2, TagsRead
  <2> QED BY <1>2, <2>1, <2>2 DEF Coalesced, NoTwo
<1>4. HeapTiled
  BY <1>1, InvTiles
<1>5. ListsExact
  BY <1>2, InvLists
<1>6. TypeOK
  BY InvTypes
<1> QED BY <1>3, <1>4, <1>5, <1>6 DEF HeapConsistent

\* The payloads lie below the last block's footer and hold their marks.
LEMMA InvIntact ==
  ASSUME MmInv
  PROVE  DataIntact
<1>1. PICK B, s, F : Serves(heap, blocks, B, s, F)
  BY DEF MmInv, Served
<1>2. F \subseteq B /\ Layout(B, s, heap.brk) /\ Holdings(heap, blocks, B \ F, s)
  BY <1>1 DEF Serves, Sound, Shape
<1> SUFFICES ASSUME NEW i \in Held, NEW a \in Words(blocks[i])
             PROVE  a < heap.brk - 1 /\ heap.mem[a] = Mark(i)
  BY DEF DataIntact
<1> DEFINE b == blocks[i]
<1>3. i \in HeldIn(blocks)
  BY DEF Held, HeldIn
<1>4. b.lo \in B /\ Holds(heap, b, i, s)
  BY <1>2, <1>3 DEF Holdings
<1>5. b.size \in Nat /\ b.size + 2 <= s[b.lo] /\ heap.mem[a] = Mark(i)
  BY <1>4, MmAssumption DEF Holds
<1> HIDE DEF b
<1>6. b.lo \in Nat /\ s[b.lo] \in Nat /\ heap.brk \in Nat /\ b.lo + s[b.lo] <= heap.brk
  BY <1>2, <1>4, BlockIs
<1>7. a \in b.lo .. b.lo + b.size - 1
  BY DEF Words, b
<1> QED BY <1>5, <1>6, <1>7

\* A search finds a free block that is large enough, if it looks at all lists.
LEMMA SearchFinds ==
  ASSUME NEW h, NEW B, NEW s, NEW F, Sound(h, B, s, F), NEW p \in F,
         NEW size \in Nat, size <= s[p], Halved(size, LISTMAX - 1) <= 1
  PROVE  Searched(h, size) # {}
<1> DEFINE l  == ListOf(s[p])
           at == Entries(h, l)
           n  == Turns(at, LargeEnough(h, size))
<1>1. Shape(h, B, s, F) /\ h \in Heaps /\ F \subseteq B /\ Layout(B, s, h.brk)
  BY DEF Sound, Shape
<1>2. PICK R : Linked(h.mem, h.lists, s, F, R)
  BY DEF Sound, FreeList
<1>3. s[p] \in Nat /\ p \in Nat /\ GET_SIZE(h, HDRP(p)) = s[p] /\ NULL \notin F
  <2>1. p \in B
    BY <1>1
  <2>2. s[p] \in Nat /\ p \in Nat
    BY <1>1, <2>1, BlockIs
  <2>3. GET_SIZE(h, HDRP(p)) = s[p]
    BY <1>1, <2>1, TagsRead
  <2>4. NULL \notin F
    BY <1>2 DEF Linked, Starts, NULL
  <2> QED BY <2>2, <2>3, <2>4
<1>4. l \in Lists /\ l \in Nat /\ Halved(size, l) <= 1
  <2>1. l \in Lists /\ (l = LISTMAX - 1 \/ Halved(s[p], l) <= 1)
    BY <1>3, ListOfIs
  <2>2. l \in Nat
    BY <2>1, MmAssumption DEF Lists
  <2> HIDE DEF l
  <2>3. Halved(size, l) \in Nat /\ Halved(s[p], l) \in Nat /\ Halved(size, l) <= Halved(s[p], l)
    BY <1>3, <2>2, HalvedMonotone
  <2> QED BY <2>1, <2>2, <2>3
<1>5. PICK m : WalksOver(h, l, s, F, m)
  BY <1>1, <1>2, <1>4, WalkEnds
<1>6. m \in 0 .. MAX_HEAP /\ m \in Nat /\ \A k \in Nat : k < m => at[k] \in F
  BY <1>5, MmAssumption DEF WalksOver
<1>7. PICK k \in Nat : k < m /\ at[k] = p
  <2>1. PassesAll(h, l, s, F, m)
    BY <1>1, <1>2, <1>4, <1>5, WalkAll
  <2> QED BY <2>1 DEF PassesAll
<1>8. at[n] # NULL
  <2>1. k \in 0 .. MAX_HEAP /\ p \in LargeEnough(h, size)
    BY <1>3, <1>6, <1>7, MmAssumption DEF LargeEnough
  <2> HIDE DEF at
  <2>2. n \in 0 .. k
    BY <1>7, <2>1, TurnsFirst
  <2> HIDE DEF n
  <2>3. n \in Nat /\ n < m
    BY <1>6, <1>7, <2>2
  <2> QED BY <1>3, <1>6, <2>3
<1>9. FirstIn(h, l, size) # NULL
  BY <1>8 DEF FirstIn
<1> HIDE DEF l
<1> QED BY <1>4, <1>9 DEF Searched

\* A malloc that finds a block does not move the end of the heap.
LEMMA MallocGrows ==
  ASSUME MmInv, NEW i \in Index, NEW n \in Requests, Malloc(i, n), heap'.brk > heap.brk,
         NEW p \in FreeBlocks
  PROVE  GET_SIZE(heap, HDRP(p)) < BlockSize(n) \/ Halved(BlockSize(n), LISTMAX - 1) > 1
<1> DEFINE h    == mm_malloc(heap, n)
           size == BlockSize(n)
<1>1. PICK B, s, F : Sound(heap, B, s, F)
  BY DEF MmInv, Served, Serves
<1>2. n \in Nat /\ n # 0 /\ size \in Nat /\ LISTMAX - 1 \in Nat
  <2>1. n \in Nat /\ n # 0 /\ LISTMAX - 1 \in Nat
    BY MmAssumption
  <2> QED BY <2>1, BlockSizeIs
<1>3. p \in F /\ s[p] \in Nat /\ GET_SIZE(heap, HDRP(p)) = s[p]
  <2>1. Shape(heap, B, s, F) /\ Layout(B, s, heap.brk) /\ F \subseteq B
    BY <1>1 DEF Sound, Shape
  <2>2. p \in F
    BY <2>1, BlockSetIs
  <2> QED BY <2>1, <2>2, BlockIs, TagsRead
<1>4. heap'.brk = h.brk
  <2>1. PICK C, t, G : Mallocs(heap, B, s, F, size, h, C, t, G)
    BY <1>1, <1>2, MallocIs
  <2>2. h \in Heaps
    BY <2>1 DEF Mallocs, Becomes, Sound, Shape
  <2> DEFINE b == [lo |-> h.ptr, size |-> n]
  <2>3. Take(i, b, h, TRUE)
    BY DEF Malloc
  <2> HIDE DEF h, b
  <2>4. heap' = [h EXCEPT !.ptr = NULL] \/ heap' = [Fill(h, i, b) EXCEPT !.ptr = NULL]
    BY <2>3, Zenon DEF Take
  <2>5. heap' = [h EXCEPT !.ptr = NULL] => heap'.brk = h.brk
    BY <2>2 DEF Heaps
  <2>6. heap' = [Fill(h, i, b) EXCEPT !.ptr = NULL] => heap'.brk = h.brk
    BY <2>2 DEF Heaps, Fill
  <2> QED BY <2>4, <2>5, <2>6
<1>5. Searched(heap, size) = {}
  <2>1. SUFFICES ASSUME Searched(heap, size) # {} PROVE FALSE
    OBVIOUS
  <2>2. PICK C, t, G : Places(heap, B, s, F, size, h, C, t, G)
    BY <1>1, <1>2, <2>1, FoundIs
  <2>3. heap.brk \in Nat /\ h.brk = heap.brk
    BY <1>1, <2>2 DEF Places, Sound, Shape, Layout
  <2> QED BY <1>4, <2>3
<1>6. Halved(size, LISTMAX - 1) \in Nat
  BY <1>2, HalvedMonotone
<1> HIDE DEF size, h
<1>7. ~(size <= s[p] /\ Halved(size, LISTMAX - 1) <= 1)
  BY <1>1, <1>2, <1>3, <1>5, SearchFinds
<1>8. s[p] < size \/ Halved(size, LISTMAX - 1) > 1
  BY <1>2, <1>3, <1>6, <1>7
<1> QED BY <1>3, <1>8 DEF size

\* The driver of malloclab never finds a block misaligned, out of the heap or over
\* another one, nor data lost over a realloc (eval_mm_valid).
THEOREM MmNeverRejected ==
  ASSUME GrowsIntoGap = FALSE
  PROVE  Spec => []NeverRejected
<1>1. MmInv => NeverRejected
  BY DEF MmInv, Good, NeverRejected
<1> QED BY <1>1, MmInvariant, PTL

\* No call of the allocator touches a payload the caller holds.
THEOREM MmDataIntact ==
  ASSUME GrowsIntoGap = FALSE
  PROVE  Spec => []DataIntact
<1>1. MmInv => DataIntact
  BY InvIntact
<1> QED BY <1>1, MmInvariant, PTL

\* After every request of a trace the heap is consistent: the blocks tile it, their
\* tags agree, the lists hold each free block once in the list of its size, no two
\* free blocks are neighbours, and the allocated blocks are those the caller holds.
THEOREM MmHeapConsistent ==
  ASSUME GrowsIntoGap = FALSE
  PROVE  Spec => []HeapConsistent
<1>1. MmInv => HeapConsistent
  BY InvConsistent
<1> QED BY <1>1, MmInvariant, PTL

\* mm_malloc extends the heap only if no free block fits the request, for all
\* requests whose size reaches 1 before the search has passed the last list.
THEOREM MmGrowsOnlyIfFull ==
  ASSUME GrowsIntoGap = FALSE
  PROVE  Spec => GrowsOnlyIfFull
<1>1. MmInv => [\A i \in Index, n \in Requests :
                   heap'.brk > heap.brk /\ Malloc(i, n) =>
                     \A p \in FreeBlocks :
                       GET_SIZE(heap, HDRP(p)) < BlockSize(n) \/ Halved(BlockSize(n), LISTMAX - 1) > 1]_vars
  BY MallocGrows
<1> QED BY <1>1, MmInvariant, PTL DEF GrowsOnlyIfFull
=============================================================================
