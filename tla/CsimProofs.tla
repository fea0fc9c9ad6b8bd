----------------------------- MODULE CsimProofs -----------------------------
(***************************************************************************)
(* For every size of the cache and every trace: no block is in two lines   *)
(* of a set, and no two lines of a set are equally old, so that the line   *)
(* to be replaced is always determined.  On that rests the refinement of   *)
(* LRU: the stamps order the lines of a set as an ideal cache orders its   *)
(* blocks, a turn moves one block to the front of one set, and ageing all  *)
(* lines leaves every order as it was.                                     *)
(***************************************************************************)
EXTENDS Csim, NatLemmas, FiniteSetTheorems, SequenceTheorems, TLAPS

Line == [valid_bits : BOOLEAN, tag : Int, stamp : Int]
CacheType == [Sets -> [Ways -> Line]]

\* a line that holds nothing has no tag a block could have
TagInv(c) == \A x \in Sets, i \in Ways : c[x][i].valid_bits <=> c[x][i].tag >= 0

TagsApart(c) ==
  \A x \in Sets : \A i, j \in Ways :
    c[x][i].valid_bits /\ c[x][j].valid_bits /\ c[x][i].tag = c[x][j].tag => i = j

StampsApart(c) ==
  \A x \in Sets : \A i, j \in Ways :
    c[x][i].valid_bits /\ c[x][j].valid_bits /\ c[x][i].stamp = c[x][j].stamp => i = j

\* valid lines are at least m turns old
Old(c, m) == \A x \in Sets, i \in Ways : c[x][i].valid_bits => c[x][i].stamp >= m

Sound(c) == c \in CacheType /\ TagInv(c) /\ TagsApart(c) /\ StampsApart(c)

\* between two turns every valid line has aged at least once
IInv == Sound(cache) /\ Old(cache, 1)

LEMMA AddressFacts ==
  ASSUME NEW a \in Addresses
  PROVE  setindex_add(a) \in Sets /\ tag_add(a) \in Int /\ tag_add(a) >= 0
<1>1. a \in Nat /\ S \in Nat /\ S > 0 /\ B \in Nat /\ B > 0
  BY CsimAssumption
<1>2. a \div B \in Int /\ a \div B >= 0
  BY <1>1
<1>3. (a \div B) % S \in 0 .. S - 1
  BY <1>1, <1>2
<1>4. (a \div B) \div S \in Int /\ (a \div B) \div S >= 0
  BY <1>1, <1>2
<1> QED BY <1>3, <1>4 DEF setindex_add, tag_add, Sets

LEMMA FirstIn ==
  ASSUME NEW I \in SUBSET Ways, I # {}
  PROVE  First(I) \in I
<1>1. I \in SUBSET Nat
  BY CsimAssumption DEF Ways
<1> QED BY <1>1, LeastNat DEF First

LEMMA Rejuvenated ==
  ASSUME NEW r \in Line
  PROVE  [r EXCEPT !.stamp = 0] = [valid_bits |-> r.valid_bits, tag |-> r.tag, stamp |-> 0]
BY DEF Line

LEMMA InitIInv == CacheInit => IInv
BY DEF CacheInit, IInv, Sound, CacheType, TagInv, TagsApart, StampsApart, Old, NoLine, Line

\* Ageing keeps what is apart apart.
LEMMA AgedSound ==
  ASSUME NEW c, Sound(c), NEW m \in Int, Old(c, m)
  PROVE  Sound(Aged(c)) /\ Old(Aged(c), m + 1)
<1>1. ASSUME NEW x \in Sets, NEW i \in Ways
      PROVE  /\ Aged(c)[x][i].valid_bits = c[x][i].valid_bits
             /\ Aged(c)[x][i].tag = c[x][i].tag
             /\ c[x][i].valid_bits => Aged(c)[x][i].stamp = c[x][i].stamp + 1
             /\ Aged(c)[x][i] \in Line
             /\ c[x][i] \in Line
  BY DEF Aged, Sound, CacheType, Line
<1>2. Aged(c) \in CacheType
  BY <1>1 DEF CacheType, Aged
<1>3. \A x \in Sets, i \in Ways : c[x][i].stamp \in Int
  BY <1>1 DEF Line
<1>4. TagInv(Aged(c)) /\ TagsApart(Aged(c))
  BY <1>1 DEF Sound, TagInv, TagsApart
<1>5. StampsApart(Aged(c))
  BY <1>1, <1>3 DEF Sound, StampsApart
<1>6. Old(Aged(c), m + 1)
  BY <1>1, <1>3 DEF Old
<1> QED BY <1>2, <1>4, <1>5, <1>6 DEF Sound

\* A line of the set gets stamp 0 and the block: where it was, or where it was not.
Put(c, a, k) == [c EXCEPT ![setindex_add(a)][k] = Loaded(a)]

LEMMA PutSound ==
  ASSUME NEW c, Sound(c), Old(c, 1), NEW a \in Addresses, NEW k \in Ways,
         \A i \in Ways : c[setindex_add(a)][i].tag = tag_add(a) => i = k
  PROVE  /\ Sound(Put(c, a, k)) /\ Old(Put(c, a, k), 0)
         /\ Hits(Put(c, a, k), a) = {k} /\ Put(c, a, k)[setindex_add(a)][k] = Loaded(a)
<1> DEFINE x0 == setindex_add(a)
           d == Put(c, a, k)
<1>1. x0 \in Sets /\ tag_add(a) \in Int /\ tag_add(a) >= 0
  BY AddressFacts
<1>2. Loaded(a) \in Line /\ Loaded(a).valid_bits /\ Loaded(a).tag = tag_add(a) /\ Loaded(a).stamp = 0
  BY <1>1 DEF Loaded, Line
<1>0. d = [c EXCEPT ![x0][k] = Loaded(a)]
  BY DEF Put
<1> HIDE DEF x0, d
<1>3. d \in CacheType
  BY <1>0, <1>1, <1>2 DEF Sound, CacheType, x0
<1>4. /\ d[x0][k] = Loaded(a)
      /\ \A x \in Sets, i \in Ways : x # x0 \/ i # k => d[x][i] = c[x][i]
  BY <1>0, <1>1 DEF Sound, CacheType, x0
<1>5. \A x \in Sets, i \in Ways : c[x][i] \in Line /\ c[x][i].stamp \in Int
  BY DEF Sound, CacheType, Line
<1>6. TagInv(d)
  BY <1>1, <1>2, <1>4 DEF Sound, TagInv
<1>7. TagsApart(d)
  <2> SUFFICES ASSUME NEW x \in Sets, NEW i \in Ways, NEW j \in Ways,
                      d[x][i].valid_bits, d[x][j].valid_bits, d[x][i].tag = d[x][j].tag
               PROVE  i = j
    BY DEF TagsApart
  <2>1. CASE x # x0 \/ (i # k /\ j # k)
    BY <1>4, <2>1 DEF Sound, TagsApart
  <2>2. CASE x = x0 /\ (i = k \/ j = k)
    BY <1>1, <1>2, <1>4, <2>2 DEF x0
  <2> QED BY <2>1, <2>2
<1>8. StampsApart(d)
  <2> SUFFICES ASSUME NEW x \in Sets, NEW i \in Ways, NEW j \in Ways,
                      d[x][i].valid_bits, d[x][j].valid_bits, d[x][i].stamp = d[x][j].stamp
               PROVE  i = j
    BY DEF StampsApart
  <2>1. CASE x # x0 \/ (i # k /\ j # k)
    BY <1>4, <2>1 DEF Sound, StampsApart
  <2>2. CASE x = x0 /\ (i = k \/ j = k)
    BY <1>1, <1>2, <1>4, <1>5, <2>2 DEF Old
  <2> QED BY <2>1, <2>2
<1>9. Old(d, 0)
  BY <1>1, <1>2, <1>4, <1>5 DEF Old
<1>10. Hits(d, a) = {k}
  BY <1>1, <1>2, <1>4 DEF Hits, x0
<1> QED BY <1>3, <1>4, <1>6, <1>7, <1>8, <1>9, <1>10 DEF Sound, x0, d

\* With every line of the set in use some line is the oldest.
LEMMA OldestExists ==
  ASSUME NEW c, Sound(c), Old(c, 1), NEW a \in Addresses, Empty(c, a) = {}
  PROVE  Oldest(c, a) # {}
<1> DEFINE x0 == setindex_add(a)
           f == [i \in 1 .. E |-> c[x0][i].stamp]
<1>1. x0 \in Sets
  BY AddressFacts
<1>2. \A i \in 1 .. E : c[x0][i].stamp \in Nat /\ c[x0][i].stamp >= 1
  <2> TAKE i \in 1 .. E
  <2>1. c[x0][i] \in Line
    BY <1>1 DEF Sound, CacheType, Ways
  <2>2. c[x0][i].valid_bits
    BY DEF Empty, Ways
  <2>3. c[x0][i].stamp >= 1 /\ c[x0][i].stamp \in Int
    BY <1>1, <2>1, <2>2 DEF Old, Ways, Line
  <2> QED BY <2>3
<1>3. f \in [1 .. E -> Nat] /\ \A i \in 1 .. E : f[i] >= 1
  BY <1>2
<1>4. E \in Nat \ {0}
  BY CsimAssumption
<1> HIDE DEF f
<1>5. PICK k \in 1 .. E : \A j \in 1 .. E : f[j] <= f[k]
  <2> DEFINE V == {0} \cup {f[i] : i \in 1 .. E}
  <2>1. Max(V) \in V /\ Max(V) \in Nat /\ \A v \in V : v <= Max(V)
    BY <1>3, <1>4, MaxOfArray
  <2>2. 1 \in 1 .. E /\ f[1] \in V /\ f[1] >= 1 /\ f[1] \in Nat
    BY <1>3, <1>4
  <2> HIDE DEF V
  <2>3. Max(V) # 0
    BY <2>1, <2>2
  <2>4. PICK k \in 1 .. E : Max(V) = f[k]
    BY <2>1, <2>3 DEF V
  <2>5. \A j \in 1 .. E : f[j] \in V
    BY DEF V
  <2> QED BY <2>1, <2>4, <2>5
<1>6. k \in Oldest(c, a)
  BY <1>5 DEF f, Oldest, Ways
<1> QED BY <1>6

\* update gives the block a line that has it already, or one while no line has it.
LEMMA PlacedAt ==
  ASSUME NEW c, Sound(c), NEW a \in Addresses,
         Empty(c, a) = {} => Oldest(c, a) # {}
  PROVE  \E k \in Ways : /\ \A i \in Ways : c[setindex_add(a)][i].tag = tag_add(a) => i = k
                         /\ Placed(c, a) = Put(c, a, k)
                         /\ Hits(c, a) # {} => k \in Hits(c, a)
                         /\ Hits(c, a) = {} /\ Empty(c, a) # {} => k \in Empty(c, a)
                         /\ Hits(c, a) = {} /\ Empty(c, a) = {} => k \in Oldest(c, a)
<1> DEFINE x0 == setindex_add(a)
<1>1. x0 \in Sets /\ tag_add(a) \in Int /\ tag_add(a) >= 0
  BY AddressFacts
<1>2. Hits(c, a) \subseteq Ways /\ Empty(c, a) \subseteq Ways /\ Oldest(c, a) \subseteq Ways
  BY DEF Hits, Empty, Oldest
<1>3. CASE Hits(c, a) # {}
  <2> DEFINE k == First(Hits(c, a))
  <2>1. k \in Hits(c, a)
    BY <1>2, <1>3, FirstIn
  <2> HIDE DEF k
  <2>2. k \in Ways /\ c[x0][k].tag = tag_add(a) /\ c[x0][k] \in Line
    BY <1>1, <2>1 DEF Hits, Sound, CacheType
  <2>3. \A i \in Ways : c[x0][i].tag = tag_add(a) => i = k
    BY <1>1, <2>2 DEF Sound, TagInv, TagsApart
  <2>4. c[x0][k].valid_bits = TRUE
    BY <1>1, <2>2 DEF Sound, TagInv, Line
  <2>5. [c[x0][k] EXCEPT !.stamp = 0] = Loaded(a)
    BY <2>2, <2>4, Rejuvenated DEF Loaded
  <2>6. [c EXCEPT ![x0][k].stamp = 0] = [c EXCEPT ![x0][k] = Loaded(a)]
    BY <2>5
  <2>7. Placed(c, a) = [c EXCEPT ![x0][k].stamp = 0]
    BY <1>3 DEF Placed, k
  <2> QED BY <1>3, <2>1, <2>2, <2>3, <2>6, <2>7 DEF Put
<1>4. CASE Hits(c, a) = {} /\ Empty(c, a) # {}
  <2>1. First(Empty(c, a)) \in Ways /\ First(Empty(c, a)) \in Empty(c, a)
    BY <1>2, <1>4, FirstIn
  <2>2. Placed(c, a) = [c EXCEPT ![x0][First(Empty(c, a))] = Loaded(a)]
    BY <1>4 DEF Placed
  <2>3. \A i \in Ways : c[x0][i].tag # tag_add(a)
    BY <1>4 DEF Hits
  <2> QED BY <1>4, <2>1, <2>2, <2>3 DEF Put
<1>5. CASE Hits(c, a) = {} /\ Empty(c, a) = {}
  <2>1. First(Oldest(c, a)) \in Ways /\ First(Oldest(c, a)) \in Oldest(c, a)
    BY <1>2, <1>5, FirstIn
  <2>2. Placed(c, a) = [c EXCEPT ![x0][First(Oldest(c, a))] = Loaded(a)]
    BY <1>5 DEF Placed
  <2>3. \A i \in Ways : c[x0][i].tag # tag_add(a)
    BY <1>5 DEF Hits
  <2> QED BY <1>5, <2>1, <2>2, <2>3 DEF Put
<1> QED BY <1>3, <1>4, <1>5

LEMMA PlacedSound ==
  ASSUME NEW c, Sound(c), Old(c, 1), NEW a \in Addresses
  PROVE  /\ Sound(Placed(c, a)) /\ Old(Placed(c, a), 0)
         /\ Placed(Placed(c, a), a) = Placed(c, a)
<1> DEFINE x0 == setindex_add(a)
           d == Placed(c, a)
<1>1. PICK k \in Ways : /\ \A i \in Ways : c[x0][i].tag = tag_add(a) => i = k
                       /\ d = Put(c, a, k)
  BY PlacedAt, OldestExists
<1> HIDE DEF d
<1>2. Sound(d) /\ Old(d, 0) /\ Hits(d, a) = {k} /\ d[x0][k] = Loaded(a)
  <2>1. /\ \A i \in Ways : c[setindex_add(a)][i].tag = tag_add(a) => i = k
        /\ d = Put(c, a, k)
    BY <1>1
  <2>2. k \in Ways /\ Sound(c) /\ Old(c, 1)
    BY <1>1
  <2> QED BY <2>1, <2>2, PutSound
<1>3. First(Hits(d, a)) = k
  <2>1. First(Hits(d, a)) \in Hits(d, a)
    BY <1>2, FirstIn
  <2> QED BY <1>2, <2>1
<1>4. Placed(d, a) = [d EXCEPT ![x0][k].stamp = 0]
  BY <1>2, <1>3 DEF Placed
<1>5. [Loaded(a) EXCEPT !.stamp = 0] = Loaded(a)
  <2>1. Loaded(a) \in Line
    BY AddressFacts DEF Loaded, Line
  <2> QED BY <2>1, Rejuvenated DEF Loaded
<1>6. [d EXCEPT ![x0][k].stamp = 0] = d
  <2>1. x0 \in Sets /\ d \in CacheType
    BY <1>2, AddressFacts DEF Sound
  <2> QED BY <1>2, <1>5, <2>1 DEF CacheType
<1>7. Placed(d, a) = d
  BY <1>4, <1>6
<1> QED BY <1>2, <1>7 DEF d

LEMMA NextIInv == IInv /\ [CacheNext]_cachevars => IInv'
<1> SUFFICES ASSUME IInv, [CacheNext]_cachevars PROVE IInv'
  OBVIOUS
<1>1. ASSUME NEW a \in Addresses, cache' = Aged(Placed(cache, a))
      PROVE  IInv'
  <2>1. Sound(Placed(cache, a)) /\ Old(Placed(cache, a), 0)
    BY PlacedSound DEF IInv
  <2>2. Sound(cache') /\ Old(cache', 0 + 1)
    BY <1>1, <2>1, AgedSound
  <2> QED BY <2>2 DEF IInv
<1>2. CASE cache' = Aged(cache)
  <2>1. Sound(cache') /\ Old(cache', 1 + 1)
    BY <1>2, AgedSound DEF IInv
  <2>2. \A x \in Sets, i \in Ways : cache'[x][i].stamp \in Int
    BY <2>1 DEF Sound, CacheType, Line
  <2>3. Old(cache', 1)
    BY <2>1, <2>2 DEF Old
  <2> QED BY <2>1, <2>3 DEF IInv
<1>3. ASSUME NEW a \in Addresses, Modify(a)
      PROVE  cache' = Aged(Placed(cache, a))
  BY <1>3, PlacedSound DEF Modify, IInv
<1>4. CASE UNCHANGED cachevars
  BY <1>4 DEF cachevars, IInv
<1> QED BY <1>1, <1>2, <1>3, <1>4 DEF CacheNext, LoadOrStore, Instruction, SizeField

LEMMA SpecIInv == CacheSpec => []IInv
BY InitIInv, NextIInv, PTL DEF CacheSpec

\* No block is ever in two lines of its set, although a hit is decided by the
\* tag alone, whatever the valid bit.
THEOREM TagsDistinctCorrect == CacheSpec => []TagsDistinct
<1>1. IInv => TagsDistinct
  BY DEF IInv, Sound, TagsApart, TagsDistinct, Valid
<1> QED BY SpecIInv, <1>1, PTL

\* No two valid lines of a set are equally old: the least recently used one is
\* always determined.
THEOREM StampsDistinctCorrect == CacheSpec => []StampsDistinct
<1>1. IInv => StampsDistinct
  BY DEF IInv, Sound, StampsApart, StampsDistinct, Valid
<1> QED BY SpecIInv, <1>1, PTL

\* Lines that hold nothing are as they were at the start, and the counters count.
Kept(c) == \A x \in Sets, i \in Ways : c[x][i].valid_bits \/ c[x][i] = NoLine

Counts ==
  /\ hit_count \in Nat /\ miss_count \in Nat /\ eviction_count \in Nat
  /\ lines \in 0 .. MaxLines
  /\ size_left \in BOOLEAN

LEMMA InitCounts == CacheInit => Kept(cache) /\ Counts
<1> SUFFICES ASSUME CacheInit PROVE Kept(cache) /\ Counts
  OBVIOUS
<1>1. 0 \in 0 .. MaxLines
  BY CsimAssumption
<1>2. Counts
  BY <1>1 DEF CacheInit, Counts
<1>3. Kept(cache)
  BY DEF CacheInit, Kept
<1> QED BY <1>2, <1>3

LEMMA NextCounts == Counts /\ [CacheNext]_cachevars => Counts'
<1> SUFFICES ASSUME Counts, [CacheNext]_cachevars PROVE Counts'
  OBVIOUS
<1>1. \A c, a : Missed(c, a) \in 0 .. 1 /\ Evicted(c, a) \in 0 .. 1
  BY DEF Missed, Evicted
<1>2. MaxLines \in Nat
  BY CsimAssumption
<1>3. ASSUME NextLine PROVE lines' \in 0 .. MaxLines /\ size_left' = TRUE
  BY <1>2, <1>3 DEF NextLine, Counts
<1>4. ASSUME NEW a \in Addresses, LoadOrStore(a) PROVE Counts'
  <2>1. Missed(cache, a) \in 0 .. 1 /\ Evicted(cache, a) \in 0 .. 1
    BY <1>1
  <2> QED BY <1>3, <1>4, <2>1 DEF LoadOrStore, Counts
<1>5. ASSUME NEW a \in Addresses, Modify(a) PROVE Counts'
  <2>1. PICK c : c = Placed(cache, a)
    OBVIOUS
  <2>2. /\ Missed(cache, a) \in 0 .. 1 /\ Evicted(cache, a) \in 0 .. 1
        /\ Missed(c, a) \in 0 .. 1 /\ Evicted(c, a) \in 0 .. 1
    BY <1>1
  <2>3. /\ hit_count' = hit_count + 2 - Missed(cache, a) - Missed(c, a)
        /\ miss_count' = miss_count + Missed(cache, a) + Missed(c, a)
        /\ eviction_count' = eviction_count + Evicted(cache, a) + Evicted(c, a)
        /\ NextLine
    BY <1>5, <2>1 DEF Modify
  <2> QED BY <1>3, <2>2, <2>3 DEF Counts
<1>6. CASE Instruction
  BY <1>3, <1>6 DEF Instruction, Counts
<1>7. CASE SizeField
  BY <1>7 DEF SizeField, Counts
<1>8. CASE UNCHANGED cachevars
  BY <1>8 DEF cachevars, Counts
<1> QED BY <1>4, <1>5, <1>6, <1>7, <1>8 DEF CacheNext

\* What a turn leaves in the cache.
LEMMA CacheTurns ==
  ASSUME IInv, [CacheNext]_cachevars
  PROVE  \/ cache' = cache
         \/ cache' = Aged(cache)
         \/ \E a \in Addresses : cache' = Aged(Placed(cache, a))
<1>1. ASSUME NEW a \in Addresses, Modify(a) PROVE cache' = Aged(Placed(cache, a))
  <2>1. Placed(Placed(cache, a), a) = Placed(cache, a)
    BY PlacedSound DEF IInv
  <2> QED BY <1>1, <2>1 DEF Modify
<1> QED BY <1>1 DEF CacheNext, LoadOrStore, Instruction, SizeField, cachevars

LEMMA NextKept == IInv /\ Kept(cache) /\ [CacheNext]_cachevars => Kept(cache)'
<1> SUFFICES ASSUME IInv, Kept(cache), [CacheNext]_cachevars PROVE Kept(cache')
  OBVIOUS
<1>1. ASSUME NEW c, Sound(c), Kept(c) PROVE Kept(Aged(c))
  BY <1>1 DEF Kept, Aged, Sound, CacheType, Line
<1>2. ASSUME NEW a \in Addresses PROVE Sound(Placed(cache, a)) /\ Kept(Placed(cache, a))
  <2>1. PICK k \in Ways : Placed(cache, a) = Put(cache, a, k)
    BY PlacedAt, OldestExists DEF IInv
  <2>2. setindex_add(a) \in Sets /\ cache \in CacheType
    BY AddressFacts DEF IInv, Sound
  <2>3. Kept(Put(cache, a, k))
    BY <2>2 DEF Put, Kept, CacheType, Loaded
  <2>4. Sound(Placed(cache, a))
    BY PlacedSound DEF IInv
  <2> QED BY <2>1, <2>3, <2>4
<1>3. Sound(cache)
  BY DEF IInv
<1> QED BY <1>1, <1>2, <1>3, CacheTurns

\* Every valid line keeps a tag and an age that are no negative numbers; the
\* counters never go below zero.
THEOREM TypeOKCorrect == CacheSpec => []CacheTypeOK
<1>1. CacheInit => IInv /\ Kept(cache) /\ Counts
  BY InitIInv, InitCounts
<1>2. IInv /\ Kept(cache) /\ Counts /\ [CacheNext]_cachevars => (IInv /\ Kept(cache) /\ Counts)'
  BY NextIInv, NextKept, NextCounts
<1>3. IInv /\ Kept(cache) /\ Counts => CacheTypeOK
  <2> SUFFICES ASSUME IInv, Kept(cache), Counts PROVE CacheTypeOK
    OBVIOUS
  <2>1. ASSUME NEW x \in Sets, NEW i \in Ways
        PROVE  cache[x][i] \in {NoLine} \cup [valid_bits : {TRUE}, tag : Nat, stamp : Nat]
    <3>1. CASE cache[x][i].valid_bits
      <4>1. PICK r : r = cache[x][i]
        OBVIOUS
      <4>2. r \in Line
        BY <4>1 DEF IInv, Sound, CacheType
      <4>3. r.valid_bits = TRUE
        BY <3>1, <4>1, <4>2 DEF Line
      <4>4. r.tag >= 0 /\ r.stamp >= 1
        BY <3>1, <4>1 DEF IInv, Sound, TagInv, Old
      <4>5. r = [valid_bits |-> r.valid_bits, tag |-> r.tag, stamp |-> r.stamp]
        BY <4>2 DEF Line
      <4>6. r.tag \in Nat /\ r.stamp \in Nat
        BY <4>2, <4>4 DEF Line
      <4>7. r \in [valid_bits : {TRUE}, tag : Nat, stamp : Nat]
        BY <4>3, <4>5, <4>6
      <4> QED BY <4>1, <4>7
    <3>2. CASE cache[x][i] = NoLine
      BY <3>2
    <3> QED BY <3>1, <3>2 DEF Kept
  <2>2. cache \in [Sets -> [Ways -> Line]]
    BY DEF IInv, Sound, CacheType
  <2>3. cache \in [Sets -> [Ways -> {NoLine} \cup [valid_bits : {TRUE}, tag : Nat, stamp : Nat]]]
    BY <2>1, <2>2
  <2> QED BY <2>3 DEF CacheTypeOK, Counts
<1> DEFINE K == Kept(cache)
<1>4. CacheInit => IInv /\ K /\ Counts
  BY <1>1
<1>5. IInv /\ K /\ Counts /\ [CacheNext]_cachevars => IInv' /\ K' /\ Counts'
  BY <1>2
<1>6. IInv /\ K /\ Counts => CacheTypeOK
  BY <1>3
<1> HIDE DEF K
<1> QED BY <1>4, <1>5, <1>6, PTL DEF CacheSpec

-----------------------------------------------------------------------------
(***************************************************************************)
(* The order of use.  In one set of lines, f lists the valid lines from    *)
(* the youngest to the oldest; ByAge is what any such list says.           *)
(***************************************************************************)
GoodSet(set) ==
  /\ set \in [Ways -> Line]
  /\ \A i, j \in Valid(set) : set[i].stamp = set[j].stamp => i = j
  /\ \A i, j \in Valid(set) : set[i].tag = set[j].tag => i = j

Lists(set, n, f) ==
  /\ n = Cardinality(Valid(set))
  /\ f \in [1 .. n -> Valid(set)]
  /\ \A k, l \in 1 .. n : k < l => set[f[k]].stamp < set[f[l]].stamp

LEMMA CountOf == \A n \in Nat : IsFiniteSet(1 .. n) /\ Cardinality(1 .. n) = n
<1> TAKE n \in Nat
<1>1. IsFiniteSet(1 .. n) /\ Cardinality(1 .. n) = IF 1 > n THEN 0 ELSE n - 1 + 1
  BY FS_Interval
<1> QED BY <1>1

LEMMA WaysFinite ==
  /\ IsFiniteSet(Ways) /\ Cardinality(Ways) = E
  /\ \A T \in SUBSET Ways : IsFiniteSet(T) /\ Cardinality(T) \in Nat
  /\ \A T \in SUBSET Ways : \A U \in SUBSET T :
       Cardinality(U) <= Cardinality(T) /\ (Cardinality(U) = Cardinality(T) => U = T)
  /\ \A T \in SUBSET Ways, i \in Ways : i \notin T => Cardinality(T \cup {i}) = Cardinality(T) + 1
<1>1. IsFiniteSet(Ways) /\ Cardinality(Ways) = E
  BY CsimAssumption, CountOf DEF Ways
<1>2. \A T \in SUBSET Ways : IsFiniteSet(T) /\ Cardinality(T) \in Nat
  BY <1>1, FS_Subset, FS_CardinalityType
<1>3. \A T \in SUBSET Ways : \A U \in SUBSET T :
       Cardinality(U) <= Cardinality(T) /\ (Cardinality(U) = Cardinality(T) => U = T)
  BY <1>2, FS_Subset
<1>4. \A T \in SUBSET Ways, i \in Ways : i \notin T => Cardinality(T \cup {i}) = Cardinality(T) + 1
  BY <1>2, FS_AddElement
<1> QED BY <1>1, <1>2, <1>3, <1>4

\* A list has every valid line, and the number of younger lines gives its place.
LEMMA PlaceInList ==
  ASSUME NEW set, GoodSet(set), NEW n, NEW f, Lists(set, n, f)
  PROVE  /\ n \in Nat
         /\ \A i \in Valid(set) : \E k \in 1 .. n : f[k] = i
         /\ \A k, l \in 1 .. n : f[k] = f[l] => k = l
         /\ \A k \in 1 .. n : Cardinality(Younger(set, f[k])) = k - 1
<1>1. /\ n = Cardinality(Valid(set)) /\ n \in Nat /\ Valid(set) \in SUBSET Ways /\ IsFiniteSet(Valid(set))
      /\ f \in [1 .. n -> Valid(set)]
  BY WaysFinite DEF Lists, Valid
<1>2. \A i \in Valid(set) : set[i].stamp \in Int
  BY <1>1 DEF GoodSet, Line
<1>3. \A k, l \in 1 .. n : k < l => set[f[k]].stamp < set[f[l]].stamp
  BY DEF Lists
<1>4. ASSUME NEW k \in 1 .. n, NEW l \in 1 .. n, f[k] = f[l] PROVE k = l
  <2>1. set[f[k]].stamp \in Int /\ k \in Int /\ l \in Int
    BY <1>1, <1>2
  <2>2. ~(k < l) /\ ~(l < k)
    BY <1>3, <1>4, <2>1
  <2> QED BY <2>1, <2>2
<1>5. f \in Injection(1 .. n, Valid(set))
  BY <1>1, <1>4 DEF Injection, IsInjective
<1>6. f \in Surjection(1 .. n, Valid(set))
  BY <1>1, <1>5, CountOf, FS_Injection
<1>7. \A i \in Valid(set) : \E k \in 1 .. n : f[k] = i
  BY <1>6 DEF Surjection
<1>8. ASSUME NEW k \in 1 .. n PROVE Cardinality(Younger(set, f[k])) = k - 1
  <2> DEFINE g == [l \in 1 .. k - 1 |-> f[l]]
             Y == Younger(set, f[k])
  <2>1. k - 1 \in Nat /\ \A l \in 1 .. k - 1 : l \in 1 .. n /\ l < k
    BY <1>1
  <2>2. \A l \in 1 .. k - 1 : f[l] \in Y
    BY <1>1, <1>3, <2>1 DEF Younger
  <2>3. \A i \in Y : \E l \in 1 .. k - 1 : f[l] = i
    <3> TAKE i \in Y
    <3>1. i \in Valid(set) /\ set[i].stamp < set[f[k]].stamp
      BY DEF Younger
    <3>2. PICK l \in 1 .. n : f[l] = i
      BY <1>7, <3>1
    <3>3. ~(k < l) /\ k # l
      BY <1>1, <1>2, <1>3, <3>1, <3>2
    <3>4. l \in 1 .. k - 1
      BY <1>1, <3>2, <3>3
    <3> QED BY <3>2, <3>4
  <2> HIDE DEF Y
  <2>4. g \in [1 .. k - 1 -> Y]
    BY <2>2
  <2>5. g \in Surjection(1 .. k - 1, Y)
    BY <2>3, <2>4 DEF Surjection
  <2>6. g \in Injection(1 .. k - 1, Y)
    BY <1>4, <2>1, <2>4 DEF Injection, IsInjective
  <2> HIDE DEF g
  <2>7. Cardinality(Y) = Cardinality(1 .. k - 1) /\ Cardinality(1 .. k - 1) = k - 1
    BY <2>1, <2>5, <2>6, CountOf, FS_Surjection
  <2> QED BY <2>7 DEF Y
<1> QED BY <1>1, <1>4, <1>7, <1>8

LEMMA ByAgeOfList ==
  ASSUME NEW set, GoodSet(set), NEW n, NEW f, Lists(set, n, f)
  PROVE  ByAge(set) = [k \in 1 .. n |-> set[f[k]].tag]
<1>1. n = Cardinality(Valid(set)) /\ f \in [1 .. n -> Valid(set)]
  BY DEF Lists
<1>2. ASSUME NEW k \in 1 .. n
      PROVE  f[k] = CHOOSE i \in Valid(set) : Cardinality(Younger(set, i)) = k - 1
  <2>1. f[k] \in Valid(set) /\ Cardinality(Younger(set, f[k])) = k - 1
    BY <1>1, PlaceInList
  <2>2. ASSUME NEW i \in Valid(set), Cardinality(Younger(set, i)) = k - 1 PROVE i = f[k]
    <3>1. PICK l \in 1 .. n : f[l] = i
      BY PlaceInList
    <3>2. l - 1 = k - 1 /\ n \in Nat
      BY <2>2, <3>1, PlaceInList
    <3> QED BY <3>1, <3>2
  <2> QED BY <2>1, <2>2
<1> DEFINE at(k) == CHOOSE i \in Valid(set) : Cardinality(Younger(set, i)) = k - 1
<1>3. ByAge(set) = [k \in 1 .. n |-> set[at(k)].tag]
  BY <1>1 DEF ByAge
<1>4. \A k \in 1 .. n : at(k) = f[k]
  BY <1>2
<1> HIDE DEF at
<1> QED BY <1>3, <1>4

\* Lines of different age can be listed by age.
LEMMA ListExists ==
  ASSUME NEW set, GoodSet(set)
  PROVE  \E f : Lists(set, Cardinality(Valid(set)), f)
<1> DEFINE V == Valid(set)
           n == Cardinality(V)
           rank == [i \in V |-> Cardinality(Younger(set, i)) + 1]
           f == [k \in 1 .. n |-> CHOOSE i \in V : rank[i] = k]
<1>1. V \in SUBSET Ways /\ IsFiniteSet(V) /\ n \in Nat
  BY WaysFinite DEF Valid
<1>2. \A i \in V : /\ set[i].stamp \in Int
                   /\ i \notin Younger(set, i) /\ Younger(set, i) \in SUBSET V
  BY <1>1 DEF GoodSet, Line, Younger
<1>3. ASSUME NEW i \in V, NEW j \in V, set[i].stamp < set[j].stamp
      PROVE  Cardinality(Younger(set, i)) < Cardinality(Younger(set, j))
  <2>1. Younger(set, i) \subseteq Younger(set, j)
    <3> SUFFICES ASSUME NEW l \in Younger(set, i) PROVE l \in Younger(set, j)
      OBVIOUS
    <3>1. l \in V /\ set[l].stamp < set[i].stamp
      BY DEF Younger
    <3>2. set[l].stamp < set[j].stamp
      BY <1>2, <1>3, <3>1
    <3> QED BY <3>1, <3>2 DEF Younger
  <2>2. i \in Younger(set, j)
    BY <1>3 DEF Younger
  <2>3. Younger(set, i) # Younger(set, j) /\ Younger(set, i) \in SUBSET Ways /\ Younger(set, j) \in SUBSET Ways
    BY <1>1, <1>2, <2>2
  <2> QED BY <2>1, <2>3, WaysFinite
<1>4. \A i \in V : Cardinality(Younger(set, i)) \in 0 .. n - 1
  <2> TAKE i \in V
  <2>1. Younger(set, i) # V /\ Younger(set, i) \in SUBSET V /\ Younger(set, i) \in SUBSET Ways
    BY <1>1, <1>2
  <2>2. Cardinality(Younger(set, i)) \in Nat /\ Cardinality(Younger(set, i)) < n
    BY <1>1, <2>1, WaysFinite
  <2> QED BY <1>1, <2>2
<1>5. rank \in [V -> 1 .. n]
  BY <1>1, <1>4
<1>6. \A i, j \in V : set[i].stamp < set[j].stamp => rank[i] < rank[j]
  BY <1>1, <1>3, <1>4
<1> HIDE DEF rank
<1>7. \A i, j \in V : rank[i] = rank[j] => i = j
  <2> TAKE i, j \in V
  <2>1. rank[i] = rank[j] => ~(set[i].stamp < set[j].stamp) /\ ~(set[j].stamp < set[i].stamp)
    BY <1>1, <1>5, <1>6
  <2> QED BY <1>2, <2>1 DEF GoodSet
<1>8. rank \in Injection(V, 1 .. n)
  BY <1>5, <1>7 DEF Injection, IsInjective
<1>9. rank \in Surjection(V, 1 .. n)
  <2>1. IsFiniteSet(1 .. n) /\ Cardinality(1 .. n) = Cardinality(V)
    BY <1>1, CountOf
  <2> HIDE DEF V, n
  <2> QED BY <1>8, <2>1, FS_Injection
<1>10. \A k \in 1 .. n : \E i \in V : rank[i] = k
  BY <1>9 DEF Surjection
<1>11. \A k \in 1 .. n : f[k] \in V /\ rank[f[k]] = k
  BY <1>10
<1>12. f \in [1 .. n -> V]
  BY <1>11
<1> HIDE DEF f
<1>13. ASSUME NEW k \in 1 .. n, NEW l \in 1 .. n, k < l PROVE set[f[k]].stamp < set[f[l]].stamp
  <2>1. f[k] \in V /\ f[l] \in V /\ rank[f[k]] = k /\ rank[f[l]] = l /\ k \in Int /\ l \in Int
    BY <1>1, <1>11
  <2>2. ~(set[f[l]].stamp < set[f[k]].stamp)
    BY <1>6, <1>13, <2>1
  <2>3. set[f[l]].stamp # set[f[k]].stamp
    BY <1>13, <2>1 DEF GoodSet
  <2> QED BY <1>2, <2>1, <2>2, <2>3
<1> QED BY <1>12, <1>13 DEF Lists

---------------------------------------------------------------------------
(* What a reference does to the order of a set that is a sequence. *)

\* e comes first, and those before place m move back by one.
MovedUp(q, e, m) ==
  [j \in 1 .. Len(q) |-> IF j = 1 THEN e ELSE IF j <= m THEN q[j - 1] ELSE q[j]]

LEMMA Prepended ==
  ASSUME NEW q \in Seq(Int), NEW e \in Int
  PROVE  /\ Len(q) \in Nat
         /\ <<e>> \o q \in Seq(Int)
         /\ Len(<<e>> \o q) = Len(q) + 1
         /\ (<<e>> \o q)[1] = e
         /\ \A j \in 2 .. Len(q) + 1 : (<<e>> \o q)[j] = q[j - 1]
<1>1. <<e>> \in Seq(Int) /\ Len(<<e>>) = 1 /\ <<e>>[1] = e /\ Len(q) \in Nat
  BY LenProperties
<1> DEFINE h == <<e>>
<1>2. h \in Seq(Int) /\ Len(h) = 1 /\ h[1] = e
  BY <1>1
<1> HIDE DEF h
<1>3. /\ h \o q \in Seq(Int) /\ Len(h \o q) = Len(h) + Len(q)
      /\ \A j \in 1 .. Len(h) + Len(q) : (h \o q)[j] = IF j <= Len(h) THEN h[j] ELSE q[j - Len(h)]
  BY <1>2, ConcatProperties
<1>4. (h \o q)[1] = e
  BY <1>1, <1>2, <1>3
<1>5. ASSUME NEW j \in 2 .. Len(q) + 1 PROVE (h \o q)[j] = q[j - 1]
  <2>1. j \in 1 .. Len(h) + Len(q) /\ ~(j <= Len(h)) /\ j - Len(h) = j - 1
    BY <1>1, <1>2
  <2> QED BY <2>1, <1>3
<1> QED BY <1>1, <1>2, <1>3, <1>4, <1>5 DEF h

LEMMA Taken ==
  ASSUME NEW q \in Seq(Int), NEW m \in 1 .. Len(q)
  PROVE  /\ Ideal!RemoveAt(q, m) \in Seq(Int)
         /\ Len(Ideal!RemoveAt(q, m)) = Len(q) - 1
         /\ \A j \in 1 .. Len(q) - 1 : Ideal!RemoveAt(q, m)[j] = IF j < m THEN q[j] ELSE q[j + 1]
<1> DEFINE n == Len(q)
           a == SubSeq(q, 1, m - 1)
           b == SubSeq(q, m + 1, n)
<1>1. n \in Nat \ {0} /\ m \in 1 .. n /\ \A i \in 1 .. n : q[i] \in Int
  BY LenProperties, ElementOfSeq
<1>2. a \in Seq(Int) /\ Len(a) = m - 1 /\ \A i \in 1 .. m - 1 : a[i] = q[i]
  <2>1. \A k \in 1 .. m - 1 : q[k] \in Int
    BY <1>1
  <2>2. /\ a \in Seq(Int) /\ Len(a) = IF 1 <= m - 1 THEN (m - 1) - 1 + 1 ELSE 0
        /\ \A k \in 1 .. (m - 1) - 1 + 1 : a[k] = q[1 + k - 1]
    BY <1>1, <2>1, SubSeqProperties
  <2>3. \A k \in 1 .. m - 1 : a[k] = q[k]
    <3> TAKE k \in 1 .. m - 1
    <3>1. k \in 1 .. (m - 1) - 1 + 1 /\ 1 + k - 1 = k
      BY <1>1
    <3> QED BY <3>1, <2>2
  <2> HIDE DEF a, n
  <2> QED BY <1>1, <2>2, <2>3
<1>3. b \in Seq(Int) /\ Len(b) = n - m /\ \A i \in 1 .. n - m : b[i] = q[m + i]
  <2>1. \A k \in m + 1 .. n : q[k] \in Int
    BY <1>1
  <2>2. /\ b \in Seq(Int) /\ Len(b) = IF m + 1 <= n THEN n - (m + 1) + 1 ELSE 0
        /\ \A k \in 1 .. n - (m + 1) + 1 : b[k] = q[(m + 1) + k - 1]
    BY <1>1, <2>1, SubSeqProperties
  <2>3. \A k \in 1 .. n - m : b[k] = q[m + k]
    <3> TAKE k \in 1 .. n - m
    <3>1. k \in 1 .. n - (m + 1) + 1 /\ (m + 1) + k - 1 = m + k
      BY <1>1
    <3> QED BY <3>1, <2>2
  <2> HIDE DEF b, n
  <2> QED BY <1>1, <2>2, <2>3
<1>4. Ideal!RemoveAt(q, m) = a \o b
  BY DEF Ideal!RemoveAt
<1> HIDE DEF a, b, n
<1>5. /\ a \o b \in Seq(Int) /\ Len(a \o b) = Len(a) + Len(b)
      /\ \A i \in 1 .. Len(a) + Len(b) : (a \o b)[i] = IF i <= Len(a) THEN a[i] ELSE b[i - Len(a)]
  BY <1>2, <1>3, ConcatProperties
<1>6. Len(a) + Len(b) = n - 1
  BY <1>1, <1>2, <1>3
<1>7. ASSUME NEW j \in 1 .. n - 1 PROVE (a \o b)[j] = IF j < m THEN q[j] ELSE q[j + 1]
  <2>1. CASE j < m
    <3>1. j \in 1 .. m - 1 /\ j <= Len(a)
      BY <1>1, <1>2, <2>1
    <3> QED BY <1>2, <1>5, <1>6, <2>1, <3>1
  <2>2. CASE ~(j < m)
    <3>1. j - (m - 1) \in 1 .. n - m /\ ~(j <= Len(a)) /\ m + (j - (m - 1)) = j + 1 /\ j - Len(a) = j - (m - 1)
      BY <1>1, <1>2, <2>2
    <3>2. b[j - (m - 1)] = q[m + (j - (m - 1))]
      BY <1>3, <3>1
    <3> QED BY <1>5, <1>6, <2>2, <3>1, <3>2
  <2> QED BY <2>1, <2>2
<1> QED BY <1>4, <1>5, <1>6, <1>7 DEF n

LEMMA LastDropped ==
  ASSUME NEW q \in Seq(Int), Len(q) # 0
  PROVE  /\ Ideal!Front(q) \in Seq(Int)
         /\ Len(Ideal!Front(q)) = Len(q) - 1
         /\ \A j \in 1 .. Len(q) - 1 : Ideal!Front(q)[j] = q[j]
<1> DEFINE n == Len(q)
           a == SubSeq(q, 1, n - 1)
<1>1. n \in Nat \ {0} /\ \A i \in 1 .. n - 1 : q[i] \in Int
  BY LenProperties, ElementOfSeq
<1>2. /\ a \in Seq(Int) /\ Len(a) = IF 1 <= n - 1 THEN (n - 1) - 1 + 1 ELSE 0
      /\ \A k \in 1 .. (n - 1) - 1 + 1 : a[k] = q[1 + k - 1]
  BY <1>1, SubSeqProperties
<1>3. \A k \in 1 .. n - 1 : a[k] = q[k]
  <2> TAKE k \in 1 .. n - 1
  <2>1. k \in 1 .. (n - 1) - 1 + 1 /\ 1 + k - 1 = k
    BY <1>1
  <2> QED BY <2>1, <1>2
<1>4. Ideal!Front(q) = a
  BY DEF Ideal!Front
<1> HIDE DEF a
<1>5. Len(a) = n - 1
  <2> HIDE DEF n
  <2> QED BY <1>1, <1>2
<1> QED BY <1>2, <1>3, <1>4, <1>5

LEMMA RecentInside ==
  ASSUME NEW q \in Seq(Int), NEW e \in Int, NEW m \in 1 .. Len(q), q[m] = e,
         \A i \in 1 .. Len(q) : q[i] = e => i = m
  PROVE  e \in Ideal!ToSet(q) /\ Ideal!Recent(q, e) = MovedUp(q, e, m)
<1> DEFINE n == Len(q)
<1>1. n \in Nat \ {0} /\ DOMAIN q = 1 .. n /\ \A i \in 1 .. n : q[i] \in Int
  BY LenProperties, ElementOfSeq
<1>2. e \in Ideal!ToSet(q)
  BY <1>1 DEF Ideal!ToSet
<1>3. Ideal!Position(q, e) = m
  BY DEF Ideal!Position
<1> DEFINE t == Ideal!RemoveAt(q, m)
           r == <<e>> \o t
<1>4. Ideal!Recent(q, e) = r
  BY <1>2, <1>3 DEF Ideal!Recent
<1>5. /\ t \in Seq(Int) /\ Len(t) = n - 1
      /\ \A j \in 1 .. n - 1 : t[j] = IF j < m THEN q[j] ELSE q[j + 1]
  BY Taken
<1> HIDE DEF t
<1>6. r \in Seq(Int) /\ Len(r) = Len(t) + 1 /\ r[1] = e /\ \A j \in 2 .. Len(t) + 1 : r[j] = t[j - 1]
  BY <1>5, Prepended
<1> HIDE DEF r, n
<1>7. ASSUME NEW j \in 2 .. n PROVE r[j] = IF j <= m THEN q[j - 1] ELSE q[j]
  <2>1. /\ j \in 2 .. Len(t) + 1 /\ j - 1 \in 1 .. n - 1 /\ (j - 1) + 1 = j
        /\ j - 1 < m <=> j <= m
    BY <1>1, <1>5 DEF n
  <2>2. r[j] = t[j - 1] /\ t[j - 1] = IF j - 1 < m THEN q[j - 1] ELSE q[(j - 1) + 1]
    BY <1>5, <1>6, <2>1
  <2> QED BY <2>1, <2>2
<1>8. Len(r) = n
  BY <1>1, <1>5, <1>6
<1>9. r \in [1 .. n -> Int]
  BY <1>6, <1>8, LenProperties
<1>10. \A j \in 1 .. n : r[j] = IF j = 1 THEN e ELSE IF j <= m THEN q[j - 1] ELSE q[j]
  <2> TAKE j \in 1 .. n
  <2>1. j = 1 \/ j \in 2 .. n
    BY <1>1
  <2> QED BY <2>1, <1>6, <1>7
<1>11. r = MovedUp(q, e, m)
  BY <1>9, <1>10 DEF MovedUp, n
<1> QED BY <1>2, <1>4, <1>11

LEMMA RecentOutside ==
  ASSUME NEW q \in Seq(Int), NEW e \in Int, \A i \in 1 .. Len(q) : q[i] # e
  PROVE  /\ e \notin Ideal!ToSet(q)
         /\ Ideal!Recent(q, e) = [j \in 1 .. Len(q) + 1 |-> IF j = 1 THEN e ELSE q[j - 1]]
<1> DEFINE n == Len(q)
<1>1. n \in Nat /\ DOMAIN q = 1 .. n
  BY LenProperties
<1>2. e \notin Ideal!ToSet(q)
  BY <1>1 DEF Ideal!ToSet
<1> DEFINE r == <<e>> \o q
<1>3. Ideal!Recent(q, e) = r
  BY <1>2 DEF Ideal!Recent
<1>4. r \in Seq(Int) /\ Len(r) = n + 1 /\ r[1] = e /\ \A j \in 2 .. n + 1 : r[j] = q[j - 1]
  BY Prepended
<1> HIDE DEF r
<1>5. r \in [1 .. n + 1 -> Int]
  BY <1>4, LenProperties
<1>6. \A j \in 1 .. n + 1 : r[j] = IF j = 1 THEN e ELSE q[j - 1]
  <2> TAKE j \in 1 .. n + 1
  <2>1. j = 1 \/ j \in 2 .. n + 1
    BY <1>1
  <2> QED BY <2>1, <1>4
<1>7. r = [j \in 1 .. n + 1 |-> IF j = 1 THEN e ELSE q[j - 1]]
  BY <1>5, <1>6
<1> QED BY <1>2, <1>3, <1>7

LEMMA RecentForgets ==
  ASSUME NEW q \in Seq(Int), NEW e \in Int, \A i \in 1 .. Len(q) : q[i] # e, Len(q) # 0
  PROVE  Ideal!Recent(Ideal!Front(q), e) = MovedUp(q, e, Len(q))
<1> DEFINE n == Len(q)
           b == Ideal!Front(q)
<1>1. n \in Nat \ {0}
  BY LenProperties
<1>2. b \in Seq(Int) /\ Len(b) = n - 1 /\ \A j \in 1 .. n - 1 : b[j] = q[j]
  BY LastDropped
<1> HIDE DEF b
<1>3. \A i \in 1 .. Len(b) : b[i] # e
  BY <1>1, <1>2
<1>4. Ideal!Recent(b, e) = [j \in 1 .. Len(b) + 1 |-> IF j = 1 THEN e ELSE b[j - 1]]
  BY <1>2, <1>3, RecentOutside
<1> DEFINE one(j) == IF j = 1 THEN e ELSE b[j - 1]
           two(j) == IF j = 1 THEN e ELSE IF j <= n THEN q[j - 1] ELSE q[j]
<1>5. Len(b) + 1 = n
  BY <1>1, <1>2
<1>6. \A j \in 1 .. n : one(j) = two(j)
  <2> TAKE j \in 1 .. n
  <2>1. CASE j # 1
    <3>1. j - 1 \in 1 .. n - 1 /\ j <= n
      BY <1>1, <2>1
    <3> QED BY <1>2, <2>1, <3>1
  <2> QED BY <2>1
<1>7. Ideal!Recent(b, e) = [j \in 1 .. n |-> one(j)]
  BY <1>4, <1>5
<1>8. MovedUp(q, e, n) = [j \in 1 .. n |-> two(j)]
  BY DEF MovedUp
<1> HIDE DEF one, two
<1>9. Ideal!Recent(b, e) = MovedUp(q, e, n)
  BY <1>6, <1>7, <1>8
<1> QED BY <1>9 DEF b, n

---------------------------------------------------------------------------
(* What a turn does to the order of one set. *)

LEMMA OrderIsSeq ==
  ASSUME NEW set, GoodSet(set)
  PROVE  /\ ByAge(set) \in Seq(Int) /\ Len(ByAge(set)) = Cardinality(Valid(set))
         /\ Cardinality(Valid(set)) \in Nat
<1> DEFINE n == Cardinality(Valid(set))
<1>1. PICK f : Lists(set, n, f)
  BY ListExists
<1>2. ByAge(set) = [k \in 1 .. n |-> set[f[k]].tag]
  BY <1>1, ByAgeOfList
<1>3. n \in Nat
  BY WaysFinite DEF Valid
<1>4. \A k \in 1 .. n : set[f[k]].tag \in Int
  BY <1>1 DEF Lists, Valid, GoodSet, Line
<1> HIDE DEF n
<1>5. ByAge(set) \in [1 .. n -> Int]
  BY <1>2, <1>4
<1> QED BY <1>3, <1>5 DEF n

\* Ageing all lines by one leaves the order as it was.
LEMMA AgedOrder ==
  ASSUME NEW set, GoodSet(set), NEW r, GoodSet(r),
         \A i \in Ways : /\ r[i].valid_bits = set[i].valid_bits /\ r[i].tag = set[i].tag
                         /\ set[i].valid_bits => r[i].stamp = set[i].stamp + 1
  PROVE  ByAge(r) = ByAge(set)
<1> DEFINE n == Cardinality(Valid(set))
<1>1. PICK f : Lists(set, n, f)
  BY ListExists
<1>2. Valid(r) = Valid(set) /\ n \in Nat
  BY WaysFinite DEF Valid
<1>3. f \in [1 .. n -> Valid(set)] /\ \A k, l \in 1 .. n : k < l => set[f[k]].stamp < set[f[l]].stamp
  BY <1>1 DEF Lists
<1>4. \A i \in Valid(set) : set[i].stamp \in Int /\ r[i].stamp = set[i].stamp + 1 /\ r[i].tag = set[i].tag
  BY DEF Valid, GoodSet, Line
<1> HIDE DEF n
<1>5. \A k, l \in 1 .. n : k < l => r[f[k]].stamp < r[f[l]].stamp
  <2> SUFFICES ASSUME NEW k \in 1 .. n, NEW l \in 1 .. n, k < l PROVE r[f[k]].stamp < r[f[l]].stamp
    OBVIOUS
  <2>1. f[k] \in Valid(set) /\ f[l] \in Valid(set) /\ set[f[k]].stamp < set[f[l]].stamp
    BY <1>3
  <2> QED BY <1>4, <2>1
<1>6. Lists(r, n, f)
  BY <1>2, <1>3, <1>5 DEF Lists, n
<1>7. ByAge(set) = [k \in 1 .. n |-> set[f[k]].tag] /\ ByAge(r) = [k \in 1 .. n |-> r[f[k]].tag]
  BY <1>1, <1>6, ByAgeOfList DEF n
<1>8. \A k \in 1 .. n : set[f[k]].tag = r[f[k]].tag
  BY <1>3, <1>4
<1> QED BY <1>7, <1>8

\* r is set after line k got block e and the stamp 0.
Loads(r, set, k, e) ==
  /\ GoodSet(set) /\ GoodSet(r)
  /\ \A i \in Valid(set) : set[i].stamp >= 1
  /\ k \in Ways /\ r[k] = [valid_bits |-> TRUE, tag |-> e, stamp |-> 0]
  /\ \A i \in Ways : i # k => r[i] = set[i]

\* The block of place m is used again, or replaced.
LEMMA LoadedInUse ==
  ASSUME NEW r, NEW set, NEW k, NEW e \in Int, Loads(r, set, k, e),
         NEW n, NEW f, Lists(set, n, f), NEW m \in 1 .. n, f[m] = k
  PROVE  ByAge(r) = MovedUp(ByAge(set), e, m)
<1> DEFINE g == [j \in 1 .. n |-> IF j = 1 THEN k ELSE IF j <= m THEN f[j - 1] ELSE f[j]]
<1>1. /\ n = Cardinality(Valid(set)) /\ n \in Nat
      /\ f \in [1 .. n -> Valid(set)] /\ \A j, l \in 1 .. n : j < l => set[f[j]].stamp < set[f[l]].stamp
      /\ \A j, l \in 1 .. n : f[j] = f[l] => j = l
  <2>1. n \in Nat /\ \A j, l \in 1 .. n : f[j] = f[l] => j = l
    BY PlaceInList DEF Loads
  <2> QED BY <2>1 DEF Lists
<1>2. k \in Valid(set) /\ \A i \in Valid(set) : i \in Ways /\ set[i].stamp \in Int /\ set[i].stamp >= 1
  BY <1>1 DEF Loads, Valid, GoodSet, Line
<1>3. Valid(r) = Valid(set)
  BY <1>2 DEF Loads, Valid
<1>4. ASSUME NEW j \in 2 .. n
      PROVE  /\ g[j] = (IF j <= m THEN f[j - 1] ELSE f[j])
             /\ j \in 1 .. n /\ j - 1 \in 1 .. n
             /\ g[j] \in Valid(set) /\ g[j] # k /\ r[g[j]] = set[g[j]]
  <2>1. j \in 1 .. n /\ j - 1 \in 1 .. n /\ j # 1
    BY <1>1
  <2>2. g[j] = (IF j <= m THEN f[j - 1] ELSE f[j])
    BY <2>1
  <2>3. g[j] \in Valid(set)
    BY <1>1, <2>1, <2>2
  <2>4. g[j] # k
    <3>1. f[j - 1] = k => j - 1 = m
      BY <1>1, <2>1
    <3>2. f[j] = k => j = m
      BY <1>1, <2>1
    <3> QED BY <1>1, <2>1, <2>2, <3>1, <3>2
  <2>5. r[g[j]] = set[g[j]]
    BY <1>2, <2>3, <2>4 DEF Loads
  <2> QED BY <2>1, <2>2, <2>3, <2>4, <2>5
<1>5. 1 \in 1 .. n /\ g[1] = k /\ r[k].stamp = 0 /\ r[k].tag = e
  BY <1>1 DEF Loads
<1>6. g \in [1 .. n -> Valid(set)]
  <2>1. \A j \in 1 .. n : j = 1 \/ j \in 2 .. n
    BY <1>1
  <2>2. \A j \in 1 .. n : g[j] \in Valid(set)
    BY <1>2, <1>4, <1>5, <2>1
  <2> QED BY <2>2
<1> HIDE DEF g
<1>7. ASSUME NEW j \in 1 .. n, NEW l \in 1 .. n, j < l PROVE r[g[j]].stamp < r[g[l]].stamp
  <2>1. l \in 2 .. n /\ (j = 1 \/ j \in 2 .. n)
    BY <1>1, <1>7
  <2>2. r[g[l]] = set[g[l]] /\ set[g[l]].stamp \in Int /\ set[g[l]].stamp >= 1
    BY <1>2, <1>4, <2>1
  <2>3. CASE j = 1
    BY <1>5, <2>2, <2>3
  <2>4. CASE j \in 2 .. n
    <3> DEFINE jj == IF j <= m THEN j - 1 ELSE j
               ll == IF l <= m THEN l - 1 ELSE l
    <3>1. g[j] = f[jj] /\ g[l] = f[ll] /\ r[g[j]] = set[g[j]]
      BY <1>4, <2>1, <2>4
    <3>2. jj \in 1 .. n /\ ll \in 1 .. n /\ jj < ll
      BY <1>1, <1>4, <1>7, <2>1, <2>4
    <3> HIDE DEF jj, ll
    <3>3. set[f[jj]].stamp < set[f[ll]].stamp
      BY <1>1, <3>2
    <3> QED BY <2>2, <3>1, <3>3
  <2> QED BY <2>1, <2>3, <2>4
<1>8. Lists(r, n, g)
  BY <1>1, <1>3, <1>6, <1>7 DEF Lists
<1>9. ByAge(set) = [j \in 1 .. n |-> set[f[j]].tag] /\ ByAge(r) = [j \in 1 .. n |-> r[g[j]].tag]
  BY <1>8, ByAgeOfList DEF Loads
<1>10. Len(ByAge(set)) = n
  BY <1>1, OrderIsSeq DEF Loads
<1> DEFINE q == ByAge(set)
           moved(j) == IF j = 1 THEN e ELSE IF j <= m THEN q[j - 1] ELSE q[j]
<1>11. \A j \in 1 .. n : q[j] = set[f[j]].tag
  BY <1>9
<1> HIDE DEF q
<1>12. \A j \in 1 .. n : r[g[j]].tag = moved(j)
  <2> TAKE j \in 1 .. n
  <2>1. CASE j = 1
    BY <1>5, <2>1
  <2>2. CASE j \in 2 .. n
    BY <1>4, <1>11, <2>2
  <2>3. j = 1 \/ j \in 2 .. n
    BY <1>1
  <2> QED BY <2>1, <2>2, <2>3
<1>13. MovedUp(q, e, m) = [j \in 1 .. n |-> moved(j)]
  BY <1>10 DEF MovedUp, q
<1> HIDE DEF moved
<1> QED BY <1>9, <1>12, <1>13 DEF q

\* A line that held nothing is taken into use.
LEMMA LoadedFree ==
  ASSUME NEW r, NEW set, NEW k, NEW e \in Int, Loads(r, set, k, e), k \notin Valid(set)
  PROVE  ByAge(r) = [j \in 1 .. Len(ByAge(set)) + 1 |-> IF j = 1 THEN e ELSE ByAge(set)[j - 1]]
<1> DEFINE n == Cardinality(Valid(set))
<1>0. PICK f : Lists(set, n, f)
  BY ListExists DEF Loads
<1> DEFINE g == [j \in 1 .. n + 1 |-> IF j = 1 THEN k ELSE f[j - 1]]
<1>1. /\ n \in Nat
      /\ f \in [1 .. n -> Valid(set)] /\ \A j, l \in 1 .. n : j < l => set[f[j]].stamp < set[f[l]].stamp
  BY <1>0, WaysFinite DEF Lists, Valid
<1>2. k \in Ways /\ \A i \in Valid(set) : i \in Ways /\ set[i].stamp \in Int /\ set[i].stamp >= 1
  BY DEF Loads, Valid, GoodSet, Line
<1>3. Valid(r) = Valid(set) \cup {k} /\ Cardinality(Valid(r)) = n + 1
  <2>1. Valid(r) = Valid(set) \cup {k}
    BY <1>2 DEF Loads, Valid
  <2>2. Valid(set) \in SUBSET Ways
    BY DEF Valid
  <2> QED BY <1>2, <2>1, <2>2, WaysFinite
<1> HIDE DEF n
<1>4. ASSUME NEW j \in 2 .. n + 1
      PROVE  /\ g[j] = f[j - 1] /\ j - 1 \in 1 .. n
             /\ g[j] \in Valid(set) /\ r[g[j]] = set[g[j]]
  <2>1. j \in 1 .. n + 1 /\ j - 1 \in 1 .. n /\ j # 1
    BY <1>1
  <2>2. g[j] = f[j - 1] /\ f[j - 1] \in Valid(set)
    BY <1>1, <2>1
  <2>3. r[g[j]] = set[g[j]]
    BY <1>2, <2>2 DEF Loads
  <2> QED BY <2>1, <2>2, <2>3
<1>5. 1 \in 1 .. n + 1 /\ g[1] = k /\ r[k].stamp = 0 /\ r[k].tag = e
  BY <1>1 DEF Loads
<1>6. g \in [1 .. n + 1 -> Valid(r)]
  <2>1. \A j \in 1 .. n + 1 : j = 1 \/ j \in 2 .. n + 1
    BY <1>1
  <2>2. \A j \in 1 .. n + 1 : g[j] \in Valid(r)
    BY <1>3, <1>4, <1>5, <2>1
  <2> QED BY <2>2
<1> HIDE DEF g
<1>7. ASSUME NEW j \in 1 .. n + 1, NEW l \in 1 .. n + 1, j < l PROVE r[g[j]].stamp < r[g[l]].stamp
  <2>1. l \in 2 .. n + 1 /\ (j = 1 \/ j \in 2 .. n + 1)
    BY <1>1, <1>7
  <2>2. r[g[l]] = set[g[l]] /\ set[g[l]].stamp \in Int /\ set[g[l]].stamp >= 1
    BY <1>2, <1>4, <2>1
  <2>3. CASE j = 1
    BY <1>5, <2>2, <2>3
  <2>4. CASE j \in 2 .. n + 1
    <3>1. g[j] = f[j - 1] /\ g[l] = f[l - 1] /\ r[g[j]] = set[g[j]]
      BY <1>4, <2>1, <2>4
    <3>2. j - 1 \in 1 .. n /\ l - 1 \in 1 .. n /\ j - 1 < l - 1
      BY <1>1, <1>7, <2>1, <2>4
    <3>3. set[f[j - 1]].stamp < set[f[l - 1]].stamp
      BY <1>1, <3>2
    <3> QED BY <2>2, <3>1, <3>3
  <2> QED BY <2>1, <2>3, <2>4
<1>8. Lists(r, n + 1, g)
  BY <1>3, <1>6, <1>7 DEF Lists
<1>9. ByAge(set) = [j \in 1 .. n |-> set[f[j]].tag] /\ ByAge(r) = [j \in 1 .. n + 1 |-> r[g[j]].tag]
  BY <1>0, <1>8, ByAgeOfList DEF Loads
<1>10. Len(ByAge(set)) = n
  BY OrderIsSeq DEF Loads, n
<1> DEFINE q == ByAge(set)
           moved(j) == IF j = 1 THEN e ELSE q[j - 1]
<1>11. \A j \in 1 .. n : q[j] = set[f[j]].tag
  BY <1>9
<1>12. \A j \in 1 .. n + 1 : r[g[j]].tag = moved(j)
  <2> HIDE DEF q
  <2> TAKE j \in 1 .. n + 1
  <2>1. CASE j = 1
    BY <1>5, <2>1
  <2>2. CASE j \in 2 .. n + 1
    <3>1. j # 1 /\ g[j] = f[j - 1] /\ j - 1 \in 1 .. n /\ r[g[j]] = set[g[j]]
      BY <1>1, <1>4, <2>2
    <3> QED BY <1>11, <3>1
  <2>3. j = 1 \/ j \in 2 .. n + 1
    BY <1>1
  <2> QED BY <2>1, <2>2, <2>3
<1>13. [j \in 1 .. Len(q) + 1 |-> IF j = 1 THEN e ELSE q[j - 1]] = [j \in 1 .. n + 1 |-> moved(j)]
  BY <1>10
<1> HIDE DEF moved
<1>14. ByAge(r) = [j \in 1 .. n + 1 |-> moved(j)]
  BY <1>9, <1>12
<1> QED BY <1>13, <1>14

---------------------------------------------------------------------------
(* What a turn does to the order of every set. *)

LEMMA SetIsGood ==
  ASSUME NEW c, Sound(c), NEW x \in Sets
  PROVE  GoodSet(c[x])
BY DEF Sound, CacheType, TagsApart, StampsApart, GoodSet, Valid

LEMMA AgedOrders ==
  ASSUME NEW c, Sound(c), Old(c, 0), NEW x \in Sets
  PROVE  ByAge(Aged(c)[x]) = ByAge(c[x])
<1>1. Sound(Aged(c))
  BY AgedSound
<1>2. GoodSet(c[x]) /\ GoodSet(Aged(c)[x])
  BY <1>1, SetIsGood
<1>3. \A i \in Ways : /\ Aged(c)[x][i].valid_bits = c[x][i].valid_bits
                      /\ Aged(c)[x][i].tag = c[x][i].tag
                      /\ c[x][i].valid_bits => Aged(c)[x][i].stamp = c[x][i].stamp + 1
  BY DEF Aged, Sound, CacheType, Line
<1> QED BY <1>2, <1>3, AgedOrder

\* A set has the block in its order when a line has its tag, and is full when
\* no line is free.
LEMMA OrderTells ==
  ASSUME NEW c, Sound(c), NEW a \in Addresses
  PROVE  /\ Hits(c, a) # {} <=> \E j \in 1 .. Len(ByAge(c[setindex_add(a)])) :
                                  ByAge(c[setindex_add(a)])[j] = tag_add(a)
         /\ Empty(c, a) = {} <=> Len(ByAge(c[setindex_add(a)])) = E
<1> DEFINE set == c[setindex_add(a)]
           e == tag_add(a)
           n == Cardinality(Valid(set))
<1>1. setindex_add(a) \in Sets /\ e \in Int /\ e >= 0
  BY AddressFacts
<1>2. GoodSet(set)
  BY <1>1, SetIsGood
<1>3. PICK f : Lists(set, n, f)
  BY <1>2, ListExists
<1>4. Len(ByAge(set)) = n /\ ByAge(set) = [j \in 1 .. n |-> set[f[j]].tag]
  BY <1>2, <1>3, OrderIsSeq, ByAgeOfList
<1>5. /\ f \in [1 .. n -> Valid(set)] /\ \A i \in Valid(set) : \E j \in 1 .. n : f[j] = i
  <2>1. \A i \in Valid(set) : \E j \in 1 .. n : f[j] = i
    BY <1>2, <1>3, PlaceInList
  <2> QED BY <1>3, <2>1 DEF Lists
<1>6. \A i \in Ways : set[i].valid_bits <=> set[i].tag >= 0
  BY <1>1 DEF Sound, TagInv
<1>7. Hits(c, a) = {i \in Ways : set[i].tag = e} /\ Empty(c, a) = {i \in Ways : ~ set[i].valid_bits}
  BY DEF Hits, Empty
<1> HIDE DEF set, e, n
<1>8. Hits(c, a) # {} <=> \E j \in 1 .. n : set[f[j]].tag = e
  <2>1. ASSUME NEW i \in Hits(c, a) PROVE \E j \in 1 .. n : set[f[j]].tag = e
    BY <1>1, <1>5, <1>6, <1>7 DEF Valid
  <2>2. ASSUME NEW j \in 1 .. n, set[f[j]].tag = e PROVE Hits(c, a) # {}
    BY <1>5, <1>7, <2>2 DEF Valid
  <2> QED BY <2>1, <2>2
<1>9. Empty(c, a) = {} <=> n = E
  <2>1. Valid(set) \in SUBSET Ways
    BY DEF Valid
  <2>2. Empty(c, a) = {} <=> Valid(set) = Ways
    BY <1>7 DEF Valid
  <2>3. Ways \in SUBSET Ways
    OBVIOUS
  <2>4. n = E <=> Valid(set) = Ways
    BY <2>1, <2>3, WaysFinite DEF n
  <2> QED BY <2>2, <2>4
<1>10. \A j \in 1 .. n : ByAge(set)[j] = set[f[j]].tag
  BY <1>4
<1> QED BY <1>4, <1>8, <1>9, <1>10 DEF set, e

\* Where update puts the block, an order of uses would have put it.
LEMMA PlacedOrder ==
  ASSUME NEW c, Sound(c), Old(c, 1), NEW a \in Addresses, NEW q, q = ByAge(c[setindex_add(a)])
  PROVE  /\ ByAge(Placed(c, a)[setindex_add(a)]) =
              IF tag_add(a) \in Ideal!ToSet(q) \/ ~(Len(q) = E)
              THEN Ideal!Recent(q, tag_add(a)) ELSE Ideal!Recent(Ideal!Front(q), tag_add(a))
         /\ \A x \in Sets : x # setindex_add(a) => Placed(c, a)[x] = c[x]
         /\ tag_add(a) \in Ideal!ToSet(q) <=> Hits(c, a) # {}
         /\ Len(q) = E <=> Empty(c, a) = {}
<1> DEFINE x0 == setindex_add(a)
           set == c[x0]
           r == Placed(c, a)[x0]
           e == tag_add(a)
           n == Cardinality(Valid(set))
<1>1. x0 \in Sets /\ e \in Int /\ e >= 0
  BY AddressFacts
<1>2. PICK k \in Ways : /\ \A i \in Ways : c[x0][i].tag = e => i = k
                        /\ Placed(c, a) = Put(c, a, k)
                        /\ Hits(c, a) # {} => k \in Hits(c, a)
                        /\ Hits(c, a) = {} /\ Empty(c, a) # {} => k \in Empty(c, a)
                        /\ Hits(c, a) = {} /\ Empty(c, a) = {} => k \in Oldest(c, a)
  BY PlacedAt, OldestExists
<1>3. Placed(c, a) = [c EXCEPT ![x0][k] = Loaded(a)] /\ c \in CacheType
  BY <1>2 DEF Put, Sound
<1>4. GoodSet(set) /\ Sound(Placed(c, a)) /\ GoodSet(r)
  <2>1. Sound(Placed(c, a))
    BY PlacedSound
  <2> QED BY <1>1, <2>1, SetIsGood
<1>5. /\ \A x \in Sets : x # x0 => Placed(c, a)[x] = c[x]
      /\ r[k] = Loaded(a) /\ \A i \in Ways : i # k => r[i] = set[i]
  BY <1>1, <1>3 DEF CacheType
<1>6. Loads(r, set, k, e)
  <2>1. \A i \in Valid(set) : set[i].stamp >= 1
    BY <1>1 DEF Old, Valid
  <2> QED BY <1>2, <1>4, <1>5, <2>1 DEF Loads, Loaded
<1>7. q \in Seq(Int) /\ Len(q) = n /\ n \in Nat
  BY <1>4, OrderIsSeq
<1>8. PICK f : Lists(set, n, f)
  BY <1>4, ListExists
<1>9. /\ f \in [1 .. n -> Valid(set)] /\ \A i \in Valid(set) : \E j \in 1 .. n : f[j] = i
      /\ \A j, l \in 1 .. n : j < l => set[f[j]].stamp < set[f[l]].stamp
      /\ \A j, l \in 1 .. n : f[j] = f[l] => j = l
  <2>1. /\ \A i \in Valid(set) : \E j \in 1 .. n : f[j] = i
        /\ \A j, l \in 1 .. n : f[j] = f[l] => j = l
    BY <1>4, <1>8, PlaceInList
  <2> QED BY <1>8, <2>1 DEF Lists
<1>10. \A j \in 1 .. n : q[j] = set[f[j]].tag
  <2>1. q = [j \in 1 .. n |-> set[f[j]].tag]
    BY <1>4, <1>8, ByAgeOfList
  <2> HIDE DEF set, n
  <2> QED BY <2>1
<1>11. /\ Hits(c, a) # {} <=> \E j \in 1 .. Len(q) : q[j] = e
       /\ Empty(c, a) = {} <=> Len(q) = E
  BY OrderTells
<1>12. \A i \in Ways : set[i].valid_bits <=> set[i].tag >= 0
  BY <1>1 DEF Sound, TagInv
<1>13. \A i \in Hits(c, a) : i \in Ways /\ set[i].tag = e
  BY DEF Hits
<1>14. \A i \in Empty(c, a) : i \in Ways /\ i \notin Valid(set)
  BY DEF Empty, Valid
<1>15. Empty(c, a) = {} => \A i \in Ways : i \in Valid(set)
  BY DEF Empty, Valid
<1>16. \A i \in Oldest(c, a) : i \in Ways /\ \A j \in Ways : set[j].stamp <= set[i].stamp
  BY DEF Oldest
<1>17. \A i \in Valid(set) : i \in Ways /\ set[i].stamp \in Int
  BY <1>4 DEF Valid, GoodSet, Line
<1> HIDE DEF x0, set, r, e, n
<1>20. CASE Hits(c, a) # {}
  <2>1. k \in Valid(set) /\ set[k].tag = e
    BY <1>1, <1>2, <1>12, <1>13, <1>20 DEF Valid
  <2>2. PICK m \in 1 .. n : f[m] = k
    BY <1>9, <2>1
  <2>3. ByAge(r) = MovedUp(q, e, m)
    BY <1>1, <1>6, <1>8, <2>2, LoadedInUse DEF set, x0
  <2>4. q[m] = e /\ \A i \in 1 .. Len(q) : q[i] = e => i = m
    <3>1. ASSUME NEW i \in 1 .. n, q[i] = e PROVE i = m
      <4>1. f[i] \in Ways /\ c[x0][f[i]].tag = e
        BY <1>9, <1>10, <1>17, <3>1 DEF set
      <4>2. f[i] = k
        BY <1>2, <4>1
      <4> QED BY <1>9, <2>2, <4>2
    <3> QED BY <1>7, <1>10, <2>1, <2>2, <3>1
  <2>5. e \in Ideal!ToSet(q) /\ Ideal!Recent(q, e) = MovedUp(q, e, m)
    BY <1>1, <1>7, <2>2, <2>4, RecentInside
  <2> QED BY <1>5, <1>11, <1>20, <2>3, <2>5 DEF r, e, x0
<1>21. CASE Hits(c, a) = {}
  <2>1. \A i \in 1 .. Len(q) : q[i] # e
    BY <1>11, <1>21
  <2>2. /\ e \notin Ideal!ToSet(q)
        /\ Ideal!Recent(q, e) = [j \in 1 .. Len(q) + 1 |-> IF j = 1 THEN e ELSE q[j - 1]]
    BY <1>1, <1>7, <2>1, RecentOutside
  <2>3. CASE Empty(c, a) # {}
    <3>1. k \notin Valid(set)
      BY <1>2, <1>14, <1>21, <2>3
    <3>2. ByAge(r) = [j \in 1 .. Len(q) + 1 |-> IF j = 1 THEN e ELSE q[j - 1]]
      BY <1>1, <1>6, <3>1, LoadedFree DEF set, x0
    <3> QED BY <1>5, <1>11, <1>21, <2>2, <2>3, <3>2 DEF r, e, x0
  <2>4. CASE Empty(c, a) = {}
    <3>1. Len(q) = E /\ Len(q) # 0 /\ n \in 1 .. n
      BY <1>7, <1>11, <2>4, CsimAssumption
    <3>2. k \in Oldest(c, a) /\ k \in Valid(set)
      BY <1>2, <1>15, <1>21, <2>4
    <3>3. f[n] = k
      <4>1. PICK m \in 1 .. n : f[m] = k
        BY <1>9, <3>2
      <4>2. f[n] \in Valid(set)
        BY <1>9, <3>1
      <4>3. set[f[n]].stamp <= set[k].stamp /\ set[k].stamp \in Int /\ set[f[n]].stamp \in Int
        BY <1>16, <1>17, <3>2, <4>2
      <4>4. ~(set[f[m]].stamp < set[f[n]].stamp)
        BY <4>1, <4>3
      <4>5. ~(m < n)
        BY <1>9, <3>1, <4>4
      <4> QED BY <1>7, <4>1, <4>5
    <3>4. ByAge(r) = MovedUp(q, e, n)
      BY <1>1, <1>6, <1>8, <3>1, <3>3, LoadedInUse DEF set, x0
    <3>5. Ideal!Recent(Ideal!Front(q), e) = MovedUp(q, e, n)
      BY <1>1, <1>7, <2>1, <3>1, RecentForgets
    <3> QED BY <1>5, <1>11, <1>21, <2>2, <2>4, <3>1, <3>4, <3>5 DEF r, e, x0
  <2> QED BY <2>3, <2>4
<1> QED BY <1>20, <1>21

---------------------------------------------------------------------------
(* The refinement of LRU. *)

LEMMA TurnOrders ==
  ASSUME NEW c, Sound(c), Old(c, 1), NEW a \in Addresses,
         NEW o, o = [x \in Sets |-> ByAge(c[x])],
         NEW x0, x0 = setindex_add(a), NEW e, e = tag_add(a), NEW q, q = o[x0]
  PROVE  /\ [x \in Sets |-> ByAge(Aged(Placed(c, a))[x])] =
              [o EXCEPT ![x0] = IF e \in Ideal!ToSet(q) \/ ~(Len(q) = E)
                                THEN Ideal!Recent(q, e) ELSE Ideal!Recent(Ideal!Front(q), e)]
         /\ Missed(c, a) = (IF e \in Ideal!ToSet(q) THEN 0 ELSE 1)
         /\ Evicted(c, a) = (IF e \notin Ideal!ToSet(q) /\ Len(q) = E THEN 1 ELSE 0)
<1>1. x0 \in Sets
  BY AddressFacts
<1>2. q = ByAge(c[setindex_add(a)])
  BY <1>1
<1> DEFINE v == IF e \in Ideal!ToSet(q) \/ ~(Len(q) = E)
                THEN Ideal!Recent(q, e) ELSE Ideal!Recent(Ideal!Front(q), e)
           p == Placed(c, a)
<1>3. /\ ByAge(p[x0]) = v
      /\ \A x \in Sets : x # x0 => p[x] = c[x]
      /\ e \in Ideal!ToSet(q) <=> Hits(c, a) # {}
      /\ Len(q) = E <=> Empty(c, a) = {}
  BY <1>2, PlacedOrder
<1>4. Missed(c, a) = (IF e \in Ideal!ToSet(q) THEN 0 ELSE 1)
  BY <1>3 DEF Missed
<1>5. Evicted(c, a) = (IF e \notin Ideal!ToSet(q) /\ Len(q) = E THEN 1 ELSE 0)
  BY <1>3 DEF Evicted
<1>6. Sound(p) /\ Old(p, 0)
  BY PlacedSound
<1> HIDE DEF v, p
<1>7. \A x \in Sets : ByAge(Aged(p)[x]) = ByAge(p[x])
  BY <1>6, AgedOrders
<1>8. \A x \in Sets : ByAge(Aged(p)[x]) = IF x = x0 THEN v ELSE o[x]
  BY <1>1, <1>3, <1>7
<1>9. [x \in Sets |-> ByAge(Aged(p)[x])] = [x \in Sets |-> IF x = x0 THEN v ELSE o[x]]
  BY <1>8
<1>10. [o EXCEPT ![x0] = v] = [x \in Sets |-> IF x = x0 THEN v ELSE o[x]]
  BY <1>1
<1>11. [x \in Sets |-> ByAge(Aged(p)[x])] = [o EXCEPT ![x0] = v]
  BY <1>9, <1>10
<1> QED BY <1>4, <1>5, <1>11 DEF v, p

\* A second reference to the same block hits.
LEMMA AgainHits ==
  ASSUME NEW c, Sound(c), Old(c, 1), NEW a \in Addresses
  PROVE  Missed(Placed(c, a), a) = 0 /\ Evicted(Placed(c, a), a) = 0
<1>1. PICK k \in Ways : /\ \A i \in Ways : c[setindex_add(a)][i].tag = tag_add(a) => i = k
                        /\ Placed(c, a) = Put(c, a, k)
  BY PlacedAt, OldestExists
<1>2. Hits(Placed(c, a), a) = {k}
  BY <1>1, PutSound
<1> QED BY <1>2 DEF Missed, Evicted

LEMMA InitIdeal == CacheInit => Ideal!Init
<1> SUFFICES ASSUME CacheInit PROVE Ideal!Init
  OBVIOUS
<1>1. ASSUME NEW x \in Sets PROVE ByAge(cache[x]) = <<>>
  <2>1. Valid(cache[x]) = {} /\ GoodSet(cache[x])
    BY InitIInv, SetIsGood DEF CacheInit, Valid, NoLine, IInv
  <2>2. Cardinality(Valid(cache[x])) = 0
    BY <2>1, FS_EmptySet
  <2>3. ByAge(cache[x]) \in Seq(Int) /\ Len(ByAge(cache[x])) = 0
    BY <2>1, <2>2, OrderIsSeq
  <2> QED BY <2>3, EmptySeq
<1>2. [x \in Sets |-> ByAge(cache[x])] = [x \in Sets |-> <<>>]
  BY <1>1
<1> QED BY <1>2 DEF CacheInit, Ideal!Init

\* A turn of the loop is a reference of an LRU cache, or changes nothing there.
LEMMA NextIdeal == IInv /\ Counts /\ [CacheNext]_cachevars => [Ideal!Next]_(Ideal!vars)
<1> SUFFICES ASSUME IInv, Counts, [CacheNext]_cachevars PROVE [Ideal!Next]_(Ideal!vars)
  OBVIOUS
<1>1. Sound(cache) /\ Old(cache, 1) /\ Old(cache, 0)
  <2>1. Sound(cache) /\ Old(cache, 1)
    BY DEF IInv
  <2>2. \A x \in Sets, i \in Ways : cache[x][i].stamp \in Int
    BY <2>1 DEF Sound, CacheType, Line
  <2> QED BY <2>1, <2>2 DEF Old
<1>2. PICK o : o = [x \in Sets |-> ByAge(cache[x])]
  OBVIOUS
<1>3. ASSUME cache' = Aged(cache) \/ cache' = cache
      PROVE  [x \in Sets |-> ByAge(cache'[x])] = [x \in Sets |-> ByAge(cache[x])]
  <2>1. \A x \in Sets : ByAge(Aged(cache)[x]) = ByAge(cache[x])
    BY <1>1, AgedOrders
  <2> QED BY <1>3, <2>1
<1>4. CASE Instruction \/ SizeField \/ UNCHANGED cachevars
  <2>1. (cache' = Aged(cache) \/ cache' = cache) /\ UNCHANGED <<hit_count, miss_count, eviction_count>>
    BY <1>4 DEF Instruction, SizeField, cachevars
  <2>2. [x \in Sets |-> ByAge(cache'[x])] = [x \in Sets |-> ByAge(cache[x])]
    BY <1>3, <2>1
  <2> QED BY <2>1, <2>2 DEF Ideal!vars
<1>5. ASSUME NEW a \in Addresses, NEW times \in 1 .. 2,
             cache' = Aged(Placed(cache, a)),
             hit_count' = hit_count + times - Missed(cache, a),
             miss_count' = miss_count + Missed(cache, a),
             eviction_count' = eviction_count + Evicted(cache, a)
      PROVE  Ideal!Next
  <2>1. PICK x0, e : x0 = setindex_add(a) /\ e = tag_add(a) /\ x0 \in Sets /\ e \in {tag_add(b) : b \in Addresses}
    BY AddressFacts
  <2>2. PICK q : q = o[x0]
    OBVIOUS
  <2>3. /\ [x \in Sets |-> ByAge(Aged(Placed(cache, a))[x])] =
             [o EXCEPT ![x0] = IF e \in Ideal!ToSet(q) \/ ~(Len(q) = E)
                               THEN Ideal!Recent(q, e) ELSE Ideal!Recent(Ideal!Front(q), e)]
        /\ Missed(cache, a) = (IF e \in Ideal!ToSet(q) THEN 0 ELSE 1)
        /\ Evicted(cache, a) = (IF e \notin Ideal!ToSet(q) /\ Len(q) = E THEN 1 ELSE 0)
    BY <1>1, <1>2, <2>1, <2>2, TurnOrders
  <2>4. [x \in Sets |-> ByAge(cache'[x])] =
          [o EXCEPT ![x0] = IF e \in Ideal!ToSet(q) \/ ~(Len(q) = E)
                            THEN Ideal!Recent(q, e) ELSE Ideal!Recent(Ideal!Front(q), e)]
    BY <1>5, <2>3
  <2>5. Ideal!Access(x0, e, times)
    BY <1>2, <1>5, <2>2, <2>3, <2>4 DEF Ideal!Access
  <2> QED BY <2>1, <2>5 DEF Ideal!Next
<1>6. ASSUME NEW a \in Addresses, LoadOrStore(a) PROVE Ideal!Next
  <2>1. 1 \in 1 .. 2
    OBVIOUS
  <2> QED BY <1>5, <1>6, <2>1 DEF LoadOrStore
<1>7. ASSUME NEW a \in Addresses, Modify(a) PROVE Ideal!Next
  <2>1. PICK c : c = Placed(cache, a)
    OBVIOUS
  <2>2. /\ cache' = Aged(Placed(c, a))
        /\ hit_count' = hit_count + 2 - Missed(cache, a) - Missed(c, a)
        /\ miss_count' = miss_count + Missed(cache, a) + Missed(c, a)
        /\ eviction_count' = eviction_count + Evicted(cache, a) + Evicted(c, a)
    BY <1>7, <2>1 DEF Modify
  <2>3. Placed(c, a) = c /\ Missed(c, a) = 0 /\ Evicted(c, a) = 0
    BY <1>1, <2>1, PlacedSound, AgainHits
  <2>4. Missed(cache, a) \in 0 .. 1 /\ Evicted(cache, a) \in 0 .. 1
    BY DEF Missed, Evicted
  <2>5. /\ hit_count' = hit_count + 2 - Missed(cache, a)
        /\ miss_count' = miss_count + Missed(cache, a)
        /\ eviction_count' = eviction_count + Evicted(cache, a)
    BY <2>2, <2>3, <2>4 DEF Counts
  <2>6. 2 \in 1 .. 2
    OBVIOUS
  <2> QED BY <1>5, <2>1, <2>2, <2>3, <2>5, <2>6
<1> QED BY <1>4, <1>6, <1>7 DEF CacheNext

\* The simulator counts the hits, misses and evictions of a cache that replaces
\* the least recently used block, and holds the same blocks in the same order,
\* although it keeps no order, only stamps that grow with every line read.
THEOREM LRUSpecCorrect == CacheSpec => LRUSpec
<1>1. CacheInit => Ideal!Init /\ IInv /\ Counts
  BY InitIdeal, InitIInv, InitCounts
<1>2. IInv /\ Counts /\ [CacheNext]_cachevars => IInv' /\ Counts' /\ [Ideal!Next]_(Ideal!vars)
  BY NextIInv, NextCounts, NextIdeal
<1> QED BY <1>1, <1>2, PTL DEF CacheSpec, LRUSpec, Ideal!Spec
=============================================================================
