------------------------------ MODULE VmmProofs ------------------------------
(***************************************************************************)
(* The areas of an mm, for every sequence of calls: they stay disjoint and  *)
(* sorted, although an insertion compares with two neighbours only, and the *)
(* cached area is always one of them. So no address is in two areas, and    *)
(* the cache cannot change an answer of find_vma.                           *)
(*                                                                          *)
(* Then the pages, in a free run: PageInv relates the page table, the       *)
(* reference counts, the free frames, the TLB, the swap slots, the FIFO     *)
(* queue and the fault in progress.  From it follow the properties of the   *)
(* page table and of the queue, and that the memory the program sees is the *)
(* one of FlatMemory.                                                       *)
(***************************************************************************)
EXTENDS Vmm, NatLemmas, SequenceTheorems, FiniteSetTheorems

Mms == [list : Seq(Areas), mmap_cache : Areas \cup {NoVma}, map_count : Nat]

Nonempty(l) == \A i \in 1 .. Len(l) : l[i].vm_start < l[i].vm_end
Disjoint(l) == \A i, j \in 1 .. Len(l) : i < j => l[i].vm_end <= l[j].vm_start

GoodMm(m) ==
    /\ m \in Mms
    /\ Nonempty(m.list)
    /\ Disjoint(m.list)
    /\ m.mmap_cache # NoVma => \E i \in 1 .. Len(m.list) : m.list[i] = m.mmap_cache

AreasInv == mm # NoMm => GoodMm(mm)
IInv == script \in Seq(Calls) /\ AreasInv

---------------------------------------------------------------------------
(* find_vma *)

\* The search finds the first area that holds the address, if there is one.
LEMMA SearchFindsFirst ==
  ASSUME NEW m, m.list \in Seq(Areas), NEW a
  PROVE  \/ /\ SearchVma(m, a) = NoVma
            /\ \A i \in 1 .. Len(m.list) : ~Holds(m.list[i], a)
         \/ \E i \in 1 .. Len(m.list) :
              /\ SearchVma(m, a) = m.list[i]
              /\ Holds(m.list[i], a)
              /\ \A j \in 1 .. i - 1 : ~Holds(m.list[j], a)
<1> DEFINE H == {i \in 1 .. Len(m.list) : Holds(m.list[i], a)}
           First(i) == Holds(m.list[i], a) /\ \A j \in 1 .. i - 1 : ~Holds(m.list[j], a)
<1>1. CASE H = {}
  BY <1>1 DEF SearchVma
<1>2. CASE H # {}
  <2>0. Len(m.list) \in Nat
    BY LenProperties
  <2>1. H \in SUBSET Nat
    BY <2>0
  <2>2. PICK i \in H : \A k \in H : i <= k
    BY <2>1, <1>2, LeastNat
  <2>3. \A j \in 1 .. i - 1 : ~Holds(m.list[j], a)
    <3> SUFFICES ASSUME NEW j \in 1 .. i - 1, Holds(m.list[j], a) PROVE FALSE
      OBVIOUS
    <3>1. j \in H
      BY <2>0, <2>2
    <3> QED BY <3>1, <2>0, <2>2
  <2>4. i \in 1 .. Len(m.list) /\ First(i)
    BY <2>2, <2>3
  <2>5. SearchVma(m, a) = m.list[CHOOSE k \in 1 .. Len(m.list) : First(k)]
    BY <2>4 DEF SearchVma
  <2> HIDE DEF First
  <2>6. PICK k \in 1 .. Len(m.list) : SearchVma(m, a) = m.list[k] /\ First(k)
    BY <2>4, <2>5
  <2> QED BY <2>6 DEF First
<1> QED BY <1>1, <1>2

\* With disjoint areas the cached one is the one the search would find.
LEMMA CacheIsSearch ==
  ASSUME NEW m, GoodMm(m), NEW a \in Int
  PROVE  find_vma(m, a) = SearchVma(m, a)
<1> SUFFICES ASSUME Holds(m.mmap_cache, a) PROVE m.mmap_cache = SearchVma(m, a)
  BY DEF find_vma
<1>1. m.list \in Seq(Areas) /\ Len(m.list) \in Nat
  BY LenProperties DEF GoodMm, Mms
<1>2. PICK i \in 1 .. Len(m.list) : m.list[i] = m.mmap_cache
  BY DEF GoodMm, Holds
<1>3. PICK k \in 1 .. Len(m.list) :
          SearchVma(m, a) = m.list[k] /\ Holds(m.list[k], a) /\ \A j \in 1 .. k - 1 : ~Holds(m.list[j], a)
  BY <1>1, <1>2, SearchFindsFirst
<1>4. m.list[i] \in Areas /\ m.list[k] \in Areas
  BY <1>1, <1>2, <1>3, ElementOfSeq
<1>5. ~(i < k)
  BY <1>1, <1>2, <1>3
<1>6. ~(k < i)
  <2> SUFFICES ASSUME k < i PROVE FALSE
    OBVIOUS
  <2>1. m.list[k].vm_end <= m.list[i].vm_start
    BY <1>2, <1>3 DEF GoodMm, Disjoint
  <2>2. a < m.list[k].vm_end /\ m.list[i].vm_start <= a
    BY <1>2, <1>3 DEF Holds
  <2> QED BY <2>1, <2>2, <1>4 DEF Areas
<1>7. i = k
  BY <1>1, <1>5, <1>6
<1> QED BY <1>2, <1>3, <1>7

\* What is cached is an area of the list, whatever address was asked for.
LEMMA CachedIsGood ==
  ASSUME NEW m, GoodMm(m), NEW a
  PROVE  GoodMm(Cached(m, a))
<1>1. m.list \in Seq(Areas) /\ Len(m.list) \in Nat
  BY LenProperties DEF GoodMm, Mms
<1>2. CASE find_vma(m, a) = NoVma
  BY <1>2 DEF Cached
<1>3. CASE find_vma(m, a) # NoVma
  <2>1. PICK i \in 1 .. Len(m.list) : m.list[i] = find_vma(m, a)
    <3>1. CASE Holds(m.mmap_cache, a)
      BY <3>1 DEF find_vma, Holds, GoodMm
    <3>2. CASE ~Holds(m.mmap_cache, a)
      <4>1. find_vma(m, a) = SearchVma(m, a)
        BY <3>2 DEF find_vma
      <4> QED BY <4>1, <1>1, <1>3, SearchFindsFirst
    <3> QED BY <3>1, <3>2
  <2>2. find_vma(m, a) \in Areas
    BY <1>1, <2>1, ElementOfSeq
  <2>3. Cached(m, a) = [m EXCEPT !.mmap_cache = find_vma(m, a)]
    BY <1>3 DEF Cached
  <2>4. Cached(m, a) \in Mms /\ Cached(m, a).list = m.list /\ Cached(m, a).mmap_cache = find_vma(m, a)
    BY <2>2, <2>3 DEF GoodMm, Mms
  <2> QED BY <2>1, <2>4 DEF GoodMm
<1> QED BY <1>2, <1>3

---------------------------------------------------------------------------
(* insert_vma_struct *)

LEMMA InsertAtProperties ==
  ASSUME NEW S, NEW l \in Seq(S), NEW i \in 1 .. Len(l) + 1, NEW e \in S
  PROVE  /\ InsertAt(l, i, e) \in Seq(S)
         /\ Len(InsertAt(l, i, e)) = Len(l) + 1
         /\ \A k \in 1 .. Len(l) + 1 :
              InsertAt(l, i, e)[k] = IF k < i THEN l[k] ELSE IF k = i THEN e ELSE l[k - 1]
<1> DEFINE n == Len(l)
           left == SubSeq(l, 1, i - 1)
           right == SubSeq(l, i, n)
<1>1. n \in Nat /\ i \in Int /\ \A k \in 1 .. n : l[k] \in S
  BY LenProperties, ElementOfSeq
<1>2. left \in Seq(S) /\ Len(left) = i - 1 /\ \A k \in 1 .. i - 1 : left[k] = l[k]
  <2>1. \A k \in 1 .. i - 1 : l[k] \in S
    BY <1>1
  <2>2. /\ left \in Seq(S) /\ Len(left) = IF 1 <= i - 1 THEN (i - 1) - 1 + 1 ELSE 0
        /\ \A k \in 1 .. (i - 1) - 1 + 1 : left[k] = l[1 + k - 1]
    BY <1>1, <2>1, SubSeqProperties
  <2>3. \A k \in 1 .. i - 1 : left[k] = l[k]
    <3> TAKE k \in 1 .. i - 1
    <3>1. k \in 1 .. (i - 1) - 1 + 1 /\ 1 + k - 1 = k
      BY <1>1
    <3> QED BY <3>1, <2>2
  <2> QED BY <1>1, <2>2, <2>3
<1>3. right \in Seq(S) /\ Len(right) = n - i + 1 /\ \A k \in 1 .. n - i + 1 : right[k] = l[i + k - 1]
  <2>1. \A k \in i .. n : l[k] \in S
    BY <1>1
  <2>2. /\ right \in Seq(S) /\ Len(right) = IF i <= n THEN n - i + 1 ELSE 0
        /\ \A k \in 1 .. n - i + 1 : right[k] = l[i + k - 1]
    BY <1>1, <2>1, SubSeqProperties
  <2> QED BY <1>1, <2>2
<1>4. <<e>> \in Seq(S) /\ Len(<<e>>) = 1 /\ <<e>>[1] = e
  OBVIOUS
<1>5. /\ left \o <<e>> \in Seq(S) /\ Len(left \o <<e>>) = i
      /\ \A k \in 1 .. i : (left \o <<e>>)[k] = IF k < i THEN l[k] ELSE e
  <2>1. /\ left \o <<e>> \in Seq(S) /\ Len(left \o <<e>>) = Len(left) + 1
        /\ \A k \in 1 .. Len(left) + 1 :
             (left \o <<e>>)[k] = IF k <= Len(left) THEN left[k] ELSE <<e>>[k - Len(left)]
    BY <1>2, <1>4, ConcatProperties
  <2> HIDE DEF left
  <2>2. ASSUME NEW k \in 1 .. i PROVE (left \o <<e>>)[k] = IF k < i THEN l[k] ELSE e
    <3>1. CASE k < i
      <4>1. k \in 1 .. Len(left) + 1 /\ k <= Len(left) /\ k \in 1 .. i - 1
        BY <1>1, <1>2, <3>1
      <4> QED BY <4>1, <2>1, <1>2, <3>1
    <3>2. CASE k = i
      <4>1. k \in 1 .. Len(left) + 1 /\ ~(k <= Len(left)) /\ k - Len(left) = 1 /\ ~(k < i)
        BY <1>1, <1>2, <3>2
      <4>2. (left \o <<e>>)[k] = <<e>>[k - Len(left)]
        BY <4>1, <2>1
      <4>3. <<e>>[k - Len(left)] = <<e>>[1]
        BY <4>1
      <4>4. (left \o <<e>>)[k] = e
        BY <4>2, <4>3, <1>4
      <4> QED BY <4>1, <4>4
    <3>3. k < i \/ k = i
      BY <1>1
    <3> QED BY <3>1, <3>2, <3>3
  <2> QED BY <1>1, <1>2, <2>1, <2>2
<1>6. InsertAt(l, i, e) = (left \o <<e>>) \o right
  BY DEF InsertAt
<1> HIDE DEF left, right
<1>7. /\ InsertAt(l, i, e) \in Seq(S) /\ Len(InsertAt(l, i, e)) = i + (n - i + 1)
      /\ \A k \in 1 .. i + (n - i + 1) :
           InsertAt(l, i, e)[k] = IF k <= i THEN (left \o <<e>>)[k] ELSE right[k - i]
  <2> DEFINE front == left \o <<e>>
  <2>1. front \in Seq(S) /\ Len(front) = i
    BY <1>5
  <2> HIDE DEF front
  <2>2. /\ front \o right \in Seq(S) /\ Len(front \o right) = Len(front) + Len(right)
        /\ \A k \in 1 .. Len(front) + Len(right) :
             (front \o right)[k] = IF k <= Len(front) THEN front[k] ELSE right[k - Len(front)]
    BY <1>3, <2>1, ConcatProperties
  <2>3. InsertAt(l, i, e) = front \o right
    BY <1>6 DEF front
  <2>4. Len(front) = i /\ Len(right) = n - i + 1
    BY <1>3, <2>1
  <2>5. /\ InsertAt(l, i, e) \in Seq(S) /\ Len(InsertAt(l, i, e)) = i + (n - i + 1)
        /\ \A k \in 1 .. i + (n - i + 1) :
             InsertAt(l, i, e)[k] = IF k <= i THEN front[k] ELSE right[k - i]
    BY <2>2, <2>3, <2>4
  <2> QED BY <2>5 DEF front
<1>8. ASSUME NEW k \in 1 .. n + 1
      PROVE  InsertAt(l, i, e)[k] = IF k < i THEN l[k] ELSE IF k = i THEN e ELSE l[k - 1]
  <2>1. k \in 1 .. i + (n - i + 1)
    BY <1>1
  <2>2. CASE k <= i
    <3>1. k \in 1 .. i
      BY <2>2, <1>1
    <3> QED BY <2>1, <2>2, <3>1, <1>5, <1>7, <1>1
  <2>3. CASE ~(k <= i)
    <3>1. k - i \in 1 .. n - i + 1 /\ i + (k - i) - 1 = k - 1 /\ ~(k < i) /\ k # i
      BY <2>3, <1>1
    <3>2. right[k - i] = l[k - 1]
      BY <3>1, <1>3
    <3> QED BY <2>1, <2>3, <3>1, <3>2, <1>7
  <2> QED BY <2>2, <2>3
<1> QED BY <1>1, <1>7, <1>8

LEMMA InsertPosInList ==
  ASSUME NEW m, m.list \in Seq(Areas), NEW vma
  PROVE  InsertPos(m, vma) \in 1 .. Len(m.list) + 1
<1> DEFINE later == {i \in 1 .. Len(m.list) : m.list[i].vm_start > vma.vm_start}
<1>1. Len(m.list) \in Nat
  BY LenProperties
<1>2. CASE later = {}
  BY <1>1, <1>2 DEF InsertPos
<1>3. CASE later # {}
  <2>1. later \in SUBSET Nat
    BY <1>1
  <2>2. \E i \in later : \A j \in later : i <= j
    BY <2>1, <1>3, LeastNat
  <2>3. InsertPos(m, vma) = CHOOSE i \in later : \A j \in later : i <= j
    BY <1>3 DEF InsertPos
  <2>4. InsertPos(m, vma) \in later
    <3> HIDE DEF later
    <3> QED BY <2>2, <2>3
  <2> QED BY <1>1, <2>4
<1> QED BY <1>2, <1>3

\* The assertions about the two neighbours are enough for all areas.
LEMMA InsertedIsGood ==
  ASSUME NEW m, GoodMm(m), NEW vma \in Areas, InsertAsserts(m, vma)
  PROVE  GoodMm([m EXCEPT !.list = InsertAt(@, InsertPos(m, vma), vma), !.map_count = @ + 1])
<1> DEFINE l == m.list
           n == Len(l)
           i == InsertPos(m, vma)
           s == InsertAt(l, i, vma)
           new == [m EXCEPT !.list = InsertAt(@, InsertPos(m, vma), vma), !.map_count = @ + 1]
<1>1. l \in Seq(Areas) /\ n \in Nat /\ Nonempty(l) /\ Disjoint(l)
  BY LenProperties DEF GoodMm, Mms
<1>2. \A k \in 1 .. n : l[k] \in Areas /\ l[k].vm_start \in Int /\ l[k].vm_end \in Int
  <2>1. \A k \in 1 .. n : l[k] \in Areas
    BY <1>1, ElementOfSeq
  <2>2. \A a \in Areas : a.vm_start \in Int /\ a.vm_end \in Int
    BY DEF Areas
  <2> QED BY <2>1, <2>2
<1>3. i \in 1 .. n + 1
  BY <1>1, InsertPosInList
<1>4. vma.vm_start \in Int /\ vma.vm_end \in Int
  BY DEF Areas
<1>5. /\ vma.vm_start < vma.vm_end
      /\ i > 1 => l[i - 1].vm_end <= vma.vm_start
      /\ i <= n => vma.vm_end <= l[i].vm_start
  BY DEF InsertAsserts, NoOverlap
<1> HIDE DEF l, n, i
<1>6. /\ s \in Seq(Areas) /\ Len(s) = n + 1
      /\ \A k \in 1 .. n + 1 : s[k] = IF k < i THEN l[k] ELSE IF k = i THEN vma ELSE l[k - 1]
  <2>1. i \in 1 .. Len(l) + 1
    BY <1>3 DEF n
  <2> QED BY <1>1, <2>1, InsertAtProperties DEF n
<1> HIDE DEF s
\* every area before the new one ends before it, every one behind begins behind it
<1>7. ASSUME NEW k \in 1 .. n, k < i PROVE l[k].vm_end <= vma.vm_start
  <2>1. i - 1 \in 1 .. n /\ i > 1 /\ k <= i - 1
    BY <1>1, <1>3, <1>7
  <2>2. CASE k = i - 1
    BY <2>1, <2>2, <1>5
  <2>3. CASE k < i - 1
    <3>1. l[k].vm_end <= l[i - 1].vm_start /\ l[i - 1].vm_start < l[i - 1].vm_end
      BY <1>1, <2>1, <2>3 DEF Disjoint, Nonempty, n
    <3> QED BY <3>1, <2>1, <1>2, <1>4, <1>5
  <2> QED BY <2>1, <2>2, <2>3, <1>3
<1>8. ASSUME NEW k \in 1 .. n, i <= k PROVE vma.vm_end <= l[k].vm_start
  <2>1. i \in 1 .. n
    BY <1>1, <1>3, <1>8
  <2>2. CASE k = i
    BY <2>1, <2>2, <1>5
  <2>3. CASE i < k
    <3>1. l[i].vm_end <= l[k].vm_start /\ l[i].vm_start < l[i].vm_end
      BY <1>1, <2>1, <2>3 DEF Disjoint, Nonempty, n
    <3> QED BY <3>1, <2>1, <1>2, <1>4, <1>5
  <2> QED BY <2>1, <2>2, <2>3, <1>8
<1>9. Nonempty(s)
  <2> SUFFICES ASSUME NEW k \in 1 .. n + 1 PROVE s[k].vm_start < s[k].vm_end
    BY <1>6 DEF Nonempty
  <2>1. CASE k < i
    <3>1. k \in 1 .. n
      BY <2>1, <1>1, <1>3
    <3> QED BY <3>1, <2>1, <1>1, <1>6 DEF Nonempty, n
  <2>2. CASE k = i
    BY <2>2, <1>5, <1>6
  <2>3. CASE k > i
    <3>1. k - 1 \in 1 .. n /\ ~(k < i) /\ k # i
      BY <2>3, <1>1, <1>3
    <3>2. s[k] = l[k - 1]
      BY <3>1, <1>6
    <3> QED BY <3>1, <3>2, <1>1 DEF Nonempty, n
  <2> QED BY <1>3, <2>1, <2>2, <2>3
<1>10. Disjoint(s)
  <2> SUFFICES ASSUME NEW j \in 1 .. n + 1, NEW k \in 1 .. n + 1, j < k
               PROVE  s[j].vm_end <= s[k].vm_start
    BY <1>6 DEF Disjoint
  <2>1. CASE k < i
    <3>1. j \in 1 .. n /\ k \in 1 .. n /\ j < i
      BY <2>1, <1>1, <1>3
    <3> QED BY <3>1, <2>1, <1>1, <1>6 DEF Disjoint, n
  <2>2. CASE k = i
    <3>1. j \in 1 .. n /\ j < i
      BY <2>2, <1>1, <1>3
    <3>2. s[j] = l[j] /\ s[k] = vma
      BY <3>1, <2>2, <1>6
    <3> QED BY <3>1, <3>2, <1>7
  <2>3. CASE j < i /\ i < k
    <3>1. j \in 1 .. n /\ k - 1 \in 1 .. n /\ i <= k - 1 /\ ~(k < i) /\ k # i
      BY <2>3, <1>1, <1>3
    <3>2. s[j] = l[j] /\ s[k] = l[k - 1]
      BY <2>3, <3>1, <1>6
    <3>3. l[j].vm_end <= vma.vm_start /\ vma.vm_end <= l[k - 1].vm_start
      BY <2>3, <3>1, <1>7, <1>8
    <3> QED BY <3>1, <3>2, <3>3, <1>2, <1>4, <1>5
  <2>4. CASE j = i
    <3>1. k - 1 \in 1 .. n /\ i <= k - 1 /\ ~(k < i) /\ k # i
      BY <2>4, <1>1, <1>3
    <3>2. s[j] = vma /\ s[k] = l[k - 1]
      BY <2>4, <3>1, <1>6
    <3> QED BY <3>1, <3>2, <1>8
  <2>5. CASE i < j
    <3>1. j - 1 \in 1 .. n /\ k - 1 \in 1 .. n /\ j - 1 < k - 1 /\ ~(k < i) /\ k # i /\ ~(j < i) /\ j # i
      BY <2>5, <1>1, <1>3
    <3>2. s[j] = l[j - 1] /\ s[k] = l[k - 1]
      BY <3>1, <1>6
    <3> QED BY <3>1, <3>2, <1>1 DEF Disjoint, n
  <2> QED BY <1>3, <2>1, <2>2, <2>3, <2>4, <2>5
<1>11. \A k \in 1 .. n : \E j \in 1 .. n + 1 : s[j] = l[k]
  <2> TAKE k \in 1 .. n
  <2>1. CASE k < i
    <3>1. k \in 1 .. n + 1
      BY <1>1
    <3> QED BY <2>1, <3>1, <1>6
  <2>2. CASE ~(k < i)
    <3>1. k + 1 \in 1 .. n + 1 /\ ~(k + 1 < i) /\ k + 1 # i /\ k + 1 - 1 = k
      BY <2>2, <1>1, <1>3
    <3> QED BY <3>1, <1>6
  <2> QED BY <2>1, <2>2
<1>12. new \in Mms /\ new.list = s /\ new.mmap_cache = m.mmap_cache
  <2>1. m \in [list : Seq(Areas), mmap_cache : Areas \cup {NoVma}, map_count : Nat]
    BY DEF GoodMm, Mms
  <2>2. new = [m EXCEPT !.list = s, !.map_count = m.map_count + 1]
    BY DEF s, l, i
  <2> HIDE DEF new
  <2>3. m.map_count + 1 \in Nat
    BY <2>1
  <2> QED BY <1>6, <2>1, <2>2, <2>3 DEF Mms
<1> HIDE DEF new
<1>13. new.mmap_cache # NoVma => \E j \in 1 .. Len(new.list) : new.list[j] = new.mmap_cache
  <2> SUFFICES ASSUME m.mmap_cache # NoVma PROVE \E j \in 1 .. n + 1 : s[j] = m.mmap_cache
    BY <1>6, <1>12
  <2>1. PICK k \in 1 .. n : l[k] = m.mmap_cache
    BY DEF GoodMm, l, n
  <2> QED BY <2>1, <1>11
<1>14. GoodMm(new)
  BY <1>9, <1>10, <1>12, <1>13 DEF GoodMm
<1> QED BY <1>14 DEF new

---------------------------------------------------------------------------

LEMMA InitEstablishes == Init => IInv
BY AreasAssumption, EmptySeq DEF Init, IInv, AreasInv

\* The calls that touch the areas; all others leave mm alone or drop it.
LEMMA CallKeeps ==
  ASSUME AreasInv, NEW op, op.do = "insert_vma" => op.vma \in Areas, Call(op)
  PROVE  AreasInv'
<1>1. CASE mm_create
  <2> DEFINE m == [list |-> <<>>, mmap_cache |-> NoVma, map_count |-> 0]
  <2>1. mm' = m
    BY <1>1 DEF mm_create
  <2>2. <<>> \in Seq(Areas) /\ Len(<<>>) = 0
    BY EmptySeq
  <2>3. m \in Mms /\ m.list = <<>> /\ m.mmap_cache = NoVma
    BY <2>2 DEF Mms
  <2>4. GoodMm(m)
    BY <2>2, <2>3 DEF GoodMm, Nonempty, Disjoint
  <2> QED BY <2>1, <2>4 DEF AreasInv
<1>2. CASE op.do = "insert_vma" /\ insert_vma_struct(op.vma)
  <2>1. mm # NoMm /\ GoodMm(mm) /\ op.vma \in Areas
    BY <1>2 DEF insert_vma_struct, AreasInv
  <2>2. CASE InsertAsserts(mm, op.vma)
    <3>1. mm' = [mm EXCEPT !.list = InsertAt(@, InsertPos(mm, op.vma), op.vma), !.map_count = @ + 1]
      BY <1>2, <2>2 DEF insert_vma_struct
    <3> QED BY <2>1, <2>2, <3>1, InsertedIsGood DEF AreasInv
  <2>3. CASE ~InsertAsserts(mm, op.vma)
    BY <1>2, <2>1, <2>3 DEF insert_vma_struct, AreasInv
  <2> QED BY <2>2, <2>3
<1>3. CASE FindVma(op.addr) \/ AccessFaults(op)
  <2>1. mm # NoMm /\ mm' = Cached(mm, op.addr)
    BY <1>3 DEF FindVma, AccessFaults
  <2> QED BY <2>1, CachedIsGood DEF AreasInv
<1>4. CASE mm_destroy
  BY <1>4 DEF mm_destroy, AreasInv
<1>5. CASE mm' = mm
  BY <1>5 DEF AreasInv
<1>6. \/ mm_create
      \/ op.do = "insert_vma" /\ insert_vma_struct(op.vma)
      \/ FindVma(op.addr) \/ AccessFaults(op)
      \/ mm_destroy
      \/ mm' = mm
  <2>1. swap_init => mm' = mm
    BY DEF swap_init
  <2>2. AllocPage => mm' = mm
    BY DEF AllocPage
  <2>3. PageInsert(op.i, op.page, op.perm) => mm' = mm
    BY DEF PageInsert
  <2>4. page_remove(op.page) => mm' = mm
    BY DEF page_remove
  <2>5. DropTable => mm' = mm
    BY DEF DropTable
  <2>6. FreePage(op.i) \/ Poke(op.i, op.val) => mm' = mm
    BY DEF FreePage, Poke
  <2>7. CheckAssertion(op) \/ AccessHits(op) \/ ReplaceTlb \/ CountFaults => mm' = mm
    BY DEF CheckAssertion, AccessHits, ReplaceTlb, CountFaults
  <2> QED BY <2>1, <2>2, <2>3, <2>4, <2>5, <2>6, <2>7 DEF Call
<1> QED BY <1>1, <1>2, <1>3, <1>4, <1>5, <1>6

\* A call takes itself off the script, or leaves the script as it is.
LEMMA CallOnScript ==
  ASSUME NEW op, Call(op), script \in Seq(Calls), mode = "script" => script # <<>>
  PROVE  script' \in Seq(Calls)
<1>1. Done \/ UNCHANGED script
  BY DEF Call, AccessFaults
<1> QED BY <1>1, HeadTailProperties DEF Done

LEMMA HandlerKeeps == ASSUME AreasInv, Handler PROVE AreasInv' /\ UNCHANGED script
BY DEF Handler, SwapOut, NoMemory, GetPte, MapNewPage, SwapIn, handlerVars, AreasInv

\* What a free run calls: one call, and an inserted area is a given one.
LEMMA FreeRunCalls ==
  ASSUME FreeRun
  PROVE  \E op : Call(op) /\ (op.do = "insert_vma" => op.vma \in Areas)
<1>1. CASE \E d \in {"mm_create", "mm_destroy", "swap_init"} : Call([do |-> d])
  BY <1>1
<1>2. CASE Call([do |-> "drop_table"]) \/ Call([do |-> "alloc_page"])
  BY <1>2
<1>3. CASE \E i \in 1 .. Len(held), p \in MapPages, perm \in {{"U"}, {"U", "W"}} :
             Call([do |-> "page_insert", i |-> i, page |-> p, perm |-> perm])
  BY <1>3
<1>4. CASE \E p \in Pages : Call([do |-> "page_remove", page |-> p])
  BY <1>4
<1>5. CASE \E vma \in FreeAreas : Call([do |-> "insert_vma", vma |-> vma])
  BY <1>5, AreasAssumption
<1>6. CASE \E a \in FreeAddrs, w \in BOOLEAN, v \in Values :
             Call([do |-> "access", addr |-> a, write |-> w, val |-> v])
  BY <1>6
<1> QED BY <1>1, <1>2, <1>3, <1>4, <1>5, <1>6 DEF FreeRun

LEMMA NextKeeps == ASSUME IInv, [Next]_vars PROVE IInv'
<1>1. CASE mode = "free" /\ FreeRun
  <2>1. PICK op : Call(op) /\ (op.do = "insert_vma" => op.vma \in Areas)
    BY <1>1, FreeRunCalls
  <2> QED BY <1>1, <2>1, CallKeeps, CallOnScript DEF IInv
<1>2. CASE mode = "script" /\ script # <<>> /\ Call(Head(script))
  <2>1. Head(script) \in Calls
    BY <1>2, HeadTailProperties DEF IInv
  <2> QED BY <1>2, <2>1, AreasAssumption, CallKeeps, CallOnScript DEF IInv
<1>3. CASE Handler
  BY <1>3, HandlerKeeps DEF IInv
<1>4. CASE UNCHANGED vars
  BY <1>4 DEF vars, IInv, AreasInv
<1> QED BY <1>1, <1>2, <1>3, <1>4 DEF Next

\* For all areas, addresses and sequences of calls, page faults among them: the
\* areas of an mm are sorted and never overlap, and the one-entry cache of
\* find_vma never changes its answer.
THEOREM FindVmaIsSearchCorrect == Spec => []FindVmaIsSearch
<1>1. Init => IInv
  BY InitEstablishes
<1>2. IInv /\ [Next]_vars => IInv'
  BY NextKeeps
<1>3. IInv => FindVmaIsSearch
  <2> SUFFICES ASSUME IInv, mm # NoMm PROVE FindVmaIsSearch
    BY DEF FindVmaIsSearch
  <2>1. GoodMm(mm)
    BY DEF IInv, AreasInv
  <2>2. AreasDisjoint
    BY <2>1 DEF GoodMm, Disjoint, AreasDisjoint
  <2>3. \A x \in 0 .. 2 * NPages : find_vma(mm, x) = SearchVma(mm, x)
    BY <2>1, CacheIsSearch
  <2> QED BY <2>2, <2>3 DEF FindVmaIsSearch
<1> QED BY <1>1, <1>2, <1>3, PTL DEF Spec

---------------------------------------------------------------------------
(* The page table layer.  What its operations keep is stated of a state s   *)
(* of the layer and the set M of managed frames.                            *)

PgType == [pt : Frames \cup {NoFrame}, pte : [Pages -> Entries], ref : [Frames -> Nat],
           free : SUBSET Frames, tlb : [Pages -> Entries]]

Maps(s, f) == {p \in Pages : IsPresent(s.pte[p]) /\ FrameOf(s.pte[p]) = f}

\* Frames in use are mapped as often as they count; the table and the free frames are not
\* mapped; the TLB holds nothing the table does not.
Counted(s, M) ==
    /\ s \in PgType
    /\ s.free \subseteq M
    /\ s.pt # NoFrame => s.pt \in M \ s.free
    /\ s.pt = NoFrame => \A p \in Pages : s.pte[p] = Zero
    /\ \A p \in Pages : IsPresent(s.pte[p]) => FrameOf(s.pte[p]) \in M \ (s.free \cup {s.pt})
    /\ \A f \in M \ (s.free \cup {s.pt}) : s.ref[f] = Cardinality(Maps(s, f))
    /\ \A f \in s.free : s.ref[f] = 0
    /\ \A p \in Pages : s.tlb[p] \in {Zero, s.pte[p]}

\* No frame is lost: one that is not free is mapped, is the table, or is one of H.
InUse(s, M, H) == \A f \in M \ s.free : Maps(s, f) # {} \/ f = s.pt \/ f \in H

HeldFrames == {held[i] : i \in 1 .. Len(held)}

DataType ==
    /\ managed \subseteq Frames
    /\ data \in [Frames -> Values] /\ disk \in [Pages -> Values]
    /\ swap_init_ok \in BOOLEAN
    /\ pra_list \in Seq(Frames) /\ pra_vaddr \in [Frames -> Pages]
    /\ held \in Seq(managed)
    /\ pc \in {"run", "pte", "page", "halted"}
    /\ fault \in [page : Pages, perm : SUBSET {"U", "W"}]

Aligned(a) == a.vm_start % PGSIZE = 0 /\ a.vm_end % PGSIZE = 0

\* An area of the mm is all of page p and gives the rights perm to it.
Gives(p, perm) ==
    \E i \in 1 .. Len(mm.list) :
      /\ mm.list[i].vm_start <= p * PGSIZE /\ p * PGSIZE + PGSIZE <= mm.list[i].vm_end
      /\ perm = FaultPerm(mm.list[i])

\* An entry that is not present is empty or names the slot of its own page.
SlotsOwn ==
    \A p \in Pages : ~IsPresent(pg.pte[p]) =>
       pg.pte[p] = Zero \/ (swap_init_ok /\ pg.pte[p] = Swapped(p))

\* While there is an mm every mapping is the work of do_pgfault.
MappedByFault ==
    mm # NoMm =>
      /\ \A i \in 1 .. Len(mm.list) : Aligned(mm.list[i])
      /\ \A p \in Pages : IsPresent(pg.pte[p]) => Gives(p, PermOf(pg.pte[p]))
      /\ \A p, q \in Pages : /\ IsPresent(pg.pte[p]) /\ IsPresent(pg.pte[q])
                             /\ FrameOf(pg.pte[p]) = FrameOf(pg.pte[q])
                             => p = q

\* The handler works on a page that is not there and that an area allows.
FaultOpen ==
    pc \in {"pte", "page"} =>
      /\ mm # NoMm
      /\ ~IsPresent(pg.pte[fault.page])
      /\ Gives(fault.page, fault.perm)
      /\ pc = "page" => pg.pt # NoFrame

\* The queue and the page table list the same frames.
QueueInv ==
    swap_init_ok /\ mm # NoMm =>
      /\ \A i, j \in 1 .. Len(pra_list) : pra_list[i] = pra_list[j] => i = j
      /\ \A i \in 1 .. Len(pra_list) :
           LET p == pra_vaddr[pra_list[i]]
           IN  IsPresent(pg.pte[p]) /\ FrameOf(pg.pte[p]) = pra_list[i]
      /\ \A p \in Pages : IsPresent(pg.pte[p]) =>
           \E i \in 1 .. Len(pra_list) : pra_list[i] = FrameOf(pg.pte[p])

PageInv == /\ DataType
           /\ Counted(pg, managed)
           /\ InUse(pg, managed, HeldFrames)
           /\ SlotsOwn
           /\ MappedByFault
           /\ FaultOpen
           /\ QueueInv

---------------------------------------------------------------------------
\* Entries are told apart by what they say.
LEMMA EntryCases ==
  /\ Zero \in Entries /\ ~IsPresent(Zero)
  /\ \A p \in Pages : Swapped(p) \in Entries /\ ~IsPresent(Swapped(p)) /\ Swapped(p) # Zero
  /\ \A p, q \in Pages : Swapped(p) = Swapped(q) => p = q
  /\ \A f \in Frames, perm \in SUBSET {"U", "W"} :
       /\ Present(f, perm) \in Entries /\ IsPresent(Present(f, perm))
       /\ FrameOf(Present(f, perm)) = f /\ PermOf(Present(f, perm)) = perm
  /\ \A e \in Entries : IsPresent(e) =>
       /\ FrameOf(e) \in Frames /\ PermOf(e) \in SUBSET {"U", "W"}
       /\ e = Present(FrameOf(e), PermOf(e))
<1> USE DEF Zero, Swapped, Present, IsPresent, FrameOf, PermOf
<1>1. Zero \in Entries /\ ~IsPresent(Zero)
  BY DEF Entries
<1>2. \A p \in Pages : Swapped(p) \in Entries /\ ~IsPresent(Swapped(p)) /\ Swapped(p) # Zero
  BY DEF Entries
<1>3. \A p, q \in Pages : Swapped(p) = Swapped(q) => p = q
  OBVIOUS
<1>4. \A f \in Frames, perm \in SUBSET {"U", "W"} :
       /\ Present(f, perm) \in Entries /\ IsPresent(Present(f, perm))
       /\ FrameOf(Present(f, perm)) = f /\ PermOf(Present(f, perm)) = perm
  BY DEF Entries
<1>5. ASSUME NEW e \in Entries, IsPresent(e)
      PROVE  \E f \in Frames, perm \in SUBSET {"U", "W"} : e = Present(f, perm)
  BY <1>5 DEF Entries
<1> HIDE DEF Zero, Swapped, Present, IsPresent, FrameOf, PermOf
<1>6. ASSUME NEW e \in Entries, IsPresent(e)
      PROVE  /\ FrameOf(e) \in Frames /\ PermOf(e) \in SUBSET {"U", "W"}
             /\ e = Present(FrameOf(e), PermOf(e))
  <2>1. PICK f \in Frames, perm \in SUBSET {"U", "W"} : e = Present(f, perm)
    BY <1>5, <1>6
  <2> QED BY <1>4, <2>1
<1> QED BY <1>1, <1>2, <1>3, <1>4, <1>6

LEMMA MapsMapping ==
  ASSUME pg \in PgType, NEW f \in Frames
  PROVE  Mapping(f) = Maps(pg, f)
<1>1. \A p \in Pages : pg.pte[p] \in Entries
  BY DEF PgType
<1> QED BY <1>1, EntryCases DEF Mapping, Maps

\* The number of pages that map a frame, as one page is mapped to it or away from it.
LEMMA PagesFinite ==
  /\ IsFiniteSet(Pages)
  /\ \A T \in SUBSET Pages : IsFiniteSet(T) /\ Cardinality(T) \in Nat
  /\ \A T \in SUBSET Pages, p \in Pages :
       /\ p \notin T => Cardinality(T \cup {p}) = Cardinality(T) + 1
       /\ p \in T => Cardinality(T \ {p}) = Cardinality(T) - 1 /\ Cardinality(T) # 0
  /\ \A T \in SUBSET Pages : Cardinality(T) = 0 => T = {}
<1>1. IsFiniteSet(Pages)
  BY VmmAssumption, FS_Interval DEF Pages
<1>2. \A T \in SUBSET Pages : IsFiniteSet(T) /\ Cardinality(T) \in Nat
  BY <1>1, FS_Subset, FS_CardinalityType
<1>3. ASSUME NEW T \in SUBSET Pages, NEW p \in Pages
      PROVE  /\ p \notin T => Cardinality(T \cup {p}) = Cardinality(T) + 1
             /\ p \in T => Cardinality(T \ {p}) = Cardinality(T) - 1 /\ Cardinality(T) # 0
  BY <1>2, FS_AddElement, FS_RemoveElement, FS_EmptySet
<1>4. \A T \in SUBSET Pages : Cardinality(T) = 0 => T = {}
  BY <1>2, FS_EmptySet
<1> QED BY <1>1, <1>2, <1>3, <1>4

\* What page_remove_pte leaves, part by part.
Freed(s, f) == s.ref[f] - 1 = 0

LEMMA RemoveParts ==
  ASSUME NEW s \in PgType, NEW p \in Pages, IsPresent(s.pte[p]), s.ref[FrameOf(s.pte[p])] # 0
  PROVE  LET f == FrameOf(s.pte[p])
             r == page_remove_pte(s, p)
         IN  /\ r \in PgType
             /\ r.pt = s.pt
             /\ r.pte = [s.pte EXCEPT ![p] = Zero]
             /\ r.tlb = [s.tlb EXCEPT ![p] = Zero]
             /\ r.ref = [s.ref EXCEPT ![f] = @ - 1]
             /\ r.free = IF Freed(s, f) THEN s.free \cup {f} ELSE s.free
<1> DEFINE f == FrameOf(s.pte[p])
           d == [s EXCEPT !.ref[f] = @ - 1, !.pte[p] = Zero]
           e == IF d.ref[f] = 0 THEN free_page(d, f) ELSE d
<1>1. s.pte[p] \in Entries /\ f \in Frames /\ Zero \in Entries
  BY EntryCases DEF PgType
<1>2. s.ref[f] \in Nat /\ s.ref[f] - 1 \in Nat
  BY <1>1 DEF PgType
<1> HIDE DEF f
<1>3. /\ d \in PgType /\ d.pt = s.pt /\ d.pte = [s.pte EXCEPT ![p] = Zero]
      /\ d.tlb = s.tlb /\ d.ref = [s.ref EXCEPT ![f] = @ - 1] /\ d.free = s.free
      /\ d.ref[f] = s.ref[f] - 1
  BY <1>1, <1>2 DEF PgType
<1> HIDE DEF d
<1>4. /\ e \in PgType /\ e.pt = d.pt /\ e.pte = d.pte /\ e.tlb = d.tlb /\ e.ref = d.ref
      /\ e.free = IF Freed(s, f) THEN s.free \cup {f} ELSE s.free
  <2>1. CASE d.ref[f] = 0
    <3>1. e = [d EXCEPT !.free = @ \cup {f}, !.ref[f] = 0]
      BY <2>1 DEF free_page
    <3>2. [d.ref EXCEPT ![f] = 0] = d.ref
      BY <1>1, <1>3, <2>1 DEF PgType
    <3> HIDE DEF e
    <3>3. e \in PgType /\ e.pt = d.pt /\ e.pte = d.pte /\ e.tlb = d.tlb /\ e.ref = [d.ref EXCEPT ![f] = 0] /\ e.free = d.free \cup {f}
      BY <1>1, <1>3, <3>1 DEF PgType
    <3> QED BY <2>1, <1>3, <3>2, <3>3 DEF Freed
  <2>2. CASE d.ref[f] # 0
    BY <2>2, <1>3 DEF Freed
  <2> QED BY <2>1, <2>2
<1> HIDE DEF e
<1>5. page_remove_pte(s, p) = [e EXCEPT !.tlb[p] = Zero]
  BY DEF page_remove_pte, tlb_invalidate, e, d, f
<1>6. LET r == page_remove_pte(s, p)
      IN  /\ r \in PgType /\ r.pt = e.pt /\ r.pte = e.pte /\ r.tlb = [e.tlb EXCEPT ![p] = Zero]
          /\ r.ref = e.ref /\ r.free = e.free
  BY <1>1, <1>4, <1>5 DEF PgType
<1> QED BY <1>3, <1>4, <1>6 DEF f

\* r is s with f mapped at p, part by part.
Inserted(s, r, f, p, perm) ==
  LET g == FrameOf(s.pte[p])
      was == IsPresent(s.pte[p])
  IN  /\ r \in PgType
      /\ r.pt = s.pt
      /\ r.pte = [s.pte EXCEPT ![p] = Present(f, perm)]
      /\ r.tlb = [s.tlb EXCEPT ![p] = Zero]
      /\ ~was => r.ref = [s.ref EXCEPT ![f] = @ + 1] /\ r.free = s.free
      /\ was /\ g = f => r.ref = s.ref /\ r.free = s.free
      /\ was /\ g # f => /\ r.ref = [s.ref EXCEPT ![f] = @ + 1, ![g] = @ - 1]
                         /\ r.free = IF Freed(s, g) THEN s.free \cup {g} ELSE s.free

LEMMA InsertParts ==
  ASSUME NEW s \in PgType, NEW f \in Frames, NEW p \in Pages, NEW perm \in SUBSET {"U", "W"},
         IsPresent(s.pte[p]) => s.ref[FrameOf(s.pte[p])] # 0
  PROVE  Inserted(s, page_insert(s, f, p, perm), f, p, perm)
<1> DEFINE g == FrameOf(s.pte[p])
           up == [s EXCEPT !.ref[f] = @ + 1]
           old == IF ~IsPresent(s.pte[p]) THEN up
                  ELSE IF g = f THEN [up EXCEPT !.ref[f] = @ - 1]
                  ELSE page_remove_pte(up, p)
           new == [old EXCEPT !.pte[p] = Present(f, perm)]
           r == page_insert(s, f, p, perm)
<1>1. /\ s.pte[p] \in Entries /\ (IsPresent(s.pte[p]) => g \in Frames)
      /\ Zero \in Entries /\ Present(f, perm) \in Entries
  BY EntryCases DEF PgType
<1>2. s.ref[f] \in Nat /\ s.ref[f] + 1 \in Nat /\ s.ref \in [Frames -> Nat]
  BY DEF PgType
<1> HIDE DEF g
<1>3. /\ up \in PgType /\ up.pt = s.pt /\ up.pte = s.pte /\ up.tlb = s.tlb /\ up.free = s.free
      /\ up.ref = [s.ref EXCEPT ![f] = @ + 1]
  BY <1>1, <1>2 DEF PgType
<1> HIDE DEF up
<1>4. /\ old \in PgType /\ old.pt = s.pt
      /\ old.pte = [s.pte EXCEPT ![p] = old.pte[p]] 
      /\ old.tlb = [s.tlb EXCEPT ![p] = old.tlb[p]]
      /\ ~IsPresent(s.pte[p]) => old.ref = [s.ref EXCEPT ![f] = @ + 1] /\ old.free = s.free
      /\ IsPresent(s.pte[p]) /\ g = f => old.ref = s.ref /\ old.free = s.free
      /\ IsPresent(s.pte[p]) /\ g # f =>
           /\ old.ref = [s.ref EXCEPT ![f] = @ + 1, ![g] = @ - 1]
           /\ old.free = IF Freed(s, g) THEN s.free \cup {g} ELSE s.free
  <2>1. CASE ~IsPresent(s.pte[p])
    BY <2>1, <1>3 DEF PgType
  <2>2. CASE IsPresent(s.pte[p]) /\ g = f
    <3>1. old = [up EXCEPT !.ref[f] = @ - 1]
      BY <2>2
    <3>2. [up.ref EXCEPT ![f] = @ - 1] = s.ref
      BY <1>2, <1>3
    <3> HIDE DEF old
    <3>3. /\ old \in PgType /\ old.pt = s.pt /\ old.pte = s.pte /\ old.tlb = s.tlb
          /\ old.free = s.free /\ old.ref = [up.ref EXCEPT ![f] = @ - 1]
      BY <1>2, <1>3, <3>1, <3>2 DEF PgType
    <3> QED BY <2>2, <3>2, <3>3 DEF PgType
  <2>3. CASE IsPresent(s.pte[p]) /\ g # f
    <3>1. up.ref[g] = s.ref[g] /\ up.ref[g] # 0 /\ FrameOf(up.pte[p]) = g /\ IsPresent(up.pte[p])
      BY <1>1, <1>2, <1>3, <2>3 DEF g
    <3>2. /\ old \in PgType /\ old.pt = up.pt
          /\ old.pte = [up.pte EXCEPT ![p] = Zero]
          /\ old.tlb = [up.tlb EXCEPT ![p] = Zero]
          /\ old.ref = [up.ref EXCEPT ![g] = @ - 1]
          /\ old.free = IF Freed(up, g) THEN up.free \cup {g} ELSE up.free
      BY <1>3, <2>3, <3>1, RemoveParts
    <3>3. Freed(up, g) <=> Freed(s, g)
      BY <3>1 DEF Freed
    <3>4. old.pte[p] = Zero /\ old.tlb[p] = Zero
      BY <1>3, <3>2 DEF PgType
    <3> HIDE DEF old
    <3>5. old.ref = [s.ref EXCEPT ![f] = @ + 1, ![g] = @ - 1]
      BY <1>3, <3>2
    <3> QED BY <2>3, <1>3, <3>2, <3>3, <3>4, <3>5
  <2> QED BY <2>1, <2>2, <2>3
<1> HIDE DEF old
<1>5. /\ new \in PgType /\ new.pt = old.pt /\ new.pte = [old.pte EXCEPT ![p] = Present(f, perm)]
      /\ new.tlb = old.tlb /\ new.ref = old.ref /\ new.free = old.free
  BY <1>1, <1>4 DEF PgType
<1> HIDE DEF new
<1>6. r = [new EXCEPT !.tlb[p] = Zero]
  BY DEF page_insert, tlb_invalidate, new, old, up, g
<1> HIDE DEF r
<1>7. /\ r \in PgType /\ r.pt = new.pt /\ r.pte = new.pte /\ r.tlb = [new.tlb EXCEPT ![p] = Zero]
      /\ r.ref = new.ref /\ r.free = new.free
  BY <1>1, <1>5, <1>6 DEF PgType
<1>8. r.pte = [s.pte EXCEPT ![p] = Present(f, perm)] /\ r.tlb = [s.tlb EXCEPT ![p] = Zero]
  <2>1. s.pte \in [Pages -> Entries] /\ s.tlb \in [Pages -> Entries]
    BY DEF PgType
  <2>2. old.pte = [s.pte EXCEPT ![p] = old.pte[p]] /\ old.tlb = [s.tlb EXCEPT ![p] = old.tlb[p]]
    BY <1>4
  <2>3. r.pte = [old.pte EXCEPT ![p] = Present(f, perm)] /\ r.tlb = [old.tlb EXCEPT ![p] = Zero]
    BY <1>5, <1>7
  <2>4. \A x : [[s.pte EXCEPT ![p] = x] EXCEPT ![p] = Present(f, perm)] = [s.pte EXCEPT ![p] = Present(f, perm)]
    BY <2>1
  <2>5. \A x : [[s.tlb EXCEPT ![p] = x] EXCEPT ![p] = Zero] = [s.tlb EXCEPT ![p] = Zero]
    BY <2>1
  <2> QED BY <2>2, <2>3, <2>4, <2>5
<1> QED BY <1>4, <1>5, <1>7, <1>8 DEF r, g, Inserted

\* The pages that map a frame when one entry has changed.
LEMMA MapsAfter ==
  ASSUME NEW s \in PgType, NEW r \in PgType, NEW p \in Pages, NEW e,
         r.pte = [s.pte EXCEPT ![p] = e]
  PROVE  \A f : /\ Maps(s, f) \in SUBSET Pages
                /\ IsPresent(e) /\ FrameOf(e) = f => Maps(r, f) = Maps(s, f) \cup {p}
                /\ ~(IsPresent(e) /\ FrameOf(e) = f) => Maps(r, f) = Maps(s, f) \ {p}
                /\ p \in Maps(s, f) <=> IsPresent(s.pte[p]) /\ FrameOf(s.pte[p]) = f
BY DEF Maps, PgType

\* A frame in use counts a mapping for each page that maps it.
LEMMA CountsMappings ==
  ASSUME NEW s, NEW M \in SUBSET Frames, Counted(s, M), NEW p \in Pages, IsPresent(s.pte[p])
  PROVE  LET f == FrameOf(s.pte[p])
         IN  /\ f \in M \ (s.free \cup {s.pt})
             /\ s.ref[f] = Cardinality(Maps(s, f)) /\ s.ref[f] \in Nat \ {0}
             /\ p \in Maps(s, f) /\ Maps(s, f) \in SUBSET Pages
<1> DEFINE f == FrameOf(s.pte[p])
<1>1. f \in M \ (s.free \cup {s.pt}) /\ s.ref[f] = Cardinality(Maps(s, f))
  BY DEF Counted
<1>2. p \in Maps(s, f) /\ Maps(s, f) \in SUBSET Pages
  BY DEF Maps
<1> HIDE DEF f
<1>3. Cardinality(Maps(s, f)) \in Nat \ {0}
  BY <1>2, PagesFinite
<1> QED BY <1>1, <1>2, <1>3 DEF f

\* page_remove keeps the counts, and gives a frame back exactly when no page maps it.
LEMMA RemoveCounted ==
  ASSUME NEW s, NEW M \in SUBSET Frames, Counted(s, M), NEW p \in Pages
  PROVE  LET r == page_remove_pte(s, p)
         IN  /\ Counted(r, M)
             /\ r.pt = s.pt
             /\ r.pte = [s.pte EXCEPT ![p] = IF IsPresent(s.pte[p]) THEN Zero ELSE @]
             /\ \A H : InUse(s, M, H) => InUse(r, M, H)
<1> DEFINE r == page_remove_pte(s, p)
<1>1. s \in PgType
  BY DEF Counted
<1>2. CASE ~IsPresent(s.pte[p])
  BY <1>1, <1>2 DEF page_remove_pte, PgType
<1>3. CASE IsPresent(s.pte[p])
  <2> DEFINE g == FrameOf(s.pte[p])
  <2>1. /\ g \in M \ (s.free \cup {s.pt}) /\ s.ref[g] \in Nat \ {0}
        /\ s.ref[g] = Cardinality(Maps(s, g)) /\ p \in Maps(s, g) /\ Maps(s, g) \in SUBSET Pages
    BY <1>3, CountsMappings
  <2>2. /\ r \in PgType /\ r.pt = s.pt
        /\ r.pte = [s.pte EXCEPT ![p] = Zero] /\ r.tlb = [s.tlb EXCEPT ![p] = Zero]
        /\ r.ref = [s.ref EXCEPT ![g] = @ - 1]
        /\ r.free = IF Freed(s, g) THEN s.free \cup {g} ELSE s.free
    BY <1>1, <1>3, <2>1, RemoveParts
  <2> HIDE DEF r, g
  <2>3. s.ref \in [Frames -> Nat] /\ s.pte \in [Pages -> Entries] /\ s.tlb \in [Pages -> Entries]
    BY <1>1 DEF PgType
  <2>4. ~IsPresent(Zero)
    BY EntryCases
  <2>5. /\ Maps(r, g) = Maps(s, g) \ {p}
        /\ \A f : f # g => Maps(r, f) = Maps(s, f)
    <3>1. \A f : Maps(r, f) = Maps(s, f) \ {p} /\ (f # g => p \notin Maps(s, f))
      BY <1>1, <2>2, <2>4, MapsAfter DEF g
    <3> QED BY <3>1
  <2>6. Freed(s, g) <=> Maps(r, g) = {}
    <3>1. Cardinality(Maps(r, g)) = s.ref[g] - 1 /\ Maps(r, g) \in SUBSET Pages
      BY <2>1, <2>5, PagesFinite
    <3> QED BY <3>1, PagesFinite, FS_EmptySet DEF Freed
  <2>7. r.free \subseteq M /\ (r.pt # NoFrame => r.pt \in M \ r.free)
    BY <2>1, <2>2 DEF Counted
  <2>8. r.pt = NoFrame => \A q \in Pages : r.pte[q] = Zero
    BY <2>2, <2>3 DEF Counted
  <2>9. \A q \in Pages : IsPresent(r.pte[q]) => FrameOf(r.pte[q]) \in M \ (r.free \cup {r.pt})
    <3> SUFFICES ASSUME NEW q \in Pages, IsPresent(r.pte[q])
                 PROVE  FrameOf(r.pte[q]) \in M \ (r.free \cup {r.pt})
      OBVIOUS
    <3>1. q # p /\ r.pte[q] = s.pte[q] /\ q \in Maps(r, FrameOf(r.pte[q]))
      BY <2>2, <2>3, <2>4 DEF Maps
    <3>2. FrameOf(r.pte[q]) \in M \ (s.free \cup {s.pt})
      BY <3>1 DEF Counted
    <3> QED BY <3>1, <3>2, <2>2, <2>6
  <2>10. \A f \in M \ (r.free \cup {r.pt}) : r.ref[f] = Cardinality(Maps(r, f))
    <3> SUFFICES ASSUME NEW f \in M \ (r.free \cup {r.pt}) PROVE r.ref[f] = Cardinality(Maps(r, f))
      OBVIOUS
    <3>1. f \in M \ (s.free \cup {s.pt})
      BY <2>2
    <3>2. CASE f = g
      BY <3>2, <2>1, <2>2, <2>3, <2>5, PagesFinite
    <3>3. CASE f # g
      BY <3>1, <3>3, <2>2, <2>3, <2>5 DEF Counted
    <3> QED BY <3>2, <3>3
  <2>11. \A f \in r.free : r.ref[f] = 0
    BY <2>1, <2>2, <2>3 DEF Counted, Freed
  <2>12. \A q \in Pages : r.tlb[q] \in {Zero, r.pte[q]}
    BY <2>2, <2>3 DEF Counted
  <2>13. Counted(r, M)
    BY <2>2, <2>7, <2>8, <2>9, <2>10, <2>11, <2>12 DEF Counted
  <2>14. \A H : InUse(s, M, H) => InUse(r, M, H)
    BY <2>2, <2>5, <2>6 DEF InUse
  <2> QED BY <1>3, <2>2, <2>13, <2>14 DEF r
<1> QED BY <1>2, <1>3

\* r is s with f mapped at p, and its counts agree.
InsertedCounted(s, r, M, f, p, perm) ==
  /\ Counted(r, M)
  /\ r.pt = s.pt
  /\ r.pte = [s.pte EXCEPT ![p] = Present(f, perm)]
  /\ \A H : InUse(s, M, H \cup {f}) => InUse(r, M, H)

\* page_insert keeps the counts, whether the page was mapped before, and to which frame.
LEMMA InsertCounted ==
  ASSUME NEW s, NEW M \in SUBSET Frames, Counted(s, M), s.pt # NoFrame,
         NEW f \in M \ (s.free \cup {s.pt}), NEW p \in Pages, NEW perm \in SUBSET {"U", "W"}
  PROVE  InsertedCounted(s, page_insert(s, f, p, perm), M, f, p, perm)
<1> DEFINE r == page_insert(s, f, p, perm)
           g == FrameOf(s.pte[p])
           was == IsPresent(s.pte[p])
<1>1. s \in PgType /\ f \in Frames
  BY DEF Counted
<1>2. was => /\ g \in M \ (s.free \cup {s.pt}) /\ s.ref[g] \in Nat \ {0}
             /\ s.ref[g] = Cardinality(Maps(s, g)) /\ p \in Maps(s, g) /\ Maps(s, g) \in SUBSET Pages
  BY CountsMappings
<1>3. was => s.ref[g] # 0
  BY <1>2
<1>4. /\ r \in PgType /\ r.pt = s.pt
      /\ r.pte = [s.pte EXCEPT ![p] = Present(f, perm)] /\ r.tlb = [s.tlb EXCEPT ![p] = Zero]
      /\ ~was => r.ref = [s.ref EXCEPT ![f] = @ + 1] /\ r.free = s.free
      /\ was /\ g = f => r.ref = s.ref /\ r.free = s.free
      /\ was /\ g # f => /\ r.ref = [s.ref EXCEPT ![f] = @ + 1, ![g] = @ - 1]
                         /\ r.free = IF Freed(s, g) THEN s.free \cup {g} ELSE s.free
  <2>1. Inserted(s, r, f, p, perm)
    BY <1>1, <1>3, InsertParts
  <2> HIDE DEF r
  <2> QED BY <2>1 DEF Inserted
<1>5. s.ref \in [Frames -> Nat] /\ s.pte \in [Pages -> Entries] /\ s.tlb \in [Pages -> Entries]
  BY <1>1 DEF PgType
<1>6. IsPresent(Present(f, perm)) /\ FrameOf(Present(f, perm)) = f
  BY <1>1, EntryCases
<1>7. s.ref[f] = Cardinality(Maps(s, f)) /\ Maps(s, f) \in SUBSET Pages
  BY DEF Counted, Maps
<1>8. /\ Maps(r, f) = Maps(s, f) \cup {p}
      /\ was /\ g # f => Maps(r, g) = Maps(s, g) \ {p}
      /\ \A x : x # f /\ ~(was /\ x = g) => Maps(r, x) = Maps(s, x)
      /\ p \in Maps(s, f) <=> was /\ g = f
  <2>1. \A x : /\ IsPresent(Present(f, perm)) /\ FrameOf(Present(f, perm)) = x => Maps(r, x) = Maps(s, x) \cup {p}
               /\ ~(IsPresent(Present(f, perm)) /\ FrameOf(Present(f, perm)) = x) => Maps(r, x) = Maps(s, x) \ {p}
               /\ p \in Maps(s, x) <=> IsPresent(s.pte[p]) /\ FrameOf(s.pte[p]) = x
    BY <1>1, <1>4, MapsAfter
  <2>2. /\ Maps(r, f) = Maps(s, f) \cup {p}
        /\ \A x : x # f => Maps(r, x) = Maps(s, x) \ {p}
        /\ \A x : p \in Maps(s, x) <=> was /\ g = x
    BY <2>1, <1>6
  <2> QED BY <2>2
<1> HIDE DEF r, g, was
<1>9. was /\ g # f => (Freed(s, g) <=> Maps(r, g) = {}) /\ Cardinality(Maps(r, g)) = s.ref[g] - 1
  <2> SUFFICES ASSUME was, g # f PROVE (Freed(s, g) <=> Maps(r, g) = {}) /\ Cardinality(Maps(r, g)) = s.ref[g] - 1
    OBVIOUS
  <2>1. Cardinality(Maps(r, g)) = s.ref[g] - 1 /\ Maps(r, g) \in SUBSET Pages
    BY <1>2, <1>8, PagesFinite
  <2> QED BY <2>1, PagesFinite, FS_EmptySet DEF Freed
<1>10. s.free \subseteq r.free /\ \A x \in r.free \ s.free : was /\ x = g /\ g # f /\ Freed(s, g)
  BY <1>4
<1>11. r.free \subseteq M /\ (r.pt # NoFrame => r.pt \in M \ r.free)
  BY <1>2, <1>4, <1>10 DEF Counted
<1>12. \A q \in Pages : IsPresent(r.pte[q]) => FrameOf(r.pte[q]) \in M \ (r.free \cup {r.pt})
  <2> SUFFICES ASSUME NEW q \in Pages, IsPresent(r.pte[q])
               PROVE  FrameOf(r.pte[q]) \in M \ (r.free \cup {r.pt})
    OBVIOUS
  <2>1. q \in Maps(r, FrameOf(r.pte[q]))
    BY DEF Maps
  <2>2. CASE q = p
    <3>1. FrameOf(r.pte[q]) = f
      BY <2>2, <1>4, <1>5, <1>6
    <3> QED BY <3>1, <1>4, <1>10
  <2>3. CASE q # p
    <3>1. FrameOf(r.pte[q]) \in M \ (s.free \cup {s.pt})
      BY <2>3, <1>4, <1>5 DEF Counted
    <3>2. FrameOf(r.pte[q]) \notin r.free
      BY <3>1, <2>1, <1>9, <1>10
    <3> QED BY <3>1, <3>2, <1>4
  <2> QED BY <2>2, <2>3
<1>13. \A x \in M \ (r.free \cup {r.pt}) : r.ref[x] = Cardinality(Maps(r, x))
  <2> SUFFICES ASSUME NEW x \in M \ (r.free \cup {r.pt}) PROVE r.ref[x] = Cardinality(Maps(r, x))
    OBVIOUS
  <2>1. x \in M \ (s.free \cup {s.pt}) /\ x \in Frames
    BY <1>4, <1>10
  <2>2. CASE x = f
    <3>1. CASE was /\ g = f
      <4>1. Maps(r, f) = Maps(s, f)
        BY <3>1, <1>8
      <4> QED BY <4>1, <2>2, <3>1, <1>4, <1>7
    <3>2. CASE ~(was /\ g = f)
      <4>1. Cardinality(Maps(r, f)) = s.ref[f] + 1
        BY <3>2, <1>7, <1>8, PagesFinite
      <4> QED BY <4>1, <2>1, <2>2, <3>2, <1>4, <1>5
    <3> QED BY <3>1, <3>2
  <2>3. CASE x # f /\ was /\ x = g
    BY <2>1, <2>3, <1>4, <1>5, <1>9
  <2>4. CASE x # f /\ ~(was /\ x = g)
    <3>1. r.ref[x] = s.ref[x]
      BY <2>1, <2>4, <1>4, <1>5
    <3> QED BY <3>1, <2>1, <2>4, <1>8 DEF Counted
  <2> QED BY <2>2, <2>3, <2>4
<1>14. \A x \in r.free : r.ref[x] = 0
  <2> SUFFICES ASSUME NEW x \in r.free PROVE r.ref[x] = 0
    OBVIOUS
  <2>1. CASE x \in s.free
    <3>1. x # f /\ ~(was /\ x = g) /\ s.ref[x] = 0 /\ x \in Frames
      BY <2>1, <1>1, <1>2 DEF Counted, PgType
    <3> QED BY <3>1, <1>4, <1>5
  <2>2. CASE x \notin s.free
    <3>1. was /\ x = g /\ g # f /\ s.ref[g] - 1 = 0 /\ g \in Frames
      BY <2>2, <1>2, <1>10 DEF Freed
    <3> QED BY <3>1, <1>4, <1>5
  <2> QED BY <2>1, <2>2
<1>15. \A q \in Pages : r.tlb[q] \in {Zero, r.pte[q]}
  BY <1>4, <1>5 DEF Counted
<1>16. Counted(r, M)
  BY <1>4, <1>11, <1>12, <1>13, <1>14, <1>15 DEF Counted
<1>17. ASSUME NEW H, InUse(s, M, H \cup {f}) PROVE InUse(r, M, H)
  <2> SUFFICES ASSUME NEW x \in M \ r.free PROVE Maps(r, x) # {} \/ x = r.pt \/ x \in H
    BY DEF InUse
  <2>1. CASE x = f
    BY <2>1, <1>8
  <2>2. CASE x # f /\ was /\ x = g
    BY <2>2, <1>4, <1>9
  <2>3. CASE x # f /\ ~(was /\ x = g)
    BY <2>3, <1>4, <1>8, <1>10, <1>17 DEF InUse
  <2> QED BY <2>1, <2>2, <2>3
<1> QED BY <1>4, <1>16, <1>17 DEF r, InsertedCounted

\* alloc_page: a free frame is one that nobody maps.
LEMMA TakeCounted ==
  ASSUME NEW s, NEW M \in SUBSET Frames, Counted(s, M), NEW f \in s.free
  PROVE  LET r == [s EXCEPT !.free = @ \ {f}]
         IN  /\ Counted(r, M)
             /\ r.pt = s.pt /\ r.pte = s.pte /\ r.free = s.free \ {f}
             /\ f \in M \ (r.free \cup {r.pt})
             /\ \A H : InUse(s, M, H) => InUse(r, M, H \cup {f})
<1> DEFINE r == [s EXCEPT !.free = @ \ {f}]
<1>1. s \in PgType
  BY DEF Counted
<1>2. /\ r \in PgType /\ r.pt = s.pt /\ r.pte = s.pte /\ r.ref = s.ref /\ r.tlb = s.tlb
      /\ r.free = s.free \ {f}
  BY <1>1 DEF PgType
<1> HIDE DEF r
<1>3. f \in M /\ (s.pt # NoFrame => f # s.pt) /\ NoFrame \notin M
  BY VmmAssumption DEF Counted
<1>4. \A x : Maps(r, x) = Maps(s, x)
  BY <1>2 DEF Maps
<1>5. Maps(s, f) = {} /\ s.ref[f] = 0
  BY DEF Maps, Counted
<1>6. Cardinality(Maps(s, f)) = 0
  BY <1>5, FS_EmptySet
<1>7. Counted(r, M)
  BY <1>2, <1>3, <1>4, <1>5, <1>6 DEF Counted
<1>8. \A H : InUse(s, M, H) => InUse(r, M, H \cup {f})
  BY <1>2, <1>4 DEF InUse
<1> QED BY <1>2, <1>3, <1>7, <1>8 DEF r

\* get_pte: the table is in place, made from a free frame if there was none.
LEMMA GetPteCounted ==
  ASSUME NEW s, NEW M \in SUBSET Frames, Counted(s, M), NEW r \in get_pte(s)
  PROVE  /\ Counted(r, M)
         /\ r.pt # NoFrame /\ r.pte = s.pte /\ r.free \subseteq s.free
         /\ \A f \in M : f \notin s.free \cup {s.pt} => f \notin r.free \cup {r.pt}
         /\ \A H : InUse(s, M, H) => InUse(r, M, H)
<1>1. CASE s.pt # NoFrame
  BY <1>1 DEF get_pte
<1>2. CASE s.pt = NoFrame
  <2>1. PICK f \in s.free : r = [s EXCEPT !.pt = f, !.free = @ \ {f}, !.ref[f] = 1]
    BY <1>2 DEF get_pte
  <2>2. s \in PgType /\ f \in M /\ f \in Frames /\ NoFrame \notin M
    BY VmmAssumption DEF Counted
  <2>3. /\ r \in PgType /\ r.pt = f /\ r.pte = s.pte /\ r.tlb = s.tlb
        /\ r.ref = [s.ref EXCEPT ![f] = 1] /\ r.free = s.free \ {f}
    BY <2>1, <2>2 DEF PgType
  <2>4. \A x : Maps(r, x) = Maps(s, x)
    BY <2>3 DEF Maps
  <2>5. \A p \in Pages : s.pte[p] = Zero /\ ~IsPresent(s.pte[p])
    BY <1>2, EntryCases DEF Counted
  <2>6. Counted(r, M)
    <3>1. \A x \in M \ (r.free \cup {r.pt}) : r.ref[x] = s.ref[x] /\ x \in M \ (s.free \cup {s.pt})
      BY <1>2, <2>2, <2>3 DEF PgType
    <3>2. \A x \in r.free : r.ref[x] = s.ref[x] /\ x \in s.free
      BY <2>2, <2>3 DEF PgType
    <3>3. \A p \in Pages : r.tlb[p] \in {Zero, r.pte[p]}
      BY <2>3 DEF Counted
    <3>4. /\ r.free \subseteq M /\ r.pt \in M \ r.free /\ r.pt # NoFrame
          /\ \A p \in Pages : ~IsPresent(r.pte[p])
      BY <2>2, <2>3, <2>5 DEF Counted
    <3> QED BY <2>3, <2>4, <3>1, <3>2, <3>3, <3>4 DEF Counted
  <2>7. \A H : InUse(s, M, H) => InUse(r, M, H)
    BY <1>2, <2>2, <2>3, <2>4 DEF InUse
  <2> QED BY <1>2, <2>2, <2>3, <2>6, <2>7
<1> QED BY <1>1, <1>2

\* The table is given back when it maps nothing.
LEMMA DropCounted ==
  ASSUME NEW s, NEW M \in SUBSET Frames, Counted(s, M), s.pt # NoFrame,
         \A p \in Pages : s.pte[p] = Zero
  PROVE  LET r == [free_page(s, s.pt) EXCEPT !.pt = NoFrame, !.pte = [p \in Pages |-> Zero]]
         IN  /\ Counted(r, M)
             /\ r.pt = NoFrame /\ r.pte = s.pte
             /\ \A H : InUse(s, M, H) => InUse(r, M, H)
<1> DEFINE r == [free_page(s, s.pt) EXCEPT !.pt = NoFrame, !.pte = [p \in Pages |-> Zero]]
<1>1. s \in PgType /\ s.pt \in M \ s.free /\ s.pt \in Frames /\ NoFrame \notin M
  BY VmmAssumption DEF Counted
<1>2. s.pte = [p \in Pages |-> Zero] /\ Zero \in Entries
  BY <1>1, EntryCases DEF PgType
<1>3. r = [s EXCEPT !.pt = NoFrame, !.pte = [p \in Pages |-> Zero], !.ref[s.pt] = 0, !.free = @ \cup {s.pt}]
  BY <1>1 DEF free_page, PgType
<1> HIDE DEF r
<1>4. /\ r \in PgType /\ r.pt = NoFrame /\ r.pte = s.pte /\ r.tlb = s.tlb
      /\ r.ref = [s.ref EXCEPT ![s.pt] = 0] /\ r.free = s.free \cup {s.pt}
  BY <1>1, <1>2, <1>3 DEF PgType
<1>5. \A x : Maps(r, x) = Maps(s, x)
  BY <1>4 DEF Maps
<1>6. \A x \in M \ (r.free \cup {r.pt}) : r.ref[x] = s.ref[x] /\ x \in M \ (s.free \cup {s.pt})
  BY <1>1, <1>4 DEF PgType
<1>7. \A x \in r.free : r.ref[x] = 0
  BY <1>1, <1>4 DEF PgType, Counted
<1>8. \A p \in Pages : r.tlb[p] \in {Zero, r.pte[p]} /\ r.pte[p] = Zero /\ ~IsPresent(r.pte[p])
  BY <1>4, EntryCases DEF Counted
<1>9. r.free \subseteq M
  BY <1>1, <1>4 DEF Counted
<1>10. Counted(r, M)
  BY <1>4, <1>5, <1>6, <1>7, <1>8, <1>9 DEF Counted
<1>11. \A H : InUse(s, M, H) => InUse(r, M, H)
  BY <1>4, <1>5 DEF InUse
<1> QED BY <1>4, <1>10, <1>11 DEF r

\* swap_out: the frame of a page that is the only one to map it.
LEMMA EvictCounted ==
  ASSUME NEW s, NEW M \in SUBSET Frames, Counted(s, M), NEW p \in Pages, IsPresent(s.pte[p]),
         \A q \in Pages : IsPresent(s.pte[q]) /\ FrameOf(s.pte[q]) = FrameOf(s.pte[p]) => q = p
  PROVE  LET r == tlb_invalidate(free_page([s EXCEPT !.pte[p] = Swapped(p)], FrameOf(s.pte[p])), p)
         IN  /\ Counted(r, M)
             /\ r.pt = s.pt /\ r.pte = [s.pte EXCEPT ![p] = Swapped(p)]
             /\ \A H : InUse(s, M, H) => InUse(r, M, H)
<1> DEFINE f == FrameOf(s.pte[p])
           r == tlb_invalidate(free_page([s EXCEPT !.pte[p] = Swapped(p)], f), p)
<1>1. s \in PgType /\ f \in M \ (s.free \cup {s.pt}) /\ f \in Frames
  BY DEF Counted
<1>2. Swapped(p) \in Entries /\ ~IsPresent(Swapped(p)) /\ Zero \in Entries /\ ~IsPresent(Zero)
  BY EntryCases
<1> HIDE DEF f
<1>3. r = [s EXCEPT !.pte[p] = Swapped(p), !.free = @ \cup {f}, !.ref[f] = 0, !.tlb[p] = Zero]
  BY <1>1 DEF tlb_invalidate, free_page, PgType
<1> HIDE DEF r
<1>4. /\ r \in PgType /\ r.pt = s.pt /\ r.pte = [s.pte EXCEPT ![p] = Swapped(p)]
      /\ r.tlb = [s.tlb EXCEPT ![p] = Zero]
      /\ r.ref = [s.ref EXCEPT ![f] = 0] /\ r.free = s.free \cup {f}
  BY <1>1, <1>2, <1>3 DEF PgType
<1>5. Maps(r, f) = {} /\ \A x : x # f => Maps(r, x) = Maps(s, x)
  <2>1. \A x : Maps(r, x) = Maps(s, x) \ {p}
    BY <1>1, <1>2, <1>4, MapsAfter
  <2>2. \A x : x # f => p \notin Maps(s, x)
    BY DEF Maps, f
  <2>3. Maps(s, f) \subseteq {p}
    BY DEF Maps, f
  <2> QED BY <2>1, <2>2, <2>3
<1>6. s.pt # NoFrame
  <2>1. s.pt = NoFrame => s.pte[p] = Zero
    BY DEF Counted
  <2> QED BY <1>2, <2>1
<1>7. \A x \in M \ (r.free \cup {r.pt}) : r.ref[x] = s.ref[x] /\ x \in M \ (s.free \cup {s.pt}) /\ x # f
  BY <1>1, <1>4 DEF PgType
<1>8. \A x \in r.free : r.ref[x] = 0
  BY <1>1, <1>4 DEF PgType, Counted
<1>9. \A q \in Pages : r.tlb[q] \in {Zero, r.pte[q]}
  BY <1>1, <1>4 DEF Counted, PgType
<1>10. \A q \in Pages : IsPresent(r.pte[q]) => FrameOf(r.pte[q]) \in M \ (r.free \cup {r.pt})
  <2> SUFFICES ASSUME NEW q \in Pages, IsPresent(r.pte[q]) PROVE FrameOf(r.pte[q]) \in M \ (r.free \cup {r.pt})
    OBVIOUS
  <2>1. q # p /\ r.pte[q] = s.pte[q]
    BY <1>1, <1>2, <1>4 DEF PgType
  <2>2. FrameOf(s.pte[q]) \in M \ (s.free \cup {s.pt})
    BY <2>1 DEF Counted
  <2>3. FrameOf(s.pte[q]) # f
    BY <2>1 DEF f
  <2> QED BY <2>1, <2>2, <2>3, <1>4
<1>11. r.free \subseteq M /\ r.pt \in M \ r.free
  BY <1>1, <1>4, <1>6 DEF Counted
<1>12. Counted(r, M)
  BY <1>4, <1>5, <1>6, <1>7, <1>8, <1>9, <1>10, <1>11 DEF Counted
<1>13. \A H : InUse(s, M, H) => InUse(r, M, H)
  BY <1>4, <1>5 DEF InUse
<1> QED BY <1>4, <1>12, <1>13 DEF r, f

---------------------------------------------------------------------------
(* The calls of a free run, one by one *)

Access(op) == /\ mm # NoMm
              /\ op.addr \in FreeAddrs /\ op.write \in BOOLEAN /\ op.val \in Values
              /\ AccessHits(op) \/ AccessFaults(op)

LEMMA FreeRunSteps ==
  ASSUME FreeRun
  PROVE  \/ pg.free = managed /\ (mm_create \/ mm_destroy \/ swap_init)
         \/ (\A p \in Pages : pg.pte[p] = Zero) /\ DropTable
         \/ mm = NoMm /\ ~swap_init_ok /\ AllocPage
         \/ /\ mm = NoMm /\ ~swap_init_ok
            /\ \E i \in 1 .. Len(held), p \in Pages, perm \in SUBSET {"U", "W"} :
                 held[i] \notin pg.free \cup {pg.pt} /\ PageInsert(i, p, perm)
         \/ ~swap_init_ok /\ \E p \in Pages : page_remove(p)
         \/ \E vma \in FreeAreas : insert_vma_struct(vma)
         \/ \E op : Access(op)
<1>1. CASE pg.free = managed /\ \E d \in {"mm_create", "mm_destroy", "swap_init"} : Call([do |-> d])
  BY <1>1 DEF Call
<1>2. CASE (\A p \in Pages : pg.pte[p] = Zero) /\ Call([do |-> "drop_table"])
  BY <1>2 DEF Call
<1>3. CASE mm = NoMm /\ ~swap_init_ok /\ Call([do |-> "alloc_page"])
  BY <1>3 DEF Call
<1>4. CASE /\ mm = NoMm /\ ~swap_init_ok
           /\ \E i \in 1 .. Len(held), p \in MapPages, perm \in {{"U"}, {"U", "W"}} :
                /\ held[i] \notin pg.free \cup {pg.pt}
                /\ Call([do |-> "page_insert", i |-> i, page |-> p, perm |-> perm])
  <2>1. PICK i \in 1 .. Len(held), p \in MapPages, perm \in {{"U"}, {"U", "W"}} :
          /\ held[i] \notin pg.free \cup {pg.pt}
          /\ Call([do |-> "page_insert", i |-> i, page |-> p, perm |-> perm])
    BY <1>4
  <2>2. PageInsert(i, p, perm)
    BY <2>1 DEF Call
  <2>3. p \in Pages /\ perm \in SUBSET {"U", "W"}
    BY VmmAssumption DEF Pages
  <2> QED BY <1>4, <2>1, <2>2, <2>3
<1>5. CASE ~swap_init_ok /\ \E p \in Pages : Call([do |-> "page_remove", page |-> p])
  BY <1>5 DEF Call
<1>6. CASE \E vma \in FreeAreas : Call([do |-> "insert_vma", vma |-> vma])
  BY <1>6 DEF Call
<1>7. CASE /\ mm # NoMm
           /\ \E a \in FreeAddrs, w \in BOOLEAN, v \in Values :
                Call([do |-> "access", addr |-> a, write |-> w, val |-> v])
  <2>1. PICK a \in FreeAddrs, w \in BOOLEAN, v \in Values :
          Call([do |-> "access", addr |-> a, write |-> w, val |-> v])
    BY <1>7
  <2> DEFINE op == [do |-> "access", addr |-> a, write |-> w, val |-> v]
  <2>2. op.do = "access" /\ op.addr \in FreeAddrs /\ op.write \in BOOLEAN /\ op.val \in Values
    OBVIOUS
  <2> HIDE DEF op
  <2>3. Call(op)
    BY <2>1 DEF op
  <2>4. AccessHits(op) \/ AccessFaults(op)
    BY <2>2, <2>3 DEF Call
  <2>5. Access(op)
    BY <1>7, <2>2, <2>4 DEF Access
  <2> QED BY <2>5
<1> QED BY <1>1, <1>2, <1>3, <1>4, <1>5, <1>6, <1>7 DEF FreeRun

\* The areas of an mm, and the rights they give, stay while it lives.
LEMMA GivesStays ==
  ASSUME \A k \in 1 .. Len(mm.list) : \E j \in 1 .. Len(mm'.list) : mm'.list[j] = mm.list[k]
  PROVE  \A p, perm : Gives(p, perm) => Gives(p, perm)'
BY DEF Gives

\* What an insertion leaves: the old areas and the new one.
LEMMA InsertedAreas ==
  ASSUME NEW m, GoodMm(m), NEW vma \in Areas
  PROVE  LET l == InsertAt(m.list, InsertPos(m, vma), vma)
         IN  /\ \A k \in 1 .. Len(m.list) : \E j \in 1 .. Len(l) : l[j] = m.list[k]
             /\ \A j \in 1 .. Len(l) : l[j] = vma \/ \E k \in 1 .. Len(m.list) : l[j] = m.list[k]
<1> DEFINE n == Len(m.list)
           i == InsertPos(m, vma)
           l == InsertAt(m.list, i, vma)
<1>1. m.list \in Seq(Areas) /\ n \in Nat
  BY LenProperties DEF GoodMm, Mms
<1>2. i \in 1 .. n + 1
  BY <1>1, InsertPosInList
<1>3. /\ Len(l) = n + 1
      /\ \A k \in 1 .. n + 1 : l[k] = IF k < i THEN m.list[k] ELSE IF k = i THEN vma ELSE m.list[k - 1]
  <2>1. \A j \in 1 .. n + 1 :
          /\ Len(InsertAt(m.list, j, vma)) = n + 1
          /\ \A k \in 1 .. n + 1 : InsertAt(m.list, j, vma)[k] =
               IF k < j THEN m.list[k] ELSE IF k = j THEN vma ELSE m.list[k - 1]
    <3>1. \A q \in Seq(Areas), x \in Areas : \A j \in 1 .. Len(q) + 1 :
            /\ Len(InsertAt(q, j, x)) = Len(q) + 1
            /\ \A k \in 1 .. Len(q) + 1 : InsertAt(q, j, x)[k] =
                 IF k < j THEN q[k] ELSE IF k = j THEN x ELSE q[k - 1]
      <4> TAKE q \in Seq(Areas), x \in Areas
      <4> TAKE j \in 1 .. Len(q) + 1
      <4> QED BY InsertAtProperties
    <3> QED BY <1>1, <3>1
  <2> HIDE DEF i
  <2> QED BY <1>2, <2>1
<1> HIDE DEF n, i, l
<1>4. ASSUME NEW k \in 1 .. n PROVE \E j \in 1 .. Len(l) : l[j] = m.list[k]
  <2>1. CASE k < i
    BY <2>1, <1>1, <1>2, <1>3
  <2>2. CASE ~(k < i)
    <3>1. k + 1 \in 1 .. n + 1 /\ ~(k + 1 < i) /\ k + 1 # i /\ (k + 1) - 1 = k
      BY <2>2, <1>1, <1>2
    <3> QED BY <3>1, <1>3
  <2> QED BY <2>1, <2>2
<1>5. ASSUME NEW j \in 1 .. Len(l) PROVE l[j] = vma \/ \E k \in 1 .. n : l[j] = m.list[k]
  <2>1. CASE j < i
    <3>1. j \in 1 .. n /\ j \in 1 .. n + 1
      BY <2>1, <1>1, <1>2, <1>3
    <3> QED BY <2>1, <3>1, <1>3
  <2>2. CASE j = i
    BY <2>2, <1>2, <1>3
  <2>3. CASE j > i
    <3>1. j - 1 \in 1 .. n /\ j \in 1 .. n + 1 /\ ~(j < i) /\ j # i
      BY <2>3, <1>1, <1>2, <1>3
    <3> QED BY <3>1, <1>3
  <2> QED BY <1>1, <1>2, <1>3, <2>1, <2>2, <2>3
<1> QED BY <1>4, <1>5 DEF n, l, i

LEMMA AddressPage ==
  ASSUME NEW a \in FreeAddrs
  PROVE  a \in 0 .. 2 * NPages - 1 /\ PageOf(a) \in Pages
<1>1. a \in 0 .. 2 * NPages - 1 /\ NPages \in Nat
  BY VmmAssumption
<1> QED BY <1>1 DEF PageOf, PGSIZE, Pages

\* The area of an address, being whole pages, gives its rights to the whole page; and a page
\* that is there got them from that area, since no other has the address.
LEMMA FoundArea ==
  ASSUME AreasInv, MappedByFault, mm # NoMm, NEW a \in 0 .. 2 * NPages - 1, find_vma(mm, a) # NoVma
  PROVE  /\ PageOf(a) \in Pages
         /\ Gives(PageOf(a), FaultPerm(find_vma(mm, a)))
         /\ IsPresent(pg.pte[PageOf(a)]) => PermOf(pg.pte[PageOf(a)]) = FaultPerm(find_vma(mm, a))
<1> DEFINE p == PageOf(a)
           l == mm.list
<1>1. /\ GoodMm(mm) /\ l \in Seq(Areas) /\ Len(l) \in Nat
      /\ \A i \in 1 .. Len(l) : l[i] \in Areas /\ Aligned(l[i])
  <2>1. GoodMm(mm) /\ l \in Seq(Areas) /\ Len(l) \in Nat
    BY LenProperties DEF AreasInv, GoodMm, Mms
  <2> QED BY <2>1, ElementOfSeq DEF MappedByFault
<1>2. a \in Int /\ NPages \in Nat /\ p \in Pages /\ p * PGSIZE <= a /\ a < p * PGSIZE + PGSIZE
  BY VmmAssumption DEF PageOf, PGSIZE, Pages
<1> HIDE DEF p, l
<1>3. PICK i \in 1 .. Len(l) : l[i] = find_vma(mm, a) /\ Holds(l[i], a)
  <2>1. find_vma(mm, a) = SearchVma(mm, a)
    BY <1>1, <1>2, CacheIsSearch
  <2> QED BY <2>1, <1>1, SearchFindsFirst DEF l
<1>4. \A v \in Areas : Aligned(v) /\ Holds(v, a) =>
         v.vm_start <= p * PGSIZE /\ p * PGSIZE + PGSIZE <= v.vm_end
  <2> SUFFICES ASSUME NEW v \in Areas, Aligned(v), Holds(v, a)
               PROVE  v.vm_start <= p * PGSIZE /\ p * PGSIZE + PGSIZE <= v.vm_end
    OBVIOUS
  <2>1. /\ v.vm_start \in Int /\ v.vm_end \in Int /\ v.vm_start <= a /\ a < v.vm_end
        /\ v.vm_start % 2 = 0 /\ v.vm_end % 2 = 0
    BY DEF Areas, Aligned, Holds, PGSIZE
  <2>2. p \in Int /\ p * 2 <= a /\ a < p * 2 + 2
    BY <1>2 DEF Pages, PGSIZE
  <2> HIDE DEF p
  <2> QED BY <1>2, <2>1, <2>2 DEF PGSIZE
<1>5. l[i].vm_start <= p * PGSIZE /\ p * PGSIZE + PGSIZE <= l[i].vm_end
  BY <1>1, <1>3, <1>4
<1>6. Gives(p, FaultPerm(find_vma(mm, a)))
  BY <1>3, <1>5 DEF Gives, l
<1>7. ASSUME IsPresent(pg.pte[p]) PROVE PermOf(pg.pte[p]) = FaultPerm(find_vma(mm, a))
  <2>1. Gives(p, PermOf(pg.pte[p]))
    BY <1>2, <1>7 DEF MappedByFault
  <2>2. PICK k \in 1 .. Len(l) : /\ l[k].vm_start <= p * PGSIZE /\ p * PGSIZE + PGSIZE <= l[k].vm_end
                                 /\ PermOf(pg.pte[p]) = FaultPerm(l[k])
    BY <2>1 DEF Gives, l
  <2>3. p * PGSIZE \in Int /\ p * PGSIZE < p * PGSIZE + PGSIZE
    BY <1>2 DEF Pages, PGSIZE
  <2>4. /\ l[i].vm_start \in Int /\ l[i].vm_end \in Int /\ l[k].vm_start \in Int /\ l[k].vm_end \in Int
    BY <1>1 DEF Areas
  <2>5. ~(i < k) /\ ~(k < i)
    <3>1. Disjoint(l)
      BY <1>1 DEF GoodMm, l
    <3>2. (i < k => l[i].vm_end <= l[k].vm_start) /\ (k < i => l[k].vm_end <= l[i].vm_start)
      BY <3>1 DEF Disjoint
    <3> DEFINE x == p * PGSIZE
               y == p * PGSIZE + PGSIZE
    <3>3. x \in Int /\ y \in Int /\ x < y
      BY <1>2, <2>3 DEF Pages, PGSIZE
    <3>4. l[i].vm_start <= x /\ y <= l[i].vm_end /\ l[k].vm_start <= x /\ y <= l[k].vm_end
      BY <1>5, <2>2
    <3> HIDE DEF x, y
    <3> QED BY <3>2, <3>3, <3>4, <2>4
  <2>6. i = k
    BY <1>1, <2>5
  <2> QED BY <2>2, <2>6, <1>3
<1> QED BY <1>2, <1>6, <1>7 DEF p

---------------------------------------------------------------------------
(* The inductive invariant of the free runs, action by action *)

\* Steps that leave the table, the frames and the queue alone.
LEMMA SameLayer ==
  ASSUME PageInv, DataType',
         UNCHANGED <<pg, managed, swap_init_ok, pra_list, pra_vaddr, fault>>,
         held' = held \/ pg.free = managed,
         mm' # NoMm => /\ \A p \in Pages : IsPresent(pg.pte[p]) => mm # NoMm
                       /\ swap_init_ok => mm # NoMm
                       /\ mm # NoMm => \A k \in 1 .. Len(mm.list) : \E j \in 1 .. Len(mm'.list) : mm'.list[j] = mm.list[k]
                       /\ \A j \in 1 .. Len(mm'.list) : Aligned(mm'.list[j]),
         FaultOpen'
  PROVE  PageInv'
<1>1. Counted(pg, managed)' /\ SlotsOwn'
  BY DEF PageInv, SlotsOwn
<1>2. InUse(pg, managed, HeldFrames)'
  <2>1. CASE held' = held
    BY <2>1 DEF PageInv, HeldFrames
  <2>2. CASE pg.free = managed
    BY <2>2 DEF InUse
  <2> QED BY <2>1, <2>2
<1>3. mm # NoMm /\ mm' # NoMm => \A p, perm : Gives(p, perm) => Gives(p, perm)'
  BY GivesStays
<1>4. MappedByFault'
  BY <1>3 DEF PageInv, MappedByFault
<1>5. QueueInv'
  BY DEF PageInv, QueueInv
<1> QED BY <1>1, <1>2, <1>4, <1>5 DEF PageInv

LEMMA MmCreateKeeps ==
  ASSUME PageInv, pc = "run", pg.free = managed, mm_create, UNCHANGED managed
  PROVE  PageInv'
<1>1. /\ mm = NoMm /\ pg.pt = NoFrame /\ mm' # NoMm /\ mm'.list = <<>>
      /\ UNCHANGED <<pg, data, disk, swap_init_ok, pra_vaddr, pc, fault>>
      /\ held' = <<>> /\ pra_list' = IF swap_init_ok THEN <<>> ELSE pra_list
  BY DEF mm_create, NoMm
<1>2. DataType'
  BY <1>1, EmptySeq DEF PageInv, DataType
<1>3. \A p \in Pages : ~IsPresent(pg.pte[p])
  BY <1>1, EntryCases DEF PageInv, Counted
<1>4. Len(mm'.list) = 0 /\ (swap_init_ok => Len(pra_list') = 0)
  BY <1>1, EmptySeq
<1>5. Counted(pg, managed)' /\ SlotsOwn' /\ FaultOpen'
  BY <1>1 DEF PageInv, SlotsOwn, FaultOpen
<1>6. InUse(pg, managed, HeldFrames)'
  BY <1>1 DEF InUse
<1>7. MappedByFault'
  BY <1>1, <1>3, <1>4 DEF MappedByFault
<1>8. QueueInv'
  BY <1>1, <1>3, <1>4 DEF QueueInv
<1> QED BY <1>2, <1>5, <1>6, <1>7, <1>8 DEF PageInv

LEMMA MmDestroyKeeps ==
  ASSUME PageInv, pc = "run", mm_destroy, UNCHANGED managed
  PROVE  PageInv'
<1>1. mm' = NoMm /\ UNCHANGED <<pg, data, disk, swap_init_ok, pra_list, pra_vaddr, pc, fault, held>>
  BY DEF mm_destroy, swapVars
<1>2. DataType' /\ FaultOpen'
  BY <1>1 DEF PageInv, DataType, FaultOpen
<1> QED BY <1>1, <1>2, SameLayer

LEMMA SwapInitKeeps ==
  ASSUME PageInv, pc = "run", swap_init, UNCHANGED managed
  PROVE  PageInv'
<1>1. /\ mm = NoMm /\ mm' = NoMm /\ swap_init_ok' = TRUE
      /\ UNCHANGED <<pg, data, disk, pra_list, pra_vaddr, pc, fault, held>>
  BY DEF swap_init
<1>2. DataType'
  BY <1>1 DEF PageInv, DataType
<1>3. Counted(pg, managed)' /\ InUse(pg, managed, HeldFrames)'
  BY <1>1 DEF PageInv, HeldFrames
<1>4. SlotsOwn' /\ MappedByFault' /\ FaultOpen' /\ QueueInv'
  BY <1>1 DEF PageInv, SlotsOwn, MappedByFault, FaultOpen, QueueInv
<1> QED BY <1>2, <1>3, <1>4 DEF PageInv

LEMMA DropTableKeeps ==
  ASSUME PageInv, pc = "run", \A p \in Pages : pg.pte[p] = Zero, DropTable, UNCHANGED managed
  PROVE  PageInv'
<1>1. /\ pg.pt # NoFrame
      /\ pg' = [free_page(pg, pg.pt) EXCEPT !.pt = NoFrame, !.pte = [p \in Pages |-> Zero]]
      /\ UNCHANGED <<mm, data, disk, swap_init_ok, pra_list, pra_vaddr, pc, fault, held>>
  BY DEF DropTable, swapVars
<1>2. DataType'
  BY <1>1 DEF PageInv, DataType
<1>3. /\ Counted(pg', managed) /\ pg'.pte = pg.pte
      /\ InUse(pg', managed, HeldFrames)
  BY <1>1, DropCounted DEF PageInv, DataType
<1>4. Counted(pg, managed)' /\ InUse(pg, managed, HeldFrames)'
  BY <1>1, <1>3 DEF HeldFrames
<1>5. \A p \in Pages : ~IsPresent(pg.pte[p])
  BY EntryCases
<1>6. SlotsOwn' /\ MappedByFault' /\ FaultOpen' /\ QueueInv'
  BY <1>1, <1>3, <1>5 DEF PageInv, SlotsOwn, MappedByFault, FaultOpen, QueueInv
<1> QED BY <1>2, <1>4, <1>6 DEF PageInv

LEMMA AllocPageKeeps ==
  ASSUME PageInv, pc = "run", mm = NoMm, AllocPage, UNCHANGED managed
  PROVE  PageInv'
<1>1. PICK f \in pg.free : pg' = [pg EXCEPT !.free = @ \ {f}] /\ held' = Append(held, f)
  BY DEF AllocPage
<1>2. UNCHANGED <<mm, data, disk, swap_init_ok, pra_list, pra_vaddr, pc, fault>>
  BY DEF AllocPage, swapVars
<1>3. f \in managed /\ held \in Seq(managed) /\ managed \in SUBSET Frames
  BY DEF PageInv, Counted, DataType
<1>4. held' \in Seq(managed) /\ HeldFrames' = HeldFrames \cup {f}
  <2>1. /\ held' \in Seq(managed) /\ Len(held') = Len(held) + 1 /\ held'[Len(held) + 1] = f
        /\ \A i \in 1 .. Len(held) : held'[i] = held[i]
    BY <1>1, <1>3, AppendProperties
  <2>2. Len(held) \in Nat
    BY <1>3, LenProperties
  <2>3. \A i \in 1 .. Len(held) + 1 : i \in 1 .. Len(held) \/ i = Len(held) + 1
    BY <2>2
  <2> QED BY <2>1, <2>2, <2>3 DEF HeldFrames
<1>5. DataType'
  BY <1>2, <1>4 DEF PageInv, DataType
<1>6. Counted(pg', managed) /\ pg'.pte = pg.pte /\ InUse(pg', managed, HeldFrames \cup {f})
  BY <1>1, <1>3, TakeCounted DEF PageInv
<1>7. Counted(pg, managed)' /\ InUse(pg, managed, HeldFrames)'
  BY <1>4, <1>6
<1>8. SlotsOwn' /\ MappedByFault' /\ FaultOpen' /\ QueueInv'
  BY <1>2, <1>6 DEF PageInv, SlotsOwn, MappedByFault, FaultOpen, QueueInv
<1> QED BY <1>5, <1>7, <1>8 DEF PageInv

LEMMA PageInsertKeeps ==
  ASSUME PageInv, pc = "run", mm = NoMm, UNCHANGED managed,
         NEW i \in 1 .. Len(held), NEW p \in Pages, NEW perm \in SUBSET {"U", "W"},
         held[i] \notin pg.free \cup {pg.pt}, PageInsert(i, p, perm)
  PROVE  PageInv'
<1>1. UNCHANGED <<mm, data, disk, swap_init_ok, pra_list, pra_vaddr, pc, fault, held>>
  BY DEF PageInsert, swapVars
<1>2. DataType'
  BY <1>1 DEF PageInv, DataType
<1>3. MappedByFault' /\ FaultOpen' /\ QueueInv'
  BY <1>1 DEF MappedByFault, FaultOpen, QueueInv
<1>4. CASE UNCHANGED pg
  BY <1>1, <1>2, <1>3, <1>4 DEF PageInv, HeldFrames, SlotsOwn
<1>5. CASE \E s \in get_pte(pg) : pg' = page_insert(s, held[i], p, perm)
  <2> DEFINE f == held[i]
  <2>1. PICK s \in get_pte(pg) : pg' = page_insert(s, f, p, perm)
    BY <1>5
  <2>2. managed \in SUBSET Frames /\ f \in managed /\ f \in HeldFrames
    BY ElementOfSeq DEF PageInv, DataType, HeldFrames
  <2> HIDE DEF f
  <2>3. /\ Counted(s, managed) /\ s.pt # NoFrame /\ s.pte = pg.pte
        /\ f \in managed \ (s.free \cup {s.pt}) /\ InUse(s, managed, HeldFrames)
    BY <2>2, GetPteCounted DEF PageInv, f
  <2>4. InUse(s, managed, HeldFrames \cup {f})
    <3>1. HeldFrames \cup {f} = HeldFrames
      BY <2>2
    <3> QED BY <3>1, <2>3
  <2>5. Counted(pg', managed) /\ pg'.pte = [pg.pte EXCEPT ![p] = Present(f, perm)] /\ InUse(pg', managed, HeldFrames)
    <3> DEFINE r == page_insert(s, f, p, perm)
    <3>1. InsertedCounted(s, r, managed, f, p, perm)
      BY <2>2, <2>3, InsertCounted
    <3>2. pg' = r
      BY <2>1
    <3> HIDE DEF r
    <3> QED BY <2>3, <2>4, <3>1, <3>2 DEF InsertedCounted
  <2>6. Counted(pg, managed)' /\ InUse(pg, managed, HeldFrames)'
    BY <1>1, <2>5 DEF HeldFrames
  <2>7. SlotsOwn'
    <3>1. IsPresent(Present(f, perm)) /\ pg.pte \in [Pages -> Entries]
      BY <2>2, EntryCases DEF PageInv, Counted, PgType
    <3>2. \A q \in Pages : ~IsPresent(pg'.pte[q]) => pg'.pte[q] = pg.pte[q]
      BY <2>5, <3>1
    <3> QED BY <1>1, <3>2 DEF PageInv, SlotsOwn
  <2> QED BY <1>2, <1>3, <2>6, <2>7 DEF PageInv
<1> QED BY <1>4, <1>5 DEF PageInsert

LEMMA PageRemoveKeeps ==
  ASSUME PageInv, pc = "run", ~swap_init_ok, NEW p \in Pages, page_remove(p), UNCHANGED managed
  PROVE  PageInv'
<1>1. /\ pg' = page_remove_pte(pg, p)
      /\ UNCHANGED <<mm, data, disk, swap_init_ok, pra_list, pra_vaddr, pc, fault, held>>
  BY DEF page_remove, swapVars
<1>2. DataType' /\ FaultOpen' /\ QueueInv'
  BY <1>1 DEF PageInv, DataType, FaultOpen, QueueInv
<1>3. /\ Counted(pg', managed) /\ pg'.pte = [pg.pte EXCEPT ![p] = IF IsPresent(pg.pte[p]) THEN Zero ELSE @]
      /\ InUse(pg', managed, HeldFrames)
  BY <1>1, RemoveCounted DEF PageInv, DataType
<1>4. Counted(pg, managed)' /\ InUse(pg, managed, HeldFrames)'
  BY <1>1, <1>3 DEF HeldFrames
<1>5. pg.pte \in [Pages -> Entries]
  BY DEF PageInv, Counted, PgType
<1>6. \A q \in Pages : pg'.pte[q] = pg.pte[q] \/ pg'.pte[q] = Zero
  BY <1>3, <1>5
<1>7. SlotsOwn'
  BY <1>1, <1>6 DEF PageInv, SlotsOwn
<1>8. MappedByFault'
  <2>1. \A q \in Pages : IsPresent(pg'.pte[q]) => pg'.pte[q] = pg.pte[q]
    BY <1>6, EntryCases
  <2>2. \A q, perm : Gives(q, perm) <=> Gives(q, perm)'
    BY <1>1 DEF Gives
  <2> QED BY <1>1, <2>1, <2>2 DEF PageInv, MappedByFault
<1> QED BY <1>2, <1>4, <1>7, <1>8 DEF PageInv

LEMMA InsertVmaKeeps ==
  ASSUME PageInv, AreasInv, pc = "run", NEW vma \in FreeAreas, insert_vma_struct(vma), UNCHANGED managed
  PROVE  PageInv'
<1>1. mm # NoMm /\ UNCHANGED <<pg, data, disk, swap_init_ok, pra_list, pra_vaddr, fault, held>>
  BY DEF insert_vma_struct, swapVars
<1>2. pc' \in {"run", "halted"}
  BY DEF insert_vma_struct
<1>3. DataType' /\ FaultOpen'
  BY <1>1, <1>2 DEF PageInv, DataType, FaultOpen
<1>4. \A k \in 1 .. Len(mm.list) : Aligned(mm.list[k])
  BY <1>1 DEF PageInv, MappedByFault
<1>5. CASE mm' = mm
  BY <1>1, <1>3, <1>4, <1>5, SameLayer
<1>6. CASE mm' = [mm EXCEPT !.list = InsertAt(@, InsertPos(mm, vma), vma), !.map_count = @ + 1]
  <2>1. GoodMm(mm) /\ vma \in Areas /\ Aligned(vma)
    BY <1>1, AreasAssumption, AlignedAssumption DEF AreasInv, Aligned
  <2> DEFINE l == InsertAt(mm.list, InsertPos(mm, vma), vma)
  <2>2. mm'.list = l
    BY <1>6, <2>1 DEF GoodMm, Mms
  <2>3. /\ \A k \in 1 .. Len(mm.list) : \E j \in 1 .. Len(l) : l[j] = mm.list[k]
        /\ \A j \in 1 .. Len(l) : l[j] = vma \/ \E k \in 1 .. Len(mm.list) : l[j] = mm.list[k]
    BY <2>1, InsertedAreas
  <2> HIDE DEF l
  <2>4. \A j \in 1 .. Len(mm'.list) : Aligned(mm'.list[j])
    BY <1>4, <2>1, <2>2, <2>3
  <2> QED BY <1>1, <1>3, <2>2, <2>3, <2>4, SameLayer
<1> QED BY <1>5, <1>6 DEF insert_vma_struct

LEMMA AccessHitsKeeps ==
  ASSUME PageInv, pc = "run", NEW op, op.addr \in FreeAddrs, op.val \in Values, AccessHits(op), UNCHANGED managed
  PROVE  /\ PageInv'
         /\ Entry(PageOf(op.addr)) = pg.pte[PageOf(op.addr)]
<1> DEFINE p == PageOf(op.addr)
<1>1. /\ pg' = [pg EXCEPT !.tlb[p] = Entry(p)]
      /\ data' = IF op.write THEN [data EXCEPT ![FrameOf(Entry(p))] = op.val] ELSE data
      /\ UNCHANGED <<mm, disk, swap_init_ok, pra_list, pra_vaddr, pc, fault, held>>
  BY DEF AccessHits, swapVars
<1>2. p \in Pages
  BY AddressPage
<1> HIDE DEF p
<1>3. pg \in PgType /\ Entry(p) = pg.pte[p]
  BY <1>2 DEF Entry, PageInv, Counted
<1>4. /\ pg' \in PgType /\ pg'.pt = pg.pt /\ pg'.pte = pg.pte /\ pg'.ref = pg.ref /\ pg'.free = pg.free
      /\ pg'.tlb = [pg.tlb EXCEPT ![p] = pg.pte[p]]
  BY <1>1, <1>2, <1>3 DEF PgType
<1>5. data' \in [Frames -> Values]
  BY <1>1 DEF PageInv, DataType
<1>6. DataType'
  BY <1>1, <1>5 DEF PageInv, DataType
<1>7. \A f : Maps(pg', f) = Maps(pg, f)
  BY <1>4 DEF Maps
<1>8. Counted(pg', managed)
  BY <1>3, <1>4, <1>7 DEF PageInv, Counted, PgType
<1>9. InUse(pg', managed, HeldFrames)
  BY <1>4, <1>7 DEF PageInv, InUse
<1>10. Counted(pg, managed)' /\ InUse(pg, managed, HeldFrames)'
  BY <1>1, <1>8, <1>9 DEF HeldFrames
<1>11. \A q, perm : Gives(q, perm) <=> Gives(q, perm)'
  BY <1>1 DEF Gives
<1>12. SlotsOwn' /\ MappedByFault' /\ FaultOpen' /\ QueueInv'
  BY <1>1, <1>4, <1>11 DEF PageInv, SlotsOwn, MappedByFault, FaultOpen, QueueInv
<1> QED BY <1>3, <1>6, <1>10, <1>12 DEF PageInv, p

\* A fault that the area allows is never about a page that is there.
LEMMA AccessFaultsKeeps ==
  ASSUME PageInv, AreasInv, pc = "run", mm # NoMm, NEW op, op.addr \in FreeAddrs, op.write \in BOOLEAN,
         AccessFaults(op), UNCHANGED managed
  PROVE  PageInv'
<1> DEFINE p == PageOf(op.addr)
           vma == find_vma(mm, op.addr)
<1>1. /\ ~Allowed(p, op.write) /\ mm' = Cached(mm, op.addr)
      /\ UNCHANGED <<pg, data, disk, swap_init_ok, pra_list, pra_vaddr, held>>
  BY DEF AccessFaults, swapVars
<1>2. mm'.list = mm.list
  BY <1>1 DEF Cached, AreasInv, GoodMm, Mms
<1>3. p \in Pages /\ op.addr \in 0 .. 2 * NPages - 1
  BY AddressPage
<1>4. Entry(p) = pg.pte[p]
  BY <1>3 DEF Entry, PageInv, Counted
<1>5. CASE pc' = "halted" /\ fault' = fault
  <2>1. DataType' /\ FaultOpen'
    BY <1>1, <1>5 DEF PageInv, DataType, FaultOpen
  <2> QED BY <1>1, <1>2, <1>5, <2>1, SameLayer DEF PageInv, MappedByFault
<1>6. CASE /\ pc' = "pte" /\ fault' = [page |-> p, perm |-> FaultPerm(vma)]
           /\ vma # NoVma
           /\ IF op.write THEN "W" \in vma.vm_flags
              ELSE ~IsPresent(Entry(p)) /\ vma.vm_flags \cap {"R", "X"} # {}
  <2>1. /\ Gives(p, FaultPerm(vma))
        /\ IsPresent(pg.pte[p]) => PermOf(pg.pte[p]) = FaultPerm(vma)
    BY <1>3, <1>6, FoundArea DEF PageInv
  <2>2. FaultPerm(vma) \in SUBSET {"U", "W"} /\ ("W" \in vma.vm_flags => "W" \in FaultPerm(vma))
    BY DEF FaultPerm
  <2> HIDE DEF p, vma
  <2>3. ~IsPresent(pg.pte[p])
    BY <1>1, <1>4, <1>6, <2>1, <2>2 DEF Allowed
  <2>4. fault'.page = p /\ fault'.perm = FaultPerm(vma)
    BY <1>6
  <2>5. DataType'
    BY <1>1, <1>3, <1>6, <2>2 DEF PageInv, DataType
  <2>6. mm' # NoMm
    <3>1. GoodMm(Cached(mm, op.addr))
      BY CachedIsGood DEF AreasInv
    <3> QED BY <1>1, <3>1 DEF GoodMm, Mms, NoMm
  <2>7. \A q, perm : Gives(q, perm) <=> Gives(q, perm)'
    BY <1>2 DEF Gives
  <2>8. FaultOpen'
    BY <1>1, <1>6, <2>1, <2>3, <2>4, <2>6, <2>7 DEF FaultOpen
  <2>9. Counted(pg, managed)' /\ InUse(pg, managed, HeldFrames)' /\ SlotsOwn' /\ MappedByFault' /\ QueueInv'
    BY <1>1, <1>2, <2>7 DEF PageInv, HeldFrames, SlotsOwn, MappedByFault, QueueInv
  <2> QED BY <2>5, <2>8, <2>9 DEF PageInv
<1> QED BY <1>5, <1>6 DEF AccessFaults

---------------------------------------------------------------------------
(* The handler *)

\* list_add puts a frame before all others; list_del takes the last one away.
LEMMA QueueEnds ==
  ASSUME NEW S, NEW q \in Seq(S), NEW f \in S
  PROVE  /\ map_swappable(q, f) \in Seq(S)
         /\ Len(map_swappable(q, f)) = Len(q) + 1
         /\ map_swappable(q, f)[1] = f
         /\ \A i \in 1 .. Len(q) : map_swappable(q, f)[i + 1] = q[i]
<1>1. <<f>> \in Seq(S) /\ Len(<<f>>) = 1 /\ <<f>>[1] = f /\ Len(q) \in Nat
  BY LenProperties
<1> DEFINE e == <<f>>
<1>2. e \in Seq(S) /\ Len(e) = 1 /\ e[1] = f
  BY <1>1
<1> HIDE DEF e
<1>3. /\ e \o q \in Seq(S) /\ Len(e \o q) = Len(e) + Len(q)
      /\ \A i \in 1 .. Len(e) + Len(q) : (e \o q)[i] = IF i <= Len(e) THEN e[i] ELSE q[i - Len(e)]
  BY <1>2, ConcatProperties
<1>4. map_swappable(q, f) = e \o q
  BY DEF map_swappable, e
<1>5. (e \o q)[1] = f
  BY <1>1, <1>2, <1>3
<1>6. ASSUME NEW i \in 1 .. Len(q) PROVE (e \o q)[i + 1] = q[i]
  <2>1. i + 1 \in 1 .. Len(e) + Len(q) /\ ~(i + 1 <= Len(e)) /\ (i + 1) - Len(e) = i
    BY <1>1, <1>2
  <2> QED BY <2>1, <1>3
<1> QED BY <1>1, <1>2, <1>3, <1>4, <1>5, <1>6

LEMMA RemoveLast ==
  ASSUME NEW S, NEW q \in Seq(S), q # <<>>
  PROVE  /\ Len(q) \in Nat \ {0}
         /\ RemoveAt(q, Len(q)) \in Seq(S)
         /\ Len(RemoveAt(q, Len(q))) = Len(q) - 1
         /\ \A i \in 1 .. Len(q) - 1 : RemoveAt(q, Len(q))[i] = q[i]
<1> DEFINE n == Len(q)
           a == SubSeq(q, 1, n - 1)
           b == SubSeq(q, n + 1, n)
<1>1. n \in Nat \ {0} /\ \A i \in 1 .. n : q[i] \in S
  BY LenProperties, ElementOfSeq, EmptySeq
<1>2. a \in Seq(S) /\ Len(a) = n - 1 /\ \A i \in 1 .. n - 1 : a[i] = q[i]
  <2>1. \A k \in 1 .. n - 1 : q[k] \in S
    BY <1>1
  <2>2. /\ a \in Seq(S) /\ Len(a) = IF 1 <= n - 1 THEN (n - 1) - 1 + 1 ELSE 0
        /\ \A k \in 1 .. (n - 1) - 1 + 1 : a[k] = q[1 + k - 1]
    BY <1>1, <2>1, SubSeqProperties
  <2>3. \A k \in 1 .. n - 1 : a[k] = q[k]
    <3> TAKE k \in 1 .. n - 1
    <3>1. k \in 1 .. (n - 1) - 1 + 1 /\ 1 + k - 1 = k
      BY <1>1
    <3> QED BY <3>1, <2>2
  <2> HIDE DEF a, n
  <2> QED BY <1>1, <2>2, <2>3
<1>3. b \in Seq(S) /\ Len(b) = 0
  <2>1. \A k \in n + 1 .. n : q[k] \in S
    BY <1>1
  <2>2. b \in Seq(S) /\ Len(b) = IF n + 1 <= n THEN n - (n + 1) + 1 ELSE 0
    BY <1>1, <2>1, SubSeqProperties
  <2> QED BY <1>1, <2>2
<1>4. RemoveAt(q, n) = a \o b
  BY DEF RemoveAt
<1> HIDE DEF a, b
<1>5. /\ a \o b \in Seq(S) /\ Len(a \o b) = Len(a) + Len(b)
      /\ \A i \in 1 .. Len(a) + Len(b) : (a \o b)[i] = IF i <= Len(a) THEN a[i] ELSE b[i - Len(a)]
  BY <1>2, <1>3, ConcatProperties
<1> QED BY <1>1, <1>2, <1>3, <1>4, <1>5

\* A fresh frame for the page of the fault.
LEMMA MapKeeps ==
  ASSUME PageInv, pc = "page", NEW f \in pg.free,
         pg' = page_insert([pg EXCEPT !.free = @ \ {f}], f, fault.page, fault.perm),
         IF swap_init_ok THEN Enqueue(f) ELSE UNCHANGED <<pra_list, pra_vaddr>>,
         pc' = "run", data' \in [Frames -> Values],
         UNCHANGED <<mm, disk, swap_init_ok, fault, held, managed>>
  PROVE  /\ PageInv'
         /\ pg'.pte = [pg.pte EXCEPT ![fault.page] = Present(f, fault.perm)]
<1> DEFINE p == fault.page
           perm == fault.perm
           s == [pg EXCEPT !.free = @ \ {f}]
<1>1. /\ p \in Pages /\ perm \in SUBSET {"U", "W"} /\ managed \in SUBSET Frames
      /\ pra_list \in Seq(Frames) /\ pra_vaddr \in [Frames -> Pages]
  BY DEF PageInv, DataType
<1>2. mm # NoMm /\ ~IsPresent(pg.pte[p]) /\ Gives(p, perm) /\ pg.pt # NoFrame
  BY DEF PageInv, FaultOpen
<1>3. /\ Counted(s, managed) /\ s.pt = pg.pt /\ s.pte = pg.pte /\ f \in managed \ (s.free \cup {s.pt})
      /\ InUse(s, managed, HeldFrames \cup {f})
  BY <1>1, TakeCounted DEF PageInv
<1> HIDE DEF p, perm, s
<1>4. InsertedCounted(s, page_insert(s, f, p, perm), managed, f, p, perm)
  BY <1>1, <1>2, <1>3, InsertCounted
<1>5. pg' = page_insert(s, f, p, perm)
  BY DEF p, perm, s
<1>6. /\ Counted(pg', managed) /\ pg'.pt = pg.pt /\ InUse(pg', managed, HeldFrames)
      /\ pg'.pte = [pg.pte EXCEPT ![p] = Present(f, perm)]
  BY <1>3, <1>4, <1>5 DEF InsertedCounted
<1>7. /\ pg.pte \in [Pages -> Entries] /\ f \in Frames
      /\ \A q \in Pages : IsPresent(pg.pte[q]) => FrameOf(pg.pte[q]) # f
  BY <1>1, <1>3 DEF PageInv, Counted, PgType
<1>8. /\ IsPresent(pg'.pte[p]) /\ FrameOf(pg'.pte[p]) = f /\ PermOf(pg'.pte[p]) = perm
      /\ \A q \in Pages : q # p => pg'.pte[q] = pg.pte[q]
  <2>1. IsPresent(Present(f, perm)) /\ FrameOf(Present(f, perm)) = f /\ PermOf(Present(f, perm)) = perm
    BY <1>1, <1>7, EntryCases
  <2> QED BY <1>1, <1>6, <1>7, <2>1
<1>9. Counted(pg, managed)' /\ InUse(pg, managed, HeldFrames)'
  BY <1>6 DEF HeldFrames
<1>10. SlotsOwn' /\ FaultOpen'
  BY <1>8 DEF PageInv, SlotsOwn, FaultOpen
<1>11. \A q, x : Gives(q, x) <=> Gives(q, x)'
  BY DEF Gives
<1>12. MappedByFault'
  <2>1. \A i \in 1 .. Len(mm.list) : Aligned(mm.list[i])
    BY <1>2 DEF PageInv, MappedByFault
  <2>2. \A q \in Pages : IsPresent(pg'.pte[q]) => Gives(q, PermOf(pg'.pte[q]))
    BY <1>2, <1>8 DEF PageInv, MappedByFault
  <2>3. ASSUME NEW q \in Pages, NEW r \in Pages, IsPresent(pg'.pte[q]), IsPresent(pg'.pte[r]),
               FrameOf(pg'.pte[q]) = FrameOf(pg'.pte[r])
        PROVE  q = r
    BY <1>2, <1>7, <1>8, <2>3 DEF PageInv, MappedByFault
  <2> QED BY <2>1, <2>2, <2>3, <1>11 DEF MappedByFault
<1>13. DataType' /\ QueueInv'
  <2>1. CASE ~swap_init_ok
    BY <1>1, <2>1 DEF PageInv, DataType, QueueInv
  <2>2. CASE swap_init_ok
    <3>1. pra_list' = map_swappable(pra_list, f) /\ pra_vaddr' = [pra_vaddr EXCEPT ![f] = p]
      BY <2>2 DEF Enqueue, p
    <3> DEFINE n == Len(pra_list)
    <3>2. /\ n \in Nat /\ pra_list' \in Seq(Frames) /\ Len(pra_list') = n + 1 /\ pra_list'[1] = f
          /\ \A i \in 1 .. n : pra_list'[i + 1] = pra_list[i]
      <4>1. /\ map_swappable(pra_list, f) \in Seq(Frames)
            /\ Len(map_swappable(pra_list, f)) = n + 1
            /\ map_swappable(pra_list, f)[1] = f
            /\ \A i \in 1 .. n : map_swappable(pra_list, f)[i + 1] = pra_list[i]
        BY <1>1, <1>7, QueueEnds
      <4>2. n \in Nat
        BY <1>1, LenProperties
      <4> QED BY <3>1, <4>1, <4>2
    <3>3. pra_vaddr' \in [Frames -> Pages] /\ pra_vaddr'[f] = p /\ \A g \in Frames : g # f => pra_vaddr'[g] = pra_vaddr[g]
      BY <1>1, <1>7, <3>1
    <3>4. DataType'
      BY <3>2, <3>3 DEF PageInv, DataType
    <3>5. /\ \A i, j \in 1 .. n : pra_list[i] = pra_list[j] => i = j
          /\ \A i \in 1 .. n : LET q == pra_vaddr[pra_list[i]]
                               IN  IsPresent(pg.pte[q]) /\ FrameOf(pg.pte[q]) = pra_list[i]
          /\ \A q \in Pages : IsPresent(pg.pte[q]) => \E i \in 1 .. n : pra_list[i] = FrameOf(pg.pte[q])
      BY <1>2, <2>2 DEF PageInv, QueueInv
    <3>6. \A i \in 1 .. n : /\ pra_list[i] \in Frames /\ pra_vaddr[pra_list[i]] \in Pages
                            /\ pra_list[i] # f /\ pra_vaddr[pra_list[i]] # p
      BY <1>1, <1>2, <1>7, <3>5, ElementOfSeq
    <3> HIDE DEF n
    <3>7. \A i \in 1 .. n + 1 : i = 1 \/ (i - 1 \in 1 .. n /\ pra_list'[i] = pra_list[i - 1])
      <4> TAKE i \in 1 .. n + 1
      <4>1. i = 1 \/ (i - 1 \in 1 .. n /\ (i - 1) + 1 = i)
        BY <3>2
      <4> QED BY <4>1, <3>2
    <3>8. \A i, j \in 1 .. n + 1 : pra_list'[i] = pra_list'[j] => i = j
      BY <3>2, <3>5, <3>6, <3>7
    <3>9. ASSUME NEW i \in 1 .. n + 1
          PROVE  LET q == pra_vaddr'[pra_list'[i]]
                 IN  IsPresent(pg'.pte[q]) /\ FrameOf(pg'.pte[q]) = pra_list'[i]
      <4>1. CASE i = 1
        BY <4>1, <1>8, <3>2, <3>3
      <4>2. CASE i # 1
        <5>1. i - 1 \in 1 .. n /\ pra_list'[i] = pra_list[i - 1]
          BY <4>2, <3>7
        <5> DEFINE g == pra_list[i - 1]
        <5>2. g \in Frames /\ g # f /\ pra_vaddr[g] \in Pages /\ pra_vaddr[g] # p
          BY <5>1, <3>6
        <5>3. pra_list'[i] = g /\ IsPresent(pg.pte[pra_vaddr[g]]) /\ FrameOf(pg.pte[pra_vaddr[g]]) = g
          BY <5>1, <3>5
        <5> HIDE DEF g
        <5> QED BY <5>2, <5>3, <1>8, <3>3
      <4> QED BY <4>1, <4>2
    <3>10. ASSUME NEW q \in Pages, IsPresent(pg'.pte[q])
           PROVE  \E i \in 1 .. n + 1 : pra_list'[i] = FrameOf(pg'.pte[q])
      <4>1. CASE q = p
        <5>1. 1 \in 1 .. n + 1
          BY <3>2
        <5> QED BY <4>1, <5>1, <1>8, <3>2
      <4>2. CASE q # p
        <5>1. PICK i \in 1 .. n : pra_list[i] = FrameOf(pg.pte[q])
          BY <4>2, <1>8, <3>5, <3>10
        <5>2. i + 1 \in 1 .. n + 1
          BY <3>2
        <5> QED BY <4>2, <5>1, <5>2, <1>8, <3>2
      <4> QED BY <4>1, <4>2
    <3>11. QueueInv'
      BY <3>2, <3>8, <3>9, <3>10 DEF QueueInv
    <3> QED BY <3>4, <3>11
  <2> QED BY <2>1, <2>2
<1> QED BY <1>6, <1>9, <1>10, <1>12, <1>13 DEF PageInv, p, perm

LEMMA MapNewPageKeeps ==
  ASSUME PageInv, MapNewPage
  PROVE  PageInv'
<1>1. /\ pc = "page" /\ pc' = "run"
      /\ UNCHANGED <<mm, data, disk, swap_init_ok, fault, held, managed>>
  BY DEF MapNewPage, handlerVars, runVars
<1>2. PICK f \in pg.free :
        /\ pg' = page_insert([pg EXCEPT !.free = @ \ {f}], f, fault.page, fault.perm)
        /\ IF swap_init_ok THEN Enqueue(f) ELSE UNCHANGED <<pra_list, pra_vaddr>>
  BY DEF MapNewPage
<1>3. data' \in [Frames -> Values]
  BY <1>1 DEF PageInv, DataType
<1> QED BY <1>1, <1>2, <1>3, MapKeeps

\* The slot that is read is the page's own.
LEMMA SlotOfPage ==
  ASSUME PageInv, pc = "page"
  PROVE  /\ fault.page \in Pages
         /\ pg.pte[fault.page] = Zero \/ (swap_init_ok /\ pg.pte[fault.page] = Swapped(fault.page))
         /\ pg.pte[fault.page] # Zero => SlotRead(pg.pte[fault.page]) = {disk[fault.page]}
<1>1. fault.page \in Pages /\ ~IsPresent(pg.pte[fault.page])
  BY DEF PageInv, DataType, FaultOpen
<1>2. pg.pte[fault.page] = Zero \/ (swap_init_ok /\ pg.pte[fault.page] = Swapped(fault.page))
  BY <1>1 DEF PageInv, SlotsOwn
<1>3. \A q \in Pages : Swapped(q)[2] = q
  BY DEF Swapped
<1>4. pg.pte[fault.page] # Zero => SlotRead(pg.pte[fault.page]) = {disk[fault.page]}
  BY <1>1, <1>2, <1>3 DEF SlotRead
<1> QED BY <1>1, <1>2, <1>4

LEMMA SwapInKeeps ==
  ASSUME PageInv, SwapIn
  PROVE  PageInv'
<1>1. /\ pc = "page" /\ pg.pte[fault.page] # Zero
      /\ UNCHANGED <<mm, disk, swap_init_ok, fault, held, managed>>
  BY DEF SwapIn, handlerVars, runVars
<1>2. swap_init_ok /\ SlotRead(pg.pte[fault.page]) = {disk[fault.page]} /\ fault.page \in Pages
  BY <1>1, SlotOfPage
<1>3. PICK f \in pg.free :
        /\ data' = [data EXCEPT ![f] = disk[fault.page]]
        /\ pg' = page_insert([pg EXCEPT !.free = @ \ {f}], f, fault.page, fault.perm)
        /\ Enqueue(f)
        /\ pc' = "run"
  BY <1>2 DEF SwapIn
<1>4. data' \in [Frames -> Values]
  BY <1>2, <1>3 DEF PageInv, DataType
<1> QED BY <1>1, <1>2, <1>3, <1>4, MapKeeps

LEMMA GetPteKeeps ==
  ASSUME PageInv, GetPte
  PROVE  PageInv' /\ pg'.pte = pg.pte
<1>1. /\ pc = "pte" /\ pc' = "page" /\ pg' \in get_pte(pg)
      /\ UNCHANGED <<mm, data, disk, swap_init_ok, pra_list, pra_vaddr, fault, held, managed>>
  BY DEF GetPte, handlerVars, runVars, swapVars
<1>2. DataType'
  BY <1>1 DEF PageInv, DataType
<1>3. Counted(pg', managed) /\ pg'.pt # NoFrame /\ pg'.pte = pg.pte /\ InUse(pg', managed, HeldFrames)
  BY <1>1, GetPteCounted DEF PageInv, DataType
<1>4. Counted(pg, managed)' /\ InUse(pg, managed, HeldFrames)'
  BY <1>1, <1>3 DEF HeldFrames
<1>5. \A q, x : Gives(q, x) <=> Gives(q, x)'
  BY <1>1 DEF Gives
<1>6. SlotsOwn' /\ MappedByFault' /\ FaultOpen' /\ QueueInv'
  BY <1>1, <1>3, <1>5 DEF PageInv, SlotsOwn, MappedByFault, FaultOpen, QueueInv
<1> QED BY <1>2, <1>3, <1>4, <1>6 DEF PageInv

LEMMA NoMemoryKeeps ==
  ASSUME PageInv, NoMemory
  PROVE  PageInv'
<1>1. /\ pc' = "halted"
      /\ UNCHANGED <<mm, pg, data, disk, swap_init_ok, pra_list, pra_vaddr, fault, held, managed>>
  BY DEF NoMemory, handlerVars, runVars, swapVars
<1>2. \A q, x : Gives(q, x) <=> Gives(q, x)'
  BY <1>1 DEF Gives
<1> QED BY <1>1, <1>2 DEF PageInv, DataType, HeldFrames, SlotsOwn, MappedByFault, FaultOpen, QueueInv

\* The victim is the frame of one page, and that page is not the one of the fault.
LEMMA SwapOutKeeps ==
  ASSUME PageInv, SwapOut
  PROVE  LET f == pra_list[Len(pra_list)]
             p == pra_vaddr[f]
         IN  /\ PageInv'
             /\ p \in Pages /\ IsPresent(pg.pte[p]) /\ FrameOf(pg.pte[p]) = f
             /\ pg'.pte = [pg.pte EXCEPT ![p] = Swapped(p)]
             /\ disk' = [disk EXCEPT ![p] = data[f]]
<1> DEFINE n == Len(pra_list)
           f == pra_list[n]
           p == pra_vaddr[f]
<1>1. /\ pc \in {"pte", "page"} /\ swap_init_ok /\ pra_list # <<>>
      /\ pra_list' = RemoveAt(pra_list, n)
      /\ disk' = [disk EXCEPT ![p] = data[f]]
      /\ pg' = tlb_invalidate(free_page([pg EXCEPT !.pte[p] = Swapped(p)], f), p)
      /\ UNCHANGED <<mm, data, swap_init_ok, pra_vaddr, pc, fault, held, managed>>
  BY DEF SwapOut, NeedsFrame, Victim, handlerVars, runVars
<1>2. /\ pra_list \in Seq(Frames) /\ pra_vaddr \in [Frames -> Pages] /\ managed \in SUBSET Frames
      /\ data \in [Frames -> Values] /\ disk \in [Pages -> Values] /\ fault.page \in Pages
      /\ pg.pte \in [Pages -> Entries]
  BY DEF PageInv, DataType, Counted, PgType
<1>3. /\ n \in Nat \ {0} /\ pra_list' \in Seq(Frames) /\ Len(pra_list') = n - 1
      /\ \A i \in 1 .. n - 1 : pra_list'[i] = pra_list[i]
  BY <1>1, <1>2, RemoveLast
<1>4. mm # NoMm /\ ~IsPresent(pg.pte[fault.page]) /\ Gives(fault.page, fault.perm)
      /\ (pc = "page" => pg.pt # NoFrame)
  BY <1>1 DEF PageInv, FaultOpen
<1>5. /\ \A i, j \in 1 .. n : pra_list[i] = pra_list[j] => i = j
      /\ \A i \in 1 .. n : LET q == pra_vaddr[pra_list[i]]
                           IN  IsPresent(pg.pte[q]) /\ FrameOf(pg.pte[q]) = pra_list[i]
      /\ \A q \in Pages : IsPresent(pg.pte[q]) => \E i \in 1 .. n : pra_list[i] = FrameOf(pg.pte[q])
  BY <1>1, <1>4 DEF PageInv, QueueInv
<1>6. /\ f \in Frames /\ p \in Pages /\ n \in 1 .. n
      /\ \A i \in 1 .. n : pra_list[i] \in Frames /\ pra_vaddr[pra_list[i]] \in Pages
  BY <1>2, <1>3, ElementOfSeq
<1>7. IsPresent(pg.pte[p]) /\ FrameOf(pg.pte[p]) = f
  BY <1>5, <1>6
<1>8. /\ \A q \in Pages : IsPresent(pg.pte[q]) => Gives(q, PermOf(pg.pte[q]))
      /\ \A q, r \in Pages : IsPresent(pg.pte[q]) /\ IsPresent(pg.pte[r]) /\ FrameOf(pg.pte[q]) = FrameOf(pg.pte[r]) => q = r
      /\ \A i \in 1 .. Len(mm.list) : Aligned(mm.list[i])
  BY <1>4 DEF PageInv, MappedByFault
<1> HIDE DEF f, p, n
<1>9. /\ Counted(pg', managed) /\ pg'.pt = pg.pt /\ pg'.pte = [pg.pte EXCEPT ![p] = Swapped(p)]
      /\ InUse(pg', managed, HeldFrames)
  <2>1. Counted(pg, managed) /\ InUse(pg, managed, HeldFrames)
    BY DEF PageInv
  <2>2. \A q \in Pages : IsPresent(pg.pte[q]) /\ FrameOf(pg.pte[q]) = FrameOf(pg.pte[p]) => q = p
    BY <1>6, <1>7, <1>8
  <2>3. pg' = tlb_invalidate(free_page([pg EXCEPT !.pte[p] = Swapped(p)], FrameOf(pg.pte[p])), p)
    BY <1>1, <1>7
  <2> QED BY <1>2, <1>6, <1>7, <2>1, <2>2, <2>3, EvictCounted
<1>10. pg'.pte[p] = Swapped(p) /\ ~IsPresent(Swapped(p)) /\ \A q \in Pages : q # p => pg'.pte[q] = pg.pte[q]
  BY <1>2, <1>6, <1>9, EntryCases
<1>11. p # fault.page
  BY <1>4, <1>7
<1>12. Counted(pg, managed)' /\ InUse(pg, managed, HeldFrames)'
  BY <1>1, <1>9 DEF HeldFrames
<1>13. DataType'
  <2>1. disk' \in [Pages -> Values]
    BY <1>1, <1>2, <1>6
  <2> QED BY <1>1, <1>3, <2>1 DEF PageInv, DataType
<1>14. \A q, x : Gives(q, x) <=> Gives(q, x)'
  BY <1>1 DEF Gives
<1>15. SlotsOwn'
  BY <1>1, <1>10 DEF PageInv, SlotsOwn
<1>16. MappedByFault'
  BY <1>1, <1>8, <1>10, <1>14 DEF MappedByFault
<1>17. FaultOpen'
  BY <1>1, <1>2, <1>4, <1>9, <1>10, <1>11, <1>14 DEF FaultOpen
<1>18. QueueInv'
  <2>1. \A i, j \in 1 .. n - 1 : pra_list'[i] = pra_list'[j] => i = j
    BY <1>3, <1>5
  <2>2. ASSUME NEW i \in 1 .. n - 1
        PROVE  LET q == pra_vaddr'[pra_list'[i]]
               IN  IsPresent(pg'.pte[q]) /\ FrameOf(pg'.pte[q]) = pra_list'[i]
    <3>1. i \in 1 .. n /\ i # n /\ pra_list'[i] = pra_list[i]
      BY <1>3
    <3>2. pra_list[i] # f
      BY <1>5, <1>6, <3>1 DEF f
    <3>3. pra_vaddr[pra_list[i]] # p
      BY <1>5, <1>7, <3>1, <3>2
    <3> QED BY <1>1, <1>5, <1>6, <1>10, <3>1, <3>3
  <2>3. ASSUME NEW q \in Pages, IsPresent(pg'.pte[q])
        PROVE  \E i \in 1 .. n - 1 : pra_list'[i] = FrameOf(pg'.pte[q])
    <3>1. q # p /\ pg'.pte[q] = pg.pte[q]
      BY <1>10, <2>3
    <3>2. PICK i \in 1 .. n : pra_list[i] = FrameOf(pg.pte[q])
      BY <1>5, <2>3, <3>1
    <3>3. i # n
      BY <1>6, <1>7, <1>8, <2>3, <3>1, <3>2 DEF f
    <3>4. i \in 1 .. n - 1
      BY <1>3, <3>2, <3>3
    <3> QED BY <1>3, <3>1, <3>2, <3>4
  <2> QED BY <1>3, <2>1, <2>2, <2>3 DEF QueueInv
<1> QED BY <1>1, <1>6, <1>7, <1>9, <1>12, <1>13, <1>15, <1>16, <1>17, <1>18 DEF PageInv, f, p, n

---------------------------------------------------------------------------
(* The free runs together *)

FreeInv == IInv /\ (mode = "free" => PageInv)

LEMMA FreeInit == Init => FreeInv
<1> SUFFICES ASSUME Init, mode = "free" PROVE PageInv
  BY InitEstablishes DEF FreeInv
<1>1. /\ managed \in SUBSET Frames
      /\ pg = [pt |-> NoFrame, pte |-> [p \in Pages |-> Zero], ref |-> [f \in Frames |-> 0],
               free |-> managed, tlb |-> [p \in Pages |-> Zero]]
      /\ mm = NoMm /\ pc = "run" /\ held = <<>> /\ pra_list = <<>> /\ swap_init_ok = FALSE
      /\ data = [f \in Frames |-> 0] /\ disk = [p \in Pages |-> 0]
      /\ pra_vaddr = [f \in Frames |-> 0] /\ fault = [page |-> 0, perm |-> {}]
  BY DEF Init, kSubset
<1>2. 0 \in Pages /\ 0 \in Values /\ Zero \in Entries /\ ~IsPresent(Zero) /\ NoFrame \notin Frames
  BY VmmAssumption, EntryCases DEF Pages
<1>3. DataType
  BY <1>1, <1>2, EmptySeq DEF DataType
<1>4. pg \in PgType
  BY <1>1, <1>2 DEF PgType
<1>5. Counted(pg, managed)
  BY <1>1, <1>2, <1>4 DEF Counted
<1>6. InUse(pg, managed, HeldFrames)
  BY <1>1 DEF InUse
<1>7. SlotsOwn /\ MappedByFault /\ FaultOpen /\ QueueInv
  BY <1>1 DEF SlotsOwn, MappedByFault, FaultOpen, QueueInv
<1> QED BY <1>3, <1>5, <1>6, <1>7 DEF PageInv

LEMMA FreeStep == FreeInv /\ [Next]_vars => FreeInv'
<1> SUFFICES ASSUME FreeInv, [Next]_vars, mode' = "free" PROVE PageInv'
  BY NextKeeps DEF FreeInv
<1>1. mode' = mode
  BY DEF Next, vars, runVars, Handler, SwapOut, NoMemory, GetPte, MapNewPage, SwapIn, handlerVars
<1>2. PageInv /\ AreasInv /\ mode = "free"
  BY <1>1 DEF FreeInv, IInv
<1>3. CASE UNCHANGED vars
  BY <1>2, <1>3 DEF vars, PageInv, DataType, HeldFrames, SlotsOwn, MappedByFault, FaultOpen, QueueInv, Gives
<1>4. CASE Handler
  BY <1>2, <1>4, SwapOutKeeps, NoMemoryKeeps, GetPteKeeps, MapNewPageKeeps, SwapInKeeps DEF Handler
<1>5. CASE pc = "run" /\ FreeRun /\ UNCHANGED runVars
  <2>1. UNCHANGED managed
    BY <1>5 DEF runVars
  <2>2. CASE pg.free = managed /\ (mm_create \/ mm_destroy \/ swap_init)
    BY <1>2, <1>5, <2>1, <2>2, MmCreateKeeps, MmDestroyKeeps, SwapInitKeeps
  <2>3. CASE (\A p \in Pages : pg.pte[p] = Zero) /\ DropTable
    BY <1>2, <1>5, <2>1, <2>3, DropTableKeeps
  <2>4. CASE mm = NoMm /\ ~swap_init_ok /\ AllocPage
    BY <1>2, <1>5, <2>1, <2>4, AllocPageKeeps
  <2>5. CASE /\ mm = NoMm /\ ~swap_init_ok
             /\ \E i \in 1 .. Len(held), p \in Pages, perm \in SUBSET {"U", "W"} :
                  held[i] \notin pg.free \cup {pg.pt} /\ PageInsert(i, p, perm)
    BY <1>2, <1>5, <2>1, <2>5, PageInsertKeeps
  <2>6. CASE ~swap_init_ok /\ \E p \in Pages : page_remove(p)
    BY <1>2, <1>5, <2>1, <2>6, PageRemoveKeeps
  <2>7. CASE \E vma \in FreeAreas : insert_vma_struct(vma)
    BY <1>2, <1>5, <2>1, <2>7, InsertVmaKeeps
  <2>8. CASE \E op : Access(op)
    <3>1. PICK op : Access(op)
      BY <2>8
    <3>2. mm # NoMm /\ op.addr \in FreeAddrs /\ op.write \in BOOLEAN /\ op.val \in Values
      BY <3>1 DEF Access
    <3>3. CASE AccessHits(op)
      BY <1>2, <1>5, <2>1, <3>2, <3>3, AccessHitsKeeps
    <3>4. CASE AccessFaults(op)
      BY <1>2, <1>5, <2>1, <3>2, <3>4, AccessFaultsKeeps
    <3> QED BY <3>1, <3>3, <3>4 DEF Access
  <2> QED BY <1>5, <2>2, <2>3, <2>4, <2>5, <2>6, <2>7, <2>8, FreeRunSteps
<1> QED BY <1>2, <1>3, <1>4, <1>5 DEF Next

LEMMA FreeAlways == Spec => []FreeInv
BY FreeInit, FreeStep, PTL DEF Spec

\* In any sequence of calls and page faults, page_insert and page_remove keep the count of a
\* frame the number of its mappings, and a frame is free exactly when nobody has it.
THEOREM RefsAreMappingsCorrect == Spec => [](mode = "free" => RefsAreMappings)
<1>1. FreeInv => (mode = "free" => RefsAreMappings)
  <2> SUFFICES ASSUME PageInv PROVE RefsAreMappings
    BY DEF FreeInv
  <2>1. DataType /\ Counted(pg, managed) /\ InUse(pg, managed, HeldFrames) /\ pg \in PgType
    BY DEF PageInv, Counted
  <2>2. \A i \in 1 .. Len(pra_list) : pra_list[i] \in Frames
    BY <2>1, ElementOfSeq DEF DataType
  <2>3. TypeOK
    BY <2>1, <2>2 DEF TypeOK, DataType, PgType, Counted
  <2>4. \A f \in managed : Mapping(f) = Maps(pg, f)
    BY <2>1, MapsMapping DEF DataType
  <2>5. \A f \in pg.free : Maps(pg, f) = {} /\ pg.ref[f] = 0 /\ f \in managed
    BY <2>1 DEF Maps, Counted
  <2>6. \A f \in managed \ (pg.free \cup {pg.pt}) : pg.ref[f] = Cardinality(Mapping(f))
    BY <2>1, <2>4 DEF Counted
  <2>7. \A f \in managed \ pg.free : Mapping(f) # {} \/ f = pg.pt \/ Contains(held, f)
    BY <2>1, <2>4 DEF InUse, HeldFrames, Contains
  <2> QED BY <2>3, <2>4, <2>5, <2>6, <2>7 DEF RefsAreMappings
<1> QED BY <1>1, FreeAlways, PTL

\* A queue without repetition is as long as the set of its elements.
LEMMA DistinctLength ==
  ASSUME NEW S, NEW q \in Seq(S), \A i, j \in 1 .. Len(q) : q[i] = q[j] => i = j
  PROVE  Len(q) = Cardinality(ToSet(q)) /\ ToSet(q) = {q[i] : i \in 1 .. Len(q)}
<1> DEFINE n == Len(q)
           T == {q[i] : i \in 1 .. n}
           f == [i \in 1 .. n |-> q[i]]
<1>1. n \in Nat /\ DOMAIN q = 1 .. n
  BY LenProperties
<1>2. ToSet(q) = T
  BY <1>1 DEF ToSet
<1>3. f \in Surjection(1 .. n, T) /\ f \in Injection(1 .. n, T)
  BY DEF Surjection, Injection, IsInjective
<1>4. IsFiniteSet(1 .. n) /\ Cardinality(1 .. n) = n
  <2>1. IsFiniteSet(1 .. n) /\ Cardinality(1 .. n) = IF 1 > n THEN 0 ELSE n - 1 + 1
    BY <1>1, FS_Interval
  <2> HIDE DEF n
  <2> QED BY <1>1, <2>1
<1> HIDE DEF f, T, n
<1>5. Cardinality(T) = Cardinality(1 .. n)
  BY <1>3, <1>4, FS_Surjection
<1> QED BY <1>2, <1>4, <1>5 DEF n, T

\* With swapping on, the FIFO queue holds each mapped frame once, at the page it is mapped at.
THEOREM QueueIsResidentCorrect == Spec => [](mode = "free" => QueueIsResident)
<1>1. FreeInv => (mode = "free" => QueueIsResident)
  <2> SUFFICES ASSUME PageInv, swap_init_ok, mm # NoMm
               PROVE  /\ Len(pra_list) = Cardinality(ToSet(pra_list))
                      /\ ToSet(pra_list) = {f \in managed : Mapping(f) # {}}
                      /\ \A f \in ToSet(pra_list) : Mapping(f) = {pra_vaddr[f]}
    BY DEF FreeInv, QueueIsResident
  <2> DEFINE n == Len(pra_list)
  <2>1. /\ \A i, j \in 1 .. n : pra_list[i] = pra_list[j] => i = j
        /\ \A i \in 1 .. n : LET p == pra_vaddr[pra_list[i]]
                             IN  IsPresent(pg.pte[p]) /\ FrameOf(pg.pte[p]) = pra_list[i]
        /\ \A p \in Pages : IsPresent(pg.pte[p]) => \E i \in 1 .. n : pra_list[i] = FrameOf(pg.pte[p])
    BY DEF PageInv, QueueInv
  <2>2. /\ pra_list \in Seq(Frames) /\ pra_vaddr \in [Frames -> Pages] /\ managed \in SUBSET Frames
        /\ pg \in PgType
        /\ \A p \in Pages : IsPresent(pg.pte[p]) => FrameOf(pg.pte[p]) \in managed
    BY DEF PageInv, DataType, Counted
  <2>3. n = Cardinality(ToSet(pra_list)) /\ ToSet(pra_list) = {pra_list[i] : i \in 1 .. n}
    BY <2>1, <2>2, DistinctLength
  <2>4. \A i \in 1 .. n : pra_list[i] \in Frames /\ pra_vaddr[pra_list[i]] \in Pages
    BY <2>2, ElementOfSeq
  <2>5. \A p, q \in Pages : /\ IsPresent(pg.pte[p]) /\ IsPresent(pg.pte[q])
                            /\ FrameOf(pg.pte[p]) = FrameOf(pg.pte[q])
                            => p = q
    BY DEF PageInv, MappedByFault
  <2>6. \A f \in Frames : Mapping(f) = {p \in Pages : IsPresent(pg.pte[p]) /\ FrameOf(pg.pte[p]) = f}
    BY <2>2, MapsMapping DEF Maps
  <2> HIDE DEF n
  <2>7. ASSUME NEW i \in 1 .. n
        PROVE  pra_list[i] \in managed /\ Mapping(pra_list[i]) = {pra_vaddr[pra_list[i]]}
    <3> DEFINE f == pra_list[i]
               p == pra_vaddr[pra_list[i]]
    <3>1. f \in Frames /\ p \in Pages /\ IsPresent(pg.pte[p]) /\ FrameOf(pg.pte[p]) = f
      BY <2>1, <2>4
    <3>2. f \in managed
      BY <2>2, <3>1
    <3>3. Mapping(f) = {u \in Pages : IsPresent(pg.pte[u]) /\ FrameOf(pg.pte[u]) = f}
      BY <2>6, <3>1
    <3> HIDE DEF f, p
    <3>4. Mapping(f) = {p}
      BY <2>5, <3>1, <3>3
    <3> QED BY <3>2, <3>4 DEF f, p
  <2>8. ASSUME NEW f \in managed, Mapping(f) # {} PROVE f \in ToSet(pra_list)
    <3>1. PICK p \in Pages : IsPresent(pg.pte[p]) /\ FrameOf(pg.pte[p]) = f
      BY <2>2, <2>6, <2>8
    <3> QED BY <3>1, <2>1, <2>3
  <2>9. ToSet(pra_list) = {f \in managed : Mapping(f) # {}}
    <3>1. ASSUME NEW f \in ToSet(pra_list) PROVE f \in managed /\ Mapping(f) # {}
      <4>1. PICK i \in 1 .. n : f = pra_list[i]
        BY <2>3
      <4> QED BY <2>7, <4>1
    <3> QED BY <2>8, <3>1
  <2>10. \A f \in ToSet(pra_list) : Mapping(f) = {pra_vaddr[f]}
    BY <2>3, <2>7
  <2>11. Len(pra_list) = Cardinality(ToSet(pra_list))
    BY <2>3 DEF n
  <2> QED BY <2>9, <2>10, <2>11, Zenon
<1> QED BY <1>1, FreeAlways, PTL

\* do_pgfault reads from disk only with swapping on and only for an entry that names the slot
\* of the page itself: where areas are whole pages, a permitted fault meets no page that is there.
THEOREM SwapInOnlyOfSlotCorrect == Spec => [](mode = "free" => SwapInOnlyOfSlot)
<1>1. FreeInv => (mode = "free" => SwapInOnlyOfSlot)
  BY SlotOfPage DEF FreeInv, SwapInOnlyOfSlot
<1> QED BY <1>1, FreeAlways, PTL

\* The processor never has an entry cached that the table has no more.
THEOREM TlbCoherentCorrect == Spec => [](mode = "free" => TlbCoherent)
<1>1. FreeInv => (mode = "free" => TlbCoherent)
  BY DEF FreeInv, PageInv, Counted, TlbCoherent
<1> QED BY <1>1, FreeAlways, PTL

---------------------------------------------------------------------------
(* Memory as the program sees it.  A step of labs 2 and 3 is one of FlatMemory or none. *)

MemSame == \A p \in Pages : Content(p)' = Content(p)
OthersSame(p) == \A q \in Pages : q # p => Content(q)' = Content(q)
FlatStep == [Flat!Next]_<<[p \in Pages |-> Content(p)], pc # "run">>

\* What a page holds: its frame's data if it is there, its slot if it was swapped out.
Holding(m, e, d, k, p) ==
    IF m = NoMm \/ e = Zero THEN Untouched ELSE IF IsPresent(e) THEN d[FrameOf(e)] ELSE k[p]

LEMMA ContentIs ==
  ASSUME PageInv, PageInv', NEW p \in Pages
  PROVE  /\ Content(p) = Holding(mm, pg.pte[p], data, disk, p)
         /\ Content(p)' = Holding(mm', pg'.pte[p], data', disk', p)
         /\ pg.pte[p] \in Entries /\ Zero # Swapped(p) /\ ~IsPresent(Zero)
         /\ IsPresent(pg.pte[p]) => data[FrameOf(pg.pte[p])] \in Values
         /\ disk[p] \in Values
<1>1. \A q \in Pages : Swapped(q)[2] = q /\ Zero # Swapped(q) /\ ~IsPresent(Zero)
  BY EntryCases DEF Swapped
<1>2. ~IsPresent(pg.pte[p]) => pg.pte[p] = Zero \/ pg.pte[p] = Swapped(p)
  BY DEF PageInv, SlotsOwn
<1>3. ~IsPresent(pg'.pte[p]) => pg'.pte[p] = Zero \/ pg'.pte[p] = Swapped(p)
  BY DEF PageInv, SlotsOwn
<1>4. pg.pte[p] \in Entries
  BY DEF PageInv, Counted, PgType
<1>5. IsPresent(pg.pte[p]) => data[FrameOf(pg.pte[p])] \in Values
  BY <1>4, EntryCases DEF PageInv, DataType
<1>6. disk[p] \in Values
  BY DEF PageInv, DataType
<1>7. Content(p) = Holding(mm, pg.pte[p], data, disk, p)
  BY <1>1, <1>2 DEF Content, Holding
<1>8. Content(p)' = Holding(mm', pg'.pte[p], data', disk', p)
  BY <1>1, <1>3 DEF Content, Holding
<1> QED BY <1>1, <1>4, <1>5, <1>6, <1>7, <1>8

\* A step that changes no content starts a fault, ends one, or is not seen at all.
LEMMA FlatKeeps == ASSUME MemSame PROVE FlatStep
<1>1. [p \in Pages |-> Content(p)]' = [p \in Pages |-> Content(p)]
  BY DEF MemSame
<1>2. CASE pc = "run" /\ pc' # "run"
  BY <1>1, <1>2 DEF FlatStep, Flat!Next, Flat!Fault
<1>3. CASE pc # "run" /\ pc' = "run"
  BY <1>1, <1>3 DEF FlatStep, Flat!Next, Flat!Return
<1>4. CASE (pc = "run") <=> (pc' = "run")
  BY <1>1, <1>4 DEF FlatStep
<1> QED BY <1>2, <1>3, <1>4

\* One page changes: written, given up, or touched for the first time.
LEMMA FlatChanges ==
  ASSUME NEW p \in Pages, OthersSame(p),
         \/ pc = "run" /\ pc' = "run" /\ Content(p) # Untouched /\ Content(p)' \in Values
         \/ pc = "run" /\ pc' = "run" /\ Content(p)' = Untouched
         \/ pc # "run" /\ pc' = "run" /\ Content(p) = Untouched /\ Content(p)' \in Values
  PROVE  FlatStep
<1> DEFINE mem == [q \in Pages |-> Content(q)]
<1>1. mem[p] = Content(p)
  OBVIOUS
<1>2. mem' = [mem EXCEPT ![p] = Content(p)']
  BY DEF OthersSame
<1>3. CASE pc = "run" /\ pc' = "run" /\ Content(p) # Untouched /\ Content(p)' \in Values
  <2>1. Flat!Write(p)
    BY <1>1, <1>2, <1>3 DEF Flat!Write
  <2> QED BY <2>1 DEF FlatStep, Flat!Next
<1>4. CASE pc = "run" /\ pc' = "run" /\ Content(p)' = Untouched
  <2>1. Flat!Drop(p)
    BY <1>1, <1>2, <1>4 DEF Flat!Drop
  <2> QED BY <2>1 DEF FlatStep, Flat!Next
<1>5. CASE pc # "run" /\ pc' = "run" /\ Content(p) = Untouched /\ Content(p)' \in Values
  <2>1. Flat!Touch(p)
    BY <1>1, <1>2, <1>5 DEF Flat!Touch
  <2> QED BY <2>1 DEF FlatStep, Flat!Next
<1> QED BY <1>3, <1>4, <1>5

LEMMA SameMemory ==
  ASSUME PageInv, PageInv',
         \/ /\ (mm = NoMm) <=> (mm' = NoMm)
            /\ pg'.pte = pg.pte /\ data' = data /\ disk' = disk
         \/ /\ mm = NoMm \/ \A p \in Pages : pg.pte[p] = Zero
            /\ mm' = NoMm \/ \A p \in Pages : pg'.pte[p] = Zero
  PROVE  FlatStep
<1>1. MemSame
  BY ContentIs DEF MemSame, Holding
<1> QED BY <1>1, FlatKeeps

LEMMA MmStays ==
  ASSUME IInv, NEW op, op.addr \in FreeAddrs, mm # NoMm, mm' = Cached(mm, op.addr)
  PROVE  mm' # NoMm
<1>1. GoodMm(Cached(mm, op.addr))
  BY CachedIsGood DEF IInv, AreasInv
<1> QED BY <1>1 DEF GoodMm, Mms, NoMm

LEMMA InsertVmaFlat ==
  ASSUME PageInv, PageInv', IInv, NEW vma \in FreeAreas, insert_vma_struct(vma)
  PROVE  FlatStep
<1>1. mm # NoMm /\ UNCHANGED <<pg, data, disk>>
  BY DEF insert_vma_struct, swapVars
<1>2. mm' # NoMm
  <2>1. CASE mm' = mm
    BY <1>1, <2>1
  <2>2. CASE InsertAsserts(mm, vma) /\ mm' = [mm EXCEPT !.list = InsertAt(@, InsertPos(mm, vma), vma), !.map_count = @ + 1]
    <3>1. GoodMm(mm) /\ vma \in Areas
      BY <1>1, AreasAssumption DEF IInv, AreasInv
    <3>2. GoodMm(mm')
      BY <2>2, <3>1, InsertedIsGood
    <3> QED BY <3>2 DEF GoodMm, Mms, NoMm
  <2> QED BY <2>1, <2>2 DEF insert_vma_struct
<1> QED BY <1>1, <1>2, SameMemory

\* The program's write reaches the page it names, and no other.
LEMMA AccessHitsFlat ==
  ASSUME PageInv, PageInv', pc = "run", mm # NoMm, NEW op, op.addr \in FreeAddrs, op.val \in Values,
         AccessHits(op), UNCHANGED managed
  PROVE  FlatStep
<1> DEFINE p == PageOf(op.addr)
           f == FrameOf(Entry(p))
<1>1. /\ Allowed(p, op.write)
      /\ pg' = [pg EXCEPT !.tlb[p] = Entry(p)]
      /\ data' = IF op.write THEN [data EXCEPT ![f] = op.val] ELSE data
      /\ UNCHANGED <<mm, disk, pc>>
  BY DEF AccessHits, swapVars
<1>2. p \in Pages /\ Entry(p) = pg.pte[p]
  BY AddressPage, AccessHitsKeeps
<1>3. pg'.pte = pg.pte
  BY <1>1 DEF PageInv, Counted, PgType
<1>4. CASE data' = data
  BY <1>1, <1>3, <1>4, SameMemory
<1>5. CASE data' = [data EXCEPT ![f] = op.val]
  <2> HIDE DEF p
  <2>1. IsPresent(pg.pte[p]) /\ f = FrameOf(pg.pte[p])
    BY <1>1, <1>2 DEF Allowed
  <2>2. /\ data \in [Frames -> Values]
        /\ \A q \in Pages : IsPresent(pg.pte[q]) => FrameOf(pg.pte[q]) \in Frames
        /\ \A q \in Pages : IsPresent(pg.pte[q]) /\ FrameOf(pg.pte[q]) = f => q = p
    BY <1>2, <2>1 DEF PageInv, DataType, Counted, MappedByFault
  <2> HIDE DEF f
  <2>3. OthersSame(p)
    BY <1>1, <1>3, <1>5, <2>2, ContentIs DEF OthersSame, Holding
  <2>4. pg.pte[p] # Zero
    BY <1>2, <2>1, ContentIs
  <2>5. Content(p) \in Values /\ Content(p)' = op.val
    BY <1>1, <1>2, <1>3, <1>5, <2>1, <2>2, <2>4, ContentIs DEF Holding
  <2>6. Content(p) # Untouched
    BY <2>5, VmmAssumption
  <2> QED BY <1>1, <1>2, <2>3, <2>5, <2>6, FlatChanges
<1> QED BY <1>1, <1>4, <1>5

LEMMA AccessFaultsFlat ==
  ASSUME PageInv, PageInv', IInv, mm # NoMm, NEW op, op.addr \in FreeAddrs, AccessFaults(op)
  PROVE  FlatStep
<1>1. mm' = Cached(mm, op.addr) /\ UNCHANGED <<pg, data, disk>>
  BY DEF AccessFaults, swapVars
<1> QED BY <1>1, MmStays, SameMemory

LEMMA PageRemoveFlat ==
  ASSUME PageInv, PageInv', pc = "run", NEW p \in Pages, page_remove(p)
  PROVE  FlatStep
<1>1. pg' = page_remove_pte(pg, p) /\ UNCHANGED <<mm, data, disk, pc>>
  BY DEF page_remove, swapVars
<1>2. pg'.pte = [pg.pte EXCEPT ![p] = IF IsPresent(pg.pte[p]) THEN Zero ELSE @]
  BY <1>1, RemoveCounted DEF PageInv, DataType
<1>5. pg.pte \in [Pages -> Entries]
  BY DEF PageInv, Counted, PgType
<1>3. CASE ~IsPresent(pg.pte[p])
  <2>1. pg'.pte = pg.pte
    BY <1>2, <1>3, <1>5
  <2> QED BY <1>1, <2>1, SameMemory
<1>4. CASE IsPresent(pg.pte[p])
  <2>1. pg'.pte[p] = Zero /\ \A q \in Pages : q # p => pg'.pte[q] = pg.pte[q]
    BY <1>2, <1>4, <1>5
  <2>2. OthersSame(p) /\ Content(p)' = Untouched
    BY <1>1, <2>1, ContentIs DEF OthersSame, Holding
  <2> QED BY <1>1, <2>2, FlatChanges
<1> QED BY <1>3, <1>4

\* A page that comes into being or comes back: nobody else has its frame.
LEMMA MapNewPageFlat ==
  ASSUME PageInv, PageInv', MapNewPage
  PROVE  FlatStep
<1>0. PICK p : p = fault.page
  OBVIOUS
<1>1. /\ pc = "page" /\ pc' = "run" /\ pg.pte[p] = Zero
      /\ UNCHANGED <<mm, data, disk, swap_init_ok, fault, held, managed>>
  BY <1>0 DEF MapNewPage, handlerVars, runVars
<1>2. PICK f \in pg.free :
        /\ pg' = page_insert([pg EXCEPT !.free = @ \ {f}], f, fault.page, fault.perm)
        /\ IF swap_init_ok THEN Enqueue(f) ELSE UNCHANGED <<pra_list, pra_vaddr>>
  BY DEF MapNewPage
<1>3. p \in Pages /\ data' \in [Frames -> Values] /\ f \in Frames /\ fault.perm \in SUBSET {"U", "W"}
      /\ pg.pte \in [Pages -> Entries]
  BY <1>0, <1>1 DEF PageInv, DataType, Counted, PgType
<1>4. pg'.pte = [pg.pte EXCEPT ![p] = Present(f, fault.perm)]
  BY <1>0, <1>1, <1>2, <1>3, MapKeeps
<1>5. /\ pg'.pte[p] = Present(f, fault.perm) /\ IsPresent(Present(f, fault.perm))
      /\ FrameOf(Present(f, fault.perm)) = f
      /\ \A q \in Pages : q # p => pg'.pte[q] = pg.pte[q]
  BY <1>3, <1>4, EntryCases
<1>6. mm # NoMm
  BY <1>1 DEF PageInv, FaultOpen
<1>7. OthersSame(p)
  BY <1>1, <1>5, ContentIs DEF OthersSame, Holding
<1>8. Content(p) = Untouched /\ Content(p)' \in Values
  <2>1. /\ Content(p) = Holding(mm, pg.pte[p], data, disk, p)
        /\ Content(p)' = Holding(mm, Present(f, fault.perm), data', disk, p)
        /\ Present(f, fault.perm) # Zero
    BY <1>1, <1>3, <1>5, ContentIs
  <2> QED BY <1>1, <1>3, <1>5, <1>6, <2>1 DEF Holding
<1>9. pc # "run"
  BY <1>1
<1> QED BY <1>1, <1>3, <1>7, <1>8, <1>9, FlatChanges

LEMMA SwapInFlat ==
  ASSUME PageInv, PageInv', SwapIn
  PROVE  FlatStep
<1>0. PICK p : p = fault.page
  OBVIOUS
<1>1. /\ pc = "page" /\ pg.pte[p] # Zero
      /\ UNCHANGED <<mm, disk, swap_init_ok, fault, held, managed>>
  BY <1>0 DEF SwapIn, handlerVars, runVars
<1>2. swap_init_ok /\ SlotRead(pg.pte[p]) = {disk[p]} /\ p \in Pages
  BY <1>0, <1>1, SlotOfPage
<1>3. PICK f \in pg.free :
        /\ data' = [data EXCEPT ![f] = disk[p]]
        /\ pg' = page_insert([pg EXCEPT !.free = @ \ {f}], f, fault.page, fault.perm)
        /\ Enqueue(f)
        /\ pc' = "run"
  BY <1>0, <1>2 DEF SwapIn
<1>4. /\ data \in [Frames -> Values] /\ disk \in [Pages -> Values] /\ f \in Frames
      /\ fault.perm \in SUBSET {"U", "W"} /\ pg.pte \in [Pages -> Entries]
      /\ mm # NoMm /\ ~IsPresent(pg.pte[p])
      /\ \A q \in Pages : IsPresent(pg.pte[q]) => FrameOf(pg.pte[q]) \in Frames /\ FrameOf(pg.pte[q]) # f
  BY <1>0, <1>1 DEF PageInv, DataType, Counted, PgType, FaultOpen
<1>5. data' \in [Frames -> Values]
  BY <1>2, <1>3, <1>4
<1>6. pg'.pte = [pg.pte EXCEPT ![p] = Present(f, fault.perm)]
  BY <1>0, <1>1, <1>2, <1>3, <1>5, MapKeeps
<1>7. /\ pg'.pte[p] = Present(f, fault.perm) /\ IsPresent(Present(f, fault.perm))
      /\ FrameOf(Present(f, fault.perm)) = f
      /\ \A q \in Pages : q # p => pg'.pte[q] = pg.pte[q]
  BY <1>2, <1>4, <1>6, EntryCases
<1>8. data'[f] = disk[p] /\ \A g \in Frames : g # f => data'[g] = data[g]
  BY <1>3, <1>4
<1>9. ASSUME NEW q \in Pages PROVE Content(q)' = Content(q)
  <2>1. CASE q = p
    <3>1. Present(f, fault.perm) # Zero
      BY <1>7, <2>1, ContentIs
    <3>2. Content(p) = disk[p]
      BY <1>1, <1>2, <1>4, ContentIs DEF Holding
    <3>3. Content(p)' = Holding(mm, Present(f, fault.perm), data', disk, p)
      BY <1>1, <1>2, <1>7, ContentIs
    <3>4. Content(p)' = disk[p]
      BY <1>4, <1>7, <1>8, <3>1, <3>3 DEF Holding
    <3> QED BY <2>1, <3>2, <3>4
  <2>2. CASE q # p
    <3>1. Content(q)' = Holding(mm, pg.pte[q], data', disk, q) /\ Content(q) = Holding(mm, pg.pte[q], data, disk, q)
      BY <1>1, <1>7, <2>2, ContentIs
    <3> QED BY <1>4, <1>8, <3>1 DEF Holding
  <2> QED BY <2>1, <2>2
<1> QED BY <1>9, FlatKeeps DEF MemSame

\* Swapping out is not seen: the page's slot holds what its frame held.
LEMMA SwapOutFlat ==
  ASSUME PageInv, PageInv', SwapOut
  PROVE  FlatStep
<1> DEFINE f == pra_list[Len(pra_list)]
           p == pra_vaddr[f]
<1>1. UNCHANGED <<mm, data, pc>> /\ mm # NoMm
  BY DEF SwapOut, NeedsFrame, handlerVars, PageInv, FaultOpen
<1>2. /\ p \in Pages /\ IsPresent(pg.pte[p]) /\ FrameOf(pg.pte[p]) = f
      /\ pg'.pte = [pg.pte EXCEPT ![p] = Swapped(p)]
      /\ disk' = [disk EXCEPT ![p] = data[f]]
  BY SwapOutKeeps
<1> HIDE DEF p, f
<1>3. pg.pte \in [Pages -> Entries] /\ disk \in [Pages -> Values]
  BY DEF PageInv, DataType, Counted, PgType
<1>4. /\ pg'.pte[p] = Swapped(p) /\ ~IsPresent(Swapped(p)) /\ Swapped(p) # Zero
      /\ disk'[p] = data[f]
      /\ \A q \in Pages : q # p => pg'.pte[q] = pg.pte[q] /\ disk'[q] = disk[q]
  BY <1>2, <1>3, EntryCases
<1>5. ASSUME NEW q \in Pages PROVE Content(q)' = Content(q)
  <2>1. CASE q = p
    <3>1. pg.pte[p] # Zero
      BY <1>2, ContentIs
    <3> QED BY <1>1, <1>2, <1>4, <2>1, <3>1, ContentIs DEF Holding
  <2>2. CASE q # p
    BY <1>1, <1>4, <2>2, ContentIs DEF Holding
  <2> QED BY <2>1, <2>2
<1> QED BY <1>5, FlatKeeps DEF MemSame

LEMMA FlatInit == Init => Flat!Init
<1> SUFFICES ASSUME Init PROVE Flat!Init
  OBVIOUS
<1>1. mm = NoMm /\ pc = "run"
  BY DEF Init
<1>2. \A p \in Pages : Content(p) = Untouched
  BY <1>1 DEF Content
<1> QED BY <1>1, <1>2 DEF Flat!Init

LEMMA FlatNext ==
  ASSUME FreeInv, FreeInv', mode = "free", [Next]_vars
  PROVE  FlatStep /\ mode' = "free"
<1>1. mode' = mode
  BY DEF Next, vars, runVars, Handler, SwapOut, NoMemory, GetPte, MapNewPage, SwapIn, handlerVars
<1> SUFFICES FlatStep
  BY <1>1
<1>2. PageInv /\ PageInv' /\ IInv
  BY <1>1 DEF FreeInv
<1>3. CASE UNCHANGED vars
  BY <1>2, <1>3, SameMemory DEF vars
<1>4. CASE NoMemory
  BY <1>2, <1>4, SameMemory DEF NoMemory, handlerVars, swapVars
<1>5. CASE GetPte
  <2>1. pg'.pte = pg.pte
    BY <1>2, <1>5, GetPteKeeps
  <2>2. UNCHANGED <<mm, data, disk>>
    BY <1>5 DEF GetPte, handlerVars, swapVars
  <2> QED BY <1>2, <2>1, <2>2, SameMemory
<1>6. CASE SwapOut \/ MapNewPage \/ SwapIn
  BY <1>2, <1>6, SwapOutFlat, MapNewPageFlat, SwapInFlat
<1>7. CASE pc = "run" /\ FreeRun /\ UNCHANGED runVars
  <2>1. UNCHANGED managed
    BY <1>7 DEF runVars
  <2>2. CASE pg.free = managed /\ (mm_create \/ mm_destroy \/ swap_init)
    <3>1. \A p \in Pages : pg.pte[p] = Zero
      <4>1. pg.pt = NoFrame
        BY <2>2 DEF mm_create, mm_destroy, swap_init
      <4> QED BY <1>2, <4>1 DEF PageInv, Counted
    <3>2. pg' = pg
      BY <2>2 DEF mm_create, mm_destroy, swap_init
    <3> QED BY <1>2, <3>1, <3>2, SameMemory
  <2>3. CASE (\A p \in Pages : pg.pte[p] = Zero) /\ DropTable
    <3>1. pg'.pte = pg.pte
      BY <1>2, <2>3, DropCounted DEF DropTable, PageInv, DataType
    <3> QED BY <1>2, <2>3, <3>1, SameMemory DEF DropTable
  <2>4. CASE mm = NoMm /\ ~swap_init_ok /\ AllocPage
    BY <1>2, <2>4, SameMemory DEF AllocPage
  <2>5. CASE /\ mm = NoMm /\ ~swap_init_ok
             /\ \E i \in 1 .. Len(held), p \in Pages, perm \in SUBSET {"U", "W"} :
                  held[i] \notin pg.free \cup {pg.pt} /\ PageInsert(i, p, perm)
    BY <1>2, <2>5, SameMemory DEF PageInsert
  <2>6. CASE ~swap_init_ok /\ \E p \in Pages : page_remove(p)
    BY <1>2, <1>7, <2>6, PageRemoveFlat
  <2>7. CASE \E vma \in FreeAreas : insert_vma_struct(vma)
    BY <1>2, <2>7, InsertVmaFlat
  <2>8. CASE \E op : Access(op)
    <3>1. PICK op : Access(op)
      BY <2>8
    <3>2. mm # NoMm /\ op.addr \in FreeAddrs /\ op.val \in Values
      BY <3>1 DEF Access
    <3>3. CASE AccessHits(op)
      BY <1>2, <1>7, <2>1, <3>2, <3>3, AccessHitsFlat
    <3>4. CASE AccessFaults(op)
      BY <1>2, <3>2, <3>4, AccessFaultsFlat
    <3> QED BY <3>1, <3>3, <3>4 DEF Access
  <2> QED BY <1>7, <2>2, <2>3, <2>4, <2>5, <2>6, <2>7, <2>8, FreeRunSteps
<1> QED BY <1>3, <1>4, <1>5, <1>6, <1>7 DEF Next, Handler

\* Page faults, the swapping of pages and the queue's choice of them cannot be seen by the
\* program: a page holds what was last written to it until page_remove gives it up.
THEOREM FlatSpecCorrect == Spec /\ mode = "free" => FlatSpec
<1> DEFINE Free == mode = "free"
<1>1. Free /\ FreeInv /\ FreeInv' /\ [Next]_vars => Free' /\ [Flat!Next]_(Flat!vars)
  BY FlatNext DEF FlatStep, Flat!vars
<1> HIDE DEF Free
<1>2. Spec /\ Free => Flat!Spec
  BY <1>1, FlatInit, FreeAlways, PTL DEF Spec, Flat!Spec
<1> QED BY <1>2 DEF Free, FlatSpec
=============================================================================
