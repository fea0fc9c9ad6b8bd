----------------------------- MODULE NatLemmas ------------------------------
(***************************************************************************)
(* Facts the proofs share. Minima and maxima: a search of an array from its *)
(* first index returns the least index of a set, and a scan for the largest *)
(* value returns an upper bound. Loops: Iterate goes on from turn to turn.  *)
(***************************************************************************)
EXTENDS Loops, Integers, FiniteSetsExt, WellFoundedInduction, TLAPS

NatLess == {p \in Nat \X Nat : p[1] < p[2]}

\* The library's well-foundedness of <, with the relation as a set of pairs.
LEMMA NatLessWellFounded == IsWellFoundedOn(NatLess, Nat)
<1>1. NatLess = OpToRel(<, Nat)
  BY Zenon DEF NatLess, OpToRel
<1> QED BY <1>1, NatLessThanWellFounded, Zenon

\* Every non-empty set of naturals has a least element.
LEMMA LeastNat ==
  ASSUME NEW T \in SUBSET Nat, T # {}
  PROVE  \E m \in T : \A k \in T : m <= k
<1>1. PICK m \in T : \A y \in T : ~(<<y, m>> \in NatLess)
  BY NatLessWellFounded, WFMin, Zenon
<1>2. ASSUME NEW k \in T PROVE m <= k
  <2>1. k \in Nat /\ m \in Nat
    OBVIOUS
  <2>2. <<k, m>> \notin NatLess
    BY <1>1
  <2>3. ~(k < m)
    BY <2>1, <2>2 DEF NatLess
  <2> QED BY <2>1, <2>3
<1> QED BY <1>2

\* Min of a non-empty set of naturals is a member, and the least one.
LEMMA MinOfNats ==
  ASSUME NEW T \in SUBSET Nat, T # {}
  PROVE  Min(T) \in T /\ \A k \in T : Min(T) <= k
BY LeastNat DEF Min

\* The values of an array of naturals are bounded.
LEMMA ArrayBounded ==
  ASSUME NEW n \in Nat, NEW f \in [1 .. n -> Nat]
  PROVE  \E b \in Nat : \A i \in 1 .. n : f[i] <= b
<1> DEFINE Open == {k \in 0 .. n : \A b \in Nat : \E i \in 1 .. k : ~(f[i] <= b)}
<1>1. SUFFICES Open = {}
  <2>1. n \notin Open
    BY <1>1
  <2> QED BY <2>1
<1>2. SUFFICES ASSUME Open # {} PROVE FALSE
  OBVIOUS
<1>3. Open \in SUBSET Nat
  OBVIOUS
<1>4. PICK m \in Open : \A k \in Open : m <= k
  <2> HIDE DEF Open
  <2> QED BY <1>2, <1>3, LeastNat
<1>5. m # 0
  BY <1>4
<1>6. m - 1 \in 0 .. n /\ m - 1 \notin Open
  <2>1. m \in 0 .. n
    BY <1>4
  <2>2. m - 1 \in 0 .. n /\ ~(m <= m - 1)
    BY <2>1, <1>5
  <2> HIDE DEF Open
  <2> QED BY <2>2, <1>4
<1>7. PICK b \in Nat : \A i \in 1 .. m - 1 : f[i] <= b
  BY <1>6
<1>8. f[m] \in Nat
  BY <1>4, <1>5
<1>9. \A i \in 1 .. m : f[i] <= b + f[m]
  <2> SUFFICES ASSUME NEW i \in 1 .. m PROVE f[i] <= b + f[m]
    OBVIOUS
  <2>1. f[i] \in Nat
    BY <1>4
  <2>2. CASE i = m
    BY <2>1, <2>2, <1>8
  <2>3. CASE i # m
    <3>1. f[i] <= b
      BY <1>7, <2>3, <1>4
    <3> QED BY <3>1, <2>1, <1>8
  <2> QED BY <2>2, <2>3
<1>10. b + f[m] \in Nat
  BY <1>8
<1> QED BY <1>4, <1>9, <1>10

\* Max of the values of an array of naturals and 0 is one of them, and no value
\* exceeds it.
LEMMA MaxOfArray ==
  ASSUME NEW n \in Nat, NEW f \in [1 .. n -> Nat]
  PROVE  LET V == {0} \cup {f[i] : i \in 1 .. n}
         IN  Max(V) \in V /\ Max(V) \in Nat /\ \A v \in V : v <= Max(V)
<1> DEFINE V == {0} \cup {f[i] : i \in 1 .. n}
           Bounds == {b \in Nat : \A v \in V : v <= b}
<1>1. V \subseteq Nat
  OBVIOUS
<1>2. Bounds # {}
  <2>1. PICK b \in Nat : \A i \in 1 .. n : f[i] <= b
    BY ArrayBounded
  <2>2. b \in Bounds
    BY <2>1
  <2> QED BY <2>2
<1>3. PICK b \in Bounds : \A c \in Bounds : b <= c
  <2>1. Bounds \in SUBSET Nat
    OBVIOUS
  <2> HIDE DEF Bounds
  <2> QED BY <1>2, <2>1, LeastNat
<1>4. b \in V
  <2>1. SUFFICES ASSUME b \notin V PROVE FALSE
    OBVIOUS
  <2>2. b # 0
    BY <2>1
  <2>3. \A v \in V : v <= b - 1
    <3> SUFFICES ASSUME NEW v \in V PROVE v <= b - 1
      OBVIOUS
    <3>1. v \in Nat /\ b \in Nat /\ v <= b /\ v # b
      BY <1>1, <2>1
    <3> QED BY <3>1
  <2>4. b - 1 \in Bounds
    BY <2>2, <2>3
  <2>5. b <= b - 1
    BY <2>4, <1>3
  <2> QED BY <2>5
<1>5. \A v \in V : b >= v
  BY <1>1
<1>6. Max(V) \in V /\ \A v \in V : Max(V) >= v
  <2> HIDE DEF V
  <2> QED BY <1>4, <1>5 DEF Max
<1>7. \A v \in V : v <= Max(V)
  <2> HIDE DEF V
  <2> QED BY <1>1, <1>6
<1> QED BY <1>1, <1>6, <1>7

\* Max of integers from an interval is a member, and the largest one.
LEMMA MaxOfInterval ==
  ASSUME NEW a \in Int, NEW b \in Int, NEW T \in SUBSET (a .. b), T # {}
  PROVE  /\ Max(T) \in T /\ Max(T) \in Int
         /\ \A k \in T : k <= Max(T)
<1> DEFINE D == {b - k : k \in T}
<1>1. D \in SUBSET Nat /\ D # {}
  <2>1. ASSUME NEW k \in T PROVE b - k \in Nat
    <3>1. k \in Int /\ k <= b
      OBVIOUS
    <3> QED BY <3>1
  <2> QED BY <2>1
<1>2. PICK d \in D : \A e \in D : d <= e
  <2> HIDE DEF D
  <2> QED BY <1>1, LeastNat
<1>3. PICK m \in T : d = b - m
  BY <1>2
<1>4. \A k \in T : m >= k
  <2> SUFFICES ASSUME NEW k \in T PROVE m >= k
    OBVIOUS
  <2>1. d <= b - k
    BY <1>2
  <2>2. k \in Int /\ m \in Int
    BY <1>3
  <2> QED BY <2>1, <2>2, <1>3
<1>5. Max(T) \in T /\ \A k \in T : Max(T) >= k
  BY <1>3, <1>4 DEF Max
<1>6. \A k \in T : k \in Int
  OBVIOUS
<1>7. ASSUME NEW k \in T PROVE k <= Max(T)
  <2>1. Max(T) >= k /\ Max(T) \in Int /\ k \in Int
    BY <1>5, <1>6
  <2> QED BY <2>1
<1> QED BY <1>5, <1>6, <1>7

\* A member that no other exceeds is Max, one that exceeds no other is Min.
LEMMA MaxIs ==
  ASSUME NEW T \in SUBSET Int, NEW m \in T, \A k \in T : k <= m
  PROVE  Max(T) = m
<1>1. \A k \in T : m >= k
  OBVIOUS
<1>2. Max(T) \in T /\ \A k \in T : Max(T) >= k
  BY <1>1 DEF Max
<1>3. Max(T) <= m /\ Max(T) >= m
  BY <1>2
<1>4. Max(T) \in Int /\ m \in Int
  BY <1>2
<1> QED BY <1>3, <1>4

LEMMA MinIs ==
  ASSUME NEW T \in SUBSET Int, NEW m \in T, \A k \in T : m <= k
  PROVE  Min(T) = m
<1>1. Min(T) \in T /\ \A k \in T : Min(T) <= k
  BY DEF Min
<1>2. Min(T) <= m /\ m <= Min(T)
  BY <1>1
<1>3. Min(T) \in Int /\ m \in Int
  BY <1>1
<1> QED BY <1>2, <1>3

---------------------------------------------------------------------------

\* f is what a loop that starts at x and goes on along next does in n turns.
LoopRun(x, next, n, f) == f = [k \in 0 .. n |-> IF k = 0 THEN x ELSE next[f[k - 1]]]

\* Two runs of the same loop agree as far as both go.
LEMMA RunUnique ==
  ASSUME NEW x, NEW next, NEW n \in Nat, NEW m \in Nat, NEW f, NEW g,
         LoopRun(x, next, n, f), LoopRun(x, next, m, g)
  PROVE  \A k \in Nat : k <= n /\ k <= m => f[k] = g[k]
<1> DEFINE Bad == {k \in Nat : k <= n /\ k <= m /\ f[k] # g[k]}
<1>1. SUFFICES Bad = {}
  OBVIOUS
<1>2. SUFFICES ASSUME Bad # {} PROVE FALSE
  OBVIOUS
<1>3. PICK k \in Bad : \A j \in Bad : k <= j
  <2>1. Bad \in SUBSET Nat
    OBVIOUS
  <2> HIDE DEF Bad
  <2> QED BY <1>2, <2>1, LeastNat
<1>4. k \in 0 .. n /\ k \in 0 .. m /\ f[k] # g[k]
  BY <1>3
<1>5. f[k] = IF k = 0 THEN x ELSE next[f[k - 1]]
  BY <1>4 DEF LoopRun
<1>6. g[k] = IF k = 0 THEN x ELSE next[g[k - 1]]
  BY <1>4 DEF LoopRun
<1>7. k # 0
  BY <1>4, <1>5, <1>6
<1>8. k - 1 \in Nat /\ k - 1 <= n /\ k - 1 <= m /\ ~(k <= k - 1)
  BY <1>4, <1>7
<1>9. f[k - 1] = g[k - 1]
  BY <1>3, <1>8
<1> QED BY <1>4, <1>5, <1>6, <1>7, <1>9

\* A loop has a run of every number of turns.
LEMMA RunExists ==
  ASSUME NEW x, NEW next
  PROVE  \A n \in Nat : \E f : LoopRun(x, next, n, f)
<1> DEFINE Bad == {n \in Nat : ~ \E f : LoopRun(x, next, n, f)}
<1>1. SUFFICES ASSUME Bad # {} PROVE FALSE
  OBVIOUS
<1>2. PICK n \in Bad : \A j \in Bad : n <= j
  <2>1. Bad \in SUBSET Nat
    OBVIOUS
  <2> HIDE DEF Bad
  <2> QED BY <1>1, <2>1, LeastNat
<1>3. n # 0
  <2>1. LoopRun(x, next, 0, [k \in 0 .. 0 |-> x])
    BY DEF LoopRun
  <2> QED BY <1>2, <2>1
<1>4. n \in Nat /\ n - 1 \in Nat /\ ~(n <= n - 1)
  BY <1>2, <1>3
<1>5. PICK f : LoopRun(x, next, n - 1, f)
  BY <1>2, <1>4
<1> DEFINE g == [k \in 0 .. n |-> IF k = n THEN next[f[n - 1]] ELSE f[k]]
<1>6. \A k \in 0 .. n : g[k] = IF k = 0 THEN x ELSE next[g[k - 1]]
  <2> SUFFICES ASSUME NEW k \in 0 .. n PROVE g[k] = IF k = 0 THEN x ELSE next[g[k - 1]]
    OBVIOUS
  <2>1. CASE k = n
    BY <2>1, <1>4
  <2>2. CASE k # n
    <3>1. k \in 0 .. n - 1 /\ (k # 0 => k - 1 \in 0 .. n /\ k - 1 # n)
      BY <2>2, <1>4
    <3>2. f[k] = IF k = 0 THEN x ELSE next[f[k - 1]]
      BY <3>1, <1>5 DEF LoopRun
    <3> QED BY <2>2, <3>1, <3>2
  <2> QED BY <2>1, <2>2
<1>7. LoopRun(x, next, n, g)
  BY <1>6 DEF LoopRun
<1> QED BY <1>2, <1>7

\* The loop of Iterate goes on from each turn to the next.
LEMMA IterateDef ==
  ASSUME NEW x, NEW next
  PROVE  Iterate(x, next) = [k \in Nat |-> IF k = 0 THEN x ELSE next[Iterate(x, next)[k - 1]]]
<1> DEFINE R(n) == CHOOSE f : LoopRun(x, next, n, f)
           all == [k \in Nat |-> R(k)[k]]
<1>1. \A n \in Nat : LoopRun(x, next, n, R(n))
  BY RunExists
<1>2. ASSUME NEW k \in Nat PROVE all[k] = IF k = 0 THEN x ELSE next[all[k - 1]]
  <2>1. R(k)[k] = IF k = 0 THEN x ELSE next[R(k)[k - 1]]
    <3> HIDE DEF R
    <3> QED BY <1>1 DEF LoopRun
  <2>2. CASE k = 0
    BY <2>1, <2>2
  <2>3. CASE k # 0
    <3>1. k - 1 \in Nat /\ k - 1 <= k
      BY <2>3
    <3>2. R(k - 1)[k - 1] = R(k)[k - 1]
      <4>1. LoopRun(x, next, k - 1, R(k - 1)) /\ LoopRun(x, next, k, R(k))
        <5> HIDE DEF R
        <5> QED BY <1>1, <3>1
      <4> HIDE DEF R
      <4> QED BY <4>1, <3>1, RunUnique
    <3> QED BY <2>1, <2>3, <3>1, <3>2
  <2> QED BY <2>2, <2>3
<1>3. all = [k \in Nat |-> IF k = 0 THEN x ELSE next[all[k - 1]]]
  <2>1. all = [k \in Nat |-> all[k]]
    OBVIOUS
  <2> HIDE DEF all
  <2> QED BY <2>1, <1>2
<1> HIDE DEF all
<1> QED BY <1>3 DEF Iterate

\* A loop starts at x and goes on from each turn to the next.
LEMMA IterateStep ==
  ASSUME NEW x, NEW next
  PROVE  /\ Iterate(x, next)[0] = x
         /\ \A k \in Nat : Iterate(x, next)[k + 1] = next[Iterate(x, next)[k]]
<1>1. \A f : f = [k \in Nat |-> IF k = 0 THEN x ELSE next[f[k - 1]]] =>
        f[0] = x /\ \A k \in Nat : f[k + 1] = next[f[k]]
  OBVIOUS
<1> QED BY <1>1, IterateDef
=============================================================================
