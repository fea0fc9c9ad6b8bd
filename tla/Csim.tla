-------------------------------- MODULE Csim --------------------------------
(***************************************************************************)
(* The cache simulator of the cache lab (csim.c): every line of a trace is *)
(* one or two references, after which all valid lines age by one.  The     *)
(* format of fscanf, %xu, does not match the comma after the address: the  *)
(* size is read by a turn of the loop of its own, which only ages.         *)
(***************************************************************************)
EXTENDS Integers, FiniteSets

CONSTANTS
  S, B,        \* number of sets (2^s) and size of a block (2^b)
  E,           \* lines of a set
  Addresses,   \* addresses in the trace
  MaxLines     \* bound: lines of the trace

\* At least two sets: with s = 0 the mask of setindex_add keeps all bits.
ASSUME CsimAssumption ==
  /\ S \in Nat \ {0, 1} /\ B \in Nat \ {0} /\ E \in Nat \ {0}
  /\ Addresses \subseteq Nat
  /\ MaxLines \in Nat

VARIABLES
  cache,      \* the lines of each set
  hit_count, miss_count, eviction_count,
  lines,      \* how many lines of the trace were read
  size_left   \* whether the next turn reads the size of the last line

cachevars == <<cache, hit_count, miss_count, eviction_count, lines, size_left>>

Sets == 0 .. S - 1
Ways == 1 .. E

\* The mask (-1U) >> (64 - s) is an undefined shift. The processor takes its count
\* modulo 32, which for 1 <= s <= 31 gives the s low bits that are meant.
setindex_add(address) == (address \div B) % S
tag_add(address) == (address \div B) \div S
NoLine == [valid_bits |-> FALSE, tag |-> -1, stamp |-> -1]

CacheTypeOK ==
  /\ cache \in [Sets -> [Ways -> {NoLine} \cup [valid_bits : {TRUE}, tag : Nat, stamp : Nat]]]
  /\ hit_count \in Nat /\ miss_count \in Nat /\ eviction_count \in Nat
  /\ lines \in 0 .. MaxLines
  /\ size_left \in BOOLEAN

CacheInit ==
  /\ cache = [x \in Sets |-> [i \in Ways |-> NoLine]]
  /\ hit_count = 0 /\ miss_count = 0 /\ eviction_count = 0
  /\ lines = 0
  /\ size_left = FALSE

(***************************************************************************)
(* update_stamp, and update: a hit, a free line, or the oldest line.       *)
(***************************************************************************)
Aged(c) == [x \in Sets |-> [i \in Ways |->
             IF c[x][i].valid_bits THEN [c[x][i] EXCEPT !.stamp = @ + 1] ELSE c[x][i]]]

First(I) == CHOOSE i \in I : \A j \in I : i <= j

\* the test for a hit does not look at the valid bit
Hits(c, address) == {i \in Ways : c[setindex_add(address)][i].tag = tag_add(address)}
Empty(c, address) == {i \in Ways : ~ c[setindex_add(address)][i].valid_bits}

\* wrong: the first line is replaced
OldestFirst(c, address) == Ways

Oldest(c, address) ==
  LET line == c[setindex_add(address)]
  IN  {i \in Ways : \A j \in Ways : line[j].stamp <= line[i].stamp}

Loaded(address) == [valid_bits |-> TRUE, tag |-> tag_add(address), stamp |-> 0]

\* wrong: a free line is taken before the tags are compared
PlacedSwapped(c, address) ==
  IF Empty(c, address) # {}
  THEN [c EXCEPT ![setindex_add(address)][First(Empty(c, address))] = Loaded(address)]
  ELSE IF Hits(c, address) # {}
  THEN [c EXCEPT ![setindex_add(address)][First(Hits(c, address))].stamp = 0]
  ELSE [c EXCEPT ![setindex_add(address)][First(Oldest(c, address))] = Loaded(address)]

\* where update puts the block
Placed(c, address) ==
  IF Hits(c, address) # {}
  THEN [c EXCEPT ![setindex_add(address)][First(Hits(c, address))].stamp = 0]
  ELSE IF Empty(c, address) # {}
  THEN [c EXCEPT ![setindex_add(address)][First(Empty(c, address))] = Loaded(address)]
  ELSE [c EXCEPT ![setindex_add(address)][First(Oldest(c, address))] = Loaded(address)]

Missed(c, address) == IF Hits(c, address) = {} THEN 1 ELSE 0
Evicted(c, address) == IF Hits(c, address) = {} /\ Empty(c, address) = {} THEN 1 ELSE 0

NextLine ==
  /\ ~ size_left
  /\ lines < MaxLines
  /\ lines' = lines + 1
  /\ size_left' = TRUE

\* a line 'L' or 'S' of the trace
LoadOrStore(address) ==
  /\ NextLine
  /\ cache' = Aged(Placed(cache, address))
  /\ hit_count' = hit_count + 1 - Missed(cache, address)
  /\ miss_count' = miss_count + Missed(cache, address)
  /\ eviction_count' = eviction_count + Evicted(cache, address)

\* a line 'M': 'case M' falls through to 'case S'
Modify(address) ==
  /\ NextLine
  /\ LET c == Placed(cache, address)
     IN  /\ cache' = Aged(Placed(c, address))
         /\ hit_count' = hit_count + 2 - Missed(cache, address) - Missed(c, address)
         /\ miss_count' = miss_count + Missed(cache, address) + Missed(c, address)
         /\ eviction_count' = eviction_count + Evicted(cache, address) + Evicted(c, address)

\* a line 'I' references no data, but the lines age
Instruction ==
  /\ NextLine
  /\ cache' = Aged(cache)
  /\ UNCHANGED <<hit_count, miss_count, eviction_count>>

\* the rest of the line: the comma is taken for an operation
SizeField ==
  /\ size_left
  /\ size_left' = FALSE
  /\ cache' = Aged(cache)
  /\ UNCHANGED <<hit_count, miss_count, eviction_count, lines>>

CacheNext ==
  \/ \E address \in Addresses : LoadOrStore(address) \/ Modify(address)
  \/ Instruction
  \/ SizeField

CacheSpec == CacheInit /\ [][CacheNext]_cachevars

-----------------------------------------------------------------------------
(***************************************************************************)
(* Properties.                                                             *)
(***************************************************************************)
Valid(set) == {i \in Ways : set[i].valid_bits}

\* No two lines of a set are equally old, so the line to be replaced is the
\* only oldest one.
StampsDistinct ==
  \A x \in Sets : \A i, j \in Valid(cache[x]) : i # j => cache[x][i].stamp # cache[x][j].stamp

\* A block is in at most one line.
TagsDistinct ==
  \A x \in Sets : \A i, j \in Valid(cache[x]) : i # j => cache[x][i].tag # cache[x][j].tag

\* the valid tags of a set, youngest stamp first
Younger(set, i) == {j \in Valid(set) : set[j].stamp < set[i].stamp}
ByAge(set) ==
  [k \in 1 .. Cardinality(Valid(set)) |->
     set[CHOOSE i \in Valid(set) : Cardinality(Younger(set, i)) = k - 1].tag]

\* The counters and the contents of the cache are those of LRU replacement.
Ideal == INSTANCE LRU WITH Ways <- E, Tags <- {tag_add(a) : a \in Addresses},
                           order <- [x \in Sets |-> ByAge(cache[x])],
                           hits <- hit_count, misses <- miss_count, evictions <- eviction_count
LRUSpec == Ideal!Spec
=============================================================================
