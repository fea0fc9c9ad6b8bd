--------------------------------- MODULE LRU ---------------------------------
(***************************************************************************)
(* What a cache with least recently used replacement does: each set keeps  *)
(* its blocks in the order of their last use, most recent first, and when  *)
(* it is full forgets the last of them.                                    *)
(***************************************************************************)
EXTENDS Integers, Sequences, SequencesExt

CONSTANTS
  Sets,
  Tags,
  Ways      \* blocks a set holds

VARIABLES
  order,    \* for each set its tags, most recently used first
  hits, misses, evictions

vars == <<order, hits, misses, evictions>>

Init == order = [x \in Sets |-> <<>>] /\ hits = 0 /\ misses = 0 /\ evictions = 0

Position(q, tag) == CHOOSE i \in 1 .. Len(q) : q[i] = tag

\* tag goes to the front, from wherever it was
Recent(q, tag) == <<tag>> \o (IF tag \in ToSet(q) THEN RemoveAt(q, Position(q, tag)) ELSE q)

\* one reference hits or misses; times - 1 more to the same block hit
Access(x, tag, times) ==
  LET q == order[x]
      inside == tag \in ToSet(q)
      full == Len(q) = Ways
  IN  /\ order' = [order EXCEPT ![x] =
                     IF inside \/ ~ full THEN Recent(q, tag) ELSE Recent(Front(q), tag)]
      /\ hits' = hits + times - (IF inside THEN 0 ELSE 1)
      /\ misses' = misses + (IF inside THEN 0 ELSE 1)
      /\ evictions' = evictions + (IF ~ inside /\ full THEN 1 ELSE 0)

Next == \E x \in Sets, tag \in Tags, times \in 1 .. 2 : Access(x, tag, times)

Spec == Init /\ [][Next]_vars
=============================================================================
