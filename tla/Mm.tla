--------------------------------- MODULE Mm ---------------------------------
(***************************************************************************)
(* The allocator of malloclab (mm.c over memlib.c) under the requests of   *)
(* mdriver.  The heap is an array of words; addresses and sizes count      *)
(* words of WSIZE bytes, so that DSIZE is 2, a block size is even and its  *)
(* low bit is free for the allocated bit, as in the code.  Tags, list      *)
(* links and the caller's data share the words as they do in the code.     *)
(*                                                                         *)
(* A C function that writes the heap is an operator from a heap to a heap; *)
(* the pointer it returns is the field ptr.                                *)
(***************************************************************************)
EXTENDS Loops, Integers, FiniteSets

CONSTANTS
  MAX_HEAP,       \* words memlib can give out
  INITCHUNKSIZE,  \* words of the first free block
  CHUNKSIZE,      \* words the heap grows by at least
  BigBlock,       \* blocks of this many words and more go to the high end
  LISTMAX,        \* number of free lists
  Requests,       \* words of payload the traces ask for
  MaxBlocks,      \* blocks a trace holds at once
  MaxOps,         \* bound: requests of all traces together
  GrowsIntoGap    \* whether traces also make the reallocs that ShortGap describes

ASSUME MmAssumption ==
  /\ {MAX_HEAP, INITCHUNKSIZE, CHUNKSIZE, BigBlock, LISTMAX, MaxBlocks, MaxOps} \subseteq Nat \ {0}
  /\ Requests \subseteq Nat \ {0}
  /\ GrowsIntoGap \in BOOLEAN
  /\ INITCHUNKSIZE % 2 = 0 /\ CHUNKSIZE % 2 = 0
  /\ 4 <= INITCHUNKSIZE /\ 4 <= CHUNKSIZE
  /\ 4 + INITCHUNKSIZE <= MAX_HEAP

VARIABLES
  heap,           \* [mem, brk, lists, ptr]
  blocks,         \* the driver's table: what each index of the trace holds
  status,         \* how the trace goes
  ops             \* requests so far

vars == <<heap, blocks, status, ops>>

NULL  == 0
Addr  == 0 .. MAX_HEAP - 1
Lists == 0 .. LISTMAX - 1
Index == 1 .. MaxBlocks

ALIGN(size) == 2 * ((size + 1) \div 2)

\* wrong: the default size whatever was asked for
MAXDefault(x, y) == y

MAX(x, y) == IF x > y THEN x ELSE y

PACK(size, alloc)  == size + alloc
PUT(h, a, val)     == [h EXCEPT !.mem[a] = val]
GET_SIZE(h, a)     == h.mem[a] - (h.mem[a] % 2)
GET_ALLOC(h, a)    == h.mem[a] % 2
HDRP(p)            == p - 1
FTRP(h, p)         == p + GET_SIZE(h, HDRP(p)) - 2
NEXT_BLKP(h, p)    == p + GET_SIZE(h, p - 1)
PREV_BLKP(h, p)    == p - GET_SIZE(h, p - 2)
PRED(h, p)         == h.mem[p]
SUCC(h, p)         == h.mem[p + 1]

\* The header, then the footer its size leads to.
Tag(h, p, size, alloc) ==
  LET headed == PUT(h, HDRP(p), PACK(size, alloc))
  IN  PUT(headed, FTRP(headed, p), PACK(size, alloc))

\* The words of a block of n words of payload.
BlockSize(n) == IF n <= 2 THEN 4 ELSE ALIGN(n + 2)

\* The turns a loop takes until it is in stop
Turns(at, stop) ==
  CHOOSE k \in 0 .. MAX_HEAP : at[k] \in stop /\ \A j \in 0 .. k - 1 : at[j] \notin stop

\* size after k turns of size >>= 1, and the list those turns lead to
Halved(size, k) == Iterate(size, [s \in Nat |-> s \div 2])[k]
ListOf(size) ==
  CHOOSE l \in Lists : /\ l = LISTMAX - 1 \/ Halved(size, l) <= 1
                       /\ \A k \in 0 .. l - 1 : Halved(size, k) > 1

\* A list, from its head along the links PRED, the word at the entry itself
Entries(h, list) == Iterate(h.lists[list], h.mem)

\* Where a search for a block of size words ends
LargeEnough(h, size) == {p \in Nat : p = NULL \/ size <= GET_SIZE(h, HDRP(p))}

\* Bytes in whole words. The turns that halve the words of a block to n halve
\* its bytes to n in two turns more: what insert_node then compares with the
\* bytes of the entries is n bytes.
InWords(bytes) == (bytes + 3) \div 4

\* Where insert_node stops in its list: the entry before and the entry after.
Spot(h, list, size) ==
  LET at == Entries(h, list)
      k  == Turns(at, LargeEnough(h, size))
  IN  [before |-> IF k = 0 THEN NULL ELSE at[k - 1], after |-> at[k]]

\* Link p between the two entries of a spot.
LinkAt(h, p, list, spot) ==
  LET linked == PUT(PUT(h, p, spot.after), p + 1, spot.before)
      below  == IF spot.after = NULL THEN linked ELSE PUT(linked, spot.after + 1, p)
  IN  IF spot.before = NULL THEN [below EXCEPT !.lists[list] = p]
                            ELSE PUT(below, spot.before, p)

insert_node(h, p, size) ==
  LinkAt(h, p, ListOf(size), Spot(h, ListOf(size), InWords(Halved(size, ListOf(size)))))

delete_node(h, p) ==
  LET list  == ListOf(GET_SIZE(h, HDRP(p)))
      pred  == PRED(h, p)
      succ  == SUCC(h, p)
      below == IF pred = NULL THEN h ELSE PUT(h, pred + 1, succ)
  IN  IF succ = NULL THEN [below EXCEPT !.lists[list] = pred]
                     ELSE PUT(below, succ, pred)

\* wrong: the block above is never merged
coalesceDown(h, p) ==
  LET prev == PREV_BLKP(h, p)
      size == NEXT_BLKP(h, p) - prev
  IN  IF GET_ALLOC(h, HDRP(prev)) = 0
      THEN [insert_node(Tag(delete_node(delete_node(h, p), prev), prev, size, 0), prev, size)
              EXCEPT !.ptr = prev]
      ELSE [h EXCEPT !.ptr = p]

\* Merge a listed free block with its free neighbours.
coalesce(h, p) ==
  LET prev     == PREV_BLKP(h, p)
      next     == NEXT_BLKP(h, p)
      prevFree == GET_ALLOC(h, HDRP(prev)) = 0
      nextFree == GET_ALLOC(h, HDRP(next)) = 0
      first    == IF prevFree THEN prev ELSE p
      size     == next - first + IF nextFree THEN GET_SIZE(h, HDRP(next)) ELSE 0
      own      == delete_node(h, p)
      less     == IF prevFree THEN delete_node(own, prev) ELSE own
      alone    == IF nextFree THEN delete_node(less, next) ELSE less
  IN  IF prevFree \/ nextFree
      THEN [insert_node(Tag(alone, first, size, 0), first, size) EXCEPT !.ptr = first]
      ELSE [h EXCEPT !.ptr = p]

CanGrow(h, size) == h.brk + ALIGN(size) <= MAX_HEAP
mem_sbrk(h, size) == [h EXCEPT !.brk = @ + size]

extend_heap(h, n) ==
  LET size   == ALIGN(n)
      p      == h.brk
      tagged == Tag(mem_sbrk(h, size), p, size, 0)
      ended  == PUT(tagged, HDRP(NEXT_BLKP(tagged, p)), PACK(0, 1))
  IN  IF CanGrow(h, n) THEN coalesce(insert_node(ended, p, size), p)
                       ELSE [h EXCEPT !.ptr = NULL]

\* Give size words of a free block away; what is worth a block stays free,
\* below a large block and above a small one.
place(h, p, size) ==
  LET whole     == GET_SIZE(h, HDRP(p))
      remainder == whole - size
      taken     == delete_node(h, p)
      high      == p + remainder
      low       == p + size
  IN  CASE remainder < 4 -> [Tag(taken, p, whole, 1) EXCEPT !.ptr = p]
        [] remainder >= 4 /\ size >= BigBlock ->
             [insert_node(Tag(Tag(taken, p, remainder, 0), high, size, 1), p, remainder)
                EXCEPT !.ptr = high]
        [] remainder >= 4 /\ size < BigBlock ->
             [insert_node(Tag(Tag(taken, p, size, 1), low, remainder, 0), low, remainder)
                EXCEPT !.ptr = p]

\* The first block of a list that is large enough, NULL if there is none.
FirstIn(h, list, size) ==
  LET at == Entries(h, list)
  IN  at[Turns(at, LargeEnough(h, size))]

\* wrong: only the list of the size itself
SearchedOne(h, size) == {l \in Lists : l = ListOf(size) /\ FirstIn(h, l, size) # NULL}

\* The lists mm_malloc looks at: those the halved size has reached 1 by.
Searched(h, size) ==
  {l \in Lists : Halved(size, l) <= 1 /\ FirstIn(h, l, size) # NULL}

\* Give size words of the block a heap points to away, if it points to one.
PlaceAt(h, size) == IF h.ptr = NULL THEN h ELSE place(h, h.ptr, size)

mm_malloc(h, n) ==
  LET size == BlockSize(n)
      hits == Searched(h, size)
  IN  IF hits # {}
      THEN place(h, FirstIn(h, CHOOSE l \in hits : \A k \in hits : l <= k, size), size)
      ELSE PlaceAt(extend_heap(h, MAX(size, CHUNKSIZE)), size)

mm_free(h, p) ==
  LET size == GET_SIZE(h, HDRP(p))
  IN  coalesce(insert_node(Tag(h, p, size, 0), p, size), p)

\* memcpy of k words
Copy(h, to, from, k) ==
  [h EXCEPT !.mem = [a \in Addr |-> IF a \in to .. to + k - 1 THEN @[a - to + from] ELSE @[a]]]

CRASH == -1

\* wrong: the old block is given back before its data is copied
mm_reallocFreed(h, p, n) ==
  LET size  == BlockSize(n)
      have  == GET_SIZE(h, HDRP(p))
      moved == mm_malloc(mm_free(h, p), size)
  IN  IF have >= size THEN [h EXCEPT !.ptr = p]
      ELSE IF moved.ptr = NULL THEN [moved EXCEPT !.ptr = CRASH]
      ELSE Copy(moved, moved.ptr, p, have)

\* A block that must grow takes the free block above it, or what the heap can
\* be extended by, and moves otherwise.  memcpy to NULL ends the program.
mm_realloc(h, p, n) ==
  LET size  == BlockSize(n)
      have  == GET_SIZE(h, HDRP(p))
      next  == NEXT_BLKP(h, p)
      above == GET_SIZE(h, HDRP(next))
      spare == have + above - size
      more  == IF spare < 0 THEN MAX(-spare, CHUNKSIZE) ELSE 0
      grown == IF spare < 0 THEN extend_heap(h, more) ELSE [h EXCEPT !.ptr = p]
      taken == delete_node(grown, NEXT_BLKP(grown, p))
      moved == mm_malloc(h, size)
  IN  IF have >= size THEN [h EXCEPT !.ptr = p]
      ELSE IF GET_ALLOC(h, HDRP(next)) = 0 \/ above = 0
      THEN IF grown.ptr = NULL THEN grown
           ELSE [Tag(taken, p, size + spare + more, 1) EXCEPT !.ptr = p]
      ELSE IF moved.ptr = NULL THEN [moved EXCEPT !.ptr = CRASH]
      ELSE [mm_free(Copy(moved, moved.ptr, p, have), p) EXCEPT !.ptr = moved.ptr]

mm_init(h) ==
  LET empty == [mem_sbrk([h EXCEPT !.brk = 0], 4) EXCEPT !.lists = [l \in Lists |-> NULL]]
      prologue == PUT(PUT(PUT(PUT(empty, 0, 0), 1, PACK(2, 1)), 2, PACK(2, 1)), 3, PACK(0, 1))
  IN  [extend_heap(prologue, INITCHUNKSIZE) EXCEPT !.ptr = NULL]
-----------------------------------------------------------------------------
(***************************************************************************)
(* The driver: eval_mm_valid.                                              *)
(***************************************************************************)
None == [lo |-> NULL, size |-> 0]
Held == {i \in Index : blocks[i] # None}

\* The words of a payload, and what the driver fills them with.
Words(b) == b.lo .. b.lo + b.size - 1
Mark(i)  == -i
Fill(h, i, b) == [h EXCEPT !.mem = [a \in Addr |-> IF a \in Words(b) THEN Mark(i) ELSE @[a]]]

\* The checks of add_range: alignment, inside the heap, neither end inside a
\* payload of the list.
AddRange(h, b, others) ==
  /\ b.lo % 2 = 0
  /\ b.lo \in 0 .. h.brk - 1 /\ b.lo + b.size - 1 \in 0 .. h.brk - 1
  /\ \A o \in others : b.lo \notin Words(o) /\ b.lo + b.size - 1 \notin Words(o)

Others(i) == {blocks[j] : j \in Held \ {i}}

\* What the driver makes of an answer: it fills and remembers a block it
\* accepts and leaves the trace otherwise.
Take(i, b, h, kept) ==
  IF b.lo \in {NULL, CRASH}
  THEN /\ status' = IF b.lo = NULL THEN "refused" ELSE "crashed"
       /\ heap' = [h EXCEPT !.ptr = NULL]
       /\ UNCHANGED blocks
  ELSE IF AddRange(h, b, Others(i)) /\ kept
  THEN /\ heap' = [Fill(h, i, b) EXCEPT !.ptr = NULL]
       /\ blocks' = [blocks EXCEPT ![i] = b]
       /\ UNCHANGED status
  ELSE /\ status' = "rejected"
       /\ heap' = [h EXCEPT !.ptr = NULL]
       /\ UNCHANGED blocks

Init ==
  /\ heap = mm_init([mem |-> [a \in Addr |-> 0], brk |-> 0, lists |-> [l \in Lists |-> NULL], ptr |-> NULL])
  /\ blocks = [i \in Index |-> None]
  /\ status = "running"
  /\ ops = 0

\* One more operation of the trace.  Indices are names: a malloc takes the lowest.
Operation == status = "running" /\ ops < MaxOps /\ ops' = ops + 1

Malloc(i, n) ==
  LET h == mm_malloc(heap, n)
  IN  /\ Operation /\ i \notin Held /\ 1 .. i - 1 \subseteq Held
      /\ Take(i, [lo |-> h.ptr, size |-> n], h, TRUE)

\* The block above is free and not the last one, and both together are still
\* too small: the extension of the heap is not next to them.
ShortGap(p, n) ==
  LET next == NEXT_BLKP(heap, p)
  IN  /\ GET_ALLOC(heap, HDRP(next)) = 0
      /\ NEXT_BLKP(heap, next) # heap.brk
      /\ GET_SIZE(heap, HDRP(p)) + GET_SIZE(heap, HDRP(next)) < BlockSize(n)

Realloc(i, n) ==
  LET old == blocks[i]
      h   == mm_realloc(heap, old.lo, n)
  IN  /\ Operation /\ i \in Held
      /\ GrowsIntoGap \/ ~ShortGap(old.lo, n)
      /\ Take(i, [lo |-> h.ptr, size |-> n], h,
              \A k \in 0 .. n - 1 : k < old.size => h.mem[h.ptr + k] = Mark(i))

Free(i) ==
  /\ Operation /\ i \in Held
  /\ heap' = [mm_free(heap, blocks[i].lo) EXCEPT !.ptr = NULL]
  /\ blocks' = [blocks EXCEPT ![i] = None]
  /\ UNCHANGED status

\* The next trace starts with mem_reset_brk and mm_init over the old words.
NextTrace ==
  /\ status # "crashed" /\ ops < MaxOps
  /\ heap' = mm_init(heap)
  /\ blocks' = [i \in Index |-> None]
  /\ status' = "running"
  /\ ops' = ops + 1

Next ==
  \/ \E i \in Index, n \in Requests : Malloc(i, n) \/ Realloc(i, n)
  \/ \E i \in Index : Free(i)
  \/ NextTrace

Spec == Init /\ [][Next]_vars
-----------------------------------------------------------------------------
TypeOK ==
  /\ heap.mem \in [Addr -> -MaxBlocks .. 2 * MAX_HEAP]
  /\ heap.brk \in 0 .. MAX_HEAP /\ heap.brk % 2 = 0
  /\ heap.lists \in [Lists -> Addr]
  /\ heap.ptr = NULL
  /\ \A i \in Held : blocks[i].lo \in Addr /\ blocks[i].lo % 2 = 0 /\ blocks[i].size \in Requests
  /\ status \in {"running", "refused", "rejected", "crashed"}
  /\ ops \in 0 .. MaxOps

\* No call of the allocator writes where the caller keeps its data, and no two
\* payloads share a word: every payload still holds what the driver filled it with.
DataIntact ==
  \A i \in Held : \A a \in Words(blocks[i]) : a < heap.brk - 1 /\ heap.mem[a] = Mark(i)

\* What a loop passes until it is in stop
Passed(at, stop) == {at[k] : k \in 0 .. Turns(at, stop)}

\* The blocks the headers lead to, from the first one to the epilogue
Ends     == {p \in Nat : p >= heap.brk \/ GET_SIZE(heap, HDRP(p)) = 0}
BlockSet == Passed(Iterate(4, [p \in Nat |-> NEXT_BLKP(heap, p)]), Ends)
IsFree(p) == GET_ALLOC(heap, HDRP(p)) = 0
FreeBlocks == {p \in BlockSet : IsFree(p)}

\* The blocks tile the heap up to the epilogue, footers agree with headers,
\* and what is marked allocated is what the driver holds: nothing is lost.
HeapTiled ==
  /\ heap.brk \in BlockSet
  /\ heap.mem[HDRP(heap.brk)] = PACK(0, 1)
  /\ \A p \in BlockSet \ {heap.brk} : heap.mem[FTRP(heap, p)] = heap.mem[HDRP(p)]
  /\ BlockSet \ (FreeBlocks \cup {heap.brk}) = {blocks[i].lo : i \in Held}

\* What a list links, from its first entry down to what is no free block
Listed(l) == Passed(Entries(heap, l), Int \ FreeBlocks) \ {NULL}

\* A free block is in the list of its size, every list holds free blocks only,
\* and the links back undo the links forth.
ListsExact ==
  \A l \in Lists :
    /\ Listed(l) = {p \in FreeBlocks : ListOf(GET_SIZE(heap, HDRP(p))) = l}
    /\ heap.lists[l] # NULL => SUCC(heap, heap.lists[l]) = NULL
    /\ \A p \in Listed(l) : PRED(heap, p) # NULL => SUCC(heap, PRED(heap, p)) = p

\* Free neighbours are merged at once.
Coalesced == \A p \in FreeBlocks : NEXT_BLKP(heap, p) \notin FreeBlocks

\* What coalesce, place, insert_node and delete_node keep true together.
HeapConsistent == TypeOK /\ HeapTiled /\ ListsExact /\ Coalesced

\* The driver never finds a block out of place or data lost over a realloc.
NeverRejected == status # "rejected"

\* A malloc takes more of the heap only if no free block it can look at fits.
GrowsOnlyIfFull ==
  [][\A i \in Index, n \in Requests :
       heap'.brk > heap.brk /\ Malloc(i, n) =>
         \A p \in FreeBlocks :
           GET_SIZE(heap, HDRP(p)) < BlockSize(n) \/ Halved(BlockSize(n), LISTMAX - 1) > 1]_vars
=============================================================================
