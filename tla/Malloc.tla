------------------------------- MODULE Malloc -------------------------------
(***************************************************************************)
(* The allocator malloclab/mm.c.  A unit is a double word, the alignment;  *)
(* unit u holds the words 2u and 2u+1.  A block is named by the unit its   *)
(* payload begins at, as `bp' is.  Its header is the word before the       *)
(* payload and its footer the first word of its last unit; a free block    *)
(* keeps two links in its first unit.  A word is an integer, whoever wrote *)
(* it: a tag, a link, or data, which are negative.                         *)
(***************************************************************************)
EXTENDS Integers, Sequences, FiniteSetsExt, Functions

CONSTANTS
  Users,         \* who may own a block, one each: positive numbers
  Requests,      \* the payloads asked for, in units
  Chunk,         \* CHUNKSIZE, in units
  Large,         \* a block of more units than this is placed first in a split
  NumLists,      \* NUM_SEGLIST, less the indexes no block is large enough for
  Limit          \* where mem_sbrk gives up

ASSUME UserAssumption == IsFiniteSet(Users) /\ Users \subseteq Nat \ {0}
ASSUME SizeAssumption ==
  /\ Requests \subseteq Nat \ {0}
  /\ {Chunk, Large, NumLists, Limit} \subseteq Nat \ {0}
  /\ Chunk > 2 /\ Limit > 2

VARIABLES
  heap,          \* the words, the heads of the lists and the break
  owned          \* owned[u]: the payload's first unit (0: none) and its length

vars == <<heap, owned>>

Null == 0
Lists == 0..(NumLists - 1)

-----------------------------------------------------------------------------
(* Tags and neighbours *)

PACK(size, alloc) == 2 * size + alloc
GET_SIZE(word) == word \div 2
GET_ALLOC(word) == word % 2 = 1

Header(b) == 2 * b - 1
SizeOf(h, b) == GET_SIZE(h.mem[Header(b)])
IsAllocated(h, b) == GET_ALLOC(h.mem[Header(b)])
Footer(h, b) == 2 * (b + SizeOf(h, b)) - 2
NEXT_BLKP(h, b) == b + SizeOf(h, b)
PREV_BLKP(h, b) == b - GET_SIZE(h.mem[2 * b - 2])

Put(h, w, x) == [h EXCEPT !.mem[w] = x]

\* The header, and the footer where the new header says it is
Tag(h, b, size, alloc) ==
  LET headed == Put(h, Header(b), PACK(size, alloc))
  IN  Put(headed, Footer(headed, b), PACK(size, alloc))

-----------------------------------------------------------------------------
(* The segregated free lists *)

PrevLink(b) == 2 * b
NextLink(b) == 2 * b + 1

\* get_MSB_pos
ListOf(size) ==
  CHOOSE i \in Lists : /\ i = 0 \/ 2^i <= size
                       /\ i = NumLists - 1 \/ size < 2^(i + 1)

\* Mutant: the block that was first does not learn of the new one.
insertOneWay(h, b) ==
  LET i == ListOf(SizeOf(h, b))
  IN  [Put(Put(h, NextLink(b), Null), PrevLink(b), h.list[i]) EXCEPT !.list[i] = b]

insert(h, b) ==
  LET i == ListOf(SizeOf(h, b))
      first == h.list[i]
      linked == Put(Put(h, NextLink(b), Null), PrevLink(b), first)
      behind == IF first = Null THEN linked ELSE Put(linked, NextLink(first), b)
  IN  [behind EXCEPT !.list[i] = b]

\* The list is the one of the size that the block's header has now.
delete(h, b) ==
  LET i == ListOf(SizeOf(h, b))
      prev == h.mem[PrevLink(b)]
      next == h.mem[NextLink(b)]
      skipped == IF next = Null THEN [h EXCEPT !.list[i] = prev]
                                ELSE Put(h, PrevLink(next), prev)
  IN  IF prev = Null THEN skipped ELSE Put(skipped, NextLink(prev), next)

\* The blocks of a list, numbered in the order a search meets them
Chain(h, i) ==
  LET at[k \in 1..Limit] ==
        IF k = 1 THEN h.list[i]
        ELSE LET last == at[k - 1] IN IF last = Null THEN Null ELSE h.mem[PrevLink(last)]
  IN  [k \in {j \in 1..Limit : at[j] # Null} |-> at[k]]

\* The best block of the first list that has one, the first of several best
find_fit(h, size) ==
  LET fits(i) == {k \in DOMAIN Chain(h, i) : SizeOf(h, Chain(h, i)[k]) >= size}
      lists == {i \in Lists : i >= ListOf(size) /\ fits(i) # {}}
      chain == Chain(h, Min(lists))
      least == Min({SizeOf(h, chain[k]) : k \in fits(Min(lists))})
  IN  IF lists = {} THEN Null
      ELSE chain[Min({k \in fits(Min(lists)) : SizeOf(h, chain[k]) = least})]

-----------------------------------------------------------------------------
(* Joining and splitting blocks; a result is a heap and a block of it *)

Result(h, b) == [heap |-> h, block |-> b]

\* Mutant: only the block behind is looked at.
coalesceBehindOnly(h, b) ==
  LET after == NEXT_BLKP(h, b)
  IN  IF IsAllocated(h, after) THEN Result(h, b)
      ELSE Result(insert(Tag(delete(delete(h, b), after), b, SizeOf(h, b) + SizeOf(h, after), 0), b), b)

coalesce(h, b) ==
  LET before == PREV_BLKP(h, b)
      after == NEXT_BLKP(h, b)
      start == IF IsAllocated(h, before) THEN b ELSE before
      end == IF IsAllocated(h, after) THEN after ELSE NEXT_BLKP(h, after)
      h1 == IF start = b THEN h ELSE delete(h, before)
      h2 == delete(h1, b)
      h3 == IF end = after THEN h2 ELSE delete(h2, after)
  IN  IF start = b /\ end = after THEN Result(h, b)
      ELSE Result(insert(Tag(h3, start, end - start, 0), start), start)

extend_heap(h, size) ==
  LET b == h.brk
      grown == Put(Tag([h EXCEPT !.brk = b + size], b, size, 0), Header(b + size), PACK(0, 1))
  IN  IF b + size > Limit THEN Result(h, Null) ELSE coalesce(insert(grown, b), b)

\* Mutant: any rest becomes a block, even one too small for links and tags.
placeSplitsAlways(h, b, size) ==
  LET rest == SizeOf(h, b) - size
      taken == Tag(delete(h, b), b, size, 1)
  IN  IF rest = 0 THEN Result(taken, b)
      ELSE Result(insert(Tag(taken, b + size, rest, 0), b + size), b)

place(h, b, size) ==
  LET whole == SizeOf(h, b)
      rest == whole - size
      out == delete(h, b)
  IN  IF rest <= 2 THEN Result(Tag(out, b, whole, 1), b)
      ELSE IF size > Large
      THEN Result(insert(Tag(Tag(out, b, size, 1), b + size, rest, 0), b + size), b)
      ELSE Result(insert(Tag(Tag(out, b, rest, 0), b + rest, size, 1), b), b + rest)

-----------------------------------------------------------------------------
(* The library calls; `n' units of payload need one more for the tags *)

mm_init ==
  [mem |-> [w \in 0..(2 * Limit) |->
             IF w \in {1, 2} THEN PACK(1, 1) ELSE IF w = 3 THEN PACK(0, 1) ELSE 0],
   list |-> [i \in Lists |-> Null],
   brk |-> 2]

mm_malloc(h, n) ==
  LET fit == find_fit(h, n + 1)
      more == extend_heap(h, Max({Chunk, n + 1}))
  IN  IF fit # Null THEN place(h, fit, n + 1)
      ELSE IF more.block = Null THEN more
      ELSE place(more.heap, more.block, n + 1)

mm_free(h, b) == coalesce(insert(Tag(h, b, SizeOf(h, b), 0), b), b).heap

\* Mutant: the length is taken for a number of words.
memmoveWords(h, to, from, units) ==
  [h EXCEPT !.mem = [w \in DOMAIN h.mem |->
     IF w \in (2 * to)..(2 * to + units - 1) THEN h.mem[w - 2 * to + 2 * from] ELSE h.mem[w]]]

memmove(h, to, from, units) ==
  [h EXCEPT !.mem = [w \in DOMAIN h.mem |->
     IF w \in (2 * to)..(2 * (to + units) - 1) THEN h.mem[w - 2 * to + 2 * from] ELSE h.mem[w]]]

\* In place; with the block behind; with the one in front, and the one behind if
\* it is needed; or in a new block, whose size counts the tags twice.
mm_realloc(h, b, n) ==
  LET size == SizeOf(h, b)
      before == PREV_BLKP(h, b)
      after == NEXT_BLKP(h, b)
      behind == IF IsAllocated(h, after) THEN 0 ELSE SizeOf(h, after)
      front == IF IsAllocated(h, before) THEN 0 ELSE SizeOf(h, before)
      takeBehind == front + size < n + 1
      freed == IF behind > 0 /\ takeBehind THEN delete(delete(h, before), after)
                                           ELSE delete(h, before)
      joined == IF takeBehind THEN front + size + behind ELSE front + size
      other == mm_malloc(h, n + 1)
  IN  IF size >= n + 1 THEN Result(h, b)
      ELSE IF behind > 0 /\ size + behind >= n + 1
      THEN Result(Tag(delete(h, after), b, size + behind, 1), b)
      ELSE IF front > 0 /\ size + behind + front >= n + 1
      THEN Result(Tag(memmove(freed, before, b, size), before, joined, 1), before)
      ELSE IF other.block = Null THEN other
      ELSE Result(mm_free(memmove(other.heap, other.block, b, size), b), other.block)

-----------------------------------------------------------------------------
(* The program that uses it: an owner fills what it gets. *)

Datum(u, i) == -(100 * u + i)
Fill(h, u, b, n) ==
  [h EXCEPT !.mem = [w \in DOMAIN h.mem |->
     IF w \in (2 * b)..(2 * (b + n) - 1) THEN Datum(u, w - 2 * b) ELSE h.mem[w]]]

Init ==
  /\ heap = mm_init
  /\ owned = [u \in Users |-> [first |-> Null, length |-> 0]]

\* When NULL is returned the heap is what it was.
Malloc(u, n) ==
  /\ owned[u].first = Null
  /\ LET r == mm_malloc(heap, n)
     IN  IF r.block = Null THEN heap' = r.heap /\ UNCHANGED owned
         ELSE /\ heap' = Fill(r.heap, u, r.block, n)
              /\ owned' = [owned EXCEPT ![u] = [first |-> r.block, length |-> n]]

Free(u) ==
  /\ owned[u].first # Null
  /\ heap' = mm_free(heap, owned[u].first)
  /\ owned' = [owned EXCEPT ![u] = [first |-> Null, length |-> 0]]

\* The owner fills what was added; what it had must be there already.
Realloc(u, n) ==
  /\ owned[u].first # Null
  /\ LET r == mm_realloc(heap, owned[u].first, n)
         old == owned[u].length
     IN  IF r.block = Null THEN heap' = r.heap /\ UNCHANGED owned
         ELSE /\ heap' = [r.heap EXCEPT !.mem = [w \in DOMAIN r.heap.mem |->
                   IF w \in (2 * (r.block + old))..(2 * (r.block + n) - 1)
                   THEN Datum(u, w - 2 * r.block) ELSE r.heap.mem[w]]]
              /\ owned' = [owned EXCEPT ![u] = [first |-> r.block, length |-> n]]

Next ==
  \E u \in Users :
    Free(u) \/ \E n \in Requests : Malloc(u, n) \/ Realloc(u, n)
Spec == Init /\ [][Next]_vars

-----------------------------------------------------------------------------
(* Properties *)

\* The blocks from the prologue to the break, as the headers lead through them
Blocks ==
  LET from[b \in 2..Limit] ==
        IF b >= heap.brk \/ SizeOf(heap, b) <= 0 THEN {}
        ELSE {b} \cup (IF NEXT_BLKP(heap, b) > Limit THEN {} ELSE from[NEXT_BLKP(heap, b)])
  IN  from[2]
FreeBlocks == {b \in Blocks : ~IsAllocated(heap, b)}

\* The blocks tile the heap up to the epilogue, each large enough for its tags and
\* links, with a footer like its header: what finding a neighbour relies on.
BlocksTileTheHeap ==
  /\ heap.mem[Header(heap.brk)] = PACK(0, 1)
  /\ LET blocks == Blocks IN \A b \in blocks :
       /\ NEXT_BLKP(heap, b) \in blocks \cup {heap.brk}
       /\ SizeOf(heap, b) >= 2
       /\ heap.mem[Footer(heap, b)] = heap.mem[Header(b)]

\* No two free blocks are neighbours: coalesce has joined them.
FreeBlocksJoined ==
  LET free == FreeBlocks
  IN  \A b \in free : NEXT_BLKP(heap, b) \notin free

\* Each free block is in the list of its size, once, and nothing else is in a
\* list: neither a block in use nor one that was joined to another.
ListsHoldTheFree ==
  LET free == FreeBlocks IN
  \A i \in Lists :
    LET chain == Chain(heap, i)
    IN  /\ IsInjective(chain)
        /\ Range(chain) = {b \in free : ListOf(SizeOf(heap, b)) = i}
        /\ \A k \in DOMAIN chain :
             heap.mem[NextLink(chain[k])] = IF k = 1 THEN Null ELSE chain[k - 1]

\* The library keeps the promises of an allocator: areas apart, contents intact,
\* realloc included, which moves a block over itself.
Promise == INSTANCE Allocator WITH
  Places <- 2..Limit,
  area <- owned,
  contents <- [u \in Users |-> [i \in 0..(owned[u].length - 1) |->
                <<heap.mem[2 * (owned[u].first + i)], heap.mem[2 * (owned[u].first + i) + 1]>>]]
ImplementsAllocator == Promise!Spec
-----------------------------------------------------------------------------
(* For the model checker *)

\* What a call may read: tags, the links of free blocks, and the owners' data.
\* The other words hold what was left there; no behaviour depends on them.
LiveWords ==
  LET blocks == Blocks
      free == {b \in blocks : ~IsAllocated(heap, b)}
  IN  UNION {{Header(b), Footer(heap, b)} : b \in blocks \cup {heap.brk}}
        \cup UNION {{PrevLink(b), NextLink(b)} : b \in free}
        \cup UNION {(2 * owned[u].first)..(2 * (owned[u].first + owned[u].length) - 1) : u \in Users}
LiveView == <<[w \in LiveWords |-> heap.mem[w]], heap.list, heap.brk, owned>>
=============================================================================
