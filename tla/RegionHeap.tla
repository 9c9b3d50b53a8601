----------------------------- MODULE RegionHeap -----------------------------
(***************************************************************************)
(* The memory of a running Jik program (support/include/core.h) and of the *)
(* seed compiler (src/seed/alloc.c): regions, which give out the space of  *)
(* a list of blocks and are freed as a whole, and the compiler's arena.    *)
(*                                                                         *)
(* Memory is counted in words and every word of a block is kept, so a      *)
(* write that goes where it should not changes what is read there later.   *)
(* Operators take the heap and return the heap; the pointer a C function   *)
(* returns is left in heap.ptr.  A program that died stays as it died.     *)
(***************************************************************************)
EXTENDS Naturals, Sequences, FiniteSets, FiniteSetsExt, TLC

CONSTANTS
  SizeMax,       \* SIZE_MAX
  Align,         \* alignof(max_align_t)
  DefaultBlock,  \* JIK_REGION_DEFAULT_BLOCK_SIZE
  BlockHeader,   \* sizeof(JikRegionBlock)
  ArenaStart,    \* JIK_ARENA_INIT_CAPACITY
  TreeMax,       \* JIK_REGION_TREE_MAX_RECORDS
  Null,          \* the null pointer
  Junk           \* a word nothing has been written to

ASSUME SizesAssumption ==
  /\ SizeMax \in Nat /\ Align \in Nat \ {0} /\ BlockHeader \in Nat
  /\ DefaultBlock \in Nat \ {0} /\ ArenaStart \in Nat \ {0} /\ TreeMax \in Nat
  /\ Null # Junk

\* No address is null: an address is the number of a block and a place in it.
ASSUME NullAssumption == Null \notin Nat \X Nat

VARIABLE heap

-----------------------------------------------------------------------------
(***************************************************************************)
(* Sizes.  A checked sum or product that does not fit ends the program; it *)
(* is carried on as TooBig, which no later sum makes smaller and which     *)
(* every allocation refuses.                                               *)
(***************************************************************************)
TooBig == SizeMax + 1

SizeAdd(a, b) == IF a + b > SizeMax THEN TooBig ELSE a + b

SizeMul(a, b) == IF a * b > SizeMax THEN TooBig ELSE a * b

RoundUp(n) == ((n + Align - 1) \div Align) * Align

\* Mutant of AlignUp: sizes are left as they are.
NotAligned(n) == n

AlignUp(n) == IF SizeAdd(n, Align - 1) = TooBig THEN TooBig ELSE RoundUp(n)

\* The capacity a container grows to, from "capacity", until "needed" fits.
Grown(capacity, needed) ==
  LET grow[c \in 0..TooBig] == IF c >= needed THEN c ELSE grow[SizeAdd(SizeMul(2, c), 1)]
  IN  grow[capacity]

-----------------------------------------------------------------------------
(* Dying, and the words of the heap. *)

Alive == heap.died = "no"

Die(h, why) == IF h.died = "no" THEN [h EXCEPT !.died = why, !.ptr = Null] ELSE h

Plus(p, n) == IF p = Null THEN Null ELSE <<p[1], p[2] + n>>

Inside(h, p, n) ==
  n = 0 \/ (p # Null /\ p[1] \in DOMAIN h.blocks /\ p[2] + n <= Len(h.blocks[p[1]].words))

Repeat(v, n) == <<>> \o [i \in 1..n |-> v]

Word(h, p) == h.blocks[p[1]].words[p[2] + 1]

Words(h, p, n) == SubSeq(h.blocks[p[1]].words, p[2] + 1, p[2] + n)

\* Assigning to the words from p on, memcpy and memset.
Store(h, p, values) ==
  IF h.died # "no" THEN h
  ELSE IF ~Inside(h, p, Len(values)) THEN Die(h, "fault")
  ELSE IF values = <<>> THEN h
  ELSE [h EXCEPT !.blocks[p[1]].words =
          SubSeq(@, 1, p[2]) \o values \o SubSeq(@, p[2] + Len(values) + 1, Len(@))]

Copy(h, from, to, n) ==
  IF h.died # "no" THEN h
  ELSE IF Inside(h, from, n) THEN Store(h, to, Words(h, from, n)) ELSE Die(h, "fault")

-----------------------------------------------------------------------------
(* What JIK_REGION_STATS counts. *)

Larger(a, b) == IF a > b THEN a ELSE b

Less(a, b) == IF a >= b THEN a - b ELSE 0

NoStats ==
  [created |-> 0, destroyed |-> 0, alive |-> 0, peak |-> 0, blocksCreated |-> 0,
   blocksDestroyed |-> 0, blocksAlive |-> 0, allocated |-> 0, freed |-> 0,
   bytesAlive |-> 0, bytesPeak |-> 0]

RegionCreated(s) ==
  [s EXCEPT !.created = @ + 1, !.alive = @ + 1, !.peak = Larger(@, s.alive + 1)]

RegionDestroyed(s) == [s EXCEPT !.destroyed = @ + 1, !.alive = Less(@, 1)]

BlockCreated(s, capacity) ==
  [s EXCEPT !.blocksCreated = @ + 1, !.blocksAlive = @ + 1, !.allocated = @ + capacity,
            !.bytesAlive = @ + capacity, !.bytesPeak = Larger(@, s.bytesAlive + capacity)]

BlockDestroyed(s, capacity) ==
  [s EXCEPT !.blocksDestroyed = @ + 1, !.blocksAlive = Less(@, 1), !.freed = @ + capacity,
            !.bytesAlive = Less(@, capacity)]

-----------------------------------------------------------------------------
(* What JIK_REGION_TREE records. *)

EmptyTree == [entries |-> <<>>, depth |-> 0, truncated |-> FALSE]

\* Mutant of TreeEnter: a region that finds no room in the tree is not entered.
TreeEnterIgnored(t) ==
  IF Len(t.entries) >= TreeMax THEN [t EXCEPT !.truncated = TRUE]
  ELSE [t EXCEPT !.entries = Append(@, t.depth), !.depth = @ + 1]

TreeEnter(t) ==
  IF Len(t.entries) >= TreeMax THEN [t EXCEPT !.truncated = TRUE, !.depth = @ + 1]
  ELSE [t EXCEPT !.entries = Append(@, t.depth), !.depth = @ + 1]

TreeLeave(t) == [t EXCEPT !.depth = Less(@, 1)]

-----------------------------------------------------------------------------
(***************************************************************************)
(* Regions.  The newest block is the first of the list and the current one *)
(* at once; malloc always finds room and hands out a block of its own.     *)
(***************************************************************************)
RawBlock(h, capacity) ==
  LET made == [used |-> 0, words |-> Repeat(Junk, capacity)]
  IN  [h EXCEPT !.blocks = [b \in DOMAIN @ \union {h.next} |-> IF b = h.next THEN made ELSE @[b]],
                !.next = @ + 1]

Capacity(h, b) == Len(h.blocks[b].words)

\* What a set of blocks has room for.
SizeOf(h, bs) == MapThenSumSet(LAMBDA b : Capacity(h, b), bs)

RegionNew(h, size) ==
  [h EXCEPT !.regions = Append(@, [blocks    |-> <<>>,
                                   blockSize |-> IF size = 0 THEN DefaultBlock ELSE size,
                                   total     |-> 0]),
            !.stats = RegionCreated(@),
            !.tree = TreeEnter(@)]

\* The tree is left and the region freed where its block of code ends, so
\* the region freed is always the one made last.
RegionFree(h) ==
  LET r     == h.regions[Len(h.regions)]
      gone  == {r.blocks[i] : i \in DOMAIN r.blocks}
      s[i \in 0..Len(r.blocks)] ==
        IF i = 0 THEN h.stats ELSE BlockDestroyed(s[i - 1], Capacity(h, r.blocks[i]))
  IN  [h EXCEPT !.blocks = [b \in DOMAIN @ \ gone |-> @[b]],
                !.regions = SubSeq(@, 1, Len(@) - 1),
                !.stats = RegionDestroyed(s[Len(r.blocks)]),
                !.tree = TreeLeave(@)]

Taken(h, b, at, n) == [h EXCEPT !.blocks[b].used = at + n, !.ptr = <<b, at>>]

HasRoom(h, blocks, n) ==
  blocks # <<>> /\ n <= Capacity(h, Head(blocks)) - h.blocks[Head(blocks)].used

RegionAlloc(h, r, size) ==
  LET n        == AlignUp(size)
      region   == h.regions[r]
      capacity == Larger(region.blockSize, n)
      refused  == TooBig \in {SizeAdd(region.total, capacity), SizeAdd(BlockHeader, capacity)}
      grown    == [RawBlock(h, capacity) EXCEPT
                     !.stats = BlockCreated(@, capacity),
                     !.regions[r] = [region EXCEPT !.blocks = <<h.next>> \o region.blocks,
                                                   !.total = region.total + capacity]]
  IN  IF h.died # "no" THEN h
      ELSE CASE size = 0               -> [h EXCEPT !.ptr = Null]
             [] size # 0 /\ n = TooBig -> Die(h, "overflow")
             [] size # 0 /\ n # TooBig /\ HasRoom(h, region.blocks, n) ->
                  Taken(h, Head(region.blocks), h.blocks[Head(region.blocks)].used, n)
             [] size # 0 /\ n # TooBig /\ ~HasRoom(h, region.blocks, n) ->
                  IF refused THEN Die(h, "overflow") ELSE Taken(grown, h.next, 0, n)

\* "a" has been given a new place for the n words at "old".
MovedFrom(a, old, n) == IF old = Null THEN a ELSE Copy(a, old, a.ptr, n)

RegionRealloc(h, r, old, oldSize, newSize) ==
  CASE h.died # "no"  -> h
    [] h.died = "no" /\ newSize = 0 -> [h EXCEPT !.ptr = Null]
    [] h.died = "no" /\ newSize # 0 /\ old # Null /\ newSize <= oldSize -> [h EXCEPT !.ptr = old]
    [] OTHER -> MovedFrom(RegionAlloc(h, r, newSize), old, oldSize)

-----------------------------------------------------------------------------
(***************************************************************************)
(* The arena of the seed compiler: chunks of doubling size, never freed    *)
(* before the end, and sizes that nobody checks.                           *)
(***************************************************************************)
ChunkSize(least) ==
  LET double[c \in 1..(2 * Larger(least, ArenaStart))] == IF c < least THEN double[2 * c] ELSE c
  IN  double[ArenaStart]

NewChunk(h, least) == [RawBlock(h, ChunkSize(least)) EXCEPT !.arena = <<h.next>> \o @]

ArenaAlloc(h, size) ==
  LET chunk == Head(h.arena)
      at    == RoundUp(h.blocks[chunk].used)
  IN  CASE h.died # "no" -> h
        [] h.died = "no" /\ size > Capacity(h, chunk) - at ->
             Taken(NewChunk(h, size + Align - 1), h.next, 0, size)
        [] OTHER -> Taken(h, chunk, at, size)

ArenaRealloc(h, old, size, oldSize) ==
  MovedFrom(ArenaAlloc(h, size), old, Min({oldSize, size}))

\* jik_arena_init, before anything is made.
EmptyHeap ==
  NewChunk([blocks |-> <<>>, next |-> 1, regions |-> <<>>, arena |-> <<>>, stats |-> NoStats,
            tree |-> EmptyTree, ptr |-> Null, died |-> "no"], ArenaStart)
=============================================================================
