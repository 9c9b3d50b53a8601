----------------------------- MODULE Containers -----------------------------
(***************************************************************************)
(* Strings, character buffers, vectors and dictionaries in the memory of   *)
(* RegionHeap: those of the runtime (support/include/core.h) and those of  *)
(* the seed compiler (vec.h, htab.h, charbuf.c), which live in its arena.  *)
(*                                                                         *)
(* Each structure is laid out field by field in the words of the heap, and *)
(* the operators below are the C functions on it.                          *)
(***************************************************************************)
EXTENDS RegionHeap

CONSTANTS
  ElemSize,      \* sizeof(vec_elem_type)
  TableStart,    \* JIK_HTAB_INIT_CAPACITY
  ListStart,     \* JIK_INIT_VEC_CAPACITY
  Hash,          \* the hash of every key
  Nul,           \* the character that ends a string
  Omitted        \* a bound of a slice that was not written

ASSUME LayoutAssumption ==
  /\ {ElemSize, TableStart, ListStart} \subseteq Nat \ {0}
  /\ \A k \in DOMAIN Hash : Hash[k] \in Nat

\* The region number of the seed's arena.
Arena == 0

Alloc(h, r, n) == IF r = Arena THEN ArenaAlloc(h, n) ELSE RegionAlloc(h, r, n)

Realloc(h, r, old, oldSize, newSize) ==
  IF r = Arena THEN ArenaRealloc(h, old, newSize, oldSize)
  ELSE RegionRealloc(h, r, old, oldSize, newSize)

\* h with "p" as the pointer returned.
Returning(h, p) == IF h.died = "no" THEN [h EXCEPT !.ptr = p] ELSE h

\* Two allocations in a row, and both pointers; the head and the data of a structure.
AndThen(a, r, n) == [Alloc(a, r, n) EXCEPT !.ptr = <<a.ptr, @>>]
TwoPieces(h, r, m, n) == AndThen(Alloc(h, r, m), r, n)

\* Both pieces filled, and the head returned.
Built(h, head, data) ==
  Returning(Store(Store(h, h.ptr[1], head), h.ptr[2], data), h.ptr[1])

-----------------------------------------------------------------------------
(* Strings: data, size, capacity, region. *)

Data(h, p) == Word(h, p)
Size(h, p) == Word(h, Plus(p, 1))
Room(h, p) == Word(h, Plus(p, 2))
Home(h, p) == Word(h, Plus(p, 3))

\* The characters follow the head in one piece.
InOnePiece(a, r, s) ==
  Returning(Store(a, a.ptr, <<Plus(a.ptr, 4), Len(s), Len(s), r>> \o s \o <<Nul>>), a.ptr)
StringNew(h, r, s) == InOnePiece(RegionAlloc(h, r, SizeAdd(4, SizeAdd(Len(s), 1))), r, s)

Text(h, p) == Words(h, Data(h, p), Size(h, p))

\* A slice and a concatenation are allocated in two pieces.
InTwoPieces(b, r, s) == Built(b, <<b.ptr[2], Len(s), Len(s), r>>, s \o <<Nul>>)
StringOf(h, r, s) == InTwoPieces(TwoPieces(h, r, 4, SizeAdd(Len(s), 1)), r, s)

Lower(start) == IF start = Omitted THEN 0 ELSE start
Upper(stop, size) == IF stop = Omitted THEN size ELSE stop

SliceLegal(start, stop, size) ==
  0 <= Lower(start) /\ Lower(start) <= Upper(stop, size) /\ Upper(stop, size) <= size

StringSlice(h, p, start, stop) ==
  IF SliceLegal(start, stop, Size(h, p))
  THEN StringOf(h, Home(h, p), SubSeq(Text(h, p), Lower(start) + 1, Upper(stop, Size(h, p))))
  ELSE Die(h, "bounds")

Concat(h, r, p, q) == StringOf(h, r, Text(h, p) \o Text(h, q))

-----------------------------------------------------------------------------
(***************************************************************************)
(* Character buffers: data, size, capacity.  A new one has one word more   *)
(* than its capacity; a grown one counts the word of the terminator.       *)
(***************************************************************************)
BufferOf(b, s) == Built(b, <<b.ptr[2], Len(s), Len(s)>>, s \o <<Nul>>)
BufferNew(h, r, s) == BufferOf(TwoPieces(h, r, 3, SizeAdd(Len(s), 1)), s)

Needed(size, n) == SizeAdd(SizeAdd(size, n), 1)

\* The data has moved to a.ptr; "size" characters are there already.
Appended(a, p, size, capacity, s) ==
  Store(Store(a, p, <<a.ptr, SizeAdd(size, Len(s)), capacity>>), Plus(a.ptr, size), s \o <<Nul>>)

BufferAppend(h, r, p, s) ==
  LET needed   == Needed(Size(h, p), Len(s))
      capacity == Grown(Room(h, p), needed)
  IN  Appended(IF needed > Room(h, p) THEN Realloc(h, r, Data(h, p), Room(h, p), capacity)
               ELSE Returning(h, Data(h, p)),
               p, Size(h, p), capacity, s)

-----------------------------------------------------------------------------
(* Vectors: data, size, capacity, region (the seed's have no region). *)

Cell(data, i) == Plus(data, i * ElemSize)

\* The words of a sequence of elements.
Cells(values) ==
  [k \in 1..(Len(values) * ElemSize) |-> values[((k - 1) \div ElemSize) + 1]]

\* An element is whole when every one of its words is its own.
Element(h, data, i) ==
  LET w == Words(h, Cell(data, i), ElemSize)
  IN  IF \A k \in DOMAIN w : w[k] = w[1] THEN w[1] ELSE Junk

Elements(h, p) == [i \in 1..Size(h, p) |-> Element(h, Data(h, p), i - 1)]

VectorOf(b, r, values) ==
  Built(b, <<b.ptr[2], Len(values), Len(values), r>>, Cells(values))
VectorFrom(h, r, values) ==
  VectorOf(TwoPieces(h, r, 4, SizeMul(Len(values), ElemSize)), r, values)

VectorClear(h, p) == Store(h, Plus(p, 1), <<0>>)

VectorSet(h, p, i, v) ==
  IF i \in 0..(Size(h, p) - 1) THEN Store(h, Cell(Data(h, p), i), Repeat(v, ElemSize))
  ELSE Die(h, "bounds")

InPlace(a, p, capacity) == Store(Store(a, p, <<a.ptr>>), Plus(p, 2), <<capacity>>)
Resized(h, p, capacity) ==
  InPlace(RegionRealloc(h, Home(h, p), Data(h, p), SizeMul(Room(h, p), ElemSize),
                        SizeMul(capacity, ElemSize)), p, capacity)

\* Mutant of VectorFull: the last free place is not noticed to be gone.
VectorPastFull(h, p) == Size(h, p) > Room(h, p)

VectorFull(h, p) == Size(h, p) = Room(h, p)

\* n elements are given their places after the last, and counted.
Counted(b, p, n) == Store(b, Plus(p, 1), <<Size(b, p) + n>>)
Placed(a, p, v) ==
  IF a.died # "no" THEN a
  ELSE Counted(Store(a, Cell(Data(a, p), Size(a, p)), Repeat(v, ElemSize)), p, 1)

VectorPush(h, p, v) ==
  Placed(IF VectorFull(h, p) THEN Resized(h, p, SizeAdd(SizeMul(2, Room(h, p)), 1)) ELSE h, p, v)

Joined(a, p, q, n) ==
  IF a.died # "no" THEN a
  ELSE Counted(Copy(a, Data(a, q), Cell(Data(a, p), Size(a, p)), n * ElemSize), p, n)

VectorExtend(h, p, q) ==
  LET n == SizeAdd(Size(h, p), Size(h, q)) IN
  IF Size(h, q) = 0 THEN h
  ELSE Joined(IF n > Room(h, p) THEN Resized(h, p, Grown(Room(h, p), n)) ELSE h,
              p, q, Size(h, q))

VectorPop(h, p) ==
  IF Size(h, p) = 0 THEN Die(h, "bounds") ELSE Store(h, Plus(p, 1), <<Size(h, p) - 1>>)

VectorSlice(h, p, start, stop) ==
  IF SliceLegal(start, stop, Size(h, p))
  THEN VectorFrom(h, Home(h, p), SubSeq(Elements(h, p), Lower(start) + 1, Upper(stop, Size(h, p))))
  ELSE Die(h, "bounds")

ListOf(b) == Built(b, <<b.ptr[2], 0, ListStart>>, <<>>)
ListNew(h) == ListOf(TwoPieces(h, Arena, 3, ListStart * ElemSize))

\* The data has moved to a.ptr, where the element goes after the others.
ListPlaced(a, p, capacity, v) ==
  Store(Store(a, p, <<a.ptr, Size(a, p) + 1, capacity>>),
        Cell(a.ptr, Size(a, p)), Repeat(v, ElemSize))

ListPush(h, p, v) ==
  LET capacity == 2 * Room(h, p) + 1 IN
  IF VectorFull(h, p)
  THEN ListPlaced(ArenaRealloc(h, Data(h, p), capacity * ElemSize, Room(h, p) * ElemSize),
                  p, capacity, v)
  ELSE ListPlaced(Returning(h, Data(h, p)), p, Room(h, p), v)

\* The space is that of the elements and the capacity keeps its old value.
ListJoined(a, p, q, n) ==
  Store(Copy(a, Data(a, q), Cell(a.ptr, Size(a, p)), Size(a, q) * ElemSize), p, <<a.ptr, n>>)

ListExtend(h, p, q) ==
  LET n == Size(h, p) + Size(h, q) IN
  ListJoined(ArenaRealloc(h, Data(h, p), n * ElemSize, Size(h, p) * ElemSize), p, q, n)

-----------------------------------------------------------------------------
(***************************************************************************)
(* Dictionaries: capacity, size, items, region.  An item of the runtime    *)
(* has its ok flag, a key that the dictionary owns and a value; one of the *)
(* seed has the caller's key and a value.                                  *)
(***************************************************************************)
DictItem == [size |-> 3, key |-> 1, value |-> 2]
TableItem == [size |-> 2, key |-> 0, value |-> 1]
ItemOf(r) == IF r = Arena THEN TableItem ELSE DictItem

Slots(h, p) == Word(h, p)
Count(h, p) == Word(h, Plus(p, 1))
Items(h, p) == Word(h, Plus(p, 2))

Slot(items, item, i) == Plus(items, i * item.size)
KeyWord(h, items, item, i) == Word(h, Plus(Slot(items, item, i), item.key))
ValueWord(h, items, item, i) == Word(h, Plus(Slot(items, item, i), item.value))

Key(h, items, item, i) ==
  LET k == KeyWord(h, items, item, i) IN IF item = DictItem THEN Text(h, k) ELSE k

\* The first place from the key's own one on, and round the end of the
\* table, that is empty or has the key; capacity when the search is endless.
FindEntry(h, items, item, capacity, key) ==
  LET at(k) == (Hash[key] + k) % capacity
      found == {k \in 0..(capacity - 1) : \/ KeyWord(h, items, item, at(k)) = Null
                                          \/ Key(h, items, item, at(k)) = key}
  IN  IF found = {} THEN capacity ELSE at(Min(found))

TableOf(b, r) ==
  Built(b, <<TableStart, 0, b.ptr[2], r>>, Repeat(Null, TableStart * ItemOf(r).size))
TableNew(h, r) == TableOf(TwoPieces(h, r, 4, TableStart * ItemOf(r).size), r)

\* The item at place i of the table p goes where its key leads in the array "new".
Moved(g, p, item, i, new, capacity) ==
  IF KeyWord(g, Items(g, p), item, i) = Null THEN g
  ELSE Copy(g, Slot(Items(g, p), item, i),
            Slot(new, item, FindEntry(g, new, item, capacity, Key(g, Items(g, p), item, i))),
            item.size)

\* Entries move one by one into a zeroed array of the new capacity.
Rehashed(a, p, item, new, capacity) ==
  LET moved[i \in 0..Slots(a, p)] ==
        IF i = 0 THEN Store(a, new, Repeat(Null, capacity * item.size))
        ELSE Moved(moved[i - 1], p, item, i - 1, new, capacity)
  IN  IF a.died # "no" THEN a
      ELSE Store(Store(moved[Slots(a, p)], p, <<capacity>>), Plus(p, 2), <<new>>)

\* The new array is at a.ptr.
Switched(a, p, item, capacity) == Rehashed(a, p, item, a.ptr, capacity)
TableResize(h, r, p, capacity) ==
  Switched(Alloc(h, r, SizeMul(capacity, ItemOf(r).size)), p, ItemOf(r), capacity)

\* One more entry would pass the load factor of 0.75.
Crowded(h, p) == 4 * SizeAdd(Count(h, p), 1) > 3 * Slots(h, p)

Place(h, p, r, key) == FindEntry(h, Items(h, p), ItemOf(r), Slots(h, p), key)

\* A copy of the key, at b.ptr, and the value are the item at "slot".
Entered(b, slot, v) == Store(b, slot, <<TRUE, b.ptr, v>>)

\* The table has room: the key is counted and entered at its place.
Inserted(a, r, p, key, v) ==
  IF a.died # "no" THEN a
  ELSE Entered(StringNew(Counted(a, p, 1), r, key),
               Slot(Items(a, p), DictItem, Place(a, p, r, key)), v)

\* A key that is found keeps its item.
Updated(h, slot, v) == Store(Store(h, slot, <<TRUE>>), Plus(slot, 2), <<v>>)

DictSet(h, p, key, v) ==
  LET r == Home(h, p)
      i == Place(h, p, r, key)
  IN  CASE i = Slots(h, p) -> Die(h, "endless")
        [] i # Slots(h, p) /\ KeyWord(h, Items(h, p), DictItem, i) # Null ->
             Updated(h, Slot(Items(h, p), DictItem, i), v)
        [] OTHER -> Inserted(IF Crowded(h, p) THEN TableResize(h, r, p, SizeMul(Slots(h, p), 2))
                             ELSE h, r, p, key, v)

\* The table grows before the key is looked for, a known key or not.
TableInserted(a, p, key, v) ==
  LET i == Place(a, p, Arena, key)
      new == IF KeyWord(a, Items(a, p), TableItem, i) = Null THEN 1 ELSE 0
  IN  Store(Counted(a, p, new), Slot(Items(a, p), TableItem, i), <<key, v>>)
TableSet(h, p, key, v) ==
  TableInserted(IF Crowded(h, p) THEN TableResize(h, Arena, p, 2 * Slots(h, p)) ELSE h,
                p, key, v)

DictClear(h, p) ==
  LET wiped[i \in 0..Slots(h, p)] ==
        IF i = 0 THEN Store(h, Plus(p, 1), <<0>>)
        ELSE Store(wiped[i - 1], Slot(Items(h, p), DictItem, i - 1), <<FALSE, Null>>)
  IN  wiped[Slots(h, p)]

Filled(h, p, r) ==
  {i \in 0..(Slots(h, p) - 1) : KeyWord(h, Items(h, p), ItemOf(r), i) # Null}

OptionOf(a, r, content) == Returning(Store(a, a.ptr, content \o <<r>>), a.ptr)
OptionNew(h, r, content) == OptionOf(RegionAlloc(h, r, 3), r, content)
=============================================================================
