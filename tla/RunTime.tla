------------------------------- MODULE RunTime -------------------------------
(***************************************************************************)
(* A program at work on its containers: it enters and leaves functions,    *)
(* each with a region, makes objects in any region alive, calls the        *)
(* runtime on them, and runs one foreach loop whose body may do all this.  *)
(* The seed compiler's own containers are called the same way, in its      *)
(* arena.  The objects the program holds are what region analysis leaves   *)
(* it: none outlives its region.                                           *)
(***************************************************************************)
EXTENDS Containers, SequencesExt, Integers

CONSTANTS
  Starts,      \* the objects a program begins with, and the bounds of the instance:
               \* the calls, objects and regions it may still use
  BlockSizes,  \* the arguments of jik_region_new
  Literals,    \* the texts and the vectors a program writes down
  Bounds       \* the indices and the bounds of slices it uses

IsSequence(s) == s \in Seq(ToSet(s))

\* A text and a vector are sequences, and a dictionary begins with the keys and
\* the values it was given; a key is a text.
ASSUME ProgramsAssumption ==
  /\ \A s \in Literals.texts \union Literals.vectors \union DOMAIN Hash : IsSequence(s)
  /\ BlockSizes \subseteq Nat /\ Bounds \ {Omitted} \subseteq Int
  /\ \A start \in Starts :
       /\ {start.calls, start.objects, start.regions} \subseteq Nat
       /\ IsSequence(start.made)
       /\ \A made \in ToSet(start.made) :
            /\ IsSequence(made[2])
            /\ made[1] \in {"dict", "table"} => \A pair \in ToSet(made[2]) : pair[1] \in DOMAIN Hash

VARIABLES objects,  \* the objects held: kind, address and region
          loop,     \* the foreach loop, or the last one
          asked,
          answer,
          budget    \* how many more calls, objects and regions, and of which kinds

vars == <<heap, objects, loop, asked, answer, budget>>

-----------------------------------------------------------------------------
(* What an object holds, read out of memory. *)

Entries(h, p, r) ==
  LET item  == ItemOf(r)
      items == Items(h, p)
      pairs == {<<Key(h, items, item, i), ValueWord(h, items, item, i)>> : i \in Filled(h, p, r)}
  IN  [k \in {pair[1] : pair \in pairs} |-> (CHOOSE pair \in pairs : pair[1] = k)[2]]

IsText(o) == objects[o].kind \in {"string", "buffer", "text"}
IsVector(o) == objects[o].kind \in {"vector", "list", "merged"}
IsDict(o) == objects[o].kind \in {"dict", "table"}

Content(h, o) ==
  LET p == objects[o].ptr
  IN  IF IsText(o) THEN Text(h, p)
      ELSE IF IsVector(o) THEN Elements(h, p)
      ELSE Entries(h, p, objects[o].region)

-----------------------------------------------------------------------------
(* Calls. *)

NoLoop == [on |-> 0, at |-> 0, seen |-> <<>>, start |-> {}, calm |-> FALSE]

Looping == loop.on # 0

\* What the loop has seen still stands, and a table has not been rebuilt.
Undisturbed(h) ==
  LET o == loop.on
      p == objects[o].ptr
  IN  IF IsDict(o)
      THEN /\ Slots(h, p) = Slots(heap, p)
           /\ Filled(heap, p, objects[o].region) \subseteq Filled(h, p, objects[o].region)
      ELSE IsPrefix(Content(heap, o), Content(h, o))

Ready == Alive /\ budget.calls > 0

\* The call returns; a program that died is left with nothing.
Return(h, call, result) ==
  /\ heap' = IF h.died = "no" THEN [h EXCEPT !.ptr = Null] ELSE [heap EXCEPT !.died = h.died]
  /\ asked' = call
  /\ answer' = IF h.died = "no" THEN result ELSE <<h.died>>
  /\ budget' = [budget EXCEPT !.calls = @ - 1]

\* A call on an object held.
On(h, call, result) ==
  /\ Return(h, call, result)
  /\ objects' = IF h.died = "no" THEN objects ELSE <<>>
  /\ loop' = IF h.died = "no" /\ Looping
             THEN [loop EXCEPT !.calm = @ /\ Undisturbed(h)]
             ELSE IF h.died = "no" THEN loop ELSE NoLoop

Unused == (1..budget.objects) \ DOMAIN objects

NextObject == Min(Unused)

\* A call that makes an object: "h" has its address in h.ptr.
New(h, kind, r, call) ==
  /\ Return(h, call, <<"done">>)
  /\ objects' = IF h.died = "no"
                THEN [o \in DOMAIN objects \union {NextObject} |->
                        IF o = NextObject THEN [kind |-> kind, ptr |-> h.ptr, region |-> r]
                        ELSE objects[o]]
                ELSE <<>>
  /\ loop' = IF h.died = "no" THEN loop ELSE NoLoop

Held(kinds) == {o \in DOMAIN objects : objects[o].kind \in kinds}

At(o) == objects[o].ptr

\* A value no other call has stored.
Fresh == budget.calls

EnterRegion ==
  /\ Ready /\ Len(heap.regions) < budget.regions
  /\ \E size \in BlockSizes :
       /\ Return(RegionNew(heap, size), [op |-> "enter"], <<"done">>)
       /\ UNCHANGED <<objects, loop>>

LeaveRegion ==
  LET r == Len(heap.regions)
      kept == {o \in DOMAIN objects : objects[o].region # r}
  IN  /\ Ready /\ r > 0
      /\ Looping => objects[loop.on].region # r
      /\ Return(RegionFree(heap), [op |-> "leave"], <<"done">>)
      /\ objects' = [o \in kept |-> objects[o]]
      /\ UNCHANGED loop

\* A dictionary literal sets its entries one by one, and so does the seed.
SetAll(new, p, r, pairs) ==
  LET filled[i \in 0..Len(pairs)] ==
        IF i = 0 THEN new
        ELSE IF r = Arena THEN TableSet(filled[i - 1], p, pairs[i][1], pairs[i][2])
        ELSE DictSet(filled[i - 1], p, pairs[i][1], pairs[i][2])
  IN  IF new.died = "no" THEN Returning(filled[Len(pairs)], p) ELSE new
Filling(new, r, pairs) == SetAll(new, new.ptr, r, pairs)
DictFrom(h, r, pairs) == Filling(TableNew(h, r), r, pairs)

PushAll(new, p, values) ==
  LET filled[i \in 0..Len(values)] == IF i = 0 THEN new ELSE ListPush(filled[i - 1], p, values[i])
  IN  Returning(filled[Len(values)], p)
Pushing(new, values) == PushAll(new, new.ptr, values)
ListFrom(h, r, values) == Pushing(ListNew(h), values)

Makes(kind, values, r, make(_, _, _)) ==
  /\ kind \in budget.kinds
  /\ \E v \in values :
       New(make(heap, r, v), kind, r, [op |-> "make", on |-> NextObject, value |-> v, in |-> r])

\* The vector literals, and MAKE_VEC with one initializer for all places.
MakeObject ==
  /\ Ready /\ Unused # {}
  /\ \/ \E r \in 1..Len(heap.regions) :
          \/ Makes("string", Literals.texts, r, StringNew)
          \/ Makes("buffer", Literals.texts, r, BufferNew)
          \/ Makes("vector", Literals.vectors, r, VectorFrom)
          \/ Makes("dict", {<<>>}, r, DictFrom)
     \/ Makes("text", Literals.texts, Arena, BufferNew)
     \/ Makes("list", {<<>>}, Arena, ListFrom)
     \/ Makes("merged", {<<>>}, Arena, ListFrom)
     \/ Makes("table", {<<>>}, Arena, DictFrom)

Join ==
  /\ Ready /\ Unused # {}
  /\ \E p \in Held({"string"}), q \in Held({"string"}), r \in 1..Len(heap.regions) :
       New(Concat(heap, r, At(p), At(q)), "string", r,
           [op |-> "concat", on |-> NextObject, from |-> p, and |-> q, in |-> r])

Slice ==
  /\ Ready /\ Unused # {}
  /\ \E p \in Held({"string", "vector"}), start \in Bounds, stop \in Bounds :
       New(IF IsText(p) THEN StringSlice(heap, At(p), start, stop)
                        ELSE VectorSlice(heap, At(p), start, stop),
           objects[p].kind, objects[p].region,
           [op |-> "slice", on |-> NextObject, from |-> p, start |-> start, stop |-> stop])

AppendText ==
  /\ Ready
  /\ \E p \in Held({"buffer", "text"}), s \in Literals.texts :
       On(BufferAppend(heap, objects[p].region, At(p), s),
          [op |-> "append", on |-> p, value |-> s], <<"done">>)

Push ==
  /\ Ready
  /\ \/ \E p \in Held({"vector"}) :
          On(VectorPush(heap, At(p), Fresh), [op |-> "push", on |-> p, value |-> Fresh], <<"done">>)
     \/ \E p \in Held({"list"}) :
          On(ListPush(heap, At(p), Fresh), [op |-> "push", on |-> p, value |-> Fresh], <<"done">>)

\* The compiler extends one list, the merged tokens, by lists that are not
\* empty, and pushes onto others only.
Extend ==
  /\ Ready
  /\ \/ \E p \in Held({"vector"}), q \in Held({"vector"}) :
          On(VectorExtend(heap, At(p), At(q)), [op |-> "extend", on |-> p, from |-> q], <<"done">>)
     \/ \E p \in Held({"merged"}), q \in Held({"list"}) :
          /\ Size(heap, At(q)) > 0
          /\ On(ListExtend(heap, At(p), At(q)),
                [op |-> "extend", on |-> p, from |-> q], <<"done">>)

LastOf(o) == Element(heap, Data(heap, At(o)), Size(heap, At(o)) - 1)

Pop ==
  /\ Ready
  /\ \E p \in Held({"vector", "list"}) :
       /\ objects[p].kind = "list" => Size(heap, At(p)) > 0 /\ loop.on # p
       /\ On(VectorPop(heap, At(p)), [op |-> "pop", on |-> p],
             IF Size(heap, At(p)) = 0 THEN <<>> ELSE <<"value", LastOf(p)>>)

Clear ==
  /\ Ready
  /\ \/ \E p \in Held({"vector"}) :
          On(VectorClear(heap, At(p)), [op |-> "clear", on |-> p], <<"done">>)
     \/ \E p \in Held({"dict"}) :
          On(DictClear(heap, At(p)), [op |-> "clear_dict", on |-> p], <<"done">>)

\* An index that is negative is a size_t beyond every size.
Set ==
  /\ Ready
  /\ \E p \in Held({"vector"}), i \in Bounds \ {Omitted} :
       On(VectorSet(heap, At(p), i, Fresh),
          [op |-> "set", on |-> p, at |-> i, value |-> Fresh], <<"done">>)

Get ==
  /\ Ready
  /\ \E p \in Held({"vector", "string"}), i \in Bounds \ {Omitted} :
       LET inside == i \in 0..(Size(heap, At(p)) - 1)
           read == IF IsText(p) THEN Word(heap, Plus(Data(heap, At(p)), i))
                   ELSE Element(heap, Data(heap, At(p)), i)
       IN  On(IF inside THEN heap ELSE Die(heap, "bounds"),
              [op |-> "get", on |-> p, at |-> i],
              IF inside THEN <<"value", read>> ELSE <<>>)

SetKey ==
  /\ Ready
  /\ \E k \in DOMAIN Hash :
       \/ \E p \in Held({"dict"}) :
            On(DictSet(heap, At(p), k, Fresh),
               [op |-> "set_key", on |-> p, key |-> k, value |-> Fresh], <<"done">>)
       \/ \E p \in Held({"table"}) :
            /\ loop.on # p
            /\ On(TableSet(heap, At(p), k, Fresh),
                  [op |-> "set_key", on |-> p, key |-> k, value |-> Fresh], <<"done">>)

\* The runtime answers with an option made in the dictionary's region,
\* which the program may unwrap at once; the seed with a pointer.
GetKey ==
  /\ Ready
  /\ \E p \in Held({"dict", "table"}), k \in DOMAIN Hash, unwrapped \in BOOLEAN :
       LET r == objects[p].region
           i == Place(heap, At(p), r, k)
           v == ValueWord(heap, Items(heap, At(p)), ItemOf(r), i)
           some == /\ i # Slots(heap, At(p))
                   /\ KeyWord(heap, Items(heap, At(p)), ItemOf(r), i) # Null
           option == OptionNew(heap, r, <<some, IF some THEN v ELSE Junk>>)
       IN  /\ r = Arena => ~unwrapped
           /\ On(IF i = Slots(heap, At(p)) THEN Die(heap, "endless")
                 ELSE IF r = Arena THEN heap
                 ELSE IF unwrapped /\ ~some THEN Die(option, "bounds") ELSE option,
                 [op |-> "get_key", on |-> p, key |-> k, unwrapped |-> unwrapped],
                 IF some THEN <<"value", v>> ELSE <<"none">>)

-----------------------------------------------------------------------------
(***************************************************************************)
(* The emitted foreach: a position, compared with the size of a vector or  *)
(* a string and with the capacity of a dictionary each time round.  The    *)
(* seed's iterator of a table counts the entries it has returned instead.  *)
(***************************************************************************)
StartLoop ==
  /\ Ready /\ ~Looping
  /\ \E o \in Held({"string", "vector", "dict", "list", "table"}) :
       loop' = [on    |-> o, at |-> 0, seen |-> <<>>,
                start |-> IF IsDict(o) THEN DOMAIN Content(heap, o) ELSE {},
                calm  |-> TRUE]
  /\ Return(heap, [op |-> "walk"], <<"done">>)
  /\ UNCHANGED objects

\* Mutant of Ahead: the loop over a dictionary stops at its size.
AheadOfSize(o) ==
  LET p == At(o)
  IN  IF objects[o].kind = "table" /\ Len(loop.seen) = Count(heap, p) THEN {}
      ELSE IF IsDict(o)
      THEN {i \in Filled(heap, p, objects[o].region) : i >= loop.at /\ i < Count(heap, p)}
      ELSE loop.at..(Size(heap, p) - 1)

\* The positions the loop has still to visit.
Ahead(o) ==
  LET p == At(o)
  IN  IF objects[o].kind = "table" /\ Len(loop.seen) = Count(heap, p) THEN {}
      ELSE IF IsDict(o)
      THEN {i \in Filled(heap, p, objects[o].region) : i >= loop.at}
      ELSE loop.at..(Size(heap, p) - 1)

VisitNext ==
  LET o == loop.on
      p == At(o)
      i == Min(Ahead(o))
      item == CASE IsDict(o)   -> Key(heap, Items(heap, p), ItemOf(objects[o].region), i)
                [] IsVector(o) -> Element(heap, Data(heap, p), i)
                [] IsText(o)   -> Word(heap, Plus(Data(heap, p), i))
  IN  /\ Ready /\ Looping
      /\ loop' = IF Ahead(o) = {} THEN NoLoop
                 ELSE [loop EXCEPT !.at = i + 1, !.seen = Append(@, item)]
      /\ Return(heap, [op |-> "walk"], <<"done">>)
      /\ UNCHANGED objects

Maker(h, kind, r, v) ==
  CASE kind = "string" -> StringNew(h, r, v)
    [] kind \in {"buffer", "text"} -> BufferNew(h, r, v)
    [] kind = "vector" -> VectorFrom(h, r, v)
    [] kind \in {"dict", "table"} -> DictFrom(h, r, v)
    [] kind \in {"list", "merged"} -> ListFrom(h, r, v)

RegionFor(kind) == IF kind \in {"text", "list", "merged", "table"} THEN Arena ELSE 1

\* The program has its global region and the objects of one of the starts.
Init ==
  \E start \in Starts :
    LET n == Len(start.made)
        kind(i) == start.made[i][1]
        h[i \in 0..n] ==
          IF i = 0 THEN RegionNew(EmptyHeap, 0)
          ELSE Maker(h[i - 1], kind(i), RegionFor(kind(i)), start.made[i][2])
    IN  /\ heap = [h[n] EXCEPT !.ptr = Null]
        /\ objects = [i \in 1..n |->
                         [kind |-> kind(i), ptr |-> h[i].ptr, region |-> RegionFor(kind(i))]]
        /\ loop = NoLoop
        /\ budget = [calls |-> start.calls, objects |-> start.objects,
                     regions |-> start.regions, kinds |-> {kind(i) : i \in 1..n}]
        /\ asked = [op |-> "none"] /\ answer = <<"none">>

Next ==
  \/ EnterRegion \/ LeaveRegion \/ MakeObject \/ Join \/ Slice \/ AppendText
  \/ Push \/ Extend \/ Pop \/ Clear \/ Set \/ Get \/ SetKey \/ GetKey
  \/ StartLoop \/ VisitNext

Spec == Init /\ [][Next]_vars

-----------------------------------------------------------------------------
Promise == INSTANCE Collections WITH
  contents <- [o \in DOMAIN objects |-> Content(heap, o)],
  home     <- [o \in DOMAIN objects |-> objects[o].region],
  depth    <- IF Alive THEN Len(heap.regions) ELSE 0,
  ended    <- ~Alive

(***************************************************************************)
(* What is read out of the memory of the containers is what collections    *)
(* promise, whatever was allocated, grown, copied or freed in between, and *)
(* a program dies only outside the bounds or of a size too large.          *)
(***************************************************************************)
KeepsPromise == Promise!Spec

\* The words an object owns: its head and the array it points to.
SpansOf(h, x) ==
  LET p == x.ptr
      n == CASE x.kind = "string" -> Room(h, p) + 1
             [] x.kind \in {"buffer", "text"} -> Larger(Room(h, p), Size(h, p) + 1)
             [] x.kind \in {"vector", "list"} -> Room(h, p) * ElemSize
             [] x.kind = "merged" ->
                  (IF Size(h, p) = 0 THEN Room(h, p) ELSE Size(h, p)) * ElemSize
             [] x.kind \in {"dict", "table"} -> Slots(h, p) * ItemOf(x.region).size
      head == <<p, IF x.kind \in {"buffer", "text", "list", "merged"} THEN 3 ELSE 4>>
      data == IF x.kind \in {"dict", "table"} THEN Items(h, p) ELSE Data(h, p)
      keys == IF x.kind # "dict" THEN {}
              ELSE LET k(i) == KeyWord(h, Items(h, p), DictItem, i)
                   IN  {<<k(i), 4 + Size(h, k(i)) + 1>> : i \in Filled(h, p, x.region)}
  IN  {head} \union keys \union (IF n = 0 THEN {} ELSE {<<data, n>>})

Spans(o) == SpansOf(heap, objects[o])

Overlap(s, t) ==
  /\ s[1][1] = t[1][1]
  /\ s[1][2] < t[1][2] + t[2] /\ t[1][2] < s[1][2] + s[2]

(***************************************************************************)
(* The words of two objects, and of the pieces of one object, are apart,   *)
(* each piece lies in the used part of a block of the object's own region, *)
(* and starts where any type may start.                                    *)
(***************************************************************************)
PiecesApart ==
  LET spans == UNION {{<<s[1], s[2], o>> : s \in Spans(o)} : o \in DOMAIN objects}
      blocks(o) == LET r == objects[o].region
                   IN  ToSet(IF r = Arena THEN heap.arena ELSE heap.regions[r].blocks)
  IN  Alive =>
        /\ \A s, t \in spans : s # t => ~Overlap(s, t)
        /\ \A s \in spans :
             /\ s[1][1] \in blocks(s[3])
             /\ s[1][2] + s[2] <= heap.blocks[s[1][1]].used
             /\ s[1][2] % Align = 0 \/ objects[s[3]].kind = "string"

Owned(h) == UNION {ToSet(h.regions[r].blocks) : r \in 1..Len(h.regions)}

BlocksOwned(h) ==
  LET of(r) == ToSet(h.regions[r].blocks)
  IN  /\ DOMAIN h.blocks = Owned(h) \union ToSet(h.arena)
      /\ \A r \in 1..Len(h.regions) :
           /\ IsInjective(h.regions[r].blocks) /\ of(r) \intersect ToSet(h.arena) = {}
           /\ \A q \in (1..Len(h.regions)) \ {r} : of(r) \intersect of(q) = {}
           /\ h.regions[r].total = SizeOf(h, of(r))

StatsRight(h) ==
  LET s == h.stats
  IN  /\ s.alive = Len(h.regions) /\ s.created - s.destroyed = s.alive /\ s.peak >= s.alive
      /\ s.blocksAlive = Cardinality(Owned(h))
      /\ s.blocksCreated - s.blocksDestroyed = s.blocksAlive
      /\ s.bytesAlive = SizeOf(h, Owned(h))
      /\ s.allocated - s.freed = s.bytesAlive /\ s.bytesPeak >= s.bytesAlive

TreeRight(h) ==
  /\ h.tree.depth = Len(h.regions)
  /\ h.tree.truncated <=> h.stats.created > TreeMax
  /\ Len(h.tree.entries) = Min({h.stats.created, TreeMax})

(***************************************************************************)
(* Every block belongs to one live region or to the arena, so that nothing *)
(* is left when a function ends, and the statistics and the lifetime tree  *)
(* say what is there.                                                      *)
(***************************************************************************)
Accounted == BlocksOwned(heap) /\ StatsRight(heap) /\ TreeRight(heap)

(***************************************************************************)
(* A foreach whose body does not make the dictionary grow and removes or   *)
(* replaces nothing gives every entry that was there exactly once, and     *)
(* none that is not there; over a vector it gives the vector as it is when *)
(* the loop ends, what the body pushed included.                           *)
(***************************************************************************)
ForeachComplete ==
  [][Looping /\ loop' = NoLoop /\ loop.calm /\ Alive' =>
       IF IsDict(loop.on)
       THEN /\ IsInjective(loop.seen)
            /\ loop.start \subseteq ToSet(loop.seen)
            /\ ToSet(loop.seen) \subseteq DOMAIN Content(heap, loop.on)
       ELSE loop.seen = Content(heap, loop.on)]_vars
=============================================================================
