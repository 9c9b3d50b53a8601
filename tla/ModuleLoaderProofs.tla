------------------------- MODULE ModuleLoaderProofs -------------------------
(***************************************************************************)
(* Proofs about ModuleLoader, for any set of files and any number of       *)
(* imports: the table of sources grows, never changes what an id stands    *)
(* for, and is complete when the loader ends without errors.               *)
(***************************************************************************)
EXTENDS ModuleLoader, SequenceTheorems, TLAPS

Source == [path : File, origin : Root \cup {Local}]
Edge == [target : Nat \ {0}, kind : {"relative", "absolute", "rooted"}, file : File]

TypeOK ==
    /\ readable \in SUBSET File
    /\ sources \in Seq(Source)
    /\ modules \in Seq(Seq(Edge))
    /\ seen \in SUBSET File
    /\ errors \in BOOLEAN
    /\ status \in {"start", "taking", "importing", "loaded", "failed"}

\* One id for every path.
PathsDistinct ==
    \A i \in Ids : \A j \in Ids : sources[i].path = sources[j].path => i = j

\* The target of every edge is the id of the file that was written.
TargetsNamed ==
    \A m \in 1 .. Len(modules) : \A k \in 1 .. Len(modules[m]) :
        /\ modules[m][k].target \in Ids
        /\ sources[modules[m][k].target].path = modules[m][k].file

\* The first source is the entry; every other one was found by a module before it.
Discovered ==
    /\ sources # << >> => sources[1].path = Entry
    /\ \A i \in Ids \ {1} :
          \E m \in 1 .. Len(modules) : \E k \in 1 .. Len(modules[m]) :
              m < i /\ modules[m][k].target = i

\* How far the work list is in every state of the loader.
Worked ==
    /\ Current <= Len(sources)
    /\ status = "start" => sources = << >> /\ ~ errors
    /\ status = "taking" => Current < Len(sources) /\ ~ errors
    /\ status = "importing" => Current \in Ids
    /\ status = "loaded" => Current = Len(sources) /\ Len(sources) # 0 /\ ~ errors

\* Whoever has the origin of a root is in it.
OriginsReal ==
    \A i \in Ids : sources[i].origin # Local => sources[i].origin = Home[sources[i].path]

\* While the roots are respected every source has the origin of its place, and the relative
\* imports resolved so far stay in their root.
Respected ==
    RootsRespected =>
        /\ \A i \in Ids : sources[i].origin = Home[sources[i].path]
        /\ \A m \in 1 .. Len(modules) : \A k \in 1 .. Len(modules[m]) :
              modules[m][k].kind = "relative" /\ sources[m].origin # Local
                  => Home[modules[m][k].file] = sources[m].origin

IInv ==
    /\ TypeOK /\ PathsDistinct /\ TargetsNamed /\ Discovered /\ Worked
    /\ OriginsReal /\ Respected

-----------------------------------------------------------------------------
(***************************************************************************)
(* The operators of add_source and resolve_path.                           *)
(***************************************************************************)

\* A known path is found at its id.
LEMMA IdOfKnown ==
    ASSUME NEW list, NEW path, Known(path, list)
    PROVE  IdOf(path, list) \in 1 .. Len(list) /\ list[IdOf(path, list)].path = path
BY DEF Known, IdOf

\* add_source keeps every source at its id, and has an id for the path it is given.
LEMMA AddedKeeps ==
    ASSUME sources \in Seq(Source), NEW path \in File
    PROVE  /\ Added(path) \in Seq(Source)
           /\ Len(Added(path)) \in {Len(sources), Len(sources) + 1}
           /\ \A i \in Ids : Added(path)[i] = sources[i]
           /\ Len(Added(path)) = Len(sources) + 1 =>
                 /\ Added(path)[Len(sources) + 1] = [path |-> path, origin |-> Local]
                 /\ ~ Known(path, sources)
           /\ Known(path, Added(path))
<1> DEFINE new == [path |-> path, origin |-> Local]
<1>1. CASE Known(path, sources)
  <2>1. Added(path) = sources
    BY <1>1 DEF Added
  <2>2. Len(sources) \in Nat
    BY LenProperties
  <2> QED
    BY <1>1, <2>1, <2>2
<1>2. CASE ~ Known(path, sources)
  <2>1. Added(path) = Append(sources, new)
    BY <1>2 DEF Added
  <2>2. new \in Source
    BY DEF Source
  <2>3. /\ Append(sources, new) \in Seq(Source)
        /\ Len(Append(sources, new)) = Len(sources) + 1
        /\ \A i \in 1 .. Len(sources) : Append(sources, new)[i] = sources[i]
        /\ Append(sources, new)[Len(sources) + 1] = new
    BY <2>2, AppendProperties
  <2>4. Len(sources) \in Nat
    BY LenProperties
  <2>5. Known(path, Append(sources, new))
    <3>1. Len(sources) + 1 \in 1 .. Len(Append(sources, new))
      BY <2>3, <2>4
    <3> QED
      BY <2>3, <3>1 DEF Known
  <2> HIDE DEF new
  <2> QED
    BY <1>2, <2>1, <2>3, <2>4, <2>5 DEF Ids, new
<1> QED
  BY <1>1, <1>2

\* A use declaration of a source resolves to an origin.
LEMMA ResolvedOriginType ==
    ASSUME NEW source \in Source, NEW use \in Use
    PROVE  ResolvedOrigin(source, use) \in Root \cup {Local}
BY LoaderAssumption DEF ResolvedOrigin, Source, Use

\* Both outcomes are origins.
LEMMA ReclassifiedType ==
    ASSUME NEW old \in Root \cup {Local}, NEW new \in Root \cup {Local}
    PROVE  Reclassified(old, new) \in Root \cup {Local}
BY DEF Reclassified

(***************************************************************************)
(* What Connect does to the two tables, when it gives an import the id it  *)
(* names: the only source that changes is that one, and it may be new.     *)
(***************************************************************************)
Linked(use, id) ==
    /\ sources' \in Seq(Source)
    /\ Len(sources') \in {Len(sources), Len(sources) + 1}
    /\ \A i \in Ids : sources'[i].path = sources[i].path
    /\ \A i \in Ids \ {id} : sources'[i] = sources[i]
    /\ id \in 1 .. Len(sources')
    /\ sources'[id].path = use.file
    /\ Len(sources') # Len(sources) => id = Len(sources) + 1 /\ ~ Known(use.file, sources)
    /\ sources'[id].origin = Reclassified(IF id \in Ids THEN sources[id].origin ELSE Local,
                                          ResolvedOrigin(sources[Current], use))

EdgeAdded(use, id) ==
    /\ modules' \in Seq(Seq(Edge))
    /\ Len(modules') = Len(modules)
    /\ \A m \in 1 .. Len(modules) :
          /\ \A k \in 1 .. Len(modules[m]) : modules'[m][k] = modules[m][k]
          /\ m = Current => Len(modules'[m]) = Len(modules[m]) + 1
          /\ m # Current => Len(modules'[m]) = Len(modules[m])
    /\ modules'[Current][Len(modules[Current]) + 1]
          = [target |-> id, kind |-> use.kind, file |-> use.file]

\* Connect changes the table of sources as Linked says.
LEMMA ConnectLinks ==
    ASSUME TypeOK, Worked, NEW use \in Use, Connect(use)
    PROVE  LET id == IdOf(use.file, Added(use.file))
           IN  Linked(use, id) /\ EdgeAdded(use, id)
<1> DEFINE list == Added(use.file)
           id == IdOf(use.file, list)
           origin == ResolvedOrigin(sources[Current], use)
           edge == [target |-> id, kind |-> use.kind, file |-> use.file]
<1> USE DEF TypeOK
<1>1. Current \in Ids /\ Len(sources) \in Nat /\ Current \in Nat
  <2>1. Current \in Ids
    BY DEF Worked, Connect
  <2>2. Len(sources) \in Nat /\ Len(modules) \in Nat
    BY LenProperties
  <2> QED
    BY <2>1, <2>2 DEF Current
<1>2. use.file \in File /\ use.kind \in {"relative", "absolute", "rooted"}
  BY DEF Use
<1>3. /\ sources' = [list EXCEPT ![id].origin = Reclassified(@, origin)]
      /\ modules' = [modules EXCEPT ![Current] = Append(@, edge)]
  BY DEF Connect
<1>4. /\ list \in Seq(Source)
      /\ Len(list) \in {Len(sources), Len(sources) + 1}
      /\ \A i \in Ids : list[i] = sources[i]
      /\ Len(list) = Len(sources) + 1 =>
            /\ list[Len(sources) + 1] = [path |-> use.file, origin |-> Local]
            /\ ~ Known(use.file, sources)
      /\ Known(use.file, list)
  BY <1>2, AddedKeeps
<1>5. id \in 1 .. Len(list) /\ list[id].path = use.file
  BY <1>4, IdOfKnown
<1>6. Len(list) # Len(sources) => id = Len(sources) + 1 /\ ~ Known(use.file, sources)
  <2> SUFFICES ASSUME Len(list) # Len(sources)
               PROVE  id = Len(sources) + 1 /\ ~ Known(use.file, sources)
    OBVIOUS
  <2>1. Len(list) = Len(sources) + 1 /\ ~ Known(use.file, sources)
    BY <1>4
  <2>2. id \notin Ids
    BY <1>4, <1>5, <2>1 DEF Known, Ids
  <2> HIDE DEF list, id
  <2> QED
    BY <1>1, <1>5, <2>1, <2>2 DEF Ids
<1>7. /\ list[id] \in Source
      /\ list[id].origin = IF id \in Ids THEN sources[id].origin ELSE Local
  <2>1. list[id] \in Source
    BY <1>4, <1>5, ElementOfSeq
  <2>2. CASE id \in Ids
    BY <1>4, <2>1, <2>2
  <2>3. CASE id \notin Ids
    <3>1. Len(list) = Len(sources) + 1
      <4> HIDE DEF list, id
      <4> QED
        BY <1>1, <1>4, <1>5, <2>3 DEF Ids
    <3> QED
      BY <1>1, <1>4, <1>6, <2>1, <2>3, <3>1
  <2> QED
    BY <2>2, <2>3, <2>1
<1>8. origin \in Root \cup {Local}
  <2>1. sources[Current] \in Source
    BY <1>1, ElementOfSeq DEF Ids
  <2> QED
    BY <2>1, ResolvedOriginType
<1> DEFINE changed == [list[id] EXCEPT !.origin = Reclassified(list[id].origin, origin)]
<1>9. changed \in Source /\ changed.path = use.file
      /\ changed.origin = Reclassified(list[id].origin, origin)
  <2>1. Reclassified(list[id].origin, origin) \in Root \cup {Local}
    <3>1. list[id].origin \in Root \cup {Local}
      BY <1>7 DEF Source
    <3> QED
      BY <3>1, <1>8, ReclassifiedType
  <2> HIDE DEF list, id, origin
  <2> QED
    BY <2>1, <1>5, <1>7 DEF Source
<1>10. sources' = [list EXCEPT ![id] = changed]
  BY <1>3
<1>11. /\ sources' \in Seq(Source)
       /\ Len(sources') = Len(list)
       /\ \A j \in 1 .. Len(list) : sources'[j] = IF j = id THEN changed ELSE list[j]
  <2> HIDE DEF list, id, origin, changed
  <2> QED
    BY <1>4, <1>5, <1>9, <1>10, ExceptSeq
<1>12. Linked(use, id)
  <2> HIDE DEF list, id, changed
  <2>1. Ids \subseteq 1 .. Len(list)
    BY <1>1, <1>4 DEF Ids
  <2>2. \A i \in Ids \ {id} : sources'[i] = sources[i]
    BY <1>4, <1>11, <2>1
  <2>3. \A i \in Ids : sources'[i].path = sources[i].path
    BY <1>4, <1>5, <1>9, <1>11, <2>1
  <2>4. sources'[id] = changed
    BY <1>5, <1>11
  <2> QED
    BY <1>4, <1>5, <1>6, <1>7, <1>9, <1>11, <2>2, <2>3, <2>4 DEF Linked
<1>13. edge \in Edge
  <2> HIDE DEF list, id
  <2>1. id \in Nat \ {0}
    BY <1>5
  <2> QED
    BY <1>2, <2>1 DEF Edge
<1>14. EdgeAdded(use, id)
  <2> HIDE DEF list, id, edge
  <2>1. Current \in 1 .. Len(modules) /\ modules[Current] \in Seq(Edge)
    <3>1. Current \in 1 .. Len(modules)
      BY <1>1 DEF Current, Ids
    <3> QED
      BY <3>1, ElementOfSeq
  <2>2. /\ Append(modules[Current], edge) \in Seq(Edge)
        /\ Len(Append(modules[Current], edge)) = Len(modules[Current]) + 1
        /\ \A k \in 1 .. Len(modules[Current]) :
              Append(modules[Current], edge)[k] = modules[Current][k]
        /\ Append(modules[Current], edge)[Len(modules[Current]) + 1] = edge
    BY <1>13, <2>1, AppendProperties
  <2> DEFINE longer == Append(modules[Current], edge)
  <2>3. /\ modules' \in Seq(Seq(Edge))
        /\ Len(modules') = Len(modules)
        /\ \A m \in 1 .. Len(modules) : modules'[m] = IF m = Current THEN longer ELSE modules[m]
    <3>1. modules' = [modules EXCEPT ![Current] = longer]
      BY <1>3
    <3>2. longer \in Seq(Edge)
      BY <2>2
    <3> HIDE DEF longer
    <3> QED
      BY <2>1, <3>1, <3>2, ExceptSeq
  <2>4. \A m \in 1 .. Len(modules) : Len(modules[m]) \in Nat
    <3> TAKE m \in 1 .. Len(modules)
    <3>1. modules[m] \in Seq(Edge)
      BY ElementOfSeq
    <3> QED
      BY <3>1, LenProperties
  <2>5. modules'[Current] = longer
    BY <2>1, <2>3
  <2>6. ASSUME NEW m \in 1 .. Len(modules)
        PROVE  /\ \A k \in 1 .. Len(modules[m]) : modules'[m][k] = modules[m][k]
               /\ m = Current => Len(modules'[m]) = Len(modules[m]) + 1
               /\ m # Current => Len(modules'[m]) = Len(modules[m])
    <3>1. CASE m = Current
      BY <2>2, <2>5, <3>1
    <3>2. CASE m # Current
      <4> HIDE DEF longer
      <4>1. modules'[m] = modules[m]
        BY <2>3, <3>2
      <4> QED
        BY <2>4, <3>2, <4>1
    <3> QED
      BY <3>1, <3>2
  <2>7. modules'[Current][Len(modules[Current]) + 1]
           = [target |-> id, kind |-> use.kind, file |-> use.file]
    BY <2>2, <2>5 DEF edge
  <2>8. /\ modules' \in Seq(Seq(Edge))
        /\ Len(modules') = Len(modules)
    BY <2>3
  <2> HIDE DEF TypeOK
  <2> QED
    BY <2>6, <2>7, <2>8, Zenon DEF EdgeAdded
<1> QED
  BY <1>12, <1>14

-----------------------------------------------------------------------------
(***************************************************************************)
(* The invariant is inductive: the states before any import ...            *)
(***************************************************************************)

\* The lengths that the other proofs count with.
LEMMA Lengths ==
    ASSUME TypeOK
    PROVE  /\ Len(sources) \in Nat
           /\ Len(modules) \in Nat
           /\ \A m \in 1 .. Len(modules) : Len(modules[m]) \in Nat
<1>1. ASSUME NEW m \in 1 .. Len(modules)
      PROVE  Len(modules[m]) \in Nat
  <2>1. modules[m] \in Seq(Edge)
    BY ElementOfSeq DEF TypeOK
  <2> QED
    BY <2>1, LenProperties
<1> QED
  BY <1>1, LenProperties DEF TypeOK

\* Init establishes the invariant.
LEMMA InitInvariant == Init => IInv
<1> SUFFICES ASSUME Init PROVE IInv
  OBVIOUS
<1>1. Len(sources) = 0 /\ Len(modules) = 0 /\ sources = << >>
  BY EmptySeq DEF Init
<1>2. TypeOK
  BY EmptySeq DEF Init, TypeOK
<1>3. PathsDistinct /\ TargetsNamed /\ Discovered /\ OriginsReal
  BY <1>1 DEF PathsDistinct, TargetsNamed, Discovered, OriginsReal, Ids
<1>4. Worked
  BY <1>1 DEF Worked, Current, Init
<1>5. Respected
  BY <1>1 DEF Respected, Ids
<1> QED
  BY <1>2, <1>3, <1>4, <1>5 DEF IInv

\* The entry becomes the only source.
LEMMA StartInvariant == IInv /\ Start => IInv'
<1> SUFFICES ASSUME IInv, Start PROVE IInv'
  OBVIOUS
<1> USE DEF IInv
<1>1. CASE Entry \notin readable
  <2>1. UNCHANGED <<readable, sources, modules, seen, errors>> /\ status' = "failed"
    BY <1>1 DEF Start
  <2> QED
    BY <2>1 DEF TypeOK, PathsDistinct, TargetsNamed, Discovered, Worked, OriginsReal,
                Respected, RootsRespected, ForEachEdge, Ids, Current
<1>2. CASE Entry \in readable
  <2>1. /\ UNCHANGED <<readable, modules, seen, errors>>
        /\ sources' = Added(Entry) /\ status' = "taking" /\ status = "start"
    BY <1>2 DEF Start
  <2>2. Len(sources) = 0 /\ Len(modules) = 0 /\ ~ errors /\ ~ Known(Entry, sources)
    <3>1. sources = << >> /\ ~ errors
      BY <2>1 DEF Worked
    <3>2. Len(sources) = 0
      BY <3>1, EmptySeq
    <3>3. Len(modules) = 0
      BY <3>2, Lengths DEF Worked, Current
    <3> QED
      BY <3>1, <3>2, <3>3 DEF Known
  <2>3. sources' = Append(sources, [path |-> Entry, origin |-> Local])
    BY <2>1, <2>2 DEF Added
  <2>4. /\ sources' \in Seq(Source)
        /\ Len(sources') = 1
        /\ sources'[1] = [path |-> Entry, origin |-> Local]
    <3>1. [path |-> Entry, origin |-> Local] \in Source
      BY LoaderAssumption DEF Source
    <3> QED
      BY <2>2, <2>3, <3>1, AppendProperties DEF TypeOK
  <2>5. TypeOK'
    BY <2>1, <2>4 DEF TypeOK
  <2>6. PathsDistinct' /\ OriginsReal'
    BY <2>4 DEF PathsDistinct, OriginsReal, Ids
  <2>7. TargetsNamed' /\ Discovered'
    BY <2>1, <2>2, <2>4 DEF TargetsNamed, Discovered, Ids
  <2>8. Worked'
    BY <2>1, <2>2, <2>4 DEF Worked, Current
  <2>9. Respected'
    <3>1. RootsRespected' => Home[Entry] = Local
      BY DEF RootsRespected
    <3>2. Len(modules') = 0 /\ Ids' = {1}
      BY <2>1, <2>2, <2>4 DEF Ids
    <3>3. RootsRespected' => \A i \in Ids' : sources'[i].origin = Home[sources'[i].path]
      BY <2>4, <3>1, <3>2
    <3> QED
      BY <3>2, <3>3 DEF Respected
  <2> QED
    BY <2>5, <2>6, <2>7, <2>8, <2>9
<1> QED
  BY <1>1, <1>2

\* A module without imports is appended.
LEMMA TakeInvariant == IInv /\ Take => IInv'
<1> SUFFICES ASSUME IInv, Take PROVE IInv'
  OBVIOUS
<1> USE DEF IInv
<1>1. /\ UNCHANGED <<readable, sources, errors>>
      /\ modules' = Append(modules, << >>)
      /\ seen' = {} /\ status = "taking" /\ status' = "importing"
      /\ Len(modules) < Len(sources)
  BY DEF Take, Current
<1>2. Len(sources) \in Nat /\ Len(modules) \in Nat
  BY Lengths
<1>3. /\ modules' \in Seq(Seq(Edge))
      /\ Len(modules') = Len(modules) + 1
      /\ \A m \in 1 .. Len(modules) : modules'[m] = modules[m]
      /\ Len(modules'[Len(modules) + 1]) = 0
  <2>1. << >> \in Seq(Edge)
    BY EmptySeq
  <2>2. /\ Append(modules, << >>) \in Seq(Seq(Edge))
        /\ Len(Append(modules, << >>)) = Len(modules) + 1
        /\ \A m \in 1 .. Len(modules) : Append(modules, << >>)[m] = modules[m]
        /\ Append(modules, << >>)[Len(modules) + 1] = << >>
    BY <2>1, AppendProperties DEF TypeOK
  <2> QED
    BY <1>1, <2>2, EmptySeq
<1>4. TypeOK'
  BY <1>1, <1>3 DEF TypeOK
<1>5. PathsDistinct' /\ OriginsReal'
  BY <1>1 DEF PathsDistinct, OriginsReal, Ids
<1>6. ASSUME NEW m \in 1 .. Len(modules'), NEW k \in 1 .. Len(modules'[m])
      PROVE  m \in 1 .. Len(modules) /\ modules'[m] = modules[m]
  <2>1. CASE m = Len(modules) + 1
    BY <1>3, <2>1, <1>6
  <2>2. CASE m # Len(modules) + 1
    BY <1>2, <1>3, <2>2
  <2> QED
    BY <2>1, <2>2
<1>7. TargetsNamed'
  BY <1>1, <1>6 DEF TargetsNamed, Ids
<1>8. Discovered'
  <2>1. ASSUME NEW i \in Ids \ {1}
        PROVE  \E m \in 1 .. Len(modules') : \E k \in 1 .. Len(modules'[m]) :
                   m < i /\ modules'[m][k].target = i
    <3>1. PICK m \in 1 .. Len(modules) : \E k \in 1 .. Len(modules[m]) :
              m < i /\ modules[m][k].target = i
      BY DEF Discovered
    <3>2. m \in 1 .. Len(modules') /\ modules'[m] = modules[m]
      BY <1>2, <1>3
    <3> QED
      BY <3>1, <3>2
  <2> QED
    BY <1>1, <2>1 DEF Discovered, Ids
<1>9. Worked'
  BY <1>1, <1>2, <1>3 DEF Worked, Current, Ids
<1>10. Respected'
  <2> SUFFICES ASSUME RootsRespected'
               PROVE  /\ \A i \in Ids : sources[i].origin = Home[sources[i].path]
                      /\ \A m \in 1 .. Len(modules') : \A k \in 1 .. Len(modules'[m]) :
                            modules'[m][k].kind = "relative" /\ sources[m].origin # Local
                                => Home[modules'[m][k].file] = sources[m].origin
    BY <1>1 DEF Respected, Ids
  <2>1. RootsRespected
    <3>1. \A m \in 1 .. Len(modules) : m \in 1 .. Len(modules')
      BY <1>2, <1>3
    <3> QED
      BY <1>1, <1>3, <3>1 DEF RootsRespected, ForEachEdge
  <2> QED
    BY <1>6, <2>1 DEF Respected
<1> QED
  BY <1>4, <1>5, <1>7, <1>8, <1>9, <1>10

\* The steps that leave both tables alone.
LEMMA TablesKept ==
    ASSUME IInv, Reject \/ EndOfImports \/ \E use \in Use : Refuse(use) \/ Miss(use)
    PROVE  IInv'
<1> USE DEF IInv
<1>1. UNCHANGED <<readable, sources, modules>>
  BY DEF Reject, EndOfImports, Refuse, Miss
<1>2. PathsDistinct' /\ TargetsNamed' /\ Discovered' /\ OriginsReal' /\ Respected'
  BY <1>1 DEF PathsDistinct, TargetsNamed, Discovered, OriginsReal, Respected, RootsRespected,
              ForEachEdge, Ids
<1>3. Len(sources) \in Nat /\ Len(modules) \in Nat
  BY Lengths
<1>4. CASE Reject
  BY <1>1, <1>2, <1>4 DEF Reject, TypeOK, Worked, Current
<1>5. CASE EndOfImports
  <2>1. TypeOK'
    BY <1>1, <1>5 DEF EndOfImports, TypeOK
  <2>2. Worked'
    BY <1>1, <1>3, <1>5 DEF EndOfImports, TypeOK, Worked, Current, Ids
  <2> QED
    BY <1>2, <2>1, <2>2
<1>6. ASSUME NEW use \in Use, Refuse(use)
      PROVE  IInv'
  BY <1>1, <1>2, <1>6 DEF Refuse, TypeOK, Worked, Current, Ids
<1>7. ASSUME NEW use \in Use, Miss(use)
      PROVE  IInv'
  <2>1. use.file \in File
    BY DEF Use
  <2>2. TypeOK'
    BY <1>1, <1>7, <2>1 DEF Miss, TypeOK
  <2>3. Worked'
    BY <1>1, <1>7 DEF Miss, Worked, Current, Ids
  <2> QED
    BY <1>2, <2>2, <2>3
<1> QED
  BY <1>4, <1>5, <1>6, <1>7

(***************************************************************************)
(* ... and a resolved import.                                              *)
(***************************************************************************)

\* A new edge joins the others, which stay where they are.
LEMMA EdgesAfter ==
    ASSUME TypeOK, Worked, NEW use, NEW id, EdgeAdded(use, id),
           status = "importing",
           NEW m \in 1 .. Len(modules'), NEW k \in 1 .. Len(modules'[m])
    PROVE  /\ m \in 1 .. Len(modules)
           /\ \/ k \in 1 .. Len(modules[m]) /\ modules'[m][k] = modules[m][k]
              \/ /\ m = Current
                 /\ modules'[m][k] = [target |-> id, kind |-> use.kind, file |-> use.file]
<1>1. m \in 1 .. Len(modules)
  BY DEF EdgeAdded
<1>2. Len(modules[m]) \in Nat
  BY <1>1, Lengths
<1>3. /\ m = Current => Len(modules'[m]) = Len(modules[m]) + 1
      /\ m # Current => Len(modules'[m]) = Len(modules[m])
  BY <1>1 DEF EdgeAdded
<1>4. CASE k \in 1 .. Len(modules[m])
  BY <1>1, <1>4 DEF EdgeAdded
<1>5. CASE k \notin 1 .. Len(modules[m])
  <2>1. m = Current /\ k = Len(modules[m]) + 1
    BY <1>2, <1>3, <1>5
  <2> QED
    BY <1>1, <2>1 DEF EdgeAdded
<1> QED
  BY <1>4, <1>5

\* ... and each of them is still there.
LEMMA EdgesBefore ==
    ASSUME TypeOK, NEW use, NEW id, EdgeAdded(use, id),
           NEW m \in 1 .. Len(modules), NEW k \in 1 .. Len(modules[m])
    PROVE  /\ m \in 1 .. Len(modules') /\ k \in 1 .. Len(modules'[m])
           /\ modules'[m][k] = modules[m][k]
<1>1. Len(modules[m]) \in Nat
  BY Lengths
<1>2. /\ m = Current => Len(modules'[m]) = Len(modules[m]) + 1
      /\ m # Current => Len(modules'[m]) = Len(modules[m])
  BY DEF EdgeAdded
<1>3. k \in 1 .. Len(modules'[m])
  BY <1>1, <1>2
<1> QED
  BY <1>3 DEF EdgeAdded

\* A source of the longer table is an old one, or the one just linked.
LEMMA SourcesAfter ==
    ASSUME TypeOK, NEW use, NEW id, Linked(use, id)
    PROVE  /\ Ids \subseteq Ids'
           /\ \A i \in Ids' : i \in Ids \/ (i = id /\ ~ Known(use.file, sources))
           /\ id \in Ids' /\ id # 0
<1>1. Len(sources) \in Nat
  BY Lengths
<1>2. Len(sources') \in {Len(sources), Len(sources) + 1} /\ id \in 1 .. Len(sources')
  BY DEF Linked
<1>3. ASSUME NEW i \in Ids', i \notin Ids
      PROVE  i = id /\ ~ Known(use.file, sources)
  <2>1. i = Len(sources) + 1 /\ Len(sources') # Len(sources)
    BY <1>1, <1>2, <1>3 DEF Ids
  <2> QED
    BY <2>1 DEF Linked
<1> QED
  BY <1>1, <1>2, <1>3 DEF Ids

\* An import never brings a source into the table under a path that has an id already.
LEMMA LinkedDistinct ==
    ASSUME TypeOK, PathsDistinct, NEW use, NEW id, Linked(use, id)
    PROVE  PathsDistinct'
<1> SUFFICES ASSUME NEW i \in Ids', NEW j \in Ids', sources'[i].path = sources'[j].path
             PROVE  i = j
  BY DEF PathsDistinct
<1>1. \A h \in Ids' : h \in Ids \/ (h = id /\ ~ Known(use.file, sources))
  BY SourcesAfter
<1>2. /\ \A h \in Ids : sources'[h].path = sources[h].path
      /\ sources'[id].path = use.file
  BY DEF Linked
<1>3. CASE i \in Ids /\ j \in Ids
  BY <1>2, <1>3 DEF PathsDistinct
<1>4. CASE i \notin Ids /\ j \notin Ids
  BY <1>1, <1>4
<1>5. CASE i \in Ids /\ j \notin Ids
  BY <1>1, <1>2, <1>5 DEF Known, Ids
<1>6. CASE i \notin Ids /\ j \in Ids
  BY <1>1, <1>2, <1>6 DEF Known, Ids
<1> QED
  BY <1>3, <1>4, <1>5, <1>6

\* Whoever is given the origin of a root is in it.
LEMMA LinkedReal ==
    ASSUME IInv, NEW use \in Use, NEW id, Linked(use, id),
           Current \in Ids, Resolves(sources[Current], use)
    PROVE  OriginsReal'
<1> SUFFICES ASSUME NEW i \in Ids', sources'[i].origin # Local
             PROVE  sources'[i].origin = Home[sources'[i].path]
  BY DEF OriginsReal
<1> DEFINE old == IF id \in Ids THEN sources[id].origin ELSE Local
           new == ResolvedOrigin(sources[Current], use)
<1>1. \A h \in Ids' : h \in Ids \/ h = id
  BY SourcesAfter DEF IInv
<1>2. CASE i # id
  <2>1. i \in Ids /\ sources'[i] = sources[i]
    BY <1>1, <1>2 DEF Linked
  <2> QED
    BY <2>1 DEF IInv, OriginsReal
<1>3. CASE i = id
  <2>1. sources'[i].path = use.file /\ sources'[i].origin = Reclassified(old, new)
    BY <1>3 DEF Linked
  <2>2. CASE old # Local /\ new = Local
    <3>1. sources'[i].origin = old
      BY <2>1, <2>2 DEF Reclassified
    <3>2. id \in Ids /\ sources[id].path = use.file
      BY <2>2, <2>1, <1>3 DEF Linked
    <3> QED
      BY <2>1, <2>2, <3>1, <3>2 DEF IInv, OriginsReal
  <2>3. CASE old = Local \/ new # Local
    <3>1. sources'[i].origin = new /\ new # Local
      BY <2>1, <2>3 DEF Reclassified
    <3>2. CASE use.kind = "rooted"
      BY <2>1, <3>1, <3>2 DEF ResolvedOrigin
    <3>3. CASE use.kind = "relative"
      <4>1. new = sources[Current].origin
        BY <3>3 DEF ResolvedOrigin
      <4>2. Home[use.file] = sources[Current].origin
        BY <3>1, <3>3, <4>1 DEF Resolves
      <4> QED
        BY <2>1, <3>1, <4>1, <4>2
    <3>4. CASE use.kind = "absolute"
      BY <3>1, <3>4 DEF ResolvedOrigin
    <3> QED
      BY <3>2, <3>3, <3>4 DEF Use
  <2> QED
    BY <2>2, <2>3
<1> QED
  BY <1>2, <1>3

\* The roots were respected before an import if they are after it.
LEMMA RootsRespectedBefore ==
    ASSUME IInv, status = "importing", NEW use \in Use, NEW id,
           Linked(use, id), EdgeAdded(use, id), RootsRespected'
    PROVE  RootsRespected
<1> SUFFICES ASSUME NEW m \in 1 .. Len(modules), NEW k \in 1 .. Len(modules[m]),
                    Home[modules[m][k].file] # Local
             PROVE  /\ modules[m][k].kind # "absolute"
                    /\ modules[m][k].kind = "relative"
                          => Home[sources[m].path] = Home[modules[m][k].file]
  BY DEF RootsRespected, ForEachEdge
<1>1. m \in 1 .. Len(modules') /\ k \in 1 .. Len(modules'[m]) /\ modules'[m][k] = modules[m][k]
  BY EdgesBefore DEF IInv
<1>2. sources'[m].path = sources[m].path
  <2>1. Len(modules) \in Nat /\ Len(sources) \in Nat /\ Len(modules) <= Len(sources)
    BY Lengths DEF IInv, Worked, Current
  <2>2. m \in Ids
    BY <2>1 DEF Ids
  <2> QED
    BY <2>2 DEF Linked
<1> QED
  BY <1>1, <1>2 DEF RootsRespected, ForEachEdge

\* In a program that respects its roots a new import leaves every source, the imported one
\* included, with the origin of its place.
LEMMA LinkedHome ==
    ASSUME IInv, status = "importing", NEW use \in Use, NEW id,
           Linked(use, id), EdgeAdded(use, id), Resolves(sources[Current], use), RootsRespected'
    PROVE  \A i \in Ids' : sources'[i].origin = Home[sources'[i].path]
<1> DEFINE old == IF id \in Ids THEN sources[id].origin ELSE Local
           new == ResolvedOrigin(sources[Current], use)
<1>1. /\ \A i \in Ids : sources[i].origin = Home[sources[i].path]
      /\ Current \in Ids
  BY RootsRespectedBefore DEF IInv, Respected, Worked
<1>2. \A h \in Ids' : h \in Ids \/ h = id
  BY SourcesAfter DEF IInv
<1>3. ASSUME NEW i \in Ids', i # id
      PROVE  sources'[i].origin = Home[sources'[i].path]
  <2>1. i \in Ids /\ sources'[i] = sources[i]
    BY <1>2, <1>3 DEF Linked
  <2> QED
    BY <1>1, <2>1
<1>4. sources'[id].path = use.file /\ sources'[id].origin = Reclassified(old, new)
  BY DEF Linked
<1>5. old = Local \/ old = Home[use.file]
  <2>1. id \in Ids => sources[id].path = use.file
    BY <1>4 DEF Linked
  <2> QED
    BY <1>1, <2>1
\* The new edge, as RootsRespected sees it.
<1>6. Home[use.file] # Local =>
         /\ use.kind # "absolute"
         /\ use.kind = "relative" => Home[sources[Current].path] = Home[use.file]
  <2> DEFINE k == Len(modules[Current]) + 1
  <2>1. Current \in 1 .. Len(modules) /\ Len(modules[Current]) \in Nat
    <3>1. Current \in 1 .. Len(modules)
      BY <1>1, Lengths DEF IInv, Current, Ids
    <3> QED
      BY <3>1, Lengths DEF IInv
  <2>2. /\ Current \in 1 .. Len(modules') /\ k \in 1 .. Len(modules'[Current])
        /\ modules'[Current][k] = [target |-> id, kind |-> use.kind, file |-> use.file]
    BY <2>1 DEF EdgeAdded
  <2>3. sources'[Current].path = sources[Current].path
    BY <1>1 DEF Linked
  <2> HIDE DEF k
  <2>4. Home[modules'[Current][k].file] # Local =>
           /\ modules'[Current][k].kind # "absolute"
           /\ modules'[Current][k].kind = "relative"
                 => Home[sources'[Current].path] = Home[modules'[Current][k].file]
    BY <2>2 DEF RootsRespected, ForEachEdge
  <2> QED
    BY <2>2, <2>3, <2>4
<1>7. new = Home[use.file]
  <2>1. CASE use.kind = "rooted"
    BY <2>1 DEF ResolvedOrigin
  <2>2. CASE use.kind = "relative"
    <3>1. new = sources[Current].origin /\ new = Home[sources[Current].path]
      BY <1>1, <2>2 DEF ResolvedOrigin
    <3>2. new # Local => Home[use.file] = new
      BY <2>2, <3>1 DEF Resolves
    <3> QED
      BY <1>6, <2>2, <3>1, <3>2
  <2>3. CASE use.kind = "absolute"
    BY <1>6, <2>3 DEF ResolvedOrigin
  <2> QED
    BY <2>1, <2>2, <2>3 DEF Use
<1>8. sources'[id].origin = Home[sources'[id].path]
  <2> HIDE DEF old, new
  <2> QED
    BY <1>4, <1>5, <1>7 DEF Reclassified
<1> QED
  BY <1>3, <1>8

\* ... and the relative imports of library and package files inside their root.
LEMMA LinkedRespected ==
    ASSUME IInv, status = "importing", NEW use \in Use, NEW id,
           Linked(use, id), EdgeAdded(use, id), Resolves(sources[Current], use)
    PROVE  Respected'
<1> SUFFICES ASSUME RootsRespected',
                    NEW m \in 1 .. Len(modules'), NEW k \in 1 .. Len(modules'[m]),
                    modules'[m][k].kind = "relative", sources'[m].origin # Local
             PROVE  Home[modules'[m][k].file] = sources'[m].origin
  BY LinkedHome DEF Respected
<1>1. RootsRespected
  BY RootsRespectedBefore
<1>2. /\ m \in 1 .. Len(modules)
      /\ \/ k \in 1 .. Len(modules[m]) /\ modules'[m][k] = modules[m][k]
         \/ /\ m = Current
            /\ modules'[m][k] = [target |-> id, kind |-> use.kind, file |-> use.file]
  BY EdgesAfter DEF IInv
<1>3. sources'[m].origin = sources[m].origin
  <2>1. Len(modules) \in Nat /\ Len(sources) \in Nat /\ Len(modules) <= Len(sources)
    BY Lengths DEF IInv, Worked, Current
  <2>2. m \in Ids /\ m \in Ids'
    BY <1>2, <2>1, SourcesAfter DEF Ids, IInv
  <2>3. sources'[m].path = sources[m].path
    BY <2>2 DEF Linked
  <2> QED
    BY <1>1, <2>2, <2>3, LinkedHome DEF IInv, Respected
<1>4. CASE k \in 1 .. Len(modules[m]) /\ modules'[m][k] = modules[m][k]
  BY <1>1, <1>2, <1>3, <1>4 DEF IInv, Respected
<1>5. CASE m = Current /\ modules'[m][k] = [target |-> id, kind |-> use.kind, file |-> use.file]
  BY <1>3, <1>5 DEF Resolves
<1> QED
  BY <1>2, <1>4, <1>5

\* The import of a module, resolved.
LEMMA ConnectInvariant ==
    ASSUME IInv, NEW use \in Use, Connect(use)
    PROVE  IInv'
<1> DEFINE id == IdOf(use.file, Added(use.file))
<1>1. Linked(use, id) /\ EdgeAdded(use, id)
  BY ConnectLinks DEF IInv
<1>2. /\ status = "importing" /\ status' = "importing" /\ readable' = readable
      /\ seen' = seen \cup {use.file} /\ errors' = (errors \/ ~ use.named)
      /\ Resolves(sources[Current], use)
  BY DEF Connect
<1> HIDE DEF id
<1>3. Ids \subseteq Ids' /\ id \in Ids' /\ Current \in Ids
  BY <1>1, <1>2, SourcesAfter DEF IInv, Worked
<1>4. TypeOK'
  <2>1. use.file \in File /\ use.named \in BOOLEAN
    BY DEF Use
  <2>2. errors' \in BOOLEAN
    BY <1>2, <2>1 DEF IInv, TypeOK
  <2> QED
    BY <1>1, <1>2, <2>1, <2>2 DEF IInv, TypeOK, Linked, EdgeAdded
<1>5. PathsDistinct'
  BY <1>1, LinkedDistinct DEF IInv
<1>6. TargetsNamed'
  <2> SUFFICES ASSUME NEW m \in 1 .. Len(modules'), NEW k \in 1 .. Len(modules'[m])
               PROVE  /\ modules'[m][k].target \in Ids'
                      /\ sources'[modules'[m][k].target].path = modules'[m][k].file
    BY DEF TargetsNamed
  <2>1. /\ m \in 1 .. Len(modules)
        /\ \/ k \in 1 .. Len(modules[m]) /\ modules'[m][k] = modules[m][k]
           \/ modules'[m][k] = [target |-> id, kind |-> use.kind, file |-> use.file]
    BY <1>1, <1>2, EdgesAfter DEF IInv
  <2>2. CASE k \in 1 .. Len(modules[m]) /\ modules'[m][k] = modules[m][k]
    BY <1>1, <1>3, <2>1, <2>2 DEF IInv, TargetsNamed, Linked
  <2>3. CASE modules'[m][k] = [target |-> id, kind |-> use.kind, file |-> use.file]
    BY <1>1, <1>3, <2>3 DEF Linked
  <2> QED
    BY <2>1, <2>2, <2>3
<1>7. Discovered'
  <2>1. sources'[1].path = Entry
    <3>1. 1 \in Ids /\ sources # << >>
      BY <1>3, EmptySeq, Lengths DEF IInv, Ids
    <3> QED
      BY <1>1, <3>1 DEF IInv, Discovered, Linked
  <2>2. ASSUME NEW i \in Ids' \ {1}
        PROVE  \E m \in 1 .. Len(modules') : \E k \in 1 .. Len(modules'[m]) :
                   m < i /\ modules'[m][k].target = i
    <3>1. CASE i \in Ids
      <4>1. PICK m \in 1 .. Len(modules) : \E k \in 1 .. Len(modules[m]) :
                m < i /\ modules[m][k].target = i
        BY <3>1 DEF IInv, Discovered
      <4>2. PICK k \in 1 .. Len(modules[m]) : m < i /\ modules[m][k].target = i
        BY <4>1
      <4>3. /\ m \in 1 .. Len(modules') /\ k \in 1 .. Len(modules'[m])
            /\ modules'[m][k] = modules[m][k]
        BY <1>1, <4>2, EdgesBefore DEF IInv
      <4> QED
        BY <4>2, <4>3
    <3>2. CASE i \notin Ids
      <4> DEFINE k == Len(modules[Current]) + 1
      <4>1. i = id /\ Current < i /\ Current \in 1 .. Len(modules)
        <5>1. Len(sources) \in Nat /\ i \in Nat /\ i > Len(sources)
          BY <3>2, Lengths DEF Ids, IInv
        <5>2. i = id
          BY <1>1, <3>2, SourcesAfter DEF IInv
        <5>3. Current \in 1 .. Len(modules)
          BY <1>3, Lengths DEF IInv, Current, Ids
        <5> QED
          BY <1>3, <5>1, <5>2, <5>3 DEF Ids
      <4>2. Len(modules[Current]) \in Nat
        BY <4>1, Lengths DEF IInv
      <4>3. /\ Current \in 1 .. Len(modules') /\ k \in 1 .. Len(modules'[Current])
            /\ modules'[Current][k].target = i
        BY <1>1, <4>1, <4>2 DEF EdgeAdded
      <4> QED
        BY <4>1, <4>3
    <3> QED
      BY <3>1, <3>2
  <2> QED
    BY <2>1, <2>2 DEF Discovered
<1>8. Worked'
  <2>1. Current' = Current
    BY <1>1 DEF Current, EdgeAdded
  <2>2. Current <= Len(sources')
    BY <1>1, Lengths DEF IInv, Worked, Linked, Current
  <2> QED
    BY <1>2, <1>3, <2>1, <2>2 DEF Worked
<1>9. OriginsReal'
  BY <1>1, <1>2, <1>3, LinkedReal
<1>10. Respected'
  BY <1>1, <1>2, LinkedRespected
<1> QED
  BY <1>4, <1>5, <1>6, <1>7, <1>8, <1>9, <1>10 DEF IInv

\* The invariant is inductive.
LEMMA StepInvariant == IInv /\ [Next]_vars => IInv'
<1> SUFFICES ASSUME IInv, [Next]_vars PROVE IInv'
  OBVIOUS
<1>1. CASE UNCHANGED vars
  BY <1>1 DEF IInv, vars, TypeOK, PathsDistinct, TargetsNamed, Discovered, Worked, OriginsReal,
              Respected, RootsRespected, ForEachEdge, Ids, Current
<1> QED
  BY <1>1, StartInvariant, TakeInvariant, TablesKept, ConnectInvariant DEF Next

\* It is an invariant of the specification.
LEMMA InvariantHolds == Spec => []IInv
BY InitInvariant, StepInvariant, PTL DEF Spec

-----------------------------------------------------------------------------
(***************************************************************************)
(* What it says about the loader.                                          *)
(***************************************************************************)

\* The type invariant of the loader.
THEOREM TypeCorrect == Spec => []TypeOK
<1>1. IInv => TypeOK
  BY DEF IInv
<1> QED
  BY <1>1, InvariantHolds, PTL

\* An import, resolved when only some of the sources were known, is the id of the file that
\* was written, and of no other source, in every later state of the loader.
THEOREM EdgesStayFaithful == Spec => []EdgesFaithful
<1>1. IInv => EdgesFaithful
  <2> SUFFICES ASSUME IInv, NEW m \in 1 .. Len(modules), NEW k \in 1 .. Len(modules[m])
               PROVE  /\ modules[m][k].target \in Ids
                      /\ \A i \in Ids : sources[i].path = modules[m][k].file
                                           <=> i = modules[m][k].target
    BY DEF EdgesFaithful, ForEachEdge
  <2> QED
    BY DEF IInv, TargetsNamed, PathsDistinct
<1> QED
  BY <1>1, InvariantHolds, PTL

\* What dependency_order asserts on entry holds of whatever load_modules returns without an
\* error: a module for each source, edges between them, and nothing that was not imported.
THEOREM LoadsEverything == Spec => []LoadedComplete
<1>1. IInv => LoadedComplete
  <2> SUFFICES ASSUME IInv, status = "loaded"
               PROVE  /\ ~ errors
                      /\ Len(modules) = Len(sources)
                      /\ \A m \in 1 .. Len(modules) : \A k \in 1 .. Len(modules[m]) :
                            modules[m][k].target \in 1 .. Len(modules)
                      /\ sources[1].path = Entry
                      /\ \A i \in Ids \ {1} : \E m \in 1 .. (i - 1) :
                            \E k \in 1 .. Len(modules[m]) : modules[m][k].target = i
    BY DEF LoadedComplete, ForEachEdge
  <2>1. ~ errors /\ Len(modules) = Len(sources) /\ sources # << >>
    BY EmptySeq DEF IInv, Worked, Current
  <2>2. \A m \in 1 .. Len(modules) : \A k \in 1 .. Len(modules[m]) :
           modules[m][k].target \in 1 .. Len(modules)
    BY <2>1 DEF IInv, TargetsNamed, Ids
  <2>3. ASSUME NEW i \in Ids \ {1}
        PROVE  \E m \in 1 .. (i - 1) : \E k \in 1 .. Len(modules[m]) : modules[m][k].target = i
    <3>1. PICK m \in 1 .. Len(modules) : \E k \in 1 .. Len(modules[m]) :
              m < i /\ modules[m][k].target = i
      BY DEF IInv, Discovered
    <3>2. m \in 1 .. (i - 1)
      BY <3>1, Lengths DEF IInv, Ids
    <3> QED
      BY <3>1, <3>2
  <2> QED
    BY <2>1, <2>2, <2>3 DEF IInv, Discovered
<1> QED
  BY <1>1, InvariantHolds, PTL

\* In a program that respects the roots every file has the origin of its place whenever it is
\* asked for, and no relative import of a library or package file leaves its root.
THEOREM RootsConfine == Spec => []ConfinedIfRespected
<1>1. IInv => ConfinedIfRespected
  <2> SUFFICES ASSUME IInv, RootsRespected
               PROVE  /\ \A i \in Ids : sources[i].origin = Home[sources[i].path]
                      /\ \A m \in 1 .. Len(modules) : \A k \in 1 .. Len(modules[m]) :
                            modules[m][k].kind = "relative" /\ sources[m].origin # Local
                                => Home[modules[m][k].file] = sources[m].origin
    BY DEF ConfinedIfRespected, Confined, ForEachEdge
  <2> QED
    BY DEF IInv, Respected
<1> QED
  BY <1>1, InvariantHolds, PTL

\* Once a source is known to be a library or package file, no later import moves it to
\* another root or out of all of them.
THEOREM OriginsStay == Spec => OriginKept
<1> DEFINE Kept == \A i \in Ids : sources[i].origin # Local
                                     => sources'[i].origin = sources[i].origin
<1>1. ASSUME IInv, IInv', Next
      PROVE  Kept
  <2>1. CASE UNCHANGED sources
    BY <2>1
  <2>2. CASE Start
    <3>1. Ids = {}
      BY <1>1, <2>2, EmptySeq DEF IInv, Worked, Start, Ids
    <3> QED
      BY <3>1
  <2>3. ASSUME NEW use \in Use, Connect(use)
        PROVE  Kept
    <3>1. PICK id : Linked(use, id)
      BY <1>1, <2>3, ConnectLinks DEF IInv
    <3>2. SUFFICES ASSUME NEW i \in Ids, sources[i].origin # Local
                   PROVE  sources'[i].origin = sources[i].origin
      OBVIOUS
    <3>3. CASE i # id
      BY <3>1, <3>3 DEF Linked
    <3>4. CASE i = id
      <4>1. i \in Ids' /\ sources'[i].path = sources[i].path
        BY <1>1, <3>1, SourcesAfter DEF IInv, Linked
      <4>2. sources'[i].origin # Local
        BY <3>1, <3>2, <3>4 DEF Linked, Reclassified
      <4> QED
        BY <1>1, <3>2, <4>1, <4>2 DEF IInv, OriginsReal
    <3> QED
      BY <3>3, <3>4
  <2> QED
    BY <1>1, <2>1, <2>2, <2>3 DEF Next, Take, Reject, Refuse, Miss, EndOfImports
<1>2. IInv /\ IInv' /\ [Next]_vars => [Kept]_vars
  BY <1>1
<1>3. [][Next]_vars /\ []IInv => [][Kept]_vars
  BY <1>2, PTL
<1> QED
  BY <1>3, InvariantHolds, PTL DEF Spec, OriginKept
=============================================================================
