------------------------------- MODULE SeedRun -------------------------------
(***************************************************************************)
(* What the program the seed compiler accepts does when it runs: the code  *)
(* codegen.c emits for its functions, as far as regions are concerned.     *)
(* Every literal is allocated where its specification says, every frame    *)
(* that needs a local region opens one and frees it at its end, and a      *)
(* reference that is left to something freed is dangling.                  *)
(*                                                                         *)
(* A run is a world: the objects there are, what the names of the running  *)
(* function hold, and what became of it.  An operator gives the set of     *)
(* worlds a piece of code may lead to: which branch is taken, which        *)
(* element is read and how often a loop turns are left open.               *)
(***************************************************************************)
EXTENDS SeedRegions

CONSTANTS
  MaxFrames,  \* the frames a run may have on its stack; deeper runs are not followed
  MaxTurns    \* the times a loop body may be run

\* A value is an object (its number), a region (the depth of the frame that owns it, 0
\* for the global region) or anything else; Gone is the region of freed objects.
Nothing == [is |-> "plain", id |-> 0]
Object(o) == [is |-> "object", id |-> o]
Region(d) == [is |-> "region", id |-> d]
Gone == -1

Outcome(w, v) == [world |-> w, value |-> v]
Refs(v) == IF v.is = "object" THEN {v.id} ELSE {}

\* A new object of region d, built from the given values.
Allocated(w, d, values) ==
  LET held == UNION {Refs(values[i]) : i \in DOMAIN values} IN
  Outcome([w EXCEPT !.objects = Append(@, [region |-> d, refs |-> held])],
          Object(Len(w.objects) + 1))

\* Frame fr runs function fr.k at depth fr.d with the specifications it was emitted with.
\* The region a specification stands for there: jik_local_region must have been opened,
\* and a name that gives a destination must be bound.
Destination(fr, w, s) ==
  CASE s.kind = "local" -> fr.d
    [] s.kind = "global" -> 0
    [] s.kind = "container" -> w.objects[w.env[s.region].id].region
    [] s.kind = "named" -> w.env[s.region].id
Emittable(fr, w, s) ==
  \/ s.kind = "local" /\ fr.k \in locals
  \/ s.kind = "global" /\ needsGlobal
  \/ s.kind \in {"container", "named"} /\ s.region \in DOMAIN w.env

\* The specifications function k is emitted with: a literal that is a field of a struct
\* is sent after the struct once more.
EmittedSpecs(k) ==
  LET ns == Ns(k)
      Emit(sofar, i) ==
        IF ns[i].op # "struct" THEN sofar
        ELSE FoldLeft(LAMBDA now, c : IF IsAllocatedLiteral(ns[c])
                                      THEN SetAllocSpec(ns, now, c, sofar[i]) ELSE now,
                      sofar, Values(ns, i))
  IN FoldLeft(Emit, specs[k], [i \in DOMAIN ns |-> i])

Frame(k, d) == [k |-> k, d |-> d, specs |-> EmittedSpecs(k)]

\* The objects that can be reached from a set of them.
RECURSIVE Reachable(_, _)
Reachable(w, seen) ==
  LET next == seen \cup UNION {w.objects[o].refs : o \in seen} IN
  IF next = seen THEN seen ELSE Reachable(w, next)

Spoilt(w) == [w EXCEPT !.fault = "no such region"]
GlobalObject == 1

\* What is left of a frame of depth d that ran to world e: its region is freed, and
\* nothing its caller can still get at may be there.
Left(e, d, args) ==
  LET roots == {GlobalObject} \cup Refs(e.result) \cup UNION {Refs(args[i]) : i \in DOMAIN args}
      freed == [o \in DOMAIN e.objects |->
                  IF e.objects[o].region = d THEN [region |-> Gone, refs |-> {}] ELSE e.objects[o]]
  IN [e EXCEPT !.objects = freed,
               !.fault = IF @ = "" /\ \E o \in Reachable(e, roots) : e.objects[o].region = d
                         THEN "dangling" ELSE @]

------------------------------------------------------------------------------
(***************************************************************************)
(* Expressions, statements and calls                                       *)
(***************************************************************************)

\* The members of what was evaluated, one of which is read.
Members(outcomes) ==
  UNION {IF r.world.fault # "" THEN {r}
         ELSE {Outcome(r.world, Object(o)) : o \in r.world.objects[r.value.id].refs} :
           r \in outcomes}

\* A new object without parts where the last argument says.
Fresh(r) == Allocated(r.world, Last(r.value).id, <<>>)

Added(w, c, v) == [w EXCEPT !.objects[c.id].refs = @ \cup Refs(v)]
Bound(w, x, v) == [w EXCEPT !.env = (x :> v) @@ @]

RECURSIVE Evaluate(_, _, _), EvaluateAll(_, _, _), Execute(_, _, _), Turns(_, _, _, _),
          Invoke(_, _, _)

\* The outcomes of the nodes at the places of a sequence, their values in order.
EvaluateAll(fr, w, nodes) ==
  FoldLeft(LAMBDA sofar, i :
             UNION {{Outcome(r.world, Append(q.value, r.value)) : r \in Evaluate(fr, q.world, i)} :
                    q \in sofar},
           {Outcome(w, <<>>)}, nodes)

Evaluate(fr, w, i) ==
  LET ns == Ns(fr.k)
      n == ns[i]
      kids == Kids(ns, i)
      s == fr.specs[i]
      Placed(r) ==
        IF ~ Emittable(fr, r.world, s) THEN Outcome(Spoilt(r.world), Nothing)
        ELSE Allocated(r.world, Destination(fr, r.world, s),
               IF n.op = "dict" THEN SubSeq(r.value, Len(kids) \div 2 + 1, Len(kids)) ELSE r.value)
      Given(r) ==
        IF ~ n.auto THEN r
        ELSE IF ~ Emittable(fr, r.world, s) THEN Outcome(Spoilt(r.world), r.value)
        ELSE Outcome(r.world, Append(r.value, Region(Destination(fr, r.world, s))))
  IN CASE w.fault # "" -> {Outcome(w, Nothing)}
       [] IsAllocatedLiteral(n) -> {Placed(r) : r \in EvaluateAll(fr, w, kids)}
       [] n.op = "call" -> UNION {Invoke(fr, Given(r), i) : r \in EvaluateAll(fr, w, kids)}
       [] n.op = "id" ->
            {Outcome(w, IF n.name \in DOMAIN w.env THEN w.env[n.name] ELSE Object(GlobalObject))}
       [] n.op = "lookup" -> {Outcome(w, Object(GlobalObject))}
       [] n.op = "here" ->
            {IF fr.k \in locals THEN Outcome(w, Region(fr.d)) ELSE Outcome(Spoilt(w), Nothing)}
       [] n.op = "regionof" -> {Outcome(w, Region(w.objects[w.env[n.name].id].region))}
       [] n.op \in {"subscript", "member", "unwrap"} -> Members(Evaluate(fr, w, kids[1]))
       [] n.op = "slice" ->
            {LET o == r.world.objects[r.value.id] IN
               Outcome([r.world EXCEPT !.objects = Append(@, o)], Object(Len(r.world.objects) + 1)) :
               r \in {r \in Evaluate(fr, w, kids[1]) : r.world.fault = ""}}
       [] n.op = "ternary" -> Evaluate(fr, w, kids[1]) \cup Evaluate(fr, w, kids[2])
       [] n.op \in {"must", "grouping"} -> Evaluate(fr, w, kids[1])
       [] OTHER -> {Outcome(w, Nothing)}

\* The outcomes of call i once its arguments, r.value, are evaluated.
Invoke(fr, r, i) ==
  LET n == Ns(fr.k)[i]
      f == FunctionNamed(fns, n.name)
      ps == fns[f].params
      entered == [r.world EXCEPT !.env = [x \in {ps[j].name : j \in DOMAIN ps} |->
                                            r.value[ParamOf(fns[f], x)]]]
      Back(e) == LET l == Left(e, fr.d + 1, r.value) IN
                 Outcome([l EXCEPT !.env = r.world.env, !.done = FALSE, !.result = Nothing],
                         l.result)
  IN CASE r.world.fault # "" -> {Outcome(r.world, Nothing)}
       [] n.name \in {"copy", "concat", "error_msg"} -> {Fresh(r)}
       [] n.name = "pop" -> Members({Outcome(r.world, r.value[1])})
       [] n.name = "push" -> {Outcome(Added(r.world, r.value[1], r.value[2]), Nothing)}
       [] n.name \in Builtins \/ fns[f].extern -> {Outcome(r.world, Nothing)}
       [] fr.d = MaxFrames -> {}
       [] OTHER -> {Back(e) : e \in Execute(Frame(f, fr.d + 1), entered, 1)}

\* A loop body run up to n times, its name bound to a member of the container each time;
\* the key of a pair, a part of the container too, is not told from the member.
Turns(fr, w, i, n) ==
  LET node == Ns(fr.k)[i]
      kids == Kids(Ns(fr.k), i)
      Begun(u) ==
        IF node.op = "while" THEN {u}
        ELSE {IF node.op = "for_in" THEN Bound(m.world, node.binds[1][1], m.value)
              ELSE Bound(Bound(m.world, node.binds[1][1], m.value), node.binds[2][1], m.value) :
              m \in Members(Evaluate(fr, u, kids[1]))}
  IN IF n = 0 \/ w.done \/ w.fault # "" THEN {w}
     ELSE {w} \cup UNION {Turns(fr, v, i, n - 1) : v \in
                            UNION {Execute(fr, u, Last(kids)) : u \in Begun(w)}}

\* The worlds statement i may lead to.
Execute(fr, w, i) ==
  LET ns == Ns(fr.k)
      n == ns[i]
      kids == Kids(ns, i)
      Values1 == Evaluate(fr, w, kids[1])
      Then(worlds, j) == UNION {Execute(fr, u, j) : u \in worlds}
  IN CASE w.done \/ w.fault # "" -> {w}
       [] n.op = "block" -> FoldLeft(Then, {w}, kids)
       [] n.op = "declare" -> {Bound(r.world, n.binds[1][1], r.value) : r \in Values1}
       [] n.op = "assign" -> {Bound(r.world, ns[kids[2]].name, r.value) : r \in Values1}
       [] n.op \in {"subscript_set", "member_set"} ->
            {IF r.world.fault # "" THEN r.world ELSE Added(r.world, r.value[1], r.value[2]) :
               r \in EvaluateAll(fr, w, kids)}
       [] n.op = "return" -> {[r.world EXCEPT !.done = TRUE, !.result = r.value] : r \in Values1}
       [] n.op = "if" -> {w} \cup Execute(fr, w, kids[1])
       [] n.op \in {"while", "for_in", "for_pair"} -> Turns(fr, w, i, MaxTurns)
       [] n.op = "match" ->
            UNION {UNION {Execute(fr, Bound(m.world, ns[c].binds[1][1], m.value), Kid(ns, c, 1)) :
                            m \in Members(Values1)} : c \in ToSet(Tail(kids))}
       [] n.op = "catch" ->
            Execute(fr, w, kids[2]) \cup Then(Execute(fr, w, kids[1]), kids[3])
       [] OTHER -> {r.world : r \in Evaluate(fr, w, i)}

\* The program run from main: the global object is there before it, and the name of a
\* global is the only one that is not a parameter or a local.
Runs ==
  LET main == FunctionNamed(fns, "main")
      start == [objects |-> <<[region |-> 0, refs |-> {}]>>, env |-> <<>>, done |-> FALSE,
                result |-> Nothing, fault |-> ""]
  IN {Left(e, 1, <<>>) : e \in Execute(Frame(main, 1), start, 1)}

------------------------------------------------------------------------------
Accepted == verdict = "accepted"

\* Invariant: when an accepted program runs, nothing that is freed with the local region
\* of a call can be reached once the call is over, neither through its result nor through
\* anything it was given (the purpose of jik_check_regions).
NoDangling == Accepted => \A e \in Runs : e.fault # "dangling"

\* Invariant: the emitted code names no region that is not there: a function that
\* allocates in its local region has opened one (jik_classify_functions walks the tree a
\* second time to find those), the global region is created when something is in it, and
\* a destination given by a name is bound where the literal is evaluated.
RegionsDeclared == Accepted => \A e \in Runs : e.fault # "no such region"

\* Invariant: the functions found region-safe after the first walk, when literals may
\* still move, are region-safe with the regions everything ends up in.
SafeStays ==
  Accepted => \A k \in Defined : safe[k] => SafeFunction(k, specs[k]).safe

\* Invariant: what the walk let pass fits what the tree ends up with: the last check
\* looks at literals and calls only, and an assignment, a store or a return judged before
\* a literal moved is not judged again.
Fitting(k, i) ==
  LET ns == Ns(k)
      e == Kid(ns, i, Len(ns[i].kids))
      S(j) == ExpressionSpec(k, specs[k], j).spec
  IN CASE ns[i].op \in {"subscript_set", "member_set"} /\ Composite(k, e) ->
            SourcesMatch(S(Kid(ns, i, 1)), S(e))
       [] ns[i].op = "assign" /\ Composite(k, e) -> SourcesMatch(S(Kid(ns, i, 1)), S(e))
       [] ns[i].op = "return" /\ Composite(k, e) ->
            S(e).src = "foreign" /\ S(e).kind # "global"
       [] OTHER -> TRUE
StoresFit == Accepted => \A k \in Defined : \A i \in DOMAIN Ns(k) : Fitting(k, i)

\* Liveness: the check comes to a verdict: every walk but the last leaves fewer
\* specifications unknown, and every sweep but the last a function fewer safe.
Terminates == <>(verdict # "")
==============================================================================
