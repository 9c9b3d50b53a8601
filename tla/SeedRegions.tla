----------------------------- MODULE SeedRegions -----------------------------
(***************************************************************************)
(* The region check of the seed compiler (regcheck.c).  It gives every     *)
(* literal and every call that yields a composite value a region           *)
(* specification, guessing that a literal is local until a store, a call   *)
(* or a return asks for it elsewhere, and refuses a program that stores a  *)
(* value where its region does not fit.  The order matters: a walk over    *)
(* the nodes reads and writes the same specifications, is taken once to    *)
(* find the functions that need no same-region rule and then again until   *)
(* the number of unknown specifications no longer falls.                   *)
(*                                                                         *)
(* One action is one node the walk does something at, or one of the        *)
(* passes around it.                                                       *)
(***************************************************************************)
EXTENDS SeedTree, FiniteSets

CONSTANTS
  Programs    \* the programs checked: their functions and the names of their globals

VARIABLES
  fns,        \* the functions, with the regions the type checker injected
  globals,    \* the composite globals
  stage,      \* which pass of jik_check_regions is under way
  at,         \* <<function, node>>: where the walk stands
  specs,      \* the specification each node of each function carries
  tab,        \* spec_tab of each function: what its names hold
  safe,       \* is_region_safe of each function
  implicit,   \* the functions with an allocation at @
  locals,     \* has_allocs: the functions that open a local region
  needsGlobal,\* needs_global_region
  prev,       \* unknown specifications left by the walk before
  verdict     \* "" until the program is accepted or an error is reported

vars == <<fns, globals, stage, at, specs, tab, safe, implicit, locals, needsGlobal, prev, verdict>>

Defined == {k \in DOMAIN fns : ~ fns[k].extern}
Ns(k) == fns[k].nodes
Callee(k, i) == fns[FunctionNamed(fns, Ns(k)[i].name)]
IsBuiltin(k, i) == Ns(k)[i].name \in Builtins
Composite(k, i) == Ns(k)[i].ty = "composite"
NoError == ""

------------------------------------------------------------------------------
(***************************************************************************)
(* Preparing a function                                                    *)
(***************************************************************************)

ParamOf(f, x) == CHOOSE i \in DOMAIN f.params : f.params[i].name = x
IsParam(f, x) == \E i \in DOMAIN f.params : f.params[i].name = x

\* The names of all the scopes of f together, with the types of their last declarations.
NamesOf(f) ==
  {<<f.params[i].name, f.params[i].ty>> : i \in DOMAIN f.params}
    \cup UNION {ToSet(f.nodes[i].binds) : i \in DOMAIN f.nodes}

\* What a name is known to hold before any statement is looked at.
InitialSpec(f, x) ==
  IF ~ IsParam(f, x) THEN Unknown
  ELSE LET p == f.params[ParamOf(f, x)] IN
       IF p.ty = "region" THEN [InRegion(x) EXCEPT !.src = "foreign"]
       ELSE [BesideOf(x) EXCEPT !.src = IF p.foreign THEN "cross" ELSE "foreign"]

SpecTab(f) ==
  LET held == {n \in NamesOf(f) : n[2] # "plain"} IN
  [x \in {n[1] : n \in held} |-> InitialSpec(f, x)]

Init ==
  \E p \in Programs :
    /\ fns = Injected(p.functions)
    /\ globals = p.globals
    /\ stage = "resolve" /\ at = <<0, 0>> /\ verdict = ""
    /\ specs = [k \in DOMAIN fns |-> ParsedSpecs(p.functions[k].nodes)]
    /\ tab = [k \in DOMAIN fns |-> SpecTab(fns[k])]
    /\ safe = [k \in DOMAIN fns |-> ~ fns[k].extern]
    /\ implicit = {} /\ locals = {}
    /\ needsGlobal = FALSE
    /\ prev = 1000000

------------------------------------------------------------------------------
(***************************************************************************)
(* What an expression is known to be                                       *)
(***************************************************************************)

SourcesMatch(s, t) == s.src # "cross" /\ t.src # "cross" /\ s.src = t.src
BothKnown(s, t) == SourceKnown(s) /\ SourceKnown(t)

Mismatch(s, t) ==
  CASE "cross" \in {s.src, t.src} -> "foreign parameter stored"
    [] "local" \in {s.src, t.src} -> "local and non-local value"
    [] OTHER -> "incompatible sources"

\* Whether literal i, which is local by default, may follow the specification req.
PromotedToGlobal(now, i, req) == now[i].src = "local" /\ req.kind = "global"
CanRetarget(now, i, req) == now[i].src = "local" /\ req.src \notin {"local", "cross"}

RECURSIVE ExpressionSpec(_, _, _)

\* What is known of an expression, and of the one looked at after it.
Pair(a, b) ==
  [first |-> a.spec, second |-> b.spec, now |-> b.now,
   error |-> IF a.error # NoError THEN a.error ELSE b.error]
FollowedBy(k, a, j) == Pair(a, ExpressionSpec(k, a.now, j))
ExpressionSpecs(k, now, i, j) == FollowedBy(k, ExpressionSpec(k, now, i), j)

\* The branches l and r of a ternary, of which b is known: a literal moves to where the
\* other branch is.
BranchSpec(k, l, r, b) ==
  LET Movable(c, req) ==
        Complete(req) /\ IsAllocatedLiteral(Ns(k)[c]) /\ CanRetarget(b.now, c, req)
      Result(spec, now, e) == [spec |-> spec, now |-> now, error |-> e]
      Moved(c, req) == IF PromotedToGlobal(b.now, c, req)
                       THEN Result(req, b.now, "literal in global")
                       ELSE Result(req, SetAllocSpec(Ns(k), b.now, c, req), NoError)
  IN CASE b.error # NoError -> Result(Unknown, b.now, b.error)
       [] Movable(r, b.first) -> Moved(r, b.first)
       [] Movable(l, b.second) -> Moved(l, b.second)
       [] BothKnown(b.first, b.second) /\ ~ SourcesMatch(b.first, b.second) ->
            Result(Unknown, b.now, "ternary branches")
       [] OTHER -> Result(IF Complete(b.first) /\ Complete(b.second) THEN b.first ELSE Unknown,
                          b.now, NoError)

\* The specification of node i of function k, the specifications once it was asked for,
\* and the first error.  Node 0 stands for the local region passed to a call that leaves
\* its region out.
ExpressionSpec(k, now, i) ==
  LET ns == Ns(k)
      Known(s) == [spec |-> s, now |-> now, error |-> NoError]
  IN IF i = 0 THEN Known(Local)
     ELSE CASE IsAllocatedLiteral(ns[i]) \/ ns[i].op = "call" -> Known(now[i])
            [] ns[i].op \in {"must", "unwrap", "subscript", "slice", "member"} ->
                 ExpressionSpec(k, now, Kid(ns, i, 1))
            [] ns[i].op \in {"id", "regionof"} ->
                 Known(IF ns[i].name \in DOMAIN tab[k] THEN tab[k][ns[i].name] ELSE Global)
            [] ns[i].op = "here" -> Known(Local)
            [] ns[i].op = "lookup" -> Known(Global)
            [] ns[i].op = "ternary" ->
                 BranchSpec(k, Kid(ns, i, 1), Kid(ns, i, 2),
                            ExpressionSpecs(k, now, Kid(ns, i, 1), Kid(ns, i, 2)))
            [] OTHER -> [spec |-> Unknown, now |-> now, error |-> "no region rule"]

\* Mutant of Safe: values of two of the caller's regions may be joined.
SafeBySource(b) ==
  [now |-> b.now, error |-> b.error, safe |-> b.first.src = b.second.src]

\* Whether the second of two may be stored in the first wherever the caller's values are.
Safe(b) ==
  [now |-> b.now, error |-> b.error,
   safe |-> \/ b.first.src = "local" /\ b.second.src = "local"
            \/ /\ b.first.src = "foreign" /\ b.second.src = "foreign"
               /\ b.first.kind = b.second.kind
               /\ b.first.region # "" /\ b.first.region = b.second.region]
SafeOperation(k, now, parent, child) == Safe(ExpressionSpecs(k, now, parent, child))

Verdict(now, b) == [now |-> now, error |-> NoError, safe |-> b]

\* Whether a call needs no same-region rule.
SafeCall(k, now, i) ==
  LET ns == Ns(k) IN
  CASE ~ IsBuiltin(k, i) -> Verdict(now, safe[FunctionNamed(fns, ns[i].name)])
    [] ns[i].name # "push" -> Verdict(now, ns[i].name \in SafeBuiltins)
    [] ~ Composite(k, Kid(ns, i, 2)) -> Verdict(now, TRUE)
    [] OTHER -> SafeOperation(k, now, Kid(ns, i, 1), Kid(ns, i, 2))

\* Whether every composite part of literal i is already where the literal is.
SafeLiteral(k, now, i) ==
  LET Check(sofar, c) ==
        IF ~ sofar.safe \/ sofar.error # NoError \/ ~ Composite(k, c) THEN sofar
        ELSE SafeOperation(k, sofar.now, i, c)
  IN FoldLeft(Check, Verdict(now, TRUE), Values(Ns(k), i))

------------------------------------------------------------------------------
(***************************************************************************)
(* The passes before the walk                                              *)
(***************************************************************************)

Reject(e) == verdict' = e /\ stage' = "done"

\* The region of the first parameter that may name one: the target of @ and of returns.
ImplicitSpec(k) ==
  LET ps == fns[k].params
      may == {i \in DOMAIN ps : ps[i].ty # "plain" /\ ~ ps[i].foreign}
  IN IF may = {} THEN Unknown
     ELSE tab[k][ps[CHOOSE i \in may : \A j \in may : i <= j].name]

Implicits(k) ==
  {i \in DOMAIN Ns(k) : IsAllocatedLiteral(Ns(k)[i]) /\ specs[k][i].kind = "implicit"}

\* The specifications of function k with every allocation at @ sent to its implicit region.
WithImplicit(k) ==
  LET Send(sofar, i) ==
        IF IsAllocatedLiteral(Ns(k)[i]) /\ sofar[i].kind = "implicit"
        THEN SetAllocSpec(Ns(k), sofar, i, ImplicitSpec(k)) ELSE sofar
  IN FoldLeft(Send, specs[k], [i \in DOMAIN Ns(k) |-> i])

ResolveImplicit ==
  /\ stage = "resolve"
  /\ IF \E k \in Defined : Implicits(k) # {} /\ ImplicitSpec(k) = Unknown
     THEN Reject("no implicit region") /\ UNCHANGED <<specs, implicit>>
     ELSE /\ specs' = [k \in DOMAIN fns |-> WithImplicit(k)]
          /\ implicit' = {k \in Defined : Implicits(k) # {}}
          /\ stage' = "globals" /\ UNCHANGED verdict
  /\ UNCHANGED <<fns, globals, at, tab, safe, locals, needsGlobal, prev>>

MarkGlobals ==
  /\ stage = "globals"
  /\ needsGlobal' = (globals # {})
  /\ stage' = "orphans"
  /\ UNCHANGED <<fns, globals, at, specs, tab, safe, implicit, locals, prev, verdict>>

\* A literal that is read from, written to or walked before a name is given to it.
RECURSIVE Ungrouped(_, _)
Ungrouped(ns, i) == IF ns[i].op = "grouping" THEN Ungrouped(ns, Kid(ns, i, 1)) ELSE i
Orphaned(ns, i) ==
  LET Base == ns[Ungrouped(ns, Kid(ns, i, 1))] IN
  \/ ns[i].op \in {"member", "member_set"} /\ Base.op = "struct"
  \/ ns[i].op \in {"subscript", "subscript_set"} /\ Base.op = "vector"
  \/ ns[i].op \in {"for_in", "for_pair"} /\ IsAllocatedLiteral(Base)

CheckOrphans ==
  /\ stage = "orphans"
  /\ IF \E k \in Defined : \E i \in DOMAIN Ns(k) : Orphaned(Ns(k), i)
     THEN Reject("value must be bound")
     ELSE stage' = "semantics" /\ UNCHANGED verdict
  /\ UNCHANGED <<fns, globals, at, specs, tab, safe, implicit, locals, needsGlobal, prev>>

\* A region kept as a value, or a destination that names none.
Misused(k, i) ==
  LET ns == Ns(k)
      named == specs[k][i].region
      IsRegion(x) == IsParam(fns[k], x) /\ fns[k].params[ParamOf(fns[k], x)].ty = "region"
  IN \/ ns[i].op \in {"return", "assign", "declare"} /\ ns[Kid(ns, i, 1)].ty = "region"
     \/ /\ IsAllocatedLiteral(ns[i]) /\ specs[k][i].kind # "local"
        /\ \/ named \notin DOMAIN tab[k]
           \/ specs[k][i].kind = "named" /\ ~ IsRegion(named)
           \/ specs[k][i].kind = "container" /\ IsRegion(named)

CheckSemantics ==
  /\ stage = "semantics"
  /\ IF \E k \in Defined : \E i \in DOMAIN Ns(k) : Misused(k, i)
     THEN Reject("region misused")
     ELSE stage' = "first" /\ UNCHANGED verdict
  /\ UNCHANGED <<fns, globals, at, specs, tab, safe, implicit, locals, needsGlobal, prev>>

------------------------------------------------------------------------------
(***************************************************************************)
(* The walk: jik_check_region_integrity                                    *)
(***************************************************************************)

\* The nodes the walk does something at.
Concerns(k, i) ==
  \/ Ns(k)[i].op \in {"declare", "assign", "subscript_set", "member_set", "call", "return",
                      "for_in", "for_pair", "case"}
  \/ IsAllocatedLiteral(Ns(k)[i]) /\ specs[k][i].kind \in {"named", "container"}

Walking == stage \in {"first", "again"}

\* The walk goes on from where it stands to node i of function k.
After(k, i) ==
  \/ k > at[1]
  \/ k = at[1] /\ i > at[2]
Reaches(k, i) ==
  /\ Walking /\ k \in Defined /\ After(k, i) /\ Concerns(k, i)
  /\ \A j \in DOMAIN Ns(k) : After(k, j) /\ Concerns(k, j) => i <= j
  /\ \A l \in Defined : l < k => \A j \in DOMAIN Ns(l) : ~ (After(l, j) /\ Concerns(l, j))

Visit(k, i, ops) == Reaches(k, i) /\ Ns(k)[i].op \in ops /\ at' = <<k, i>>
Keeps == UNCHANGED <<fns, globals, safe, implicit, locals, needsGlobal, prev>>

\* The walk goes on with these specifications and this table of function k, or stops.
Continue(k, now, names, error) ==
  /\ specs' = [specs EXCEPT ![k] = now]
  /\ tab' = [tab EXCEPT ![k] = names]
  /\ IF error = NoError THEN UNCHANGED <<stage, verdict>> ELSE Reject(error)
  /\ Keeps

\* The names bound at a node come to hold what e is known to be.
Bind(k, i, e) ==
  LET bound == {b[1] : b \in {b \in ToSet(Ns(k)[i].binds) : b[2] = "composite"}}
  IN IF bound = {} THEN Continue(k, specs[k], tab[k], NoError)
     ELSE \E r \in {ExpressionSpec(k, specs[k], e)} :
            Continue(k, r.now,
              IF SourceKnown(r.spec)
              THEN [x \in DOMAIN tab[k] |-> IF x \in bound THEN r.spec ELSE tab[k][x]]
              ELSE tab[k],
              r.error)

VisitDeclare(k, i) == Visit(k, i, {"declare"}) /\ Bind(k, i, Kid(Ns(k), i, 1))
VisitForIn(k, i) == Visit(k, i, {"for_in"}) /\ Bind(k, i, Kid(Ns(k), i, 1))

\* The container of a walk over pairs is asked for even when neither name needs it.
VisitForInPair(k, i) == Visit(k, i, {"for_pair"}) /\ Bind(k, i, Kid(Ns(k), i, 1))

\* A payload comes from the value that is matched on.
MatchOf(k, i) ==
  CHOOSE m \in DOMAIN Ns(k) : Ns(k)[m].op = "match" /\ i \in ToSet(Tail(Kids(Ns(k), m)))
VisitCase(k, i) == Visit(k, i, {"case"}) /\ Bind(k, i, Kid(Ns(k), MatchOf(k, i), 1))

VisitAssign(k, i) ==
  /\ Visit(k, i, {"assign"})
  /\ LET e == Kid(Ns(k), i, 1) IN
     IF ~ Composite(k, e) THEN Continue(k, specs[k], tab[k], NoError)
     ELSE \E b \in {ExpressionSpecs(k, specs[k], Kid(Ns(k), i, 2), e)} :
            Continue(k, b.now, tab[k],
              CASE b.error # NoError -> b.error
                [] BothKnown(b.first, b.second) /\ ~ SourcesMatch(b.first, b.second) ->
                     Mismatch(b.first, b.second)
                [] OTHER -> NoError)

\* c[j] = e and c.f = e: a literal follows the container, anything else has to fit.
VisitStore(k, i) ==
  /\ Visit(k, i, {"subscript_set", "member_set"})
  /\ LET c == Kid(Ns(k), i, 1)
         e == Kid(Ns(k), i, 2)
     IN IF ~ Composite(k, e)
        THEN \E l \in {ExpressionSpec(k, specs[k], c)} : Continue(k, l.now, tab[k], l.error)
        ELSE \E b \in {ExpressionSpecs(k, specs[k], c, e)} :
               LET follows == /\ IsAllocatedLiteral(Ns(k)[e]) /\ Complete(b.first)
                              /\ CanRetarget(b.now, e, b.first)
                   wrong == /\ BothKnown(b.first, b.second)
                            /\ ~ SourcesMatch(b.first, b.second)
               IN CASE b.error # NoError -> Continue(k, b.now, tab[k], b.error)
                    [] follows /\ PromotedToGlobal(b.now, e, b.first) ->
                         Continue(k, b.now, tab[k], "literal in global")
                    [] follows /\ ~ PromotedToGlobal(b.now, e, b.first) ->
                         Continue(k, SetAllocSpec(Ns(k), b.now, e, b.first), tab[k], NoError)
                    [] OTHER -> Continue(k, b.now, tab[k],
                                  IF wrong THEN Mismatch(b.first, b.second) ELSE NoError)

Allocating == {"concat", "copy", "error_msg", "pop"}

\* concat, copy and error_msg allocate where their Region says, or locally; what pop
\* yields is where the vector is.
VisitAllocatingCall(k, i) ==
  /\ Visit(k, i, {"call"}) /\ Ns(k)[i].name \in Allocating
  /\ LET args == Kids(Ns(k), i)
         asked == IF Ns(k)[i].auto THEN 0 ELSE IF Ns(k)[i].name = "pop" THEN args[1] ELSE Last(args)
     IN \E r \in {ExpressionSpec(k, specs[k], asked)} :
          Continue(k, IF Complete(r.spec) THEN [r.now EXCEPT ![i] = r.spec] ELSE r.now,
                   tab[k], r.error)

\* Any other call that needs no same-region rule.
VisitSafeCall(k, i) ==
  /\ Visit(k, i, {"call"}) /\ Ns(k)[i].name \notin Allocating
  /\ \E s \in {SafeCall(k, specs[k], i)} :
       /\ s.safe \/ s.error # NoError
       /\ Continue(k, IF Ns(k)[i].auto /\ ~ KindKnown(s.now[i])
                      THEN [s.now EXCEPT ![i] = Local] ELSE s.now,
                   tab[k], s.error)

IsLiteral(k, a) == a # 0 /\ IsAllocatedLiteral(Ns(k)[a])
ForeignArg(k, i, j) == ~ IsBuiltin(k, i) /\ Callee(k, i).params[j].foreign

\* A container literal passed as foreign may hold values of several regions.
ForeignLiterals(k, now, i) ==
  LET args == Kids(Ns(k), i) IN
  {b \in {Ungrouped(Ns(k), args[j]) : j \in {j \in DOMAIN args : ForeignArg(k, i, j)}} :
     /\ Ns(k)[b].op \in {"vector", "dict"}
     /\ now[b].kind = "local" /\ now[b].src = "local"}

\* The arguments that must share one region, in order.
AllocatedArgs(k, i) ==
  LET args == Kids(Ns(k), i)
      ruled == SelectSeq([j \in DOMAIN args |-> j],
                         LAMBDA j : ~ ForeignArg(k, i, j) /\ Ns(k)[args[j]].ty # "plain")
  IN [j \in DOMAIN ruled |-> args[ruled[j]]] \o (IF Ns(k)[i].auto THEN <<0>> ELSE <<>>)

\* The argument the others have to agree with.
Leading(k, args) ==
  LET bound == SelectSeq(args, LAMBDA a : ~ IsLiteral(k, a)) IN Head(bound \o args)

\* Literal argument a, of which r is known, follows req; any other has to fit it.
Follow(k, r, a, req, fit) ==
  CASE r.error # NoError \/ ~ BothKnown(r.spec, req) -> [now |-> r.now, error |-> r.error]
    [] IsLiteral(k, a) /\ PromotedToGlobal(r.now, a, req) ->
         [now |-> r.now, error |-> "literal in global"]
    [] IsLiteral(k, a) /\ CanRetarget(r.now, a, req) /\ ~ PromotedToGlobal(r.now, a, req) ->
         [now |-> SetAllocSpec(Ns(k), r.now, a, req), error |-> NoError]
    [] OTHER -> [now |-> r.now,
                 error |-> IF fit /\ ~ SourcesMatch(r.spec, req) THEN "same region" ELSE NoError]
FollowOrFit(k, sofar, a, req, fit) ==
  IF sofar.error # NoError THEN sofar
  ELSE Follow(k, ExpressionSpec(k, sofar.now, a), a, req, fit)

\* The arguments once each was held against the leading one, of which lead is known.
Agreed(k, args, lead) ==
  FoldLeft(LAMBDA sofar, a : FollowOrFit(k, sofar, a, lead.spec, TRUE),
           IF IsLiteral(k, args[1]) /\ Complete(lead.spec)
           THEN FollowOrFit(k, lead, args[1], lead.spec, FALSE)
           ELSE [now |-> lead.now, error |-> lead.error],
           Tail(args))

VisitCall(k, i) ==
  /\ Visit(k, i, {"call"}) /\ Ns(k)[i].name \notin Allocating
  /\ \E s \in {SafeCall(k, specs[k], i)} :
       LET mixed == ForeignLiterals(k, s.now, i)
           marked == [n \in DOMAIN s.now |-> IF n \in mixed THEN [s.now[n] EXCEPT !.src = "cross"]
                                             ELSE s.now[n]]
           args == AllocatedArgs(k, i)
       IN /\ ~ s.safe /\ s.error = NoError
          /\ IF args = <<>> THEN Continue(k, marked, tab[k], NoError)
             ELSE \E lead \in {ExpressionSpec(k, marked, Leading(k, args))} :
                    \E all \in {Agreed(k, args, lead)} :
                      Continue(k, IF Complete(lead.spec) THEN [all.now EXCEPT ![i] = lead.spec]
                                  ELSE all.now,
                               tab[k], all.error)

\* A literal is returned in the region the caller expects; nothing of the function's
\* own, of a foreign parameter or of a global may be.
VisitReturn(k, i) ==
  /\ Visit(k, i, {"return"})
  /\ LET e == Kid(Ns(k), i, 1)
         req == ImplicitSpec(k)
     IN IF ~ Composite(k, e) THEN Continue(k, specs[k], tab[k], NoError)
        ELSE \E r \in {ExpressionSpec(k, specs[k], e)} :
               LET sent == IF /\ IsLiteral(k, e) /\ r.spec.src = "local"
                              /\ req # Unknown /\ CanRetarget(r.now, e, req)
                           THEN SetAllocSpec(Ns(k), r.now, e, req) ELSE r.now
                   s == IF IsLiteral(k, e) THEN sent[e] ELSE r.spec
               IN Continue(k, sent, tab[k],
                    CASE r.error # NoError -> r.error
                      [] s.src = "local" -> "local returned"
                      [] s.src = "cross" -> "foreign returned"
                      [] s.kind = "global" -> "global returned"
                      [] OTHER -> NoError)

\* A literal with a destination learns whose region that is.
VisitLiteral(k, i) ==
  /\ Reaches(k, i) /\ IsAllocatedLiteral(Ns(k)[i]) /\ at' = <<k, i>>
  /\ LET s == specs[k][i]
         dest == tab[k][s.region]
     IN Continue(k, IF SourceKnown(dest) /\ ~ SourceKnown(s)
                    THEN SetAllocSpec(Ns(k), specs[k], i, [s EXCEPT !.src = dest.src])
                    ELSE specs[k],
                 tab[k], NoError)

------------------------------------------------------------------------------
(***************************************************************************)
(* The passes around the walk                                              *)
(***************************************************************************)

WalkOver == Walking /\ \A k \in Defined : \A i \in DOMAIN Ns(k) : ~ (After(k, i) /\ Concerns(k, i))

FirstWalkOver ==
  /\ stage = "first" /\ WalkOver
  /\ stage' = "safe" /\ at' = <<0, 0>>
  /\ UNCHANGED <<fns, globals, specs, tab, safe, implicit, locals, needsGlobal, prev, verdict>>

\* Whether function k makes no store that could join two of its caller's regions.
SafeFunction(k, now) ==
  LET ns == Ns(k)
      Check(sofar, i) ==
        CASE ~ sofar.safe \/ sofar.error # NoError -> sofar
          [] IsAllocatedLiteral(ns[i]) -> SafeLiteral(k, sofar.now, i)
          [] ns[i].op = "return" /\ Composite(k, Kid(ns, i, 1)) -> Verdict(sofar.now, FALSE)
          [] ns[i].op \in {"subscript_set", "member_set"} /\ Composite(k, Kid(ns, i, 2)) ->
               SafeOperation(k, sofar.now, Kid(ns, i, 1), Kid(ns, i, 2))
          [] ns[i].op = "call" -> SafeCall(k, sofar.now, i)
          [] OTHER -> sofar
  IN FoldLeft(Check, Verdict(now, TRUE), [i \in DOMAIN ns |-> i])

\* The sweep comes to function k, the next still thought safe; at[2] is 1 once a sweep
\* has found one that is not.
Examine(k) ==
  /\ stage = "safe" /\ k \in Defined /\ k > at[1] /\ safe[k]
  /\ \A j \in Defined : at[1] < j /\ j < k => ~ safe[j]
  /\ \E s \in {SafeFunction(k, specs[k])} :
       /\ safe' = [safe EXCEPT ![k] = s.safe]
       /\ specs' = [specs EXCEPT ![k] = s.now]
       /\ at' = <<k, IF s.safe THEN at[2] ELSE 1>>
       /\ IF s.error = NoError THEN UNCHANGED <<stage, verdict>> ELSE Reject(s.error)
  /\ UNCHANGED <<fns, globals, tab, implicit, locals, needsGlobal, prev>>

SweepOver == stage = "safe" /\ \A k \in Defined : k > at[1] => ~ safe[k]

SweepAgain ==
  /\ SweepOver /\ at[2] = 1
  /\ at' = <<0, 0>>
  /\ UNCHANGED <<fns, globals, stage, specs, tab, safe, implicit, locals, needsGlobal, prev, verdict>>

\* Mutant of CheckImplicit: one sweep is taken for the last.
CheckAfterOneSweep ==
  /\ SweepOver
  /\ stage' = "again" /\ at' = <<0, 0>>
  /\ UNCHANGED <<fns, globals, specs, tab, safe, implicit, locals, needsGlobal, prev, verdict>>

\* Mutant of CheckImplicit: the walk is not taken again.
CheckImplicitOnly ==
  /\ SweepOver /\ at[2] = 0
  /\ IF \E k \in implicit : safe[k] THEN Reject("implicit in a safe function")
     ELSE stage' = "post" /\ UNCHANGED verdict
  /\ at' = <<0, 0>>
  /\ UNCHANGED <<fns, globals, specs, tab, safe, implicit, locals, needsGlobal, prev>>

\* An allocation at @ needs the same-region rule, which no call of a safe function keeps.
CheckImplicit ==
  /\ SweepOver /\ at[2] = 0
  /\ IF \E k \in implicit : safe[k] THEN Reject("implicit in a safe function")
     ELSE stage' = "again" /\ UNCHANGED verdict
  /\ at' = <<0, 0>>
  /\ UNCHANGED <<fns, globals, specs, tab, safe, implicit, locals, needsGlobal, prev>>

\* The unknown specifications of function k, counted node by node.
CountUnknown(k) ==
  LET Count(sofar, i) ==
        LET r == ExpressionSpec(k, sofar.now, i) IN
        IF sofar.error # NoError \/ ~ HasAllocSpec(fns, Ns(k)[i]) THEN sofar
        ELSE [now |-> r.now, error |-> r.error,
              n |-> sofar.n + IF Complete(r.spec) THEN 0 ELSE 1]
  IN FoldLeft(Count, [now |-> specs[k], error |-> NoError, n |-> 0], [i \in DOMAIN Ns(k) |-> i])

\* Mutant of WalkAgain: a walk that changes nothing is followed by another.
WalkWithoutEnd ==
  /\ stage = "again" /\ WalkOver
  /\ LET n == FoldFunction(+, 0, [k \in Defined |-> CountUnknown(k).n]) IN
     /\ prev' = n
     /\ stage' = IF n = 0 THEN "post" ELSE "again"
  /\ at' = <<0, 0>>
  /\ UNCHANGED <<fns, globals, specs, tab, safe, implicit, locals, needsGlobal, verdict>>

\* The walk is taken again as long as it leaves fewer specifications unknown.
WalkAgain ==
  /\ stage = "again" /\ WalkOver
  /\ \E counted \in {[k \in Defined |-> CountUnknown(k)]} :
     LET n == FoldFunction(+, 0, [k \in Defined |-> counted[k].n])
     IN /\ specs' = [k \in DOMAIN fns |-> IF k \in Defined THEN counted[k].now ELSE specs[k]]
        /\ prev' = n
        /\ CASE \E k \in Defined : counted[k].error # NoError ->
                  Reject(counted[CHOOSE k \in Defined : counted[k].error # NoError].error)
             [] n >= prev -> Reject("could not infer region")
             [] n = 0 -> stage' = "post" /\ UNCHANGED verdict
             [] OTHER -> UNCHANGED <<stage, verdict>>
  /\ at' = <<0, 0>>
  /\ UNCHANGED <<fns, globals, tab, safe, implicit, locals, needsGlobal>>

\* Literal i fits its composite parts, unless it is a literal passed as foreign.
LiteralFits(k, now, i) ==
  LET s == ExpressionSpec(k, now, i).spec IN
  \/ s.src = "cross" /\ Ns(k)[i].op \in {"vector", "dict"}
  \/ \A c \in ToSet(Values(Ns(k), i)) :
         Composite(k, c) => SourcesMatch(s, ExpressionSpec(k, now, c).spec)

\* The arguments of call i that need one region have one; the first is not looked at
\* when another leads.
ArgumentsFit(k, now, i) ==
  LET args == AllocatedArgs(k, i)
      lead == ExpressionSpec(k, now, Leading(k, args)).spec
  IN args # <<>> => \A a \in DOMAIN args \ {1} :
                      SourcesMatch(lead, ExpressionSpec(k, now, args[a]).spec)

PostCheck ==
  /\ stage = "post"
  /\ CASE \E k \in Defined : \E i \in DOMAIN Ns(k) :
              IsAllocatedLiteral(Ns(k)[i]) /\ ~ LiteralFits(k, specs[k], i) ->
            Reject("parts of a literal")
       [] \E k \in Defined : \E i \in DOMAIN Ns(k) :
              /\ Ns(k)[i].op = "call" /\ Ns(k)[i].name # "copy"
              /\ ~ SafeCall(k, specs[k], i).safe /\ ~ ArgumentsFit(k, specs[k], i) ->
            Reject("same region")
       [] OTHER -> stage' = "classify" /\ UNCHANGED verdict
  /\ UNCHANGED <<fns, globals, at, specs, tab, safe, implicit, locals, needsGlobal, prev>>

\* Mutant of NeedsLocalRegion: a call that was given its region is not looked at.
NeededByLiterals(k, i) == IsAllocatedLiteral(Ns(k)[i]) /\ specs[k][i].kind = "local"

\* A node the emitted code of which needs the local region of its function.
NeedsLocalRegion(k, i) ==
  LET n == Ns(k)[i] IN
  \/ IsAllocatedLiteral(n) /\ specs[k][i].kind = "local"
  \/ n.op = "here"
  \/ n.op = "call" /\ (n.auto \/ n.name = "print")

Classify ==
  /\ stage = "classify"
  /\ locals' = {k \in Defined : \E i \in DOMAIN Ns(k) : NeedsLocalRegion(k, i)}
  /\ verdict' = "accepted" /\ stage' = "done"
  /\ UNCHANGED <<fns, globals, at, specs, tab, safe, implicit, needsGlobal, prev>>

Next ==
  \/ ResolveImplicit \/ MarkGlobals \/ CheckOrphans \/ CheckSemantics
  \/ \E k \in Defined : \E i \in DOMAIN Ns(k) :
       \/ VisitDeclare(k, i) \/ VisitAssign(k, i) \/ VisitStore(k, i)
       \/ VisitAllocatingCall(k, i) \/ VisitSafeCall(k, i) \/ VisitCall(k, i)
       \/ VisitReturn(k, i) \/ VisitLiteral(k, i)
       \/ VisitForIn(k, i) \/ VisitForInPair(k, i) \/ VisitCase(k, i)
  \/ FirstWalkOver
  \/ \E k \in Defined : Examine(k)
  \/ SweepAgain \/ CheckImplicit \/ WalkAgain \/ PostCheck \/ Classify

Done == stage = "done" /\ UNCHANGED vars

\* The check is a call that runs to its end: it goes on as long as it is not done.  (Weak
\* fairness of Next: where it is not done a step is enabled, which the absence of
\* deadlocks confirms.)
Fairness == []<>(stage = "done") \/ []<><<Next>>_vars

Spec == Init /\ [][Next \/ Done]_vars /\ Fairness
==============================================================================
