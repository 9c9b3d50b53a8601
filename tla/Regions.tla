------------------------------- MODULE Regions -------------------------------
(***************************************************************************)
(* What the region analysis of the Jik compiler promises about a running   *)
(* program (semantic/regions/*.jik) together with what the code it emits   *)
(* then does (codegen/operations.jik, support/include/core.h).             *)
(*                                                                         *)
(* The analysis and the program advance in lock step.  An action takes one *)
(* statement that a Jik program may contain; its guard is the whole static *)
(* acceptance test of that statement, its effect the run-time effect of    *)
(* the C emitted for it.  The static facts about a name (its region source *)
(* and whether it is a local value) depend on its declaration only, so     *)
(* every path of every accepted program is a behaviour of this module, and *)
(* every behaviour is a path of an accepted program.                       *)
(*                                                                         *)
(* Data is reduced to what lifetimes depend on: an object is a composite   *)
(* value (vector, struct, dictionary, Option, variant) with one reference. *)
(* A literal holds at most one entry, which is a name: a nested literal    *)
(* follows its container, as the literal of a later Store does, and a      *)
(* literal in a branch of a conditional the other branch, as one "placed"  *)
(* there does.  A copy is deep, so its root stands for its tree.           *)
(***************************************************************************)
EXTENDS Integers, FiniteSets

CONSTANTS
    Obj,        \* the object identities the allocator may hand out
    NoObj,      \* the absent reference
    Global,     \* the object of one global declaration, a member of Obj
    Params,     \* how many parameters a function has at most
    Locals,     \* how many local declarations are in scope at most
    MaxDepth,   \* how deep calls may nest, main included
    Dialect     \* which of the constructs below the programs may use

(***************************************************************************)
(* Constructs the analysis accepts and a program need not use:             *)
(*   "mixed"    a literal whose entries live in other regions, passed      *)
(*              directly to a foreign parameter (docs 8.5.6)               *)
(*   "forward"  a foreign parameter passed on to a parameter that is not   *)
(*              foreign                                                    *)
(*   "alias"    a name of a region-safe function made to stand for values  *)
(*              that came in through different parameters                  *)
(*   "foreignregion"  a parameter declared foreign and of type Region      *)
(***************************************************************************)
Constructs == {"mixed", "forward", "alias", "foreignregion"}

ASSUME ConstantsAssumption ==
    /\ NoObj \notin Obj
    /\ Global \in Obj
    /\ Params \in Nat
    /\ Locals \in Nat
    /\ MaxDepth \in Nat \ {0}
    /\ Dialect \subseteq Constructs

NoName == -1                        \* no child, no result binding, no literal
Here == 0                           \* the expression _
Param == 1 .. Params
Local == (Params + 1) .. (Params + Locals)
Static == Params + Locals + 1       \* the global declaration
Var == Param \cup Local
Name == {Here, Static} \cup Var

Depth == 1 .. MaxDepth
GlobalRegion == 0                   \* region d > 0 is the local region of frame d
Region == 0 .. MaxDepth
Free == -1                          \* an object the program does not have

\* A region source (Source in language/region_source.jik): its class, and for "caller" and
\* "foreign" the parameter it comes from.
Source == [class : {"none", "local", "global"}, param : {NoName}]
     \cup [class : {"caller", "foreign"}, param : Param]

NoSource == [class |-> "none", param |-> NoName]
LocalSource == [class |-> "local", param |-> NoName]
GlobalSource == [class |-> "global", param |-> NoName]
ForeignSource(p) == [class |-> "foreign", param |-> p]
CallerSource(p) == [class |-> "caller", param |-> p]

(***************************************************************************)
(* A name in scope: the object it holds (NoObj for a Region value, whose   *)
(* region is "at"), its region source, and local_value of its declaration. *)
(***************************************************************************)
Binding == [obj : Obj \cup {NoObj}, at : Region \cup {Free}, src : Source, local : BOOLEAN]
Unset == [obj |-> NoObj, at |-> 0, src |-> NoSource, local |-> FALSE]

(***************************************************************************)
(* A call in progress.  safe: the callee was inferred region-safe;         *)
(* result, resultSrc: the caller's name that takes the result, and the     *)
(* source the caller's analysis gives it.                                  *)
(***************************************************************************)
Frame == [safe : BOOLEAN, env : [Name -> Binding],
          result : Local \cup {NoName}, resultSrc : Source]

Cell == [region : Region \cup {Free}, ref : Obj \cup {NoObj}, mixed : BOOLEAN]
FreeCell == [region |-> Free, ref |-> NoObj, mixed |-> FALSE]

VARIABLES
    heap,       \* every object: its region, its reference, how it was built
    frame,      \* the frames of the calls in progress
    depth       \* how many there are

vars == <<heap, frame, depth>>

Top == frame[depth]
HereBinding(d) == [obj |-> NoObj, at |-> d, src |-> LocalSource, local |-> TRUE]
StaticBinding == [obj |-> Global, at |-> GlobalRegion, src |-> GlobalSource, local |-> FALSE]
EnvOf(d) == [n \in Name |-> IF n = Here THEN HereBinding(d)
                            ELSE IF n = Static THEN StaticBinding ELSE Unset]
NoFrame == [safe |-> FALSE, env |-> [n \in Name |-> Unset],
            result |-> NoName, resultSrc |-> NoSource]

IsBound(f, n) == f.env[n].src.class # "none"
HoldsObject(f, n) == f.env[n].obj # NoObj
InScopeNames(f) == {n \in Name : IsBound(f, n)}
RegionOf(b) == IF b.obj = NoObj THEN b.at ELSE heap[b.obj].region
------------------------------------------------------------------------------
(***************************************************************************)
(* Expressions.  "name" and "field" read; "cond" is w if .. else v; "copy" *)
(* copies into the region of v; "fresh" is a literal without destination,  *)
(* "placed" one allocated in the region of v, "implicit" one marked @ that *)
(* resolves to the parameter v.  w is the entry of a literal.              *)
(***************************************************************************)
Literal == {"fresh", "placed", "implicit"}

Allocates(e) == e.op \in Literal \cup {"copy"}

\* Mutant of SameRegion: a foreign value matches another.
SameKind(s, t) == s.class # "none" /\ s.class = t.class

\* Two operands provably share a region: classes are compared, parameters are not.
SameRegion(s, t) == s.class \notin {"none", "foreign"} /\ s.class = t.class

\* retarget: the source of a literal without destination, given that of its context.
Retargeted(s) == IF s.class \in {"local", "caller"} THEN s ELSE LocalSource

\* The parameter @ and a returned literal use, if there is one (a set of at most one).
ImplicitParameter(f) ==
    LET eligible == {p \in Param : f.env[p].src.class = "caller"} IN
        {p \in eligible : \A q \in eligible : p <= q /\ (f.safe => p = q)}

SourceOf(f, e, context) ==
    IF e.op = "fresh" THEN Retargeted(context) ELSE f.env[e.v].src

LocalValue(f, e) ==
    \/ e.op = "fresh"
    \/ e.op \in {"name", "field", "copy", "placed"} /\ f.env[e.v].local

\* The expressions a statement of f may contain: their operands are in scope and of the
\* kinds their places need, @ resolves, and no literal names the global region.
Expressions(f) ==
    LET names == {n \in Name : IsBound(f, n)}
        objects == {n \in Name : HoldsObject(f, n)}
        entries == objects \cup {NoName}
    IN       [op : {"name", "field"}, v : objects, w : {NoName}]
        \cup [op : {"cond"}, v : objects, w : objects]
        \cup [op : {"copy"}, v : names, w : {NoName}]
        \cup [op : {"fresh"}, v : {NoName}, w : entries]
        \cup [op : {"placed"}, v : names \ {Static}, w : entries]
        \cup [op : {"implicit"}, v : ImplicitParameter(f), w : entries]

Places(f) == [op : {"name", "field"}, v : {n \in Name : HoldsObject(f, n)}, w : {NoName}]

\* What a region-safe function may not contain, whatever the context.
UnsafeExpression(f, e) ==
    /\ e.op \in Literal /\ e.w # NoName
    /\ ~ (LocalValue(f, e) /\ f.env[e.w].local)

\* A value whose branches came in through different parameters.
AliasesParameters(f, s, t) == f.safe /\ s.class = "caller" /\ s.param # t.param

Accepts(f, e, context) ==
    /\ e.op = "cond" => /\ SameRegion(f.env[e.v].src, f.env[e.w].src)
                        /\ AliasesParameters(f, f.env[e.v].src, f.env[e.w].src)
                             => "alias" \in Dialect
    /\ e.op \in Literal /\ e.w # NoName
         => SameRegion(SourceOf(f, e, context), f.env[e.w].src)
    /\ f.safe => ~ UnsafeExpression(f, e)

\* Mutant of Target: retarget sets the source and leaves the allocation where it was.
TargetHere(f, e, context) ==
    RegionOf(f.env[IF e.op = "fresh" THEN Here ELSE e.v])

\* Where the emitted code allocates: the region is read when the statement runs.
Target(f, e, context) ==
    IF e.op = "fresh"
    THEN LET s == SourceOf(f, e, context) IN
         RegionOf(f.env[IF s.class = "caller" THEN s.param ELSE Here])
    ELSE RegionOf(f.env[e.v])

EntryOf(f, e) == IF e.op \in Literal /\ e.w # NoName THEN f.env[e.w].obj ELSE NoObj

\* Evaluating e yields the object o ...
Yields(f, e, o) ==
    \/ Allocates(e) /\ heap[o].region = Free
    \/ e.op = "name" /\ o = f.env[e.v].obj
    \/ e.op = "field" /\ o = heap[f.env[e.v].obj].ref
    \/ e.op = "cond" /\ o \in {f.env[e.v].obj, f.env[e.w].obj}

\* ... and leaves this heap.
HeapAfter(f, e, context, o) ==
    IF Allocates(e)
    THEN [heap EXCEPT ![o] = [region |-> Target(f, e, context),
                              ref |-> EntryOf(f, e), mixed |-> FALSE]]
    ELSE heap
------------------------------------------------------------------------------
\* x := e
Declare(x, e) ==
    /\ Accepts(Top, e, NoSource)
    /\ \E o \in Obj :
          /\ Yields(Top, e, o)
          /\ heap' = HeapAfter(Top, e, NoSource, o)
          /\ frame' = [frame EXCEPT ![depth].env[x] =
                          [obj |-> o, at |-> GlobalRegion, src |-> SourceOf(Top, e, NoSource),
                           local |-> LocalValue(Top, e)]]
    /\ UNCHANGED depth

\* x = e, for a local or a parameter
Assign(x, e) ==
    /\ HoldsObject(Top, x)
    /\ LET s == Top.env[x].src
           t == SourceOf(Top, e, NoSource) IN
          /\ SameRegion(s, t)
          /\ AliasesParameters(Top, s, t) => "alias" \in Dialect
    /\ Accepts(Top, e, NoSource)
    /\ \E o \in Obj :
          /\ Yields(Top, e, o)
          /\ heap' = HeapAfter(Top, e, NoSource, o)
          /\ frame' = [frame EXCEPT ![depth].env[x] = [@ EXCEPT !.obj = o]]
    /\ UNCHANGED depth

\* Mutant of SafeStore: the stored value is not looked at.
SafePlace(f, place, e) == LocalValue(f, place) \/ Allocates(e)

\* copied_into: the copy goes into the region of the name the place is reached from.
CopiedInto(place, e) == e.op = "copy" /\ e.v = place.v /\ e.v # Static

\* fresh_tree: nothing but literals that go where their place is.
FreshTree(e) == e.op = "fresh" /\ e.w = NoName

\* The stores the safety inference lets a region-safe function make.
SafeStore(f, place, e) ==
    \/ LocalValue(f, place) /\ LocalValue(f, e)
    \/ CopiedInto(place, e)
    \/ FreshTree(e)

\* n.f = e, n[i] = e and push(n, e), where the place is a name or one of its fields
Store(place, e) ==
    LET context == Top.env[place.v].src IN
    /\ SameRegion(context, SourceOf(Top, e, context))
    /\ Accepts(Top, e, context)
    /\ Top.safe => SafeStore(Top, place, e)
    /\ \E t, o \in Obj :
          /\ Yields(Top, place, t)
          /\ Yields(Top, e, o)
          /\ heap' = [HeapAfter(Top, e, context, o) EXCEPT ![t].ref = o]
    /\ UNCHANGED <<frame, depth>>
------------------------------------------------------------------------------
(***************************************************************************)
(* A call.  arg[p] is the name passed to parameter p, except that one      *)
(* argument, lit, may be a literal, whose entry arg[lit] is.  asRegion are *)
(* the parameters of type Region: they take the region of the name (_, a   *)
(* Region parameter, or n written .n), the others its object.              *)
(***************************************************************************)
Passed(c) == DOMAIN c.arg

\* The arguments the same-region rule is about, and the one that names the region.
Shared(c) == Passed(c) \ c.foreign
Anchor(c) == {p \in Shared(c) : \A q \in Shared(c) :
                 IF p = c.lit THEN q = c.lit ELSE q = c.lit \/ p <= q}

\* The argument a literal is retargeted to.
LiteralContext(f, c) ==
    LET anchor == Anchor(c) \ {c.lit} IN
    IF c.lit \in Shared(c) /\ ~ c.safe /\ anchor # {}
    THEN f.env[c.arg[CHOOSE p \in anchor : TRUE]].src
    ELSE NoSource

LiteralArgument(c) == [op |-> "fresh", v |-> NoName, w |-> c.arg[c.lit]]

ArgumentSource(f, c, p) ==
    IF p = c.lit THEN SourceOf(f, LiteralArgument(c), LiteralContext(f, c))
    ELSE f.env[c.arg[p]].src

\* The literal's entry lives in the literal's own region, as far as the analysis knows.
EntryShared(f, c) ==
    c.arg[c.lit] # NoName =>
        SameRegion(ArgumentSource(f, c, c.lit), f.env[c.arg[c.lit]].src)

\* The arguments are in scope and of the kinds the parameters ask for.
WellTyped(f, arg, lit, asRegion) ==
    \A p \in DOMAIN arg :
        IF p = lit
        THEN arg[p] # NoName => HoldsObject(f, arg[p])
        ELSE /\ arg[p] # NoName
             /\ IF p \in asRegion THEN IsBound(f, arg[p]) ELSE HoldsObject(f, arg[p])

\* Mutant of SharedCall: a result needs an argument to take its region from, and that is all.
AnchoredCall(f, c) == c.result # NoName => Anchor(c) # {}

\* check_shared_call, for a callee that is not region-safe
SharedCall(f, c) ==
    /\ \A a \in Anchor(c), p \in Shared(c) :
          a # p => SameRegion(ArgumentSource(f, c, a), ArgumentSource(f, c, p))
    /\ c.result # NoName => Anchor(c) # {}

InDialect(f, c) ==
    /\ "mixed" \in Dialect \/ (c.lit \in c.foreign => EntryShared(f, c))
    /\ "forward" \in Dialect \/ \A p \in Shared(c) \ c.asRegion :
                                   ArgumentSource(f, c, p).class # "foreign"
    /\ "foreignregion" \in Dialect \/ c.asRegion \cap c.foreign = {}

AcceptsCall(f, c) ==
    /\ c.result # NoName => ~ c.safe
    /\ ~ c.safe => SharedCall(f, c)
    /\ c.lit # NoName => c.lit \in c.foreign \/ EntryShared(f, c)
    /\ f.safe => /\ c.safe
                 /\ c.lit # NoName => ~ UnsafeExpression(f, LiteralArgument(c))
    /\ InDialect(f, c)

\* Mutant of ResultSource: the first argument, shared or not.
FirstSource(f, c) == IF c.result = NoName THEN NoSource ELSE ArgumentSource(f, c, 1)

\* The call's region source is that of its anchor.
ResultSource(f, c) ==
    IF c.result = NoName THEN NoSource
    ELSE ArgumentSource(f, c, CHOOSE a \in Anchor(c) : TRUE)

\* How the callee sees its parameter p; o is the object of the literal.
Parameter(f, c, o, p) ==
    IF p \in c.asRegion
    THEN [obj |-> NoObj, at |-> RegionOf(f.env[c.arg[p]]),
          src |-> CallerSource(p), local |-> FALSE]
    ELSE [obj |-> IF p = c.lit THEN o ELSE f.env[c.arg[p]].obj, at |-> GlobalRegion,
          src |-> IF p \in c.foreign THEN ForeignSource(p) ELSE CallerSource(p),
          local |-> FALSE]

Enter(c) ==
    /\ AcceptsCall(Top, c)
    /\ \E o \in IF c.lit = NoName THEN {NoObj} ELSE {x \in Obj : heap[x].region = Free} :
          /\ heap' = IF c.lit = NoName THEN heap
                     ELSE [heap EXCEPT ![o] =
                        [region |-> Target(Top, LiteralArgument(c), LiteralContext(Top, c)),
                         ref |-> EntryOf(Top, LiteralArgument(c)),
                         mixed |-> ~ EntryShared(Top, c)]]
          /\ frame' = [frame EXCEPT ![depth + 1] =
                        [safe |-> c.safe,
                         env |-> [n \in Name |-> IF n \in Passed(c)
                                                 THEN Parameter(Top, c, o, n)
                                                 ELSE EnvOf(depth + 1)[n]],
                         result |-> c.result, resultSrc |-> ResultSource(Top, c)]]
    /\ depth' = depth + 1

\* Destroying the local region of the returning frame.
Released(h) == [o \in Obj |-> IF h[o].region = depth THEN FreeCell ELSE h[o]]

\* Mutant of Returnable: only what would outlive the call in the wrong place is refused.
NotGlobalNorForeign(s) == s.class \notin {"global", "foreign"}

\* Only what lives in the caller's region is returned.
Returnable(s) == s.class = "caller"

\* return e: the value is computed, then the local region goes, then the caller binds it
Return(e) ==
    LET context == IF ImplicitParameter(Top) = {} THEN NoSource
                   ELSE Top.env[CHOOSE p \in ImplicitParameter(Top) : TRUE].src
    IN
    /\ Accepts(Top, e, context)
    /\ Returnable(SourceOf(Top, e, context))
    /\ \E o \in Obj :
          /\ Yields(Top, e, o)
          /\ heap' = Released(HeapAfter(Top, e, context, o))
          /\ frame' = [frame EXCEPT
                         ![depth] = NoFrame,
                         ![depth - 1].env[Top.result] =
                            [obj |-> o, at |-> GlobalRegion, src |-> Top.resultSrc,
                             local |-> FALSE]]
    /\ depth' = depth - 1

\* Mutant of Leave: main gives up a frame it does not have.
LeaveMain ==
    /\ heap' = Released(heap)
    /\ frame' = [frame EXCEPT ![depth] = NoFrame]
    /\ depth' = depth - 1

\* return without a value, the end of the body, and fail: every exit passes the cleanup,
\* and a failed call binds nothing in the caller
Leave ==
    /\ depth > 1
    /\ heap' = Released(heap)
    /\ frame' = [frame EXCEPT ![depth] = NoFrame]
    /\ depth' = depth - 1
------------------------------------------------------------------------------
Init ==
    /\ heap = [o \in Obj |-> IF o = Global
                             THEN [region |-> GlobalRegion, ref |-> NoObj, mixed |-> FALSE]
                             ELSE FreeCell]
    /\ frame = [d \in Depth |-> IF d = 1 THEN [NoFrame EXCEPT !.env = EnvOf(1)] ELSE NoFrame]
    /\ depth = 1

Next ==
    \/ \E x \in Local, e \in Expressions(Top) : Declare(x, e)
    \/ \E x \in Var, e \in Expressions(Top) : Assign(x, e)
    \/ \E place \in Places(Top), e \in Expressions(Top) : Store(place, e)
    \/ /\ depth < MaxDepth
       /\ \E k \in 0 .. Params :
          \E arg \in [1 .. k -> InScopeNames(Top) \cup {NoName}], lit \in 1 .. k \cup {NoName} :
          \E asRegion \in SUBSET ((1 .. k) \ {lit}) :
             /\ WellTyped(Top, arg, lit, asRegion)
             /\ \E foreign \in SUBSET (1 .. k), safe \in BOOLEAN, result \in Local \cup {NoName} :
                   Enter([arg |-> arg, lit |-> lit, asRegion |-> asRegion,
                          foreign |-> foreign, safe |-> safe, result |-> result])
    \/ depth > 1 /\ Top.result # NoName /\ \E e \in Expressions(Top) : Return(e)
    \/ Leave

Spec == Init /\ [][Next]_vars
------------------------------------------------------------------------------
TypeOK ==
    /\ heap \in [Obj -> Cell]
    /\ frame \in [Depth -> Frame]
    /\ depth \in Depth

Live(o) == heap[o].region # Free
Active == 1 .. depth

(***************************************************************************)
(* No reference of a live object and no name in scope refers to an object  *)
(* whose region was destroyed: what the whole analysis is for.  The C code *)
(* would read freed memory.                                                *)
(***************************************************************************)
NoDangling ==
    /\ \A o \in Obj : Live(o) /\ heap[o].ref # NoObj => Live(heap[o].ref)
    /\ \A d \in Active, n \in Name : HoldsObject(frame[d], n) => Live(frame[d].env[n].obj)

(***************************************************************************)
(* A composite holds references into its own region only ("one region      *)
(* [cannot] reference a composite value from another region", docs 8.4.3); *)
(* a literal built for a foreign parameter may also hold references to     *)
(* regions that outlive its own.                                           *)
(***************************************************************************)
EntriesOutlive ==
    \A o \in Obj : Live(o) /\ heap[o].ref # NoObj =>
        LET r == heap[heap[o].ref].region IN
        r # Free /\ (IF heap[o].mixed THEN r <= heap[o].region ELSE r = heap[o].region)

\* In frame d, a value of the source s may be in the region r.
Fits(d, s, r) ==
    /\ s.class # "none"
    /\ s.class = "local" => r = d
    /\ s.class = "global" => r = GlobalRegion
    /\ s.class \in {"foreign", "caller"} => r \in 0 .. (d - 1)
    /\ s.class = "caller" => /\ frame[d].env[s.param].src = s
                             /\ r = RegionOf(frame[d].env[s.param])

(***************************************************************************)
(* The region source the analysis computes for a name is right when the    *)
(* program runs: local values are in the frame's own region, global ones   *)
(* in the global region, those of a caller in a region that outlives the   *)
(* frame and is the one the named parameter is in now, which is where the  *)
(* emitted code allocates on their behalf.                                 *)
(***************************************************************************)
SourcesSound ==
    \A d \in Active, n \in Name :
        IsBound(frame[d], n) =>
            Fits(d, frame[d].env[n].src, RegionOf(frame[d].env[n]))

(***************************************************************************)
(* same_region compares classes only.  That is sound in a function that    *)
(* stores or returns, because its callers put every shared argument in one *)
(* region: all its names of class CALLER hold values of a single region.   *)
(***************************************************************************)
OneCallerRegion ==
    \A d \in Active : ~ frame[d].safe =>
        \A m, n \in Name :
            frame[d].env[m].src.class = "caller" /\ frame[d].env[n].src.class = "caller"
                => RegionOf(frame[d].env[m]) = RegionOf(frame[d].env[n])

(***************************************************************************)
(* Whatever a function that returns a composite may return is in the       *)
(* region its caller's analysis already wrote down for the result of the   *)
(* call, before the call ends.                                             *)
(***************************************************************************)
ResultsFit ==
    \A d \in Active : frame[d].result # NoName =>
        /\ d > 1
        /\ ~ frame[d].safe
        /\ \A n \in Name : frame[d].env[n].src.class = "caller" =>
              Fits(d - 1, frame[d].resultSrc, RegionOf(frame[d].env[n]))

(***************************************************************************)
(* A literal with entries from several regions is in nobody's hands but    *)
(* those of foreign parameters and of other such literals, so nothing is   *)
(* ever stored through it.                                                 *)
(***************************************************************************)
MixedStaysForeign ==
    /\ \A d \in Active, n \in Name :
          LET b == frame[d].env[n] IN
          b.obj # NoObj /\ b.src.class # "foreign" => ~ heap[b.obj].mixed
    /\ \A o \in Obj : heap[o].ref # NoObj /\ heap[heap[o].ref].mixed => heap[o].mixed
=============================================================================
