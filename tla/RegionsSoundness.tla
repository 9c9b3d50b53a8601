-------------------------- MODULE RegionsSoundness --------------------------
(***************************************************************************)
(* The region analysis is sound for the programs of a sound dialect: no    *)
(* reference of a running program outlives what it refers to.              *)
(***************************************************************************)
EXTENDS Regions, WellFoundedInduction, TLAPS

USE DEF NoName, Here, Static, GlobalRegion, Free

LEMMA Names ==
    /\ Param \subseteq Var /\ Local \subseteq Var /\ Var \subseteq Name
    /\ Here \in Name /\ Static \in Name /\ Here \notin Var /\ Static \notin Var
    /\ Param \cap Local = {} /\ NoName \notin Name /\ Param \subseteq Nat
    /\ Name \subseteq Nat
BY ConstantsAssumption DEF Param, Local, Var, Name

LEMMA Sources ==
    /\ NoSource \in Source /\ LocalSource \in Source /\ GlobalSource \in Source
    /\ \A p \in Param : ForeignSource(p) \in Source /\ CallerSource(p) \in Source
    /\ \A s \in Source : Retargeted(s) \in Source
BY DEF NoSource, LocalSource, GlobalSource, ForeignSource, CallerSource, Source,
       Retargeted

LEMMA Bindings ==
    ASSUME NEW d \in Depth
    PROVE  /\ Unset \in Binding
           /\ EnvOf(d) \in [Name -> Binding]
           /\ NoFrame \in Frame
           /\ FreeCell \in Cell
<1>1. Unset \in Binding
  BY Sources, ConstantsAssumption DEF Unset, Binding, Region
<1>2. d \in Region
  BY DEF Depth, Region
<1>3. EnvOf(d) \in [Name -> Binding]
  BY <1>1, <1>2, Sources, ConstantsAssumption DEF EnvOf, HereBinding, StaticBinding, Binding, Region
<1>4. NoFrame \in Frame
  BY <1>1, Sources DEF NoFrame, Frame
<1>5. FreeCell \in Cell
  BY DEF FreeCell, Cell
<1> QED BY <1>1, <1>3, <1>4, <1>5

------------------------------------------------------------------------------
\* Facts about the typed state: the frames and the names in scope.
LEMMA FrameTypes ==
    ASSUME TypeOK
    PROVE  /\ depth \in Nat /\ 1 <= depth /\ depth <= MaxDepth
           /\ Top \in Frame
           /\ \A d \in Depth, n \in Name : frame[d].env[n] \in Binding
           /\ \A d \in Depth, n \in Name : RegionOf(frame[d].env[n]) \in Region \cup {Free}
<1>1. depth \in Nat /\ 1 <= depth /\ depth <= MaxDepth
  BY ConstantsAssumption DEF TypeOK, Depth
<1>2. Top \in Frame
  BY DEF TypeOK, Top
<1>3. \A d \in Depth, n \in Name : frame[d].env[n] \in Binding
  BY DEF TypeOK, Frame
<1>4. ASSUME NEW b \in Binding PROVE RegionOf(b) \in Region \cup {Free}
  BY DEF TypeOK, Binding, RegionOf, Cell
<1> QED BY <1>1, <1>2, <1>3, <1>4

\* What an expression of the running frame is made of.
LEMMA ExpressionShape ==
    ASSUME TypeOK, NEW e \in Expressions(Top)
    PROVE  /\ e.op \in Literal \cup {"name", "field", "cond", "copy"}
           /\ e.op \in {"name", "field", "cond"} => e.v \in Name /\ HoldsObject(Top, e.v)
           /\ e.op = "cond" => e.w \in Name /\ HoldsObject(Top, e.w)
           /\ e.op # "fresh" => e.v \in Name
           /\ e.op \in {"copy", "placed", "implicit"} => IsBound(Top, e.v)
           /\ e.op \in Literal /\ e.w # NoName => e.w \in Name /\ HoldsObject(Top, e.w)
  BY Names DEF Expressions, Literal, ImplicitParameter, IsBound, HoldsObject

\* Evaluating an expression keeps the types.
LEMMA EvaluationTypes ==
    ASSUME TypeOK, NEW e \in Expressions(Top), NEW context \in Source, NEW o \in Obj
    PROVE  /\ SourceOf(Top, e, context) \in Source
           /\ Target(Top, e, context) \in Region \cup {Free}
           /\ EntryOf(Top, e) \in Obj \cup {NoObj}
           /\ HeapAfter(Top, e, context, o) \in [Obj -> Cell]
<1>1. SourceOf(Top, e, context) \in Source
  <2>1. CASE e.op = "fresh"
    BY <2>1, Sources DEF SourceOf
  <2>2. CASE e.op # "fresh"
    BY <2>2, ExpressionShape, FrameTypes DEF SourceOf, Frame, Binding
  <2> QED BY <2>1, <2>2
<1>2. Target(Top, e, context) \in Region \cup {Free}
  <2>1. \A n \in Name : RegionOf(Top.env[n]) \in Region \cup {Free}
    BY FrameTypes DEF Top, TypeOK
  <2>2. CASE e.op = "fresh"
    BY <2>1, <2>2, <1>1, Names DEF Target, Source
  <2>3. CASE e.op # "fresh"
    BY <2>1, <2>3, ExpressionShape DEF Target
  <2> QED BY <2>2, <2>3
<1>3. EntryOf(Top, e) \in Obj \cup {NoObj}
  BY ExpressionShape, FrameTypes DEF EntryOf, Frame, Binding
<1>4. HeapAfter(Top, e, context, o) \in [Obj -> Cell]
  BY <1>2, <1>3 DEF HeapAfter, TypeOK, Cell
<1> QED BY <1>1, <1>2, <1>3, <1>4

LEMMA LocalValueType ==
    ASSUME TypeOK, NEW e \in Expressions(Top)
    PROVE  LocalValue(Top, e) \in BOOLEAN
BY DEF LocalValue

\* Rebinding one name of a frame.
LEMMA RebindTypes ==
    ASSUME TypeOK, NEW d \in Depth, NEW x \in Name, NEW b \in Binding
    PROVE  [frame EXCEPT ![d].env[x] = b] \in [Depth -> Frame]
BY DEF TypeOK, Frame

\* The context of a returned literal.
ReturnContext ==
    IF ImplicitParameter(Top) = {} THEN NoSource
    ELSE Top.env[CHOOSE p \in ImplicitParameter(Top) : TRUE].src

LEMMA ReturnContextType ==
    ASSUME TypeOK
    PROVE  ReturnContext \in Source
<1>1. CASE ImplicitParameter(Top) = {}
  BY <1>1, Sources DEF ReturnContext
<1>2. CASE ImplicitParameter(Top) # {}
  <2> DEFINE p == CHOOSE p \in ImplicitParameter(Top) : TRUE
  <2>1. p \in ImplicitParameter(Top)
    BY <1>2
  <2>2. p \in Name
    BY <2>1, Names DEF ImplicitParameter
  <2> QED BY <1>2, <2>2, FrameTypes DEF ReturnContext, Frame, Binding
<1> QED BY <1>1, <1>2

\* The calls Next quantifies over.
IsCall(c, k) ==
    /\ k \in 0 .. Params
    /\ c.arg \in [1 .. k -> Name \cup {NoName}]
    /\ c.lit \in 1 .. k \cup {NoName}
    /\ c.asRegion \in SUBSET ((1 .. k) \ {c.lit})
    /\ c.foreign \in SUBSET (1 .. k)
    /\ c.safe \in BOOLEAN
    /\ c.result \in Local \cup {NoName}
    /\ WellTyped(Top, c.arg, c.lit, c.asRegion)

\* The literal argument of a call is an expression of the calling frame.
LEMMA LiteralArgumentIsExpression ==
    ASSUME TypeOK, NEW k, NEW c, IsCall(c, k), c.lit # NoName
    PROVE  LiteralArgument(c) \in Expressions(Top)
<1>1. c.lit \in DOMAIN c.arg
  BY DEF IsCall
<1>2. c.arg[c.lit] \in Name \cup {NoName}
  BY <1>1 DEF IsCall
<1>3. c.arg[c.lit] # NoName => HoldsObject(Top, c.arg[c.lit])
  BY <1>1 DEF IsCall, WellTyped
<1> QED BY <1>2, <1>3 DEF LiteralArgument, Expressions

LEMMA ArgumentSourceType ==
    ASSUME TypeOK, NEW k, NEW c, IsCall(c, k), NEW p \in 1 .. k
    PROVE  /\ LiteralContext(Top, c) \in Source
           /\ ArgumentSource(Top, c, p) \in Source
<1>1. \A q \in 1 .. k : q # c.lit => c.arg[q] \in Name
  BY DEF IsCall, WellTyped
<1>2. LiteralContext(Top, c) \in Source
  <2> DEFINE anchor == Anchor(c) \ {c.lit}
             a == CHOOSE q \in anchor : TRUE
  <2>1. CASE anchor = {}
    BY <2>1, Sources DEF LiteralContext
  <2>2. CASE anchor # {}
    <3>1. a \in 1 .. k /\ a # c.lit
      BY <2>2 DEF Anchor, Shared, Passed, IsCall
    <3> QED BY <1>1, <3>1, FrameTypes, Sources DEF LiteralContext, Frame, Binding
  <2> QED BY <2>1, <2>2
<1>3. ArgumentSource(Top, c, p) \in Source
  <2>1. CASE p = c.lit
    <3>1. LiteralArgument(c).op = "fresh"
      BY DEF LiteralArgument
    <3> QED BY <2>1, <3>1, <1>2, Sources DEF ArgumentSource, SourceOf
  <2>2. CASE p # c.lit
    BY <2>2, <1>1, FrameTypes DEF ArgumentSource, Frame, Binding
  <2> QED BY <2>1, <2>2
<1> QED BY <1>2, <1>3

LEMMA ParameterType ==
    ASSUME TypeOK, NEW k, NEW c, IsCall(c, k), NEW p \in 1 .. k,
           NEW o, c.lit # NoName => o \in Obj
    PROVE  Parameter(Top, c, o, p) \in Binding
<1>1. p \in Param
  BY ConstantsAssumption DEF IsCall, Param
<1>2. p # c.lit => c.arg[p] \in Name
  BY DEF IsCall, WellTyped
<1>3. CASE p \in c.asRegion
  <2>1. RegionOf(Top.env[c.arg[p]]) \in Region \cup {Free}
    BY <1>2, <1>3, FrameTypes DEF Top, TypeOK, IsCall
  <2> QED BY <1>1, <1>3, <2>1, Sources DEF Parameter, Binding
<1>4. CASE p \notin c.asRegion
  <2>1. (IF p = c.lit THEN o ELSE Top.env[c.arg[p]].obj) \in Obj \cup {NoObj}
    BY <1>1, <1>2, FrameTypes, Names DEF Frame, Binding
  <2> QED BY <1>1, <1>4, <2>1, Sources, ConstantsAssumption DEF Parameter, Binding, Region
<1> QED BY <1>3, <1>4

LEMMA EnterTypes ==
    ASSUME TypeOK, NEW k, NEW c, IsCall(c, k), depth < MaxDepth, Enter(c)
    PROVE  TypeOK'
<1>1. PICK o \in IF c.lit = NoName THEN {NoObj} ELSE {x \in Obj : heap[x].region = Free} :
          /\ heap' = IF c.lit = NoName THEN heap
                     ELSE [heap EXCEPT ![o] =
                        [region |-> Target(Top, LiteralArgument(c), LiteralContext(Top, c)),
                         ref |-> EntryOf(Top, LiteralArgument(c)),
                         mixed |-> ~ EntryShared(Top, c)]]
          /\ frame' = [frame EXCEPT ![depth + 1] =
                        [safe |-> c.safe,
                         env |-> [n \in Name |-> IF n \in Passed(c)
                                                 THEN Parameter(Top, c, o, n)
                                                 ELSE EnvOf(depth + 1)[n]],
                         result |-> c.result, resultSrc |-> ResultSource(Top, c)]]
  BY DEF Enter
<1>2. c.lit # NoName => o \in Obj
  BY <1>1
<1>3. depth' \in Depth /\ depth' = depth + 1
  BY FrameTypes, ConstantsAssumption DEF Enter, Depth
<1>4. heap' \in [Obj -> Cell]
  <2>1. CASE c.lit = NoName
    BY <1>1, <2>1 DEF TypeOK
  <2>2. CASE c.lit # NoName
    <3>1. LiteralArgument(c) \in Expressions(Top)
      BY <2>2, LiteralArgumentIsExpression
    <3>2. c.lit \in 1 .. k
      BY <2>2 DEF IsCall
    <3>3. LiteralContext(Top, c) \in Source
      BY <3>2, ArgumentSourceType
    <3>4. /\ Target(Top, LiteralArgument(c), LiteralContext(Top, c)) \in Region \cup {Free}
          /\ EntryOf(Top, LiteralArgument(c)) \in Obj \cup {NoObj}
      BY <1>2, <2>2, <3>1, <3>3, EvaluationTypes
    <3>5. (~ EntryShared(Top, c)) \in BOOLEAN
      OBVIOUS
    <3> QED BY <1>1, <1>2, <2>2, <3>4, <3>5 DEF TypeOK, Cell
  <2> QED BY <2>1, <2>2
<1>5. ResultSource(Top, c) \in Source
  <2>1. CASE c.result = NoName
    BY <2>1, Sources DEF ResultSource
  <2>2. CASE c.result # NoName
    <3>1. Anchor(c) # {}
      BY <2>2 DEF Enter, AcceptsCall, SharedCall
    <3>2. (CHOOSE a \in Anchor(c) : TRUE) \in 1 .. k
      BY <3>1 DEF Anchor, Shared, Passed, IsCall
    <3> QED BY <2>2, <3>2, ArgumentSourceType DEF ResultSource
  <2> QED BY <2>1, <2>2
<1>6. \A n \in Name : (IF n \in Passed(c) THEN Parameter(Top, c, o, n)
                       ELSE EnvOf(depth + 1)[n]) \in Binding
  BY <1>2, <1>3, ParameterType, Bindings DEF Passed, IsCall
<1>7. c.safe \in BOOLEAN /\ c.result \in Local \cup {NoName}
  BY DEF IsCall
<1>8. [safe |-> c.safe,
       env |-> [n \in Name |-> IF n \in Passed(c) THEN Parameter(Top, c, o, n)
                               ELSE EnvOf(depth + 1)[n]],
       result |-> c.result, resultSrc |-> ResultSource(Top, c)] \in Frame
  BY <1>5, <1>6, <1>7 DEF Frame
<1> QED BY <1>1, <1>3, <1>4, <1>8 DEF TypeOK

\* The actions of Next, one by one.
LEMMA NextCases ==
    ASSUME Next
    PROVE  \/ \E x \in Local, e \in Expressions(Top) : Declare(x, e)
           \/ \E x \in Var, e \in Expressions(Top) : Assign(x, e)
           \/ \E place \in Places(Top), e \in Expressions(Top) : Store(place, e)
           \/ depth < MaxDepth /\ \E k, c : IsCall(c, k) /\ Enter(c)
           \/ depth > 1 /\ Top.result # NoName /\ \E e \in Expressions(Top) : Return(e)
           \/ Leave
<1>1. ASSUME NEW k \in 0 .. Params,
             NEW arg \in [1 .. k -> InScopeNames(Top) \cup {NoName}],
             NEW lit \in 1 .. k \cup {NoName},
             NEW asRegion \in SUBSET ((1 .. k) \ {lit}),
             WellTyped(Top, arg, lit, asRegion),
             NEW foreign \in SUBSET (1 .. k), NEW safe \in BOOLEAN,
             NEW result \in Local \cup {NoName}
      PROVE  IsCall([arg |-> arg, lit |-> lit, asRegion |-> asRegion, foreign |-> foreign,
                     safe |-> safe, result |-> result], k)
  <2>1. arg \in [1 .. k -> Name \cup {NoName}]
    BY DEF InScopeNames
  <2> QED BY <1>1, <2>1 DEF IsCall
<1>2. CASE /\ depth < MaxDepth
           /\ \E k \in 0 .. Params :
              \E arg \in [1 .. k -> InScopeNames(Top) \cup {NoName}],
                 lit \in 1 .. k \cup {NoName} :
              \E asRegion \in SUBSET ((1 .. k) \ {lit}) :
                 /\ WellTyped(Top, arg, lit, asRegion)
                 /\ \E foreign \in SUBSET (1 .. k), safe \in BOOLEAN,
                       result \in Local \cup {NoName} :
                       Enter([arg |-> arg, lit |-> lit, asRegion |-> asRegion,
                              foreign |-> foreign, safe |-> safe, result |-> result])
  <2>1. PICK k \in 0 .. Params :
        \E arg \in [1 .. k -> InScopeNames(Top) \cup {NoName}],
           lit \in 1 .. k \cup {NoName} :
        \E asRegion \in SUBSET ((1 .. k) \ {lit}) :
           /\ WellTyped(Top, arg, lit, asRegion)
           /\ \E foreign \in SUBSET (1 .. k), safe \in BOOLEAN,
                 result \in Local \cup {NoName} :
                 Enter([arg |-> arg, lit |-> lit, asRegion |-> asRegion,
                        foreign |-> foreign, safe |-> safe, result |-> result])
    BY <1>2
  <2>2. PICK arg \in [1 .. k -> InScopeNames(Top) \cup {NoName}],
             lit \in 1 .. k \cup {NoName} :
        \E asRegion \in SUBSET ((1 .. k) \ {lit}) :
           /\ WellTyped(Top, arg, lit, asRegion)
           /\ \E foreign \in SUBSET (1 .. k), safe \in BOOLEAN,
                 result \in Local \cup {NoName} :
                 Enter([arg |-> arg, lit |-> lit, asRegion |-> asRegion,
                        foreign |-> foreign, safe |-> safe, result |-> result])
    BY <2>1
  <2>3. PICK asRegion \in SUBSET ((1 .. k) \ {lit}) :
           /\ WellTyped(Top, arg, lit, asRegion)
           /\ \E foreign \in SUBSET (1 .. k), safe \in BOOLEAN,
                 result \in Local \cup {NoName} :
                 Enter([arg |-> arg, lit |-> lit, asRegion |-> asRegion,
                        foreign |-> foreign, safe |-> safe, result |-> result])
    BY <2>2
  <2>4. PICK foreign \in SUBSET (1 .. k), safe \in BOOLEAN, result \in Local \cup {NoName} :
           Enter([arg |-> arg, lit |-> lit, asRegion |-> asRegion,
                  foreign |-> foreign, safe |-> safe, result |-> result])
    BY <2>3
  <2>5. IsCall([arg |-> arg, lit |-> lit, asRegion |-> asRegion, foreign |-> foreign,
                safe |-> safe, result |-> result], k)
    BY <1>1, <2>3
  <2> QED BY <1>2, <2>4, <2>5
<1> QED BY <1>2 DEF Next

\* Every step keeps the types.
LEMMA TypeStep ==
    ASSUME TypeOK, [Next]_vars
    PROVE  TypeOK'
<1>1. ASSUME NEW x \in Local, NEW e \in Expressions(Top), Declare(x, e)
      PROVE  TypeOK'
  <2>1. PICK o \in Obj :
           /\ heap' = HeapAfter(Top, e, NoSource, o)
           /\ frame' = [frame EXCEPT ![depth].env[x] =
                          [obj |-> o, at |-> GlobalRegion,
                           src |-> SourceOf(Top, e, NoSource),
                           local |-> LocalValue(Top, e)]]
    BY <1>1 DEF Declare
  <2>2. heap' \in [Obj -> Cell] /\ SourceOf(Top, e, NoSource) \in Source
    BY <2>1, EvaluationTypes, Sources
  <2>3. [obj |-> o, at |-> GlobalRegion, src |-> SourceOf(Top, e, NoSource),
         local |-> LocalValue(Top, e)] \in Binding
    BY <2>2, LocalValueType, ConstantsAssumption DEF Binding, Region
  <2>4. frame' \in [Depth -> Frame]
    BY <2>1, <2>3, RebindTypes, Names DEF TypeOK
  <2> QED BY <1>1, <2>2, <2>4 DEF Declare, TypeOK
<1>2. ASSUME NEW x \in Var, NEW e \in Expressions(Top), Assign(x, e)
      PROVE  TypeOK'
  <2>1. PICK o \in Obj :
           /\ heap' = HeapAfter(Top, e, NoSource, o)
           /\ frame' = [frame EXCEPT ![depth].env[x] = [@ EXCEPT !.obj = o]]
    BY <1>2 DEF Assign
  <2>2. heap' \in [Obj -> Cell]
    BY <2>1, EvaluationTypes, Sources
  <2>3. [frame[depth].env[x] EXCEPT !.obj = o] \in Binding
    BY FrameTypes, Names DEF TypeOK, Binding
  <2>4. frame' = [frame EXCEPT ![depth].env[x] = [frame[depth].env[x] EXCEPT !.obj = o]]
    BY <2>1 DEF TypeOK
  <2>5. frame' \in [Depth -> Frame]
    BY <2>3, <2>4, RebindTypes, Names DEF TypeOK
  <2> QED BY <1>2, <2>2, <2>5 DEF Assign, TypeOK
<1>3. ASSUME NEW place \in Places(Top), NEW e \in Expressions(Top), Store(place, e)
      PROVE  TypeOK'
  <2> DEFINE context == Top.env[place.v].src
  <2>1. PICK t \in Obj, o \in Obj :
           heap' = [HeapAfter(Top, e, context, o) EXCEPT ![t].ref = o]
    BY <1>3 DEF Store
  <2>2. context \in Source
    BY FrameTypes DEF Places, Frame, Binding
  <2>3. HeapAfter(Top, e, context, o) \in [Obj -> Cell]
    BY <2>2, EvaluationTypes
  <2>4. heap' \in [Obj -> Cell]
    BY <2>1, <2>3 DEF Cell
  <2> QED BY <1>3, <2>4 DEF Store, TypeOK
<1>4. ASSUME depth < MaxDepth, NEW k, NEW c, IsCall(c, k), Enter(c)
      PROVE  TypeOK'
  BY <1>4, EnterTypes
<1>5. ASSUME depth > 1, Top.result # NoName, NEW e \in Expressions(Top), Return(e)
      PROVE  TypeOK'
  <2>1. PICK o \in Obj :
           /\ heap' = Released(HeapAfter(Top, e, ReturnContext, o))
           /\ frame' = [frame EXCEPT
                          ![depth] = NoFrame,
                          ![depth - 1].env[Top.result] =
                             [obj |-> o, at |-> GlobalRegion, src |-> Top.resultSrc,
                              local |-> FALSE]]
    BY <1>5 DEF Return, ReturnContext
  <2>2. heap' \in [Obj -> Cell]
    <3>1. HeapAfter(Top, e, ReturnContext, o) \in [Obj -> Cell]
      BY EvaluationTypes, ReturnContextType
    <3>2. FreeCell \in Cell
      BY Bindings DEF TypeOK
    <3> QED BY <2>1, <3>1, <3>2 DEF Released
  <2>3. depth - 1 \in Depth /\ depth' = depth - 1
    BY <1>5, FrameTypes, ConstantsAssumption DEF Depth, Return
  <2>4. [obj |-> o, at |-> GlobalRegion, src |-> Top.resultSrc, local |-> FALSE] \in Binding
    BY FrameTypes, ConstantsAssumption DEF Frame, Binding, Region
  <2>5. Top.result \in Name
    BY <1>5, FrameTypes, Names DEF Frame
  <2>6. frame' \in [Depth -> Frame]
    BY <2>1, <2>3, <2>4, <2>5, Bindings DEF TypeOK, Frame
  <2> QED BY <2>2, <2>3, <2>6 DEF TypeOK
<1>6. ASSUME Leave PROVE TypeOK'
  <2>1. heap' \in [Obj -> Cell]
    BY <1>6, Bindings DEF Leave, Released, TypeOK
  <2>2. depth' \in Depth
    BY <1>6, FrameTypes, ConstantsAssumption DEF Leave, Depth
  <2>3. frame' \in [Depth -> Frame]
    BY <1>6, Bindings DEF Leave, TypeOK
  <2> QED BY <2>1, <2>2, <2>3 DEF TypeOK
<1>7. ASSUME UNCHANGED vars PROVE TypeOK'
  BY <1>7 DEF vars, TypeOK
<1> QED BY <1>1, <1>2, <1>3, <1>4, <1>5, <1>6, <1>7, NextCases

\* Every state of every run has its type.
THEOREM TypeCorrect == Spec => []TypeOK
<1>1. Init => TypeOK
  <2> SUFFICES ASSUME Init PROVE TypeOK
    OBVIOUS
  <2>1. 1 \in Depth
    BY ConstantsAssumption DEF Depth
  <2>2. heap \in [Obj -> Cell]
    BY ConstantsAssumption DEF Init, Cell, FreeCell, Region
  <2>3. frame \in [Depth -> Frame]
    BY <2>1, Bindings DEF Init, Frame
  <2> QED BY <2>1, <2>2, <2>3 DEF Init, TypeOK
<1>2. TypeOK /\ [Next]_vars => TypeOK'
  BY TypeStep
<1> QED BY <1>1, <1>2, PTL DEF Spec

-----------------------------------------------------------------------------
(* Soundness. *)

\* The programs the soundness theorem is about.
SoundDialect ==
    /\ "alias" \notin Dialect
    /\ "foreignregion" \notin Dialect
    /\ "mixed" \notin Dialect \/ "forward" \notin Dialect

\* The heap h of a program whose innermost frame is d.
HeapGood(h, d) ==
    /\ h[Global].region = GlobalRegion
    /\ \A o \in Obj : h[o].region <= d
    /\ \A o \in Obj : h[o].region = Free => h[o].ref = NoObj
    /\ \A o \in Obj : h[o].ref # NoObj =>
          /\ h[h[o].ref].region # Free
          /\ h[o].mixed => h[h[o].ref].region <= h[o].region
          /\ ~ h[o].mixed => /\ h[h[o].ref].region = h[o].region
                             /\ ~ h[h[o].ref].mixed
    /\ "mixed" \notin Dialect => \A o \in Obj : ~ h[o].mixed

\* Frame d: names in scope, the claims of the analysis about them, what it may return.
FrameGood(d) ==
    /\ frame[d].env[Here] = HereBinding(d)
    /\ frame[d].env[Static] = StaticBinding
    /\ \A n \in Name : HoldsObject(frame[d], n) => IsBound(frame[d], n)
    /\ \A n \in Name : frame[d].env[n].local => frame[d].env[n].src.class = "local"
    /\ \A n \in Name : IsBound(frame[d], n) =>
          Fits(d, frame[d].env[n].src, RegionOf(frame[d].env[n]))
    /\ ~ frame[d].safe =>
          \A m, n \in Name :
             frame[d].env[m].src.class = "caller" /\ frame[d].env[n].src.class = "caller"
                => RegionOf(frame[d].env[m]) = RegionOf(frame[d].env[n])
    /\ frame[d].result # NoName =>
          /\ d > 1
          /\ ~ frame[d].safe
          /\ \A n \in Name : frame[d].env[n].src.class = "caller" =>
                Fits(d - 1, frame[d].resultSrc, RegionOf(frame[d].env[n]))
    /\ \A n \in Name : HoldsObject(frame[d], n) /\ frame[d].env[n].src.class # "foreign" =>
          ~ heap[frame[d].env[n].obj].mixed

Inv ==
    /\ TypeOK
    /\ HeapGood(heap, depth)
    /\ \A d \in Active : FrameGood(d)
------------------------------------------------------------------------------
LEMMA ActiveDepths ==
    ASSUME TypeOK
    PROVE  /\ Active \subseteq Depth
           /\ depth \in Active /\ 1 \in Active
           /\ \A d \in Active : d \in Nat /\ d > 0 /\ d <= depth
           /\ \A d \in Active : d > 1 => d - 1 \in Active
  BY FrameTypes, ConstantsAssumption DEF Active, Depth

LEMMA FitsRange ==
    ASSUME TypeOK, NEW d \in Active, NEW s \in Source, NEW r, Fits(d, s, r)
    PROVE  r \in 0 .. d
<1>1. d \in Nat /\ d > 0
  BY ActiveDepths
<1>2. s.class \in {"local", "global", "caller", "foreign"}
  BY DEF Fits, Source
<1>3. CASE s.class \in {"local", "global"}
  BY <1>1, <1>3 DEF Fits
<1>4. CASE s.class \in {"caller", "foreign"}
  <2>1. r \in 0 .. (d - 1)
    BY <1>4 DEF Fits
  <2> QED BY <1>1, <2>1
<1> QED BY <1>2, <1>3, <1>4

\* What a name in scope holds exists, and is in a region of this frame or an outer one.
LEMMA BoundIsLive ==
    ASSUME TypeOK, NEW d \in Active, FrameGood(d), NEW n \in Name, IsBound(frame[d], n)
    PROVE  /\ RegionOf(frame[d].env[n]) \in 0 .. d
           /\ HoldsObject(frame[d], n) =>
                 /\ frame[d].env[n].obj \in Obj
                 /\ heap[frame[d].env[n].obj].region \in 0 .. d
<1>1. Fits(d, frame[d].env[n].src, RegionOf(frame[d].env[n]))
  BY DEF FrameGood
<1>2. frame[d].env[n] \in Binding
  BY FrameTypes, ActiveDepths
<1>3. RegionOf(frame[d].env[n]) \in 0 .. d
  BY <1>1, <1>2, FitsRange DEF Binding
<1> QED BY <1>2, <1>3 DEF RegionOf, HoldsObject, Binding

\* Comparing classes is comparing regions.
LEMMA SameRegionSound ==
    ASSUME TypeOK, NEW d \in Active, FrameGood(d),
           NEW s \in Source, NEW t \in Source, NEW r, NEW q,
           Fits(d, s, r), Fits(d, t, q), SameRegion(s, t),
           frame[d].safe /\ s.class = "caller" => s.param = t.param
    PROVE  r = q
<1>1. CASE s.class \in {"local", "global"}
  BY <1>1 DEF Fits, SameRegion
<1>2. CASE s.class = "caller"
  <2>1. s.param \in Name /\ t.param \in Name
    BY <1>2, Names DEF SameRegion, Source
  <2>2. frame[d].env[s.param].src = s /\ frame[d].env[t.param].src = t
    BY <1>2 DEF Fits, SameRegion
  <2>3. r = RegionOf(frame[d].env[s.param]) /\ q = RegionOf(frame[d].env[t.param])
    BY <1>2 DEF Fits, SameRegion
  <2>4. CASE frame[d].safe
    BY <1>2, <2>3, <2>4
  <2>5. CASE ~ frame[d].safe
    BY <1>2, <2>1, <2>2, <2>3, <2>5 DEF FrameGood, SameRegion
  <2> QED BY <2>4, <2>5
<1> QED BY <1>1, <1>2 DEF SameRegion, Source

------------------------------------------------------------------------------
(***************************************************************************)
(* Evaluating an expression.                                               *)
(***************************************************************************)

\* What h is to the heap of the state before: no live object moved, changed its kind or
\* was handed out again.
Extends(h) == \A q \in Obj : heap[q].region # Free => h[q] = heap[q]

\* An allocation in a region of the running program.
LEMMA AllocateSound ==
    ASSUME TypeOK, HeapGood(heap, depth), NEW o \in Obj, heap[o].region = Free,
           NEW c \in Cell, c.region \in 0 .. depth,
           c.mixed => "mixed" \in Dialect,
           c.ref # NoObj => /\ heap[c.ref].region # Free
                            /\ c.mixed => heap[c.ref].region <= c.region
                            /\ ~ c.mixed => /\ heap[c.ref].region = c.region
                                            /\ ~ heap[c.ref].mixed,
           NEW h, h = [heap EXCEPT ![o] = c]
    PROVE  HeapGood(h, depth) /\ Extends(h) /\ h[o] = c
<1>1. h[o] = c /\ \A q \in Obj : q # o => h[q] = heap[q]
  BY DEF TypeOK
<1>2. \A q \in Obj : heap[q].ref # NoObj => heap[q].ref \in Obj /\ heap[q].ref # o
  BY DEF TypeOK, Cell, HeapGood
<1>3. c.ref # NoObj => c.ref \in Obj /\ c.ref # o
  BY DEF Cell
<1>4. c.region \in Nat /\ c.region <= depth /\ c.region # Free
  BY FrameTypes
<1>5. o # Global
  BY ConstantsAssumption DEF HeapGood
<1>6. h[Global].region = GlobalRegion
  BY <1>1, <1>5, ConstantsAssumption DEF HeapGood
<1>7. \A q \in Obj : h[q].region <= depth
  BY <1>1, <1>4 DEF HeapGood
<1>8. \A q \in Obj : h[q].region = Free => h[q].ref = NoObj
  BY <1>1, <1>4 DEF HeapGood
<1>9. ASSUME NEW q \in Obj, h[q].ref # NoObj
      PROVE  /\ h[h[q].ref].region # Free
             /\ h[q].mixed => h[h[q].ref].region <= h[q].region
             /\ ~ h[q].mixed => /\ h[h[q].ref].region = h[q].region
                                /\ ~ h[h[q].ref].mixed
  <2>1. CASE q = o
    BY <1>1, <1>3, <1>9, <2>1
  <2>2. CASE q # o
    <3>1. h[q] = heap[q] /\ h[heap[q].ref] = heap[heap[q].ref]
      BY <1>1, <1>2, <1>9, <2>2
    <3> QED BY <1>9, <3>1 DEF HeapGood
  <2> QED BY <2>1, <2>2
<1>10. "mixed" \notin Dialect => \A q \in Obj : ~ h[q].mixed
  BY <1>1 DEF HeapGood
<1>11. HeapGood(h, depth)
  BY <1>6, <1>7, <1>8, <1>9, <1>10 DEF HeapGood
<1> QED BY <1>1, <1>11 DEF Extends

\* A context that has the source of a name in scope, or none.
Context(s) == s \in Source /\ (s.class = "caller" => Top.env[s.param].src = s)

LEMMA NameContext ==
    ASSUME Inv, NEW n \in Name, IsBound(Top, n)
    PROVE  Context(Top.env[n].src)
<1>1. FrameGood(depth)
  BY ActiveDepths DEF Inv
<1>2. Fits(depth, Top.env[n].src, RegionOf(Top.env[n]))
  BY <1>1 DEF FrameGood, Top
<1>3. Top.env[n].src \in Source
  BY FrameTypes DEF Inv, Frame, Binding
<1> QED BY <1>2, <1>3 DEF Context, Fits, Top

\* A literal, or a copy, is allocated in a region its source claims.
LEMMA TargetFits ==
    ASSUME Inv, NEW e \in Expressions(Top), NEW s, Context(s), Allocates(e)
    PROVE  /\ Fits(depth, SourceOf(Top, e, s), Target(Top, e, s))
           /\ Target(Top, e, s) \in 0 .. depth
<1>1. TypeOK /\ FrameGood(depth) /\ depth \in Active /\ s \in Source
  BY ActiveDepths DEF Inv, Context
<1>2. \A n \in Name : IsBound(Top, n) => Fits(depth, Top.env[n].src, RegionOf(Top.env[n]))
  BY <1>1 DEF FrameGood, Top
<1>3. Fits(depth, SourceOf(Top, e, s), Target(Top, e, s))
  <2>1. CASE e.op = "fresh" /\ s.class = "caller"
    <3>1. s.param \in Name /\ IsBound(Top, s.param)
      BY <1>1, <2>1, Names DEF Context, Source, IsBound
    <3> QED BY <1>2, <2>1, <3>1 DEF Context, SourceOf, Target, Retargeted
  <2>2. CASE e.op = "fresh" /\ s.class # "caller"
    <3>1. RegionOf(Top.env[Here]) = depth /\ SourceOf(Top, e, s).class = "local"
      BY <1>1, <2>2 DEF FrameGood, HereBinding, RegionOf, Top, SourceOf, Retargeted,
                        LocalSource
    <3> QED BY <2>2, <3>1 DEF Fits, Target
  <2>3. CASE e.op # "fresh"
    <3>1. e.v \in Name /\ IsBound(Top, e.v)
      BY <1>1, <2>3, ExpressionShape DEF Allocates, Literal
    <3> QED BY <1>2, <2>3, <3>1 DEF SourceOf, Target
  <2> QED BY <2>1, <2>2, <2>3
<1>4. SourceOf(Top, e, s) \in Source
  BY <1>1, EvaluationTypes, ConstantsAssumption
<1> QED BY <1>1, <1>3, <1>4, FitsRange

\* What a name of the running frame holds.
LEMMA NameSound ==
    ASSUME Inv, NEW n \in Name, HoldsObject(Top, n)
    PROVE  /\ IsBound(Top, n)
           /\ Top.env[n].obj \in Obj
           /\ heap[Top.env[n].obj].region \in 0 .. depth
           /\ heap[Top.env[n].obj].region # Free
           /\ Fits(depth, Top.env[n].src, heap[Top.env[n].obj].region)
           /\ Top.env[n].src.class # "foreign" => ~ heap[Top.env[n].obj].mixed
           /\ Top.env[n].src \in Source
<1>1. TypeOK /\ FrameGood(depth) /\ depth \in Active
  BY ActiveDepths DEF Inv
<1>2. IsBound(Top, n) /\ Fits(depth, Top.env[n].src, RegionOf(Top.env[n]))
  BY <1>1 DEF FrameGood, Top
<1>3. /\ Top.env[n].obj \in Obj
      /\ heap[Top.env[n].obj].region \in 0 .. depth
  BY <1>1, <1>2, BoundIsLive DEF Top
<1>4. Top.env[n].src.class # "foreign" => ~ heap[Top.env[n].obj].mixed
  BY <1>1 DEF FrameGood, Top
<1>5. Top.env[n].src \in Source
  BY <1>1, FrameTypes DEF Frame, Binding
<1>6. heap[Top.env[n].obj].region # Free
  BY <1>3
<1> QED BY <1>2, <1>3, <1>4, <1>5, <1>6 DEF RegionOf, HoldsObject

\* What the analysis demands of two names of the running frame, the program has.
LEMMA SameRegionHere ==
    ASSUME SoundDialect, Inv, NEW s \in Source, NEW t \in Source, NEW r, NEW q,
           Fits(depth, s, r), Fits(depth, t, q), SameRegion(s, t),
           Top.safe /\ s.class = "caller" => s.param = t.param
    PROVE  r = q
BY SameRegionSound, ActiveDepths DEF Inv, Top

\* The entry of an accepted literal is in the region of the literal.
LEMMA EntrySound ==
    ASSUME SoundDialect, Inv, NEW e \in Expressions(Top), NEW s, Context(s), e.op \in Literal,
           e.w # NoName => SameRegion(SourceOf(Top, e, s), Top.env[e.w].src),
           Top.safe => ~ UnsafeExpression(Top, e)
    PROVE  /\ EntryOf(Top, e) \in Obj \cup {NoObj}
           /\ EntryOf(Top, e) # NoObj =>
                 /\ heap[EntryOf(Top, e)].region # Free
                 /\ heap[EntryOf(Top, e)].region = Target(Top, e, s)
                 /\ ~ heap[EntryOf(Top, e)].mixed
<1>1. CASE e.w = NoName
  BY <1>1 DEF EntryOf
<1>2. CASE e.w # NoName
  <2>1. TypeOK /\ s \in Source /\ e.w \in Name /\ HoldsObject(Top, e.w)
    BY <1>2, ExpressionShape DEF Inv, Context
  <2>2. EntryOf(Top, e) = Top.env[e.w].obj
    BY <1>2 DEF EntryOf
  <2>3. Fits(depth, SourceOf(Top, e, s), Target(Top, e, s)) /\ SourceOf(Top, e, s) \in Source
    BY <2>1, TargetFits, EvaluationTypes, ConstantsAssumption DEF Allocates
  <2>4. ASSUME Top.safe PROVE SourceOf(Top, e, s).class # "caller"
    <3>1. Top.env[e.w].local
      BY <1>2, <2>4 DEF UnsafeExpression
    <3>2. Top.env[e.w].src.class = "local"
      BY <2>1, <3>1, ActiveDepths DEF Inv, FrameGood, Top
    <3> QED BY <1>2, <3>2 DEF SameRegion
  <2>5. Target(Top, e, s) = heap[Top.env[e.w].obj].region
    BY <1>2, <2>1, <2>3, <2>4, NameSound, SameRegionHere
  <2>6. Top.env[e.w].src.class # "foreign"
    BY <1>2 DEF SameRegion
  <2> QED BY <2>1, <2>2, <2>5, <2>6, NameSound
<1> QED BY <1>1, <1>2

\* The value of an accepted expression is where the analysis says it is.
LEMMA EvaluationSound ==
    ASSUME SoundDialect, Inv, NEW e \in Expressions(Top), NEW s, Context(s),
           Accepts(Top, e, s), NEW o \in Obj, Yields(Top, e, o)
    PROVE  LET h == HeapAfter(Top, e, s, o) IN
           /\ HeapGood(h, depth)
           /\ Extends(h)
           /\ SourceOf(Top, e, s) \in Source
           /\ Fits(depth, SourceOf(Top, e, s), h[o].region)
           /\ SourceOf(Top, e, s).class # "foreign" => ~ h[o].mixed
           /\ h[o].region \in 0 .. depth
<1> DEFINE h == HeapAfter(Top, e, s, o)
           src == SourceOf(Top, e, s)
<1>1. TypeOK /\ HeapGood(heap, depth) /\ s \in Source
  BY DEF Inv, Context
<1>2. src \in Source
  BY <1>1, EvaluationTypes
<1>3. CASE Allocates(e)
  <2> DEFINE r == Target(Top, e, s)
             entry == EntryOf(Top, e)
  <2>1. Fits(depth, src, r) /\ r \in 0 .. depth
    BY <1>3, TargetFits
  <2>2. heap[o].region = Free
    BY <1>3 DEF Yields, Allocates, Literal
  <2>3. /\ entry \in Obj \cup {NoObj}
        /\ entry # NoObj => /\ heap[entry].region # Free
                            /\ heap[entry].region = r
                            /\ ~ heap[entry].mixed
    <3>1. CASE e.op \in Literal
      BY <3>1, EntrySound DEF Accepts
    <3>2. CASE e.op \notin Literal
      BY <3>2 DEF EntryOf
    <3> QED BY <3>1, <3>2
  <2>4. h = [heap EXCEPT ![o] = [region |-> r, ref |-> entry, mixed |-> FALSE]]
    BY <1>3 DEF HeapAfter
  <2>5. HeapGood(h, depth) /\ Extends(h) /\ h[o].region = r /\ h[o].mixed = FALSE
    <3> DEFINE c == [region |-> r, ref |-> entry, mixed |-> FALSE]
    <3>1. /\ c \in Cell /\ c.region \in 0 .. depth /\ ~ c.mixed
          /\ c.ref # NoObj => /\ heap[c.ref].region # Free
                              /\ heap[c.ref].region = c.region
                              /\ ~ heap[c.ref].mixed
      BY <1>1, <2>1, <2>3, FrameTypes, ConstantsAssumption DEF Cell, Region
    <3> HIDE DEF c, h
    <3>2. h = [heap EXCEPT ![o] = c]
      BY <2>4 DEF c
    <3>3. HeapGood(h, depth) /\ Extends(h) /\ h[o] = c
      BY <1>1, <2>2, <3>1, <3>2, AllocateSound
    <3> QED BY <3>3 DEF c
  <2> QED BY <1>2, <2>1, <2>5
<1>4. CASE ~ Allocates(e)
  <2>1. h = heap
    BY <1>4 DEF HeapAfter
  <2>2. HeapGood(h, depth) /\ Extends(h)
    BY <1>1, <2>1 DEF Extends
  <2>3. e.op \in {"name", "field", "cond"} /\ e.v \in Name /\ HoldsObject(Top, e.v)
    BY <1>1, <1>4, ExpressionShape DEF Allocates
  <2>4. src = Top.env[e.v].src
    BY <2>3 DEF SourceOf
  <2>5. Fits(depth, src, heap[o].region) /\ (src.class # "foreign" => ~ heap[o].mixed)
    <3>1. CASE e.op = "name"
      BY <2>3, <2>4, <3>1, NameSound DEF Yields, Allocates, Literal
    <3>2. CASE e.op = "field"
      <4> DEFINE x == Top.env[e.v].obj
      <4>1. /\ x \in Obj /\ heap[x].region # Free /\ heap[x].region \in 0 .. depth
            /\ Fits(depth, src, heap[x].region)
            /\ src.class # "foreign" => ~ heap[x].mixed
        BY <2>3, <2>4, NameSound
      <4>2. o = heap[x].ref /\ heap[x].ref # NoObj
        BY <3>2, ConstantsAssumption DEF Yields, Allocates, Literal
      <4>3. CASE ~ heap[x].mixed
        BY <1>1, <4>1, <4>2, <4>3 DEF HeapGood
      <4>4. CASE heap[x].mixed
        <5>1. src.class = "foreign"
          BY <4>1, <4>4
        <5>2. heap[o].region # Free /\ heap[o].region <= heap[x].region
          BY <1>1, <4>1, <4>2, <4>4 DEF HeapGood
        <5>3. heap[o].region \in Region \cup {Free} /\ heap[x].region \in 0 .. (depth - 1)
          BY <1>1, <4>1, <5>1 DEF TypeOK, Cell, Fits
        <5>4. heap[o].region \in 0 .. (depth - 1)
          BY <1>1, <5>2, <5>3, FrameTypes, ConstantsAssumption DEF Region
        <5> QED BY <5>1, <5>4 DEF Fits
      <4> QED BY <4>3, <4>4
    <3>3. CASE e.op = "cond"
      <4>1. e.w \in Name /\ HoldsObject(Top, e.w)
        BY <1>1, <3>3, ExpressionShape
      <4>2. /\ SameRegion(Top.env[e.v].src, Top.env[e.w].src)
            /\ ~ AliasesParameters(Top, Top.env[e.v].src, Top.env[e.w].src)
        BY <3>3 DEF Accepts, SoundDialect
      <4>3. heap[Top.env[e.v].obj].region = heap[Top.env[e.w].obj].region
        BY <2>3, <4>1, <4>2, NameSound, SameRegionHere DEF AliasesParameters
      <4>4. src.class # "foreign" /\ Top.env[e.w].src.class # "foreign"
        BY <2>4, <4>2 DEF SameRegion
      <4>5. o \in {Top.env[e.v].obj, Top.env[e.w].obj}
        BY <3>3 DEF Yields, Allocates, Literal
      <4> QED BY <2>3, <2>4, <4>1, <4>3, <4>4, <4>5, NameSound
    <3> QED BY <2>3, <3>1, <3>2, <3>3
  <2>6. heap[o].region \in 0 .. depth
    BY <1>1, <1>2, <2>5, FitsRange, ActiveDepths
  <2> QED BY <1>2, <2>1, <2>2, <2>5, <2>6
<1> QED BY <1>3, <1>4

------------------------------------------------------------------------------
(***************************************************************************)
(* Frames a step leaves alone, and the frame in which it binds a name.     *)
(***************************************************************************)

\* The objects of the regions 0 .. d keep their region and their kind.
Keeps(d) == \A q \in Obj : heap[q].region \in 0 .. d =>
               heap'[q].region = heap[q].region /\ heap'[q].mixed = heap[q].mixed

LEMMA RegionKept ==
    ASSUME TypeOK, NEW d \in Active, FrameGood(d), Keeps(d),
           NEW n \in Name, IsBound(frame[d], n), frame'[d].env[n] = frame[d].env[n]
    PROVE  RegionOf(frame[d].env[n])' = RegionOf(frame[d].env[n])
<1>1. HoldsObject(frame[d], n) => /\ frame[d].env[n].obj \in Obj
                                  /\ heap[frame[d].env[n].obj].region \in 0 .. d
  BY BoundIsLive
<1> QED BY <1>1 DEF RegionOf, HoldsObject, Keeps

LEMMA FramePreserved ==
    ASSUME TypeOK, NEW d \in Active, FrameGood(d), d > 1 => FrameGood(d - 1), Keeps(d),
           frame'[d] = frame[d], d > 1 => frame'[d - 1] = frame[d - 1]
    PROVE  FrameGood(d)'
<1> DEFINE F == frame[d]
<1>1. \A n \in Name : IsBound(F, n) => RegionOf(F.env[n])' = RegionOf(F.env[n])
  BY RegionKept
<1>2. \A n \in Name : F.env[n].src \in Source /\ (F.env[n].src.class = "caller" => IsBound(F, n))
  BY ActiveDepths, FrameTypes DEF Binding, IsBound
<1>3. F \in Frame /\ d \in Depth
  BY ActiveDepths DEF TypeOK
<1>4. /\ (frame[d].env[Here] = HereBinding(d))'
      /\ (frame[d].env[Static] = StaticBinding)'
      /\ (\A n \in Name : HoldsObject(frame[d], n) => IsBound(frame[d], n))'
      /\ (\A n \in Name : frame[d].env[n].local => frame[d].env[n].src.class = "local")'
  BY DEF FrameGood, HoldsObject, IsBound, HereBinding, StaticBinding
<1>5. ASSUME NEW n \in Name, IsBound(F, n)
      PROVE  Fits(d, F.env[n].src, RegionOf(F.env[n]))'
  <2>1. Fits(d, F.env[n].src, RegionOf(F.env[n]))
    BY <1>5 DEF FrameGood
  <2> DEFINE s == F.env[n].src
             r == RegionOf(F.env[n])
  <2>2. s \in Source /\ s' = s /\ r' = r
    BY <1>1, <1>2, <1>5
  <2>3. CASE s.class = "caller"
    <3>1. s.param \in Name /\ F.env[s.param].src = s
      BY <2>1, <2>2, <2>3, Names DEF Fits, Source
    <3>2. RegionOf(F.env[s.param])' = RegionOf(F.env[s.param])
      BY <1>1, <2>3, <3>1 DEF IsBound
    <3> QED BY <1>1, <1>5, <2>1, <2>2, <2>3, <3>1, <3>2 DEF Fits
  <2>4. CASE s.class # "caller"
    BY <1>1, <1>5, <2>1, <2>2, <2>4 DEF Fits
  <2> QED BY <2>3, <2>4
<1>6. ASSUME ~ F.safe, NEW m \in Name, NEW n \in Name,
             F.env[m].src.class = "caller", F.env[n].src.class = "caller"
      PROVE  RegionOf(F.env[m])' = RegionOf(F.env[n])'
  BY <1>1, <1>2, <1>6 DEF FrameGood
<1>7. ASSUME F.result # NoName
      PROVE  /\ d > 1 /\ ~ F.safe
             /\ \A n \in Name : F.env[n].src.class = "caller" =>
                   Fits(d - 1, F.resultSrc, RegionOf(F.env[n]))'
  <2>1. d > 1 /\ ~ F.safe /\ F.resultSrc \in Source
    BY <1>3, <1>7 DEF FrameGood, Frame
  <2>2. d - 1 \in Active /\ Keeps(d - 1)
    BY <2>1, ActiveDepths DEF Keeps
  <2>3. ASSUME NEW n \in Name, F.env[n].src.class = "caller"
        PROVE  Fits(d - 1, F.resultSrc, RegionOf(F.env[n]))'
    <3> DEFINE r == RegionOf(F.env[n])
    <3>1. Fits(d - 1, F.resultSrc, r) /\ r' = r
      BY <1>1, <1>2, <1>7, <2>3 DEF FrameGood
    <3>2. CASE F.resultSrc.class = "caller"
      <4> DEFINE p == F.resultSrc.param
      <4>1. p \in Name /\ frame[d - 1].env[p].src = F.resultSrc
        BY <2>1, <3>1, <3>2, Names DEF Fits, Source
      <4>2. RegionOf(frame[d - 1].env[p])' = RegionOf(frame[d - 1].env[p])
        BY <2>1, <2>2, <3>2, <4>1, RegionKept DEF IsBound
      <4> QED BY <2>1, <3>1, <3>2, <4>1, <4>2 DEF Fits
    <3>3. CASE F.resultSrc.class # "caller"
      BY <3>1, <3>3 DEF Fits
    <3> QED BY <3>2, <3>3
  <2> QED BY <2>1, <2>3
<1>8. ASSUME NEW n \in Name, HoldsObject(F, n), F.env[n].src.class # "foreign"
      PROVE  ~ heap'[F.env[n].obj].mixed
  <2>1. IsBound(F, n) /\ ~ heap[F.env[n].obj].mixed
    BY <1>8 DEF FrameGood
  <2>2. F.env[n].obj \in Obj /\ heap[F.env[n].obj].region \in 0 .. d
    BY <1>8, <2>1, BoundIsLive
  <2> QED BY <2>1, <2>2 DEF Keeps
<1>9. (\A n \in Name : IsBound(frame[d], n) =>
          Fits(d, frame[d].env[n].src, RegionOf(frame[d].env[n])))'
  BY <1>5 DEF IsBound
<1>10. (~ frame[d].safe =>
          \A m, n \in Name :
             frame[d].env[m].src.class = "caller" /\ frame[d].env[n].src.class = "caller"
                => RegionOf(frame[d].env[m]) = RegionOf(frame[d].env[n]))'
  BY <1>6
<1>11. (frame[d].result # NoName =>
          /\ d > 1
          /\ ~ frame[d].safe
          /\ \A n \in Name : frame[d].env[n].src.class = "caller" =>
                Fits(d - 1, frame[d].resultSrc, RegionOf(frame[d].env[n])))'
  BY <1>7
<1>12. (\A n \in Name : HoldsObject(frame[d], n) /\ frame[d].env[n].src.class # "foreign" =>
          ~ heap[frame[d].env[n].obj].mixed)'
  BY <1>8 DEF HoldsObject
<1> QED BY <1>4, <1>9, <1>10, <1>11, <1>12 DEF FrameGood

\* Binding the name x of frame d: to a value where its source says, and if x is a parameter,
\* to one of the source and the region x had.
LEMMA Rebound ==
    ASSUME TypeOK, NEW d \in Active, FrameGood(d), d > 1 => FrameGood(d - 1), Keeps(d),
           NEW x \in Var, NEW b \in Binding, b.obj \in Obj, NEW r,
           frame'[d] = [frame[d] EXCEPT !.env[x] = b], d > 1 => frame'[d - 1] = frame[d - 1],
           heap'[b.obj].region = r, Fits(d, b.src, r),
           b.local => b.src.class = "local",
           b.src.class # "foreign" => ~ heap'[b.obj].mixed,
           \/ x \in Local
           \/ /\ IsBound(frame[d], x) /\ b.src = frame[d].env[x].src
              /\ r = RegionOf(frame[d].env[x])
    PROVE  FrameGood(d)'
<1> DEFINE F == frame[d]
           G == frame'[d]
<1>1. F \in Frame /\ d \in Depth /\ x \in Name /\ b.src \in Source /\ b.obj # NoObj
  BY ActiveDepths, Names, ConstantsAssumption DEF TypeOK, Binding
<1>2. /\ G.safe = F.safe /\ G.result = F.result /\ G.resultSrc = F.resultSrc
      /\ G.env[x] = b /\ \A n \in Name : n # x => G.env[n] = F.env[n]
  BY <1>1 DEF Frame
<1>3. \A n \in Name : F.env[n].src \in Source /\ (F.env[n].src.class = "caller" => IsBound(F, n))
  BY ActiveDepths, FrameTypes DEF Binding, IsBound
<1>4. \A n \in Name : n # x /\ IsBound(F, n) => RegionOf(F.env[n])' = RegionOf(F.env[n])
  BY <1>2, RegionKept
<1>5. RegionOf(F.env[x])' = r
  BY <1>1, <1>2 DEF RegionOf
<1>6. ASSUME NEW s \in Source, NEW q, Fits(d, s, q), s.class = "caller"
      PROVE  s.param \in Name /\ F.env[s.param].src = s /\ q = RegionOf(F.env[s.param])
             /\ G.env[s.param].src = s /\ RegionOf(F.env[s.param])' = q
  <2>1. s.param \in Param /\ F.env[s.param].src = s /\ q = RegionOf(F.env[s.param])
    BY <1>6 DEF Fits, Source
  <2>2. s.param \in Name /\ IsBound(F, s.param)
    BY <1>6, <2>1, Names DEF IsBound
  <2>3. CASE s.param = x
    <3>1. x \notin Local
      BY <2>1, <2>3, Names
    <3> QED BY <1>2, <1>5, <2>1, <2>2, <2>3, <3>1
  <2>4. CASE s.param # x
    BY <1>2, <1>4, <2>1, <2>2, <2>4
  <2> QED BY <2>3, <2>4
\* Every name of class CALLER is now where some name of class CALLER was.
<1>7. ASSUME NEW n \in Name, G.env[n].src.class = "caller"
      PROVE  \E m \in Name : F.env[m].src.class = "caller"
                             /\ RegionOf(F.env[n])' = RegionOf(F.env[m])
  <2>1. CASE n = x
    BY <1>1, <1>2, <1>5, <1>6, <1>7, <2>1
  <2>2. CASE n # x
    BY <1>2, <1>3, <1>4, <1>7, <2>2
  <2> QED BY <2>1, <2>2
<1>8. /\ (frame[d].env[Here] = HereBinding(d))'
      /\ (frame[d].env[Static] = StaticBinding)'
  BY <1>2, Names DEF FrameGood, HereBinding, StaticBinding
<1>9. ASSUME NEW n \in Name
      PROVE  /\ HoldsObject(G, n) => IsBound(G, n)
             /\ G.env[n].local => G.env[n].src.class = "local"
  <2>1. CASE n = x
    BY <1>2, <2>1 DEF Fits, IsBound
  <2>2. CASE n # x
    <3>1. G.env[n] = F.env[n]
      BY <1>2, <2>2
    <3>2. /\ HoldsObject(F, n) => IsBound(F, n)
          /\ F.env[n].local => F.env[n].src.class = "local"
      BY DEF FrameGood
    <3> QED BY <3>1, <3>2 DEF HoldsObject, IsBound
  <2> QED BY <2>1, <2>2
<1>10. ASSUME NEW n \in Name, IsBound(G, n)
       PROVE  Fits(d, frame[d].env[n].src, RegionOf(frame[d].env[n]))'
  <2>1. PICK s, q : s \in Source /\ s = G.env[n].src /\ q = RegionOf(F.env[n])' /\ Fits(d, s, q)
    <3>1. CASE n = x
      BY <1>1, <1>2, <1>5, <3>1
    <3>2. CASE n # x
      BY <1>2, <1>3, <1>4, <1>10, <3>2 DEF FrameGood, IsBound
    <3> QED BY <3>1, <3>2
  <2>2. CASE s.class = "caller"
    BY <1>6, <2>1, <2>2 DEF Fits
  <2>3. CASE s.class # "caller"
    BY <2>1, <2>3 DEF Fits
  <2> QED BY <2>2, <2>3
<1>11. ASSUME ~ G.safe, NEW m \in Name, NEW n \in Name,
              G.env[m].src.class = "caller", G.env[n].src.class = "caller"
       PROVE  RegionOf(F.env[m])' = RegionOf(F.env[n])'
  <2>1. PICK p \in Name : F.env[p].src.class = "caller" /\ RegionOf(F.env[m])' = RegionOf(F.env[p])
    BY <1>7, <1>11
  <2>2. PICK q \in Name : F.env[q].src.class = "caller" /\ RegionOf(F.env[n])' = RegionOf(F.env[q])
    BY <1>7, <1>11
  <2>3. RegionOf(F.env[p]) = RegionOf(F.env[q])
    BY <1>2, <1>11, <2>1, <2>2 DEF FrameGood
  <2> QED BY <2>1, <2>2, <2>3
<1>12. ASSUME G.result # NoName
       PROVE  /\ d > 1 /\ ~ G.safe
              /\ \A n \in Name : G.env[n].src.class = "caller" =>
                    Fits(d - 1, frame[d].resultSrc, RegionOf(frame[d].env[n]))'
  <2>1. d > 1 /\ ~ F.safe /\ F.resultSrc \in Source
    BY <1>1, <1>2, <1>12 DEF FrameGood, Frame
  <2>2. d - 1 \in Active /\ Keeps(d - 1)
    BY <2>1, ActiveDepths DEF Keeps
  <2>3. ASSUME NEW n \in Name, G.env[n].src.class = "caller"
        PROVE  Fits(d - 1, frame[d].resultSrc, RegionOf(frame[d].env[n]))'
    <3>1. PICK q : q = RegionOf(F.env[n])' /\ Fits(d - 1, F.resultSrc, q)
      BY <1>2, <1>7, <1>12, <2>3 DEF FrameGood
    <3>2. CASE F.resultSrc.class = "caller"
      <4> DEFINE p == F.resultSrc.param
      <4>1. p \in Name /\ frame[d - 1].env[p].src = F.resultSrc
        BY <2>1, <3>1, <3>2, Names DEF Fits, Source
      <4>2. RegionOf(frame[d - 1].env[p])' = RegionOf(frame[d - 1].env[p])
        BY <2>1, <2>2, <3>2, <4>1, RegionKept DEF IsBound
      <4> QED BY <1>2, <2>1, <3>1, <3>2, <4>1, <4>2 DEF Fits
    <3>3. CASE F.resultSrc.class # "caller"
      BY <1>2, <3>1, <3>3 DEF Fits
    <3> QED BY <3>2, <3>3
  <2> QED BY <1>2, <2>1, <2>3
<1>13. ASSUME NEW n \in Name, HoldsObject(G, n), G.env[n].src.class # "foreign"
       PROVE  ~ heap'[G.env[n].obj].mixed
  <2>1. CASE n = x
    BY <1>2, <1>13, <2>1
  <2>2. CASE n # x
    <3>1. G.env[n] = F.env[n] /\ HoldsObject(F, n) /\ IsBound(F, n)
      BY <1>2, <1>13, <2>2 DEF FrameGood, HoldsObject
    <3>2. F.env[n].obj \in Obj /\ heap[F.env[n].obj].region \in 0 .. d
      BY <3>1, BoundIsLive
    <3>3. ~ heap[F.env[n].obj].mixed
      BY <1>13, <3>1 DEF FrameGood
    <3>4. heap'[F.env[n].obj].mixed = heap[F.env[n].obj].mixed
      BY <3>2 DEF Keeps
    <3> QED BY <3>1, <3>3, <3>4
  <2> QED BY <2>1, <2>2
<1>14. (\A n \in Name : HoldsObject(frame[d], n) => IsBound(frame[d], n))'
       /\ (\A n \in Name : frame[d].env[n].local => frame[d].env[n].src.class = "local")'
  BY <1>9 DEF HoldsObject, IsBound
<1>15. (\A n \in Name : IsBound(frame[d], n) =>
          Fits(d, frame[d].env[n].src, RegionOf(frame[d].env[n])))'
  BY <1>10 DEF IsBound
<1>16. (~ frame[d].safe =>
          \A m, n \in Name :
             frame[d].env[m].src.class = "caller" /\ frame[d].env[n].src.class = "caller"
                => RegionOf(frame[d].env[m]) = RegionOf(frame[d].env[n]))'
  BY <1>11
<1>17. (frame[d].result # NoName =>
          /\ d > 1
          /\ ~ frame[d].safe
          /\ \A n \in Name : frame[d].env[n].src.class = "caller" =>
                Fits(d - 1, frame[d].resultSrc, RegionOf(frame[d].env[n])))'
  BY <1>12
<1>18. (\A n \in Name : HoldsObject(frame[d], n) /\ frame[d].env[n].src.class # "foreign" =>
          ~ heap[frame[d].env[n].obj].mixed)'
  BY <1>13 DEF HoldsObject
<1> QED BY <1>8, <1>14, <1>15, <1>16, <1>17, <1>18 DEF FrameGood

------------------------------------------------------------------------------
(***************************************************************************)
(* The steps.                                                              *)
(***************************************************************************)

\* The frames below the one that runs, when the heap only grows.
LEMMA OuterFrames ==
    ASSUME Inv, NEW d \in Active, d < depth,
           \A q \in Obj : heap[q].region \in 0 .. d =>
               heap'[q].region = heap[q].region /\ heap'[q].mixed = heap[q].mixed,
           frame'[d] = frame[d], d > 1 => frame'[d - 1] = frame[d - 1]
    PROVE  FrameGood(d)'
BY FramePreserved, ActiveDepths DEF Inv, Keeps

\* A name of the running frame is bound to the value of an expression.
LEMMA BindSound ==
    ASSUME SoundDialect, Inv, TypeOK', depth' = depth,
           NEW e \in Expressions(Top), Accepts(Top, e, NoSource),
           NEW o \in Obj, Yields(Top, e, o), heap' = HeapAfter(Top, e, NoSource, o),
           NEW x \in Var, NEW b \in Binding, b.obj = o,
           frame' = [frame EXCEPT ![depth].env[x] = b],
           b.src \in Source, Fits(depth, b.src, heap'[o].region),
           b.local => b.src.class = "local",
           b.src.class # "foreign" => SourceOf(Top, e, NoSource).class # "foreign",
           \/ x \in Local
           \/ /\ IsBound(Top, x) /\ b.src = Top.env[x].src
              /\ heap'[o].region = RegionOf(Top.env[x])
    PROVE  Inv'
<1>1. TypeOK /\ depth \in Active /\ FrameGood(depth) /\ Context(NoSource)
  BY ActiveDepths, Sources DEF Inv, Context, NoSource
<1>2. /\ HeapGood(heap', depth) /\ Extends(heap')
      /\ SourceOf(Top, e, NoSource).class # "foreign" => ~ heap'[o].mixed
  BY <1>1, EvaluationSound
<1>3. \A d \in Active : Keeps(d)
  BY <1>2, ActiveDepths DEF Keeps, Extends
<1>4. /\ frame'[depth] = [frame[depth] EXCEPT !.env[x] = b]
      /\ \A d \in Active : d # depth => frame'[d] = frame[d]
  BY <1>1, ActiveDepths DEF TypeOK
<1>5. ASSUME NEW d \in Active PROVE FrameGood(d)'
  <2>1. CASE d = depth
    <3>1. d > 1 => FrameGood(d - 1) /\ frame'[d - 1] = frame[d - 1]
      BY <1>1, <1>4, <2>1, ActiveDepths DEF Inv
    <3>2. PICK r : r = heap'[o].region
      OBVIOUS
    <3> QED BY <1>1, <1>2, <1>3, <1>4, <2>1, <3>1, <3>2, Rebound DEF Top
  <2>2. CASE d # depth
    BY <1>1, <1>3, <1>4, <2>2, ActiveDepths, OuterFrames DEF Keeps
  <2> QED BY <2>1, <2>2
<1>6. Active' = Active
  BY DEF Active
<1> QED BY <1>2, <1>5, <1>6 DEF Inv

LEMMA DeclareSound ==
    ASSUME SoundDialect, Inv, TypeOK', NEW x \in Local, NEW e \in Expressions(Top),
           Declare(x, e)
    PROVE  Inv'
<1>1. TypeOK /\ Context(NoSource) /\ FrameGood(depth)
  BY ActiveDepths, Sources DEF Inv, Context, NoSource
<1>2. PICK o \in Obj :
         /\ Yields(Top, e, o)
         /\ heap' = HeapAfter(Top, e, NoSource, o)
         /\ frame' = [frame EXCEPT ![depth].env[x] =
                         [obj |-> o, at |-> GlobalRegion, src |-> SourceOf(Top, e, NoSource),
                          local |-> LocalValue(Top, e)]]
  BY DEF Declare
<1>3. /\ SourceOf(Top, e, NoSource) \in Source
      /\ Fits(depth, SourceOf(Top, e, NoSource), heap'[o].region)
  BY <1>1, <1>2, EvaluationSound DEF Declare
<1>4. LocalValue(Top, e) => SourceOf(Top, e, NoSource).class = "local"
  <2>1. CASE e.op = "fresh"
    BY <2>1 DEF SourceOf, Retargeted, NoSource, LocalSource
  <2>2. CASE e.op # "fresh"
    BY <1>1, <2>2, ExpressionShape DEF LocalValue, SourceOf, FrameGood, Top
  <2> QED BY <2>1, <2>2
<1> DEFINE b == [obj |-> o, at |-> GlobalRegion, src |-> SourceOf(Top, e, NoSource),
                 local |-> LocalValue(Top, e)]
<1>5. b \in Binding
  BY <1>1, <1>3, LocalValueType, ConstantsAssumption DEF Binding, Region
<1>6. /\ b.obj = o /\ b.src = SourceOf(Top, e, NoSource) /\ (b.local => b.src.class = "local")
      /\ frame' = [frame EXCEPT ![depth].env[x] = b]
  BY <1>2, <1>4
<1> HIDE DEF b
<1>7. x \in Var /\ depth' = depth /\ Accepts(Top, e, NoSource)
  BY Names DEF Declare
<1>8. /\ b.src \in Source /\ Fits(depth, b.src, heap'[o].region)
      /\ b.src.class # "foreign" => SourceOf(Top, e, NoSource).class # "foreign"
  BY <1>3, <1>6
<1> QED BY <1>2, <1>5, <1>6, <1>7, <1>8, BindSound

LEMMA AssignSound ==
    ASSUME SoundDialect, Inv, TypeOK', NEW x \in Var, NEW e \in Expressions(Top),
           Assign(x, e)
    PROVE  Inv'
<1> DEFINE s == Top.env[x].src
           t == SourceOf(Top, e, NoSource)
<1>1. TypeOK /\ Context(NoSource) /\ FrameGood(depth) /\ x \in Name /\ depth \in Active
  BY ActiveDepths, Sources, Names DEF Inv, Context, NoSource
<1>2. PICK o \in Obj :
         /\ Yields(Top, e, o)
         /\ heap' = HeapAfter(Top, e, NoSource, o)
         /\ frame' = [frame EXCEPT ![depth].env[x] = [@ EXCEPT !.obj = o]]
  BY DEF Assign
<1>3. /\ t \in Source /\ Fits(depth, t, heap'[o].region)
  BY <1>1, <1>2, EvaluationSound DEF Assign
<1>4. HoldsObject(Top, x) /\ SameRegion(s, t) /\ ~ AliasesParameters(Top, s, t)
      /\ depth' = depth /\ Accepts(Top, e, NoSource)
  BY DEF Assign, SoundDialect
<1>5. /\ IsBound(Top, x) /\ s \in Source /\ Fits(depth, s, RegionOf(Top.env[x]))
  BY <1>1, <1>4, NameSound DEF RegionOf, HoldsObject
<1>6. heap'[o].region = RegionOf(Top.env[x])
  BY <1>3, <1>4, <1>5, SameRegionHere DEF AliasesParameters
<1> DEFINE b == [Top.env[x] EXCEPT !.obj = o]
<1>7. Top.env[x] \in Binding
  BY <1>1, FrameTypes, ActiveDepths DEF Top
<1>8. b \in Binding /\ b.obj = o /\ b.src = s /\ b.local = Top.env[x].local
  BY <1>7 DEF Binding
<1>9. frame' = [frame EXCEPT ![depth].env[x] = b]
  BY <1>1, <1>2 DEF TypeOK, Top
<1>10. b.local => b.src.class = "local"
  BY <1>1, <1>8 DEF FrameGood, Top
<1> HIDE DEF b
<1>11. t.class # "foreign" /\ b.src \in Source
       /\ b.src = Top.env[x].src /\ Fits(depth, b.src, heap'[o].region)
  BY <1>4, <1>5, <1>6, <1>8 DEF SameRegion
<1> QED BY <1>2, <1>4, <1>5, <1>6, <1>8, <1>9, <1>10, <1>11, BindSound

LEMMA StoreSound ==
    ASSUME SoundDialect, Inv, TypeOK', NEW place \in Places(Top), NEW e \in Expressions(Top),
           Store(place, e)
    PROVE  Inv'
<1> DEFINE s == Top.env[place.v].src
           t == SourceOf(Top, e, s)
<1>1. TypeOK /\ FrameGood(depth) /\ depth \in Active
  BY ActiveDepths DEF Inv
<1>2. place \in Expressions(Top) /\ place.v \in Name /\ HoldsObject(Top, place.v)
      /\ place.op \in {"name", "field"} /\ SourceOf(Top, place, s) = s
  BY DEF Places, Expressions, SourceOf
<1>3. Context(s) /\ s \in Source
  BY <1>2, NameSound, NameContext
<1>4. PICK p \in Obj, o \in Obj :
         /\ Yields(Top, place, p)
         /\ Yields(Top, e, o)
         /\ heap' = [HeapAfter(Top, e, s, o) EXCEPT ![p].ref = o]
  BY DEF Store
<1>5. SameRegion(s, t) /\ Accepts(Top, e, s) /\ (Top.safe => SafeStore(Top, place, e))
      /\ frame' = frame /\ depth' = depth
  BY DEF Store
<1> DEFINE h == HeapAfter(Top, e, s, o)
<1>6. /\ HeapGood(h, depth) /\ Extends(h) /\ t \in Source
      /\ Fits(depth, t, h[o].region) /\ h[o].region \in 0 .. depth
      /\ t.class # "foreign" => ~ h[o].mixed
  BY <1>3, <1>4, <1>5, EvaluationSound
<1>7. /\ Fits(depth, s, heap[p].region) /\ heap[p].region \in 0 .. depth
      /\ s.class # "foreign" => ~ heap[p].mixed
  <2>1. Accepts(Top, place, s) /\ HeapAfter(Top, place, s, p) = heap
    BY <1>2 DEF Accepts, UnsafeExpression, HeapAfter, Allocates, Literal
  <2> QED BY <1>2, <1>3, <1>4, <2>1, EvaluationSound
<1>8. Top.safe /\ s.class = "caller" => s.param = t.param
  <2> SUFFICES ASSUME Top.safe, s.class = "caller" PROVE s.param = t.param
    OBVIOUS
  <2>1. ~ LocalValue(Top, place)
    BY <1>1, <1>2 DEF LocalValue, FrameGood, Top
  <2>2. CASE e.op = "copy" /\ e.v = place.v
    BY <2>2 DEF SourceOf
  <2>3. CASE e.op = "fresh"
    BY <2>3 DEF SourceOf, Retargeted
  <2> QED BY <1>5, <2>1, <2>2, <2>3 DEF SafeStore, CopiedInto, FreshTree
<1>9. heap[p].region = h[o].region
  <2>1. PICK r, q : r = heap[p].region /\ q = h[o].region
    OBVIOUS
  <2> QED BY <1>3, <1>5, <1>6, <1>7, <1>8, <2>1, SameRegionHere
<1>10. h[p] = heap[p] /\ ~ h[p].mixed /\ ~ h[o].mixed /\ h[p].region # Free
  <2>1. t.class # "foreign" /\ s.class # "foreign"
    BY <1>5 DEF SameRegion
  <2> HIDE DEF h, s, t
  <2>2. heap[p].region # Free
    BY <1>7
  <2>3. h[p] = heap[p]
    BY <1>6, <2>2 DEF Extends
  <2> QED BY <1>6, <1>7, <2>1, <2>2, <2>3
<1>11. h \in [Obj -> Cell]
  BY <1>1, <1>3, EvaluationTypes
<1> HIDE DEF h
<1>12. \A q \in Obj : /\ heap'[q].region = h[q].region /\ heap'[q].mixed = h[q].mixed
                      /\ heap'[q].ref = IF q = p THEN o ELSE h[q].ref
  BY <1>4, <1>11 DEF h, Cell
<1>13. HeapGood(heap', depth)
  <2>1. /\ heap'[Global].region = GlobalRegion
        /\ \A q \in Obj : heap'[q].region <= depth
        /\ \A q \in Obj : heap'[q].region = Free => heap'[q].ref = NoObj
        /\ "mixed" \notin Dialect => \A q \in Obj : ~ heap'[q].mixed
    BY <1>6, <1>10, <1>12, ConstantsAssumption DEF HeapGood
  <2>2. ASSUME NEW q \in Obj, heap'[q].ref # NoObj
        PROVE  /\ heap'[heap'[q].ref].region # Free
               /\ heap'[q].mixed => heap'[heap'[q].ref].region <= heap'[q].region
               /\ ~ heap'[q].mixed => /\ heap'[heap'[q].ref].region = heap'[q].region
                                      /\ ~ heap'[heap'[q].ref].mixed
    <3>1. CASE q = p
      BY <1>9, <1>10, <1>12, <3>1
    <3>2. CASE q # p
      <4>1. heap'[q].ref = h[q].ref /\ h[q].ref # NoObj /\ h[q].ref \in Obj
        BY <1>11, <1>12, <2>2, <3>2 DEF Cell
      <4> QED BY <1>6, <1>12, <4>1 DEF HeapGood
    <3> QED BY <3>1, <3>2
  <2> QED BY <2>1, <2>2 DEF HeapGood
<1>14. \A d \in Active : Keeps(d)
  BY <1>6, <1>12, ActiveDepths DEF Keeps, Extends
<1>15. ASSUME NEW d \in Active PROVE FrameGood(d)'
  BY <1>1, <1>5, <1>14, ActiveDepths, FramePreserved DEF Inv
<1> QED BY <1>5, <1>13, <1>15 DEF Inv, Active

\* Leaving a frame: its region goes, and nothing that stays refers to it.
LEMMA ReleaseSound ==
    ASSUME TypeOK, depth > 1, NEW h \in [Obj -> Cell], HeapGood(h, depth)
    PROVE  /\ HeapGood(Released(h), depth - 1)
           /\ \A q \in Obj : h[q].region \in 0 .. (depth - 1) => Released(h)[q] = h[q]
<1> DEFINE g == Released(h)
<1>1. \A q \in Obj : g[q] = IF h[q].region = depth THEN FreeCell ELSE h[q]
  BY DEF Released
<1>2. depth \in Nat
  BY FrameTypes
<1>3. \A q \in Obj : h[q].region \in Nat \cup {Free} /\ h[q].region <= depth
  BY DEF Cell, Region, HeapGood
<1> HIDE DEF g
<1>4. /\ g[Global].region = GlobalRegion
      /\ "mixed" \notin Dialect => \A q \in Obj : ~ g[q].mixed
  BY <1>1, ConstantsAssumption DEF HeapGood, FreeCell
<1>5. \A q \in Obj : g[q].region <= depth - 1 /\ (g[q].region = Free => g[q].ref = NoObj)
  BY <1>1, <1>2, <1>3 DEF FreeCell, HeapGood
<1>6. ASSUME NEW q \in Obj, g[q].ref # NoObj
      PROVE  /\ g[g[q].ref].region # Free
             /\ g[q].mixed => g[g[q].ref].region <= g[q].region
             /\ ~ g[q].mixed => g[g[q].ref].region = g[q].region /\ ~ g[g[q].ref].mixed
  <2>1. g[q] = h[q] /\ h[q].region # depth /\ h[q].ref \in Obj /\ h[q].ref # NoObj
    BY <1>1, <1>6 DEF FreeCell, Cell
  <2>2. /\ h[h[q].ref].region # Free
        /\ h[q].mixed => h[h[q].ref].region <= h[q].region
        /\ ~ h[q].mixed => h[h[q].ref].region = h[q].region /\ ~ h[h[q].ref].mixed
    BY <2>1 DEF HeapGood
  <2>3. h[h[q].ref].region # depth
    BY <1>2, <1>3, <2>1, <2>2
  <2> QED BY <1>1, <2>1, <2>2, <2>3
<1>7. HeapGood(g, depth - 1)
  BY <1>4, <1>5, <1>6 DEF HeapGood
<1>8. \A q \in Obj : h[q].region \in 0 .. (depth - 1) => g[q] = h[q]
  BY <1>1, <1>2
<1> QED BY <1>7, <1>8 DEF g

LEMMA LeaveSound ==
    ASSUME SoundDialect, Inv, TypeOK', Leave
    PROVE  Inv'
<1>1. TypeOK /\ depth \in Nat /\ depth > 1 /\ depth' = depth - 1 /\ heap' = Released(heap)
  BY FrameTypes DEF Inv, Leave
<1>2. /\ HeapGood(heap', depth')
      /\ \A q \in Obj : heap[q].region \in 0 .. (depth - 1) => heap'[q] = heap[q]
  BY <1>1, ReleaseSound DEF Inv, TypeOK
<1>3. ASSUME NEW d \in Active' PROVE FrameGood(d)'
  <2>1. d \in Active /\ d <= depth - 1 /\ d \in Nat /\ d > 0
    BY <1>1 DEF Active
  <2>2. Keeps(d)
    BY <1>1, <1>2, <2>1 DEF Keeps
  <2>3. FrameGood(d) /\ (d > 1 => FrameGood(d - 1))
    BY <1>1, <2>1, ActiveDepths DEF Inv
  <2>4. frame'[d] = frame[d] /\ (d > 1 => frame'[d - 1] = frame[d - 1])
    BY <1>1, <2>1, ActiveDepths DEF Leave, TypeOK
  <2> QED BY <1>1, <2>1, <2>2, <2>3, <2>4, FramePreserved
<1> QED BY <1>2, <1>3 DEF Inv

LEMMA ReturnContextSound ==
    ASSUME Inv
    PROVE  Context(ReturnContext)
<1>1. CASE ImplicitParameter(Top) = {}
  BY <1>1, Sources DEF ReturnContext, Context, NoSource
<1>2. CASE ImplicitParameter(Top) # {}
  <2> DEFINE p == CHOOSE p \in ImplicitParameter(Top) : TRUE
  <2>1. p \in Name /\ IsBound(Top, p)
    BY <1>2, Names DEF ImplicitParameter, IsBound
  <2> QED BY <1>2, <2>1, NameContext DEF ReturnContext
<1> QED BY <1>1, <1>2

LEMMA ReturnSound ==
    ASSUME SoundDialect, Inv, TypeOK', depth > 1, Top.result # NoName,
           NEW e \in Expressions(Top), Return(e)
    PROVE  Inv'
<1> DEFINE s == SourceOf(Top, e, ReturnContext)
<1>1. TypeOK /\ depth \in Nat /\ depth \in Active /\ FrameGood(depth) /\ Top \in Frame
      /\ depth' = depth - 1
  BY FrameTypes, ActiveDepths DEF Inv, Return
<1>2. PICK o \in Obj :
         /\ Yields(Top, e, o)
         /\ heap' = Released(HeapAfter(Top, e, ReturnContext, o))
         /\ frame' = [frame EXCEPT
                        ![depth] = NoFrame,
                        ![depth - 1].env[Top.result] =
                           [obj |-> o, at |-> GlobalRegion, src |-> Top.resultSrc,
                            local |-> FALSE]]
  BY DEF Return, ReturnContext
<1> DEFINE h == HeapAfter(Top, e, ReturnContext, o)
           b == [obj |-> o, at |-> GlobalRegion, src |-> Top.resultSrc, local |-> FALSE]
           c == depth - 1
           r == h[o].region
<1>3. Accepts(Top, e, ReturnContext) /\ s.class = "caller"
  BY DEF Return, ReturnContext, Returnable
<1>4. /\ HeapGood(h, depth) /\ Extends(h) /\ s \in Source /\ Fits(depth, s, r) /\ ~ h[o].mixed
  BY <1>2, <1>3, EvaluationSound, ReturnContextSound
<1>5. h \in [Obj -> Cell]
  BY <1>1, EvaluationTypes, ReturnContextType
<1>6. r \in 0 .. c /\ Fits(c, Top.resultSrc, r)
  <2>1. s.param \in Name /\ Top.env[s.param].src = s /\ r = RegionOf(Top.env[s.param])
        /\ r \in 0 .. c
    BY <1>3, <1>4, Names DEF Fits, Source, Top
  <2> QED BY <1>1, <1>3, <2>1 DEF FrameGood, Top
<1>7. /\ HeapGood(heap', depth')
      /\ \A q \in Obj : h[q].region \in 0 .. c => heap'[q] = h[q]
  <2> HIDE DEF h
  <2> QED BY <1>1, <1>2, <1>4, <1>5, ReleaseSound DEF h
<1>8. heap'[o].region = r /\ ~ heap'[o].mixed
  BY <1>4, <1>6, <1>7
<1>9. ASSUME NEW d \in Active', d <= c PROVE Keeps(d)
  BY <1>1, <1>4, <1>7, <1>9 DEF Keeps, Extends, Active
<1>10. Top.result \in Local /\ Top.result \in Var /\ b \in Binding /\ b.src \in Source
       /\ b.obj = o /\ b.obj \in Obj /\ b.src = Top.resultSrc /\ b.local = FALSE
  <2>1. Top.result \in Local /\ Top.resultSrc \in Source
    BY <1>1 DEF Frame
  <2>2. GlobalRegion \in Region \cup {Free} /\ FALSE \in BOOLEAN /\ o \in Obj \cup {NoObj}
    BY ConstantsAssumption DEF Region
  <2>3. b \in Binding
    BY <2>1, <2>2 DEF Binding
  <2> QED BY <2>1, <2>3, Names
<1> HIDE DEF h, r
<1>11. /\ frame'[c] = [frame[c] EXCEPT !.env[Top.result] = b]
       /\ \A d \in Active : d < c => frame'[d] = frame[d]
  <2>1. c \in Depth /\ depth \in Depth /\ c # depth
    BY <1>1, ActiveDepths
  <2>2. frame'[c] = [frame[c] EXCEPT !.env[Top.result] = b]
    BY <1>1, <1>2, <2>1 DEF TypeOK
  <2>3. ASSUME NEW d \in Active, d < c PROVE frame'[d] = frame[d]
    <3>1. d \in Depth /\ d # c /\ d # depth
      BY <1>1, <2>3, ActiveDepths
    <3> QED BY <1>1, <1>2, <3>1 DEF TypeOK
  <2> QED BY <2>2, <2>3
<1>12. ASSUME NEW d \in Active' PROVE FrameGood(d)'
  <2>1. d \in Active /\ d <= c /\ d \in Nat /\ d > 0 /\ c \in Nat
    BY <1>1 DEF Active
  <2>2. FrameGood(d) /\ Keeps(d) /\ (d > 1 => FrameGood(d - 1))
    BY <1>1, <1>9, <2>1, ActiveDepths DEF Inv
  <2>3. d > 1 => frame'[d - 1] = frame[d - 1]
    BY <1>1, <1>11, <2>1, ActiveDepths
  <2>4. CASE d = c
    <3> HIDE DEF b
    <3>1. PICK q : q = r
      OBVIOUS
    <3>2. /\ frame'[d] = [frame[d] EXCEPT !.env[Top.result] = b]
          /\ heap'[b.obj].region = q /\ Fits(d, b.src, q) /\ ~ heap'[b.obj].mixed
      BY <1>6, <1>8, <1>10, <1>11, <2>4, <3>1
    <3> QED BY <1>1, <1>10, <2>1, <2>2, <2>3, <3>2, Rebound
  <2>5. CASE d # c
    <3>1. frame'[d] = frame[d]
      BY <1>11, <2>1, <2>5
    <3> QED BY <1>1, <2>1, <2>2, <2>3, <3>1, FramePreserved
  <2> QED BY <2>4, <2>5
<1> QED BY <1>7, <1>12 DEF Inv

------------------------------------------------------------------------------
(***************************************************************************)
(* Calls.                                                                  *)
(***************************************************************************)
Below == {pair \in Nat \X Nat : pair[1] < pair[2]}

LEMMA LeastElement ==
    ASSUME NEW S \in SUBSET Nat, S # {}
    PROVE  \E x \in S : \A y \in S : x <= y
<1>1. IsWellFoundedOn(Below, Nat)
  BY NatLessThanWellFounded DEF OpToRel, Below
<1>2. PICK x \in S : \A y \in S : ~ (<<y, x>> \in Below)
  BY <1>1, WFMin
<1>3. ASSUME NEW y \in S PROVE x <= y
  <2>1. <<y, x>> \in Nat \X Nat /\ ~ (<<y, x>> \in Below)
    BY <1>2
  <2>2. ~ (<<y, x>>[1] < <<y, x>>[2])
    BY <2>1 DEF Below
  <2> QED BY <2>2
<1> QED BY <1>3

\* A call with arguments the same-region rule is about has one they are compared with.
LEMMA AnchorExists ==
    ASSUME NEW k, NEW c, IsCall(c, k), Shared(c) # {}
    PROVE  Anchor(c) # {}
<1>1. Shared(c) \subseteq 1 .. k
  BY DEF Shared, Passed, IsCall
<1>2. CASE Shared(c) \ {c.lit} = {}
  <2>1. c.lit \in Shared(c) /\ \A q \in Shared(c) : q = c.lit
    BY <1>2
  <2> QED BY <2>1 DEF Anchor
<1>3. CASE Shared(c) \ {c.lit} # {}
  <2>1. Shared(c) \ {c.lit} \in SUBSET Nat
    BY <1>1
  <2>2. PICK x \in Shared(c) \ {c.lit} : \A y \in Shared(c) \ {c.lit} : x <= y
    BY <1>3, <2>1, LeastElement
  <2>3. x \in Anchor(c)
    BY <2>2 DEF Anchor
  <2> QED BY <2>3
<1> QED BY <1>2, <1>3

\* Where the argument of parameter p is.
ArgumentRegion(c, p) ==
    IF p = c.lit THEN Target(Top, LiteralArgument(c), LiteralContext(Top, c))
    ELSE RegionOf(Top.env[c.arg[p]])

\* Every argument but the literal is a name in scope.
LEMMA ArgumentBound ==
    ASSUME Inv, NEW k, NEW c, IsCall(c, k), NEW p \in 1 .. k, p # c.lit
    PROVE  /\ c.arg[p] \in Name /\ IsBound(Top, c.arg[p])
           /\ p \notin c.asRegion => HoldsObject(Top, c.arg[p])
<1>1. c.arg[p] \in Name
  BY DEF IsCall, WellTyped
<1>2. IF p \in c.asRegion THEN IsBound(Top, c.arg[p]) ELSE HoldsObject(Top, c.arg[p])
  BY DEF IsCall, WellTyped
<1> QED BY <1>1, <1>2, NameSound

LEMMA LiteralContextSound ==
    ASSUME Inv, NEW k, NEW c, IsCall(c, k)
    PROVE  Context(LiteralContext(Top, c))
<1> DEFINE anchor == Anchor(c) \ {c.lit}
           a == CHOOSE p \in anchor : TRUE
<1>1. CASE anchor = {}
  BY <1>1, Sources DEF LiteralContext, Context, NoSource
<1>2. CASE anchor # {}
  <2>1. a \in anchor
    BY <1>2
  <2>2. a \in 1 .. k /\ a # c.lit
    BY <2>1 DEF Anchor, Shared, Passed, IsCall
  <2> HIDE DEF a
  <2>3. Context(Top.env[c.arg[a]].src)
    BY <2>2, ArgumentBound, NameContext
  <2>4. Context(NoSource)
    BY Sources DEF Context, NoSource
  <2> QED BY <2>3, <2>4 DEF LiteralContext, a
<1> QED BY <1>1, <1>2

\* The analysis is right about the arguments of a call.
LEMMA ArgumentSound ==
    ASSUME Inv, NEW k, NEW c, IsCall(c, k), NEW p \in 1 .. k
    PROVE  /\ Fits(depth, ArgumentSource(Top, c, p), ArgumentRegion(c, p))
           /\ ArgumentRegion(c, p) \in 0 .. depth
           /\ ArgumentSource(Top, c, p) \in Source
<1>1. TypeOK /\ FrameGood(depth) /\ depth \in Active
  BY ActiveDepths DEF Inv
<1>2. ArgumentSource(Top, c, p) \in Source
  BY <1>1, ArgumentSourceType
<1>3. CASE p = c.lit
  <2>1. LiteralArgument(c) \in Expressions(Top)
    BY <1>1, <1>3, LiteralArgumentIsExpression
  <2>2. Allocates(LiteralArgument(c))
    BY DEF Allocates, Literal, LiteralArgument
  <2> QED BY <1>2, <1>3, <2>1, <2>2, LiteralContextSound, TargetFits
          DEF ArgumentSource, ArgumentRegion
<1>4. CASE p # c.lit
  <2>1. c.arg[p] \in Name /\ IsBound(Top, c.arg[p])
    BY <1>4, ArgumentBound
  <2>2. Fits(depth, Top.env[c.arg[p]].src, RegionOf(Top.env[c.arg[p]]))
    BY <1>1, <2>1 DEF FrameGood, Top
  <2> QED BY <1>1, <1>2, <1>4, <2>2, FitsRange DEF ArgumentSource, ArgumentRegion
<1> QED BY <1>3, <1>4

\* The arguments an unsafe callee may let meet share a region.
LEMMA SharedArguments ==
    ASSUME SoundDialect, Inv, NEW k, NEW c, IsCall(c, k), AcceptsCall(Top, c), ~ c.safe,
           NEW p \in Shared(c), NEW q \in Anchor(c)
    PROVE  ArgumentRegion(c, p) = ArgumentRegion(c, q)
<1>1. p \in 1 .. k /\ q \in 1 .. k /\ ~ Top.safe
  BY DEF Anchor, Shared, Passed, IsCall, AcceptsCall
<1>2. CASE p = q
  BY <1>2
<1>3. CASE p # q
  <2>1. SameRegion(ArgumentSource(Top, c, q), ArgumentSource(Top, c, p))
    BY <1>3 DEF AcceptsCall, SharedCall
  <2>2. PICK x, y : x = ArgumentRegion(c, p) /\ y = ArgumentRegion(c, q)
    OBVIOUS
  <2> QED BY <1>1, <2>1, <2>2, ArgumentSound, SameRegionHere
<1> QED BY <1>2, <1>3

\* The object of a literal argument.
ArgumentCell(c) ==
    [region |-> ArgumentRegion(c, c.lit), ref |-> EntryOf(Top, LiteralArgument(c)),
     mixed |-> ~ EntryShared(Top, c)]

LEMMA LiteralArgumentSound ==
    ASSUME SoundDialect, Inv, NEW k, NEW c, IsCall(c, k), AcceptsCall(Top, c), c.lit # NoName,
           NEW cell, cell = ArgumentCell(c)
    PROVE  /\ cell \in Cell
           /\ cell.region = ArgumentRegion(c, c.lit) /\ cell.region \in 0 .. depth
           /\ cell.mixed => "mixed" \in Dialect /\ c.lit \in c.foreign
           /\ cell.ref # NoObj =>
                 /\ heap[cell.ref].region # Free
                 /\ cell.mixed => heap[cell.ref].region <= cell.region
                 /\ ~ cell.mixed => /\ heap[cell.ref].region = cell.region
                                    /\ ~ heap[cell.ref].mixed
<1> DEFINE e == LiteralArgument(c)
           w == c.arg[c.lit]
           entry == EntryOf(Top, e)
           s == ArgumentSource(Top, c, c.lit)
           r == ArgumentRegion(c, c.lit)
<1>1. TypeOK /\ FrameGood(depth) /\ HeapGood(heap, depth) /\ c.lit \in 1 .. k
      /\ depth \in Nat /\ depth \in Active
  BY FrameTypes, ActiveDepths DEF Inv, IsCall
<1>2. Fits(depth, s, r) /\ r \in 0 .. depth /\ s \in Source
  BY <1>1, ArgumentSound
<1>3. w # NoName => w \in Name /\ HoldsObject(Top, w)
  BY <1>1 DEF IsCall, WellTyped
<1>4. entry = IF w # NoName THEN Top.env[w].obj ELSE NoObj
  BY DEF EntryOf, LiteralArgument, Literal
<1>5. entry \in Obj \cup {NoObj} /\ (entry # NoObj => w # NoName)
  BY <1>3, <1>4, NameSound
<1>6. ASSUME entry # NoObj PROVE heap[entry].region # Free /\ heap[entry].region \in 0 .. depth
  BY <1>3, <1>4, <1>5, <1>6, NameSound
<1>7. ASSUME entry # NoObj, EntryShared(Top, c)
      PROVE  heap[entry].region = r /\ ~ heap[entry].mixed
  <2>1. SameRegion(s, Top.env[w].src)
    BY <1>5, <1>7 DEF EntryShared
  <2>2. ASSUME Top.safe PROVE s.class # "caller"
    <3>1. Top.env[w].local
      BY <1>5, <1>7, <2>2 DEF AcceptsCall, UnsafeExpression, LiteralArgument, Literal
    <3>2. Top.env[w].src.class = "local"
      BY <1>1, <1>3, <1>5, <1>7, <3>1 DEF FrameGood, Top
    <3> QED BY <2>1, <3>2 DEF SameRegion
  <2>3. PICK x : x = r
    OBVIOUS
  <2>4. x = heap[entry].region
    BY <1>2, <1>3, <1>4, <1>5, <1>7, <2>1, <2>2, <2>3, NameSound, SameRegionHere
  <2>5. Top.env[w].src.class # "foreign"
    BY <2>1 DEF SameRegion
  <2> QED BY <1>3, <1>4, <1>5, <1>7, <2>3, <2>4, <2>5, NameSound
<1>8. ASSUME ~ EntryShared(Top, c)
      PROVE  "mixed" \in Dialect /\ c.lit \in c.foreign /\ r = depth
  <2>1. "mixed" \in Dialect /\ c.lit \in c.foreign
    BY <1>8 DEF AcceptsCall, InDialect
  <2>2. LiteralContext(Top, c) = NoSource
    BY <2>1 DEF LiteralContext, Shared
  <2>3. s.class = "local"
    BY <2>2 DEF ArgumentSource, SourceOf, LiteralArgument, Retargeted, NoSource, LocalSource
  <2> QED BY <1>2, <2>1, <2>3 DEF Fits
<1>9. cell = [region |-> r, ref |-> entry, mixed |-> ~ EntryShared(Top, c)]
  BY DEF ArgumentCell
<1>10. cell \in Cell
  BY <1>1, <1>2, <1>5, <1>9, FrameTypes, ConstantsAssumption DEF Cell, Region
<1>11. cell.region = r /\ cell.ref = entry /\ (cell.mixed <=> ~ EntryShared(Top, c))
  <2>1. cell.region = r /\ cell.ref = entry /\ cell.mixed = (~ EntryShared(Top, c))
    BY <1>9
  <2> QED BY <2>1
<1> HIDE DEF r, entry
<1>12. cell.mixed => "mixed" \in Dialect /\ c.lit \in c.foreign
  BY <1>8, <1>11
<1>13. ASSUME cell.ref # NoObj
       PROVE  /\ heap[cell.ref].region # Free
              /\ cell.mixed => heap[cell.ref].region <= cell.region
              /\ ~ cell.mixed => /\ heap[cell.ref].region = cell.region
                                 /\ ~ heap[cell.ref].mixed
  <2>1. CASE EntryShared(Top, c)
    BY <1>6, <1>7, <1>11, <1>13, <2>1
  <2>2. CASE ~ EntryShared(Top, c)
    BY <1>1, <1>6, <1>8, <1>11, <1>13, <2>2
  <2> QED BY <2>1, <2>2
<1> QED BY <1>2, <1>10, <1>11, <1>12, <1>13 DEF r

LEMMA EnterSound ==
    ASSUME SoundDialect, Inv, TypeOK', depth < MaxDepth, NEW k, NEW c, IsCall(c, k), Enter(c)
    PROVE  Inv'
<1>0. PICK D : D = depth + 1
  OBVIOUS
<1>1. /\ TypeOK /\ FrameGood(depth) /\ HeapGood(heap, depth) /\ depth \in Active
      /\ depth \in Nat /\ depth > 0 /\ D \in Depth /\ depth' = D /\ AcceptsCall(Top, c)
  <2>1. TypeOK /\ FrameGood(depth) /\ HeapGood(heap, depth) /\ depth \in Active
    BY ActiveDepths DEF Inv
  <2>2. depth \in Nat /\ depth > 0 /\ D \in Depth
    BY <1>0, <2>1, FrameTypes, ConstantsAssumption DEF Depth
  <2> QED BY <1>0, <2>1, <2>2 DEF Enter
<1>2. PICK o \in IF c.lit = NoName THEN {NoObj} ELSE {x \in Obj : heap[x].region = Free} :
          /\ heap' = IF c.lit = NoName THEN heap
                     ELSE [heap EXCEPT ![o] =
                        [region |-> Target(Top, LiteralArgument(c), LiteralContext(Top, c)),
                         ref |-> EntryOf(Top, LiteralArgument(c)),
                         mixed |-> ~ EntryShared(Top, c)]]
          /\ frame' = [frame EXCEPT ![D] =
                        [safe |-> c.safe,
                         env |-> [n \in Name |-> IF n \in Passed(c)
                                                 THEN Parameter(Top, c, o, n)
                                                 ELSE EnvOf(D)[n]],
                         result |-> c.result, resultSrc |-> ResultSource(Top, c)]]
  <2>1. PICK o \in IF c.lit = NoName THEN {NoObj} ELSE {x \in Obj : heap[x].region = Free} :
          /\ heap' = IF c.lit = NoName THEN heap
                     ELSE [heap EXCEPT ![o] =
                        [region |-> Target(Top, LiteralArgument(c), LiteralContext(Top, c)),
                         ref |-> EntryOf(Top, LiteralArgument(c)),
                         mixed |-> ~ EntryShared(Top, c)]]
          /\ frame' = [frame EXCEPT ![depth + 1] =
                        [safe |-> c.safe,
                         env |-> [n \in Name |-> IF n \in Passed(c)
                                                 THEN Parameter(Top, c, o, n)
                                                 ELSE EnvOf(depth + 1)[n]],
                         result |-> c.result, resultSrc |-> ResultSource(Top, c)]]
    BY DEF Enter
  <2> QED BY <1>0, <2>1
<1>3. c.lit # NoName => /\ o \in Obj /\ heap[o].region = Free
                        /\ heap' = [heap EXCEPT ![o] = ArgumentCell(c)]
  BY <1>2 DEF ArgumentRegion, ArgumentCell
<1>4. /\ HeapGood(heap', depth) /\ Extends(heap')
      /\ c.lit # NoName => heap'[o] = ArgumentCell(c)
  <2>1. CASE c.lit = NoName
    BY <1>1, <1>2, <2>1 DEF Extends
  <2>2. CASE c.lit # NoName
    <3>1. PICK cell, h : cell = ArgumentCell(c) /\ h = heap'
      OBVIOUS
    <3>2. TypeOK /\ HeapGood(heap, depth) /\ o \in Obj /\ heap[o].region = Free
          /\ h = [heap EXCEPT ![o] = cell]
      BY <1>1, <1>3, <2>2, <3>1
    <3>3. /\ cell \in Cell /\ cell.region \in 0 .. depth
          /\ cell.mixed => "mixed" \in Dialect
          /\ cell.ref # NoObj =>
                 /\ heap[cell.ref].region # Free
                 /\ cell.mixed => heap[cell.ref].region <= cell.region
                 /\ ~ cell.mixed => /\ heap[cell.ref].region = cell.region
                                    /\ ~ heap[cell.ref].mixed
      BY <1>1, <2>2, <3>1, LiteralArgumentSound
    <3>4. HeapGood(h, depth) /\ Extends(h) /\ h[o] = cell
      BY <3>2, <3>3, AllocateSound
    <3> QED BY <3>1, <3>4
  <2> QED BY <2>1, <2>2
<1>5. HeapGood(heap', depth')
  BY <1>0, <1>1, <1>4 DEF TypeOK, Cell, Region, HeapGood
<1>6. ASSUME NEW d \in Active PROVE FrameGood(d)'
  <2>1. Keeps(d) /\ d # D /\ d \in Depth /\ (d > 1 => d - 1 # D /\ d - 1 \in Active)
    BY <1>0, <1>1, <1>4, ActiveDepths DEF Keeps, Extends
  <2>2. frame'[d] = frame[d] /\ (d > 1 => frame'[d - 1] = frame[d - 1])
    BY <1>2, <2>1, ActiveDepths DEF TypeOK
  <2> QED BY <1>1, <2>1, <2>2, ActiveDepths, FramePreserved DEF Inv
<1> DEFINE F == frame'[D]
           at(p) == ArgumentRegion(c, p)
<1>7. /\ F.safe = c.safe /\ F.result = c.result /\ F.resultSrc = ResultSource(Top, c)
      /\ F.env = [n \in Name |-> IF n \in Passed(c) THEN Parameter(Top, c, o, n)
                                  ELSE EnvOf(D)[n]]
  BY <1>1, <1>2 DEF TypeOK
<1>8. 1 .. k = Passed(c) /\ 1 .. k \subseteq Param
  BY ConstantsAssumption DEF IsCall, Passed, Param
<1>9. /\ \A p \in 1 .. k : F.env[p] = Parameter(Top, c, o, p)
      /\ \A n \in Name \ (1 .. k) : F.env[n] = EnvOf(D)[n]
      /\ F.env[Here] = HereBinding(D) /\ F.env[Static] = StaticBinding
  <2>1. Here \notin Param /\ Static \notin Param /\ Param \subseteq Name
        /\ Here # Static
    BY Names, ConstantsAssumption DEF Var
  <2>2. /\ \A p \in 1 .. k : F.env[p] = Parameter(Top, c, o, p)
        /\ \A n \in Name \ (1 .. k) : F.env[n] = EnvOf(D)[n]
    <3> HIDE DEF F
    <3>1. 1 .. k \subseteq Name
      BY <1>8, <2>1
    <3> QED BY <1>7, <1>8, <3>1
  <2>3. EnvOf(D)[Here] = HereBinding(D) /\ EnvOf(D)[Static] = StaticBinding
    BY <2>1, Names DEF EnvOf
  <2> QED BY <1>8, <2>1, <2>2, <2>3, Names
<1> DEFINE b(p) == Parameter(Top, c, o, p)
\* A parameter is where its argument is.
<1>10. ASSUME NEW p \in 1 .. k
       PROVE  /\ RegionOf(frame[D].env[p])' = at(p)
              /\ HoldsObject(F, p) => p \notin c.asRegion /\ F.env[p].obj \in Obj
              /\ p \notin c.asRegion =>
                    F.env[p].obj = (IF p = c.lit THEN o ELSE Top.env[c.arg[p]].obj)
  <2>1. F.env[p] = b(p)
    BY <1>9
  <2>2. CASE p \in c.asRegion
    <3>1. p # c.lit
      BY <2>2 DEF IsCall
    <3>2. b(p).obj = NoObj /\ b(p).at = RegionOf(Top.env[c.arg[p]])
      BY <2>2 DEF Parameter
    <3> QED BY <2>1, <2>2, <3>1, <3>2 DEF RegionOf, ArgumentRegion, HoldsObject
  <2>3. CASE p \notin c.asRegion /\ p = c.lit
    <3>1. b(p).obj = o /\ o \in Obj /\ heap'[o].region = at(p)
      <4>1. c.lit # NoName
        BY <2>3
      <4> QED BY <1>3, <1>4, <2>3, <4>1 DEF Parameter, ArgumentCell
    <3> QED BY <2>1, <2>3, <3>1, ConstantsAssumption DEF RegionOf, HoldsObject
  <2>4. CASE p \notin c.asRegion /\ p # c.lit
    <3>1. /\ Top.env[c.arg[p]].obj \in Obj
          /\ heap[Top.env[c.arg[p]].obj].region # Free
      BY <2>4, ArgumentBound, NameSound
    <3>2. b(p).obj = Top.env[c.arg[p]].obj
      BY <2>4 DEF Parameter
    <3> QED BY <1>4, <2>1, <2>4, <3>1, <3>2, ConstantsAssumption
            DEF RegionOf, HoldsObject, ArgumentRegion, Extends
  <2> QED BY <2>2, <2>3, <2>4
<1>11. ASSUME NEW p \in 1 .. k
       PROVE  /\ at(p) \in 0 .. depth /\ F.env[p].local = FALSE
              /\ F.env[p].src \in Source
              /\ F.env[p].src.class \in {"caller", "foreign"}
              /\ F.env[p].src.param = p
              /\ F.env[p].src.class = "caller" => p \in Shared(c)
              /\ F.env[p].src.class = "foreign" => p \in c.foreign
  <2>1. F.env[p] = b(p) /\ at(p) \in 0 .. depth /\ p \in Passed(c) /\ p \in Param
    BY <1>8, <1>9, ArgumentSound
  <2>2. p \in c.asRegion => p \notin c.foreign
    BY <1>1 DEF AcceptsCall, InDialect, SoundDialect
  <2>3. /\ b(p).local = FALSE
        /\ b(p).src = IF p \in c.foreign THEN ForeignSource(p) ELSE CallerSource(p)
    BY <2>2 DEF Parameter
  <2> QED BY <2>1, <2>3, Sources DEF Shared, ForeignSource, CallerSource
<1>12. ASSUME NEW n \in Name, n \notin 1 .. k
       PROVE  \/ n = Here
              \/ n = Static
              \/ ~ HoldsObject(F, n) /\ ~ IsBound(F, n) /\ F.env[n].local = FALSE
  BY <1>9, <1>12 DEF EnvOf, Unset, NoSource, HoldsObject, IsBound
<1>13. /\ ~ HoldsObject(F, Here) /\ IsBound(F, Here) /\ F.env[Here].src = LocalSource
       /\ F.env[Here].src.class = "local" /\ RegionOf(frame[D].env[Here])' = D
       /\ IsBound(F, Static) /\ F.env[Static].src = GlobalSource
       /\ F.env[Static].src.class = "global" /\ F.env[Static].local = FALSE
       /\ F.env[Static].obj = Global /\ RegionOf(frame[D].env[Static])' = GlobalRegion
  BY <1>5, <1>9, ConstantsAssumption
     DEF HereBinding, StaticBinding, LocalSource, GlobalSource, HoldsObject, IsBound, RegionOf,
         HeapGood
<1> HIDE DEF F
\* The names of class CALLER are arguments the same-region rule is about.
<1>14. ASSUME NEW n \in Name, F.env[n].src.class = "caller"
       PROVE  n \in Shared(c) /\ n \in 1 .. k /\ RegionOf(frame[D].env[n])' = at(n)
  <2>1. n \in 1 .. k
    BY <1>12, <1>13, <1>14 DEF IsBound
  <2> QED BY <1>10, <1>11, <1>14, <2>1
<1>15. ASSUME NEW n \in Name, IsBound(F, n)
       PROVE  Fits(D, frame[D].env[n].src, RegionOf(frame[D].env[n]))'
  <2>1. CASE n \in 1 .. k
    <3>1. PICK s, r : s = F.env[n].src /\ r = at(n)
      OBVIOUS
    <3>2. /\ s.class \in {"caller", "foreign"} /\ s.param = n
          /\ r \in 0 .. (D - 1) /\ RegionOf(frame[D].env[n])' = r
      <4>1. D - 1 = depth
        BY <1>0, <1>1
      <4>2. at(n) \in 0 .. depth
        BY <1>11, <2>1
      <4> HIDE DEF at
      <4> QED BY <1>10, <1>11, <2>1, <3>1, <4>1, <4>2
    <3>3. frame'[D].env[n].src = s
      BY <3>1 DEF F
    <3> HIDE DEF at
    <3> QED BY <3>2, <3>3 DEF Fits
  <2>2. CASE n \notin 1 .. k
    BY <1>0, <1>1, <1>12, <1>13, <1>15, <2>2 DEF Fits, F
  <2> QED BY <2>1, <2>2
<1>16. ASSUME ~ F.safe, NEW m \in Name, NEW n \in Name,
              F.env[m].src.class = "caller", F.env[n].src.class = "caller"
       PROVE  RegionOf(frame[D].env[m])' = RegionOf(frame[D].env[n])'
  <2>1. /\ m \in Shared(c) /\ RegionOf(frame[D].env[m])' = at(m)
        /\ n \in Shared(c) /\ RegionOf(frame[D].env[n])' = at(n)
    BY <1>14, <1>16
  <2>2. PICK a : a \in Anchor(c)
    BY <2>1, AnchorExists
  <2>3. at(m) = at(a) /\ at(n) = at(a)
    BY <1>1, <1>7, <1>16, <2>1, <2>2, SharedArguments
  <2> QED BY <2>1, <2>3
<1>17. ASSUME F.result # NoName
       PROVE  /\ D > 1 /\ ~ F.safe
              /\ \A n \in Name : F.env[n].src.class = "caller" =>
                    Fits(D - 1, frame[D].resultSrc, RegionOf(frame[D].env[n]))'
  <2>1. D > 1 /\ ~ c.safe /\ D - 1 = depth
    BY <1>0, <1>1, <1>7, <1>17 DEF AcceptsCall
  <2>2. PICK a : a \in Anchor(c) /\ F.resultSrc = ArgumentSource(Top, c, a)
    BY <1>1, <1>7, <1>17 DEF AcceptsCall, SharedCall, ResultSource
  <2>3. a \in 1 .. k
    BY <2>2 DEF Anchor, Shared, Passed, IsCall
  <2>4. PICK s, r : s = F.resultSrc /\ r = at(a) /\ Fits(depth, s, r) /\ s \in Source
    BY <2>2, <2>3, ArgumentSound
  <2>5. ASSUME s.class = "caller"
        PROVE  /\ frame'[D - 1].env[s.param].src = s
               /\ RegionOf(frame[D - 1].env[s.param])' = r
    <3>1. s.param \in Name /\ frame[depth].env[s.param].src = s
          /\ r = RegionOf(frame[depth].env[s.param])
      BY <2>4, <2>5, Names DEF Fits, Source
    <3>2. IsBound(frame[depth], s.param)
      BY <2>5, <3>1 DEF IsBound
    <3>3. PICK d \in Active : d = depth
      BY <1>1
    <3>4. Keeps(d) /\ frame'[d] = frame[d]
      BY <1>0, <1>1, <1>2, <1>4, <3>3, ActiveDepths DEF Keeps, Extends, TypeOK
    <3>5. RegionOf(frame[d].env[s.param])' = RegionOf(frame[d].env[s.param])
      BY <1>1, <3>1, <3>2, <3>3, <3>4, RegionKept
    <3> QED BY <1>0, <1>1, <3>1, <3>3, <3>4, <3>5
  <2>6. ASSUME NEW n \in Name, F.env[n].src.class = "caller"
        PROVE  Fits(D - 1, frame[D].resultSrc, RegionOf(frame[D].env[n]))'
    <3>1. RegionOf(frame[D].env[n])' = r
      <4>1. n \in Shared(c) /\ RegionOf(frame[D].env[n])' = at(n)
        BY <1>14, <2>6
      <4>2. at(n) = at(a)
        BY <1>1, <2>1, <2>2, <4>1, SharedArguments
      <4> QED BY <2>4, <4>1, <4>2
    <3>2. frame'[D].resultSrc = s
      BY <2>4 DEF F
    <3> HIDE DEF at
    <3>3. s.class \in {"foreign", "caller"} => r \in 0 .. (D - 1) - 1
      BY <2>1, <2>4 DEF Fits
    <3> QED BY <2>1, <2>4, <2>5, <3>1, <3>2, <3>3 DEF Fits
  <2> QED BY <1>7, <2>1, <2>6
<1>18. ASSUME NEW n \in Name, HoldsObject(F, n), F.env[n].src.class # "foreign"
       PROVE  ~ heap'[F.env[n].obj].mixed
  <2>1. CASE n \notin 1 .. k
    <3>1. n = Static
      BY <1>12, <1>13, <1>18, <2>1
    <3>2. Top.env[Static] = StaticBinding /\ Static \in Name
      BY <1>1, Names DEF FrameGood, Top
    <3>3. HoldsObject(Top, Static) /\ Top.env[Static].obj = Global
          /\ Top.env[Static].src.class = "global"
      BY <3>2, ConstantsAssumption DEF StaticBinding, HoldsObject, GlobalSource
    <3>4. ~ heap[Global].mixed /\ heap[Global].region # Free
      BY <3>2, <3>3, NameSound
    <3> QED BY <1>4, <1>13, <3>1, <3>4, ConstantsAssumption DEF Extends
  <2>2. CASE n \in 1 .. k /\ n = c.lit
    <3>1. c.lit # NoName /\ n \notin c.foreign /\ F.env[n].obj = o
      <4>1. c.lit # NoName
        BY <1>8, <2>2, Names
      <4>2. n \notin c.foreign
        BY <1>11, <1>18, <2>2 DEF Shared
      <4> QED BY <1>10, <1>18, <2>2, <4>1, <4>2
    <3>2. PICK cell : cell = ArgumentCell(c)
      OBVIOUS
    <3>3. ~ cell.mixed
      BY <1>1, <2>2, <3>1, <3>2, LiteralArgumentSound
    <3> QED BY <1>4, <3>1, <3>2, <3>3
  <2>3. CASE n \in 1 .. k /\ n # c.lit
    <3> DEFINE w == c.arg[n]
    <3>1. /\ n \in Shared(c) \ c.asRegion /\ F.env[n].obj = Top.env[w].obj
          /\ w \in Name /\ HoldsObject(Top, w)
      BY <1>10, <1>11, <1>18, <2>3, ArgumentBound
    <3>2. Top.env[w].obj \in Obj /\ heap[Top.env[w].obj].region # Free
      BY <3>1, NameSound
    <3>3. ~ heap[Top.env[w].obj].mixed
      <4>1. CASE Top.env[w].src.class # "foreign"
        BY <3>1, <4>1, NameSound
      <4>2. CASE Top.env[w].src.class = "foreign"
        <5>1. ArgumentSource(Top, c, n).class = "foreign"
          BY <2>3, <4>2 DEF ArgumentSource
        <5>2. "mixed" \notin Dialect
          BY <1>1, <3>1, <5>1 DEF AcceptsCall, InDialect, SoundDialect
        <5> QED BY <1>1, <3>2, <5>2 DEF HeapGood
      <4> QED BY <4>1, <4>2
    <3> QED BY <1>4, <3>1, <3>2, <3>3 DEF Extends
  <2> QED BY <2>1, <2>2, <2>3
<1>19. FrameGood(D)'
  <2>1. (frame[D].env[Here] = HereBinding(D))' /\ (frame[D].env[Static] = StaticBinding)'
    BY <1>9 DEF F, HereBinding, StaticBinding
  <2>2. \A n \in Name : /\ HoldsObject(F, n) => IsBound(F, n)
                        /\ F.env[n].local => F.env[n].src.class = "local"
    BY <1>11, <1>12, <1>13 DEF HoldsObject, IsBound
  <2>3. (\A n \in Name : HoldsObject(frame[D], n) => IsBound(frame[D], n))'
        /\ (\A n \in Name : frame[D].env[n].local => frame[D].env[n].src.class = "local")'
    BY <2>2 DEF F, HoldsObject, IsBound
  <2>4. (\A n \in Name : IsBound(frame[D], n) =>
            Fits(D, frame[D].env[n].src, RegionOf(frame[D].env[n])))'
    BY <1>15 DEF F, IsBound
  <2>5. (~ frame[D].safe =>
            \A m, n \in Name :
               frame[D].env[m].src.class = "caller" /\ frame[D].env[n].src.class = "caller"
                  => RegionOf(frame[D].env[m]) = RegionOf(frame[D].env[n]))'
    BY <1>16 DEF F
  <2>6. (frame[D].result # NoName =>
            /\ D > 1
            /\ ~ frame[D].safe
            /\ \A n \in Name : frame[D].env[n].src.class = "caller" =>
                  Fits(D - 1, frame[D].resultSrc, RegionOf(frame[D].env[n])))'
    BY <1>17 DEF F
  <2>7. (\A n \in Name : HoldsObject(frame[D], n) /\ frame[D].env[n].src.class # "foreign" =>
            ~ heap[frame[D].env[n].obj].mixed)'
    BY <1>18 DEF F, HoldsObject
  <2> QED BY <2>1, <2>3, <2>4, <2>5, <2>6, <2>7 DEF FrameGood
<1>20. Active' = Active \cup {D}
  BY <1>0, <1>1 DEF Active
<1>21. ASSUME NEW d \in Active' PROVE FrameGood(d)'
  BY <1>6, <1>19, <1>20, <1>21
<1> QED BY <1>5, <1>21 DEF Inv

------------------------------------------------------------------------------
(***************************************************************************)
(* The theorems.                                                           *)
(***************************************************************************)
LEMMA InitSound ==
    ASSUME Init
    PROVE  Inv
<1>1. TypeOK
  <2>1. 1 \in Depth
    BY ConstantsAssumption DEF Depth
  <2>2. heap \in [Obj -> Cell]
    BY ConstantsAssumption DEF Init, Cell, FreeCell, Region
  <2>3. frame \in [Depth -> Frame]
    BY <2>1, Bindings DEF Init, Frame
  <2> QED BY <2>1, <2>2, <2>3 DEF Init, TypeOK
<1>2. \A o \in Obj : heap[o] = IF o = Global
                              THEN [region |-> GlobalRegion, ref |-> NoObj, mixed |-> FALSE]
                              ELSE [region |-> Free, ref |-> NoObj, mixed |-> FALSE]
  BY DEF Init, FreeCell
<1>3. depth = 1 /\ Active = {1}
  BY DEF Init, Active
<1>4. HeapGood(heap, depth)
  BY <1>2, <1>3, ConstantsAssumption DEF HeapGood
<1>5. frame[1] = [NoFrame EXCEPT !.env = EnvOf(1)]
  BY ConstantsAssumption DEF Init, Depth
<1>6. /\ frame[1].env = EnvOf(1) /\ frame[1].result = NoName /\ frame[1].safe = FALSE
  BY <1>5 DEF NoFrame
<1>7. /\ frame[1].env[Here] = HereBinding(1) /\ frame[1].env[Static] = StaticBinding
      /\ \A n \in Name \ {Here, Static} : frame[1].env[n] = Unset
  BY <1>6, Names, ConstantsAssumption DEF EnvOf
<1>8. FrameGood(1)
  <2>1. ASSUME NEW n \in Name
        PROVE  /\ HoldsObject(frame[1], n) => IsBound(frame[1], n)
               /\ frame[1].env[n].local => frame[1].env[n].src.class = "local"
               /\ IsBound(frame[1], n) =>
                     Fits(1, frame[1].env[n].src, RegionOf(frame[1].env[n]))
               /\ frame[1].env[n].src.class # "caller"
               /\ HoldsObject(frame[1], n) => ~ heap[frame[1].env[n].obj].mixed
    <3> DEFINE b == frame[1].env[n]
    <3>1. CASE n = Here
      <4>1. /\ b.obj = NoObj /\ b.at = 1 /\ b.src.class = "local"
        BY <1>7, <3>1 DEF HereBinding, LocalSource
      <4>2. RegionOf(b) = 1
        BY <4>1 DEF RegionOf
      <4> QED BY <4>1, <4>2 DEF HoldsObject, IsBound, Fits
    <3>2. CASE n = Static
      <4>1. /\ b.obj = Global /\ b.src.class = "global" /\ b.local = FALSE
        BY <1>7, <3>2 DEF StaticBinding, GlobalSource
      <4>2. RegionOf(b) = GlobalRegion /\ ~ heap[b.obj].mixed
        BY <1>2, <4>1, ConstantsAssumption DEF RegionOf
      <4> QED BY <4>1, <4>2 DEF HoldsObject, IsBound, Fits
    <3>3. CASE n \notin {Here, Static}
      BY <1>7, <3>3 DEF Unset, NoSource, HoldsObject, IsBound
    <3> QED BY <3>1, <3>2, <3>3
  <2> QED BY <1>6, <1>7, <2>1 DEF FrameGood
<1> QED BY <1>1, <1>3, <1>4, <1>8 DEF Inv

LEMMA StepSound ==
    ASSUME SoundDialect, Inv, [Next]_vars
    PROVE  Inv'
<1>1. TypeOK'
  BY TypeStep DEF Inv
<1>2. ASSUME UNCHANGED vars PROVE Inv'
  <2>1. heap' = heap /\ frame' = frame /\ depth' = depth /\ Active' = Active
    BY <1>2 DEF vars, Active
  <2>2. ASSUME NEW d \in Active PROVE FrameGood(d)'
    <3>1. TypeOK /\ FrameGood(d) /\ (d > 1 => FrameGood(d - 1)) /\ Keeps(d)
      BY <2>1, ActiveDepths DEF Inv, Keeps
    <3> QED BY <2>1, <3>1, FramePreserved
  <2> QED BY <1>1, <2>1, <2>2 DEF Inv
<1> QED BY <1>1, <1>2, NextCases, DeclareSound, AssignSound, StoreSound, EnterSound,
           ReturnSound, LeaveSound

(***************************************************************************)
(* What the invariant says to a programmer.                                *)
(***************************************************************************)
LEMMA InvImplies ==
    ASSUME Inv
    PROVE  /\ NoDangling
           /\ EntriesOutlive
           /\ SourcesSound
           /\ OneCallerRegion
           /\ ResultsFit
           /\ MixedStaysForeign
<1>1. TypeOK /\ \A d \in Active : FrameGood(d) /\ d \in Depth
  BY ActiveDepths DEF Inv
<1>2. \A o \in Obj : Live(o) /\ heap[o].ref # NoObj => Live(heap[o].ref)
  BY DEF Inv, HeapGood, Live
<1>3. \A d \in Active, n \in Name : HoldsObject(frame[d], n) => Live(frame[d].env[n].obj)
  <2> SUFFICES ASSUME NEW d \in Active, NEW n \in Name, HoldsObject(frame[d], n)
               PROVE  Live(frame[d].env[n].obj)
    OBVIOUS
  <2>1. IsBound(frame[d], n)
    BY <1>1 DEF FrameGood
  <2>2. heap[frame[d].env[n].obj].region \in 0 .. d
    BY <1>1, <2>1, BoundIsLive
  <2> QED BY <2>2 DEF Live
<1>4. EntriesOutlive
  BY DEF Inv, HeapGood, EntriesOutlive, Live
<1>5. SourcesSound
  BY <1>1 DEF FrameGood, SourcesSound
<1>6. ResultsFit
  BY <1>1 DEF FrameGood, ResultsFit
<1>7. OneCallerRegion
  BY <1>1 DEF FrameGood, OneCallerRegion
<1>8. MixedStaysForeign
  <2>1. \A o \in Obj : heap[o].ref # NoObj /\ heap[heap[o].ref].mixed => heap[o].mixed
    BY DEF Inv, HeapGood
  <2>2. ASSUME NEW d \in Active, NEW n \in Name, frame[d].env[n].obj # NoObj,
               frame[d].env[n].src.class # "foreign"
        PROVE  ~ heap[frame[d].env[n].obj].mixed
    BY <1>1, <2>2 DEF FrameGood, HoldsObject
  <2> QED BY <2>1, <2>2 DEF MixedStaysForeign
<1> QED BY <1>2, <1>3, <1>4, <1>5, <1>6, <1>7, <1>8 DEF NoDangling

LEMMA InvAlways ==
    ASSUME SoundDialect
    PROVE  Spec => []Inv
<1>1. Init => Inv
  BY InitSound
<1>2. Inv /\ [Next]_vars => Inv'
  BY StepSound
<1> QED BY <1>1, <1>2, PTL DEF Spec

(***************************************************************************)
(* The region analysis is sound: a program it accepts, in which no         *)
(* heterogeneous literal goes through a forwarded foreign parameter, no    *)
(* region-safe function aliases its parameters and no parameter is a       *)
(* foreign Region, never holds a reference into a region that was          *)
(* destroyed, in no object and in no name of any call in progress.         *)
(***************************************************************************)
THEOREM RegionSafety ==
    ASSUME SoundDialect
    PROVE  Spec => []NoDangling
<1>1. Inv => NoDangling
  BY InvImplies
<1> QED BY <1>1, InvAlways, PTL

\* In the same programs a composite refers to its own region only, or is a heterogeneous
\* literal whose entries outlive it (docs 8.4.3).
THEOREM OwnRegion ==
    ASSUME SoundDialect
    PROVE  Spec => []EntriesOutlive
<1>1. Inv => EntriesOutlive
  BY InvImplies
<1> QED BY <1>1, InvAlways, PTL

\* The region sources the analysis computes hold when the program runs: values are where
\* regions.jik says, and what is allocated for a caller goes where its other values are.
THEOREM SourcesCorrect ==
    ASSUME SoundDialect
    PROVE  Spec => [](SourcesSound /\ ResultsFit)
<1>1. Inv => SourcesSound /\ ResultsFit
  BY InvImplies
<1> QED BY <1>1, InvAlways, PTL

\* Whatever a call may return is in the region that the caller's analysis wrote down for its
\* result before the call ended.
THEOREM ResultsInPlace ==
    ASSUME SoundDialect
    PROVE  Spec => []ResultsFit
<1>1. SourcesSound /\ ResultsFit => ResultsFit
  OBVIOUS
<1> QED BY <1>1, SourcesCorrect, PTL

\* What check_shared_call establishes at every call: a function that may store or return its
\* arguments sees one region behind all parameters that are not foreign.
THEOREM OneRegionPerCall ==
    ASSUME SoundDialect
    PROVE  Spec => []OneCallerRegion
<1>1. Inv => OneCallerRegion
  BY InvImplies
<1> QED BY <1>1, InvAlways, PTL

\* Literals over several regions stay behind foreign parameters.
THEOREM MixedLiteralsStayForeign ==
    ASSUME SoundDialect
    PROVE  Spec => []MixedStaysForeign
<1>1. Inv => MixedStaysForeign
  BY InvImplies
<1> QED BY <1>1, InvAlways, PTL

=============================================================================
