------------------------------ MODULE Inference ------------------------------
(***************************************************************************)
(* Type inference of a program (semantic/typing: constraints.jik,          *)
(* inference.jik, rules.jik): constraints are collected from the syntax,   *)
(* sweeps over the nodes deduce types until a sweep learns nothing, the    *)
(* results are validated and saved.  A call through a receiver waits until *)
(* the receiver's type is known; resolving it (resolution/calls.jik) may   *)
(* append a node while the sweep is under way.                             *)
(*                                                                         *)
(* The solver is TypeClasses, which TypeSolver implements.                 *)
(***************************************************************************)
EXTENDS Naturals, Sequences, SequencesExt, FiniteSets

CONSTANTS
    Programs,   \* the programs to infer, well-formed sequences of nodes
    Guess,      \* the types tried for a node no annotation determines
    MaxNodes    \* no program has more nodes, those appended included

VARIABLES
    program,    \* the nodes as they were parsed
    nodes,      \* the nodes as they are: calls get resolved, nodes appended
    classes,    \* the solver
    at,         \* the node the sweep, or the collection, is at
    phase,      \* where run is
    saved       \* inferred_type of each node, once they are saved

vars == <<program, nodes, classes, at, phase, saved>>

-----------------------------------------------------------------------------
(***************************************************************************)
(* Types are words: <<"int">>, <<"Vec", "int">>.  The record type is the   *)
(* one struct of the program, its field an int; the variant type has one   *)
(* tag, whose payload is a bool.                                           *)
(***************************************************************************)
NoType == <<>>
IntType == <<"int">>
DoubleType == <<"double">>
BoolType == <<"bool">>
StringType == <<"String">>
CharType == <<"char">>
VoidType == <<"void">>
RegionType == <<"Region">>
RecordType == <<"record">>
VariantType == <<"variant">>
FieldType == IntType
PayloadType == BoolType

Of(container, t) == <<container>> \o t
Element(container, t) ==
    IF Len(t) > 1 /\ t[1] = container THEN Tail(t) ELSE NoType
Numeric(t) == t \in {IntType, DoubleType}

\* binary_result; NoType when the operator rejects the operands
BinaryResult(op, l, r) ==
    LET bothNumeric == Numeric(l) /\ Numeric(r)
    IN CASE op = "and" /\ l = BoolType /\ r = BoolType -> BoolType
         [] op = "eq" /\ (bothNumeric \/ (l = r /\ l \in {BoolType, CharType, StringType})) -> BoolType
         [] op = "less" /\ bothNumeric -> BoolType
         [] op = "mod" /\ l = IntType /\ r = IntType -> IntType
         [] op = "plus" /\ bothNumeric -> IF DoubleType \in {l, r} THEN DoubleType ELSE IntType
         [] OTHER -> NoType

\* conditional_result
ConditionalResult(l, r) ==
    CASE VoidType \in {l, r} -> NoType
      [] l = r /\ l # VoidType -> l
      [] l # r /\ Numeric(l) /\ Numeric(r) -> DoubleType
      [] OTHER -> NoType

\* unary_result
UnaryResult(op, t) ==
    IF (op = "not" /\ t = BoolType) \/ (op = "neg" /\ Numeric(t)) THEN t ELSE NoType

\* index_result, of a load
IndexResult(t) ==
    CASE Element("Dict", t) # NoType -> Of("Option", Element("Dict", t))
      [] t = StringType -> CharType
      [] OTHER -> Element("Vec", t)

KeyType(t) == IF Element("Dict", t) # NoType THEN StringType ELSE IntType

\* types::iteration_element
IterationElement(t) ==
    CASE t = StringType -> CharType
      [] Element("Dict", t) # NoType -> Element("Dict", t)
      [] OTHER -> Element("Vec", t)

-----------------------------------------------------------------------------
(***************************************************************************)
(* A node has an operation, the nodes it refers to, an annotation or the   *)
(* type it has by itself (NoType when neither), and for a call the         *)
(* declaration of the function, 0 when there is none.  The nodes are       *)
(*   leaf         a literal, a parameter, a declaration without value      *)
(*   function     a declaration; its type is its result's, its nodes its   *)
(*                parameters                                               *)
(*   join         what has the type of its node: an identifier, a group,   *)
(*                a slice, an initialized declaration                       *)
(*   assign       an assignment or return: two nodes of one type           *)
(*   Vec, Dict, Option     literals, Option being Some or None             *)
(*   receiver     a call through a receiver; its target is what the        *)
(*                record's module declares under that name                 *)
(*   receiver_pop the same under the name of a builtin nobody declares     *)
(* and operators, accesses, builtins and statements under their own names. *)
(***************************************************************************)
Slotless == {"assign", "match", "foreach"}
Literals == {"Vec", "Dict", "Option"}
Binary == {"plus", "less", "eq", "mod", "and"}
Unary == {"neg", "not"}

Operations ==
    Slotless \cup Literals \cup Binary \cup Unary
    \cup {"leaf", "function", "join", "cond", "index", "field", "unwrap", "push", "pop",
          "call", "receiver", "receiver_pop"}

Arity(op) ==
    CASE op \in Unary \cup {"join", "unwrap", "field", "pop", "receiver_pop"} -> {1}
      [] op \in Binary \cup Slotless \cup {"index", "push"} -> {2}
      [] op = "cond" -> {3}
      [] op = "receiver" -> Nat \ {0}
      [] OTHER -> Nat

Word ==
    Seq({"int", "double", "bool", "String", "char", "void", "Region", "record", "variant"}
        \cup Literals)
NodeRecord == [op : Operations, args : Seq(Nat), note : Word, target : Nat]

(***************************************************************************)
(* What the parser and name resolution make: nodes refer to earlier ones   *)
(* that have types, calls to functions; a receiver call under the name of  *)
(* a builtin has no target.  There is room for what resolving may append.  *)
(***************************************************************************)
WellFormed(p) ==
    /\ p \in Seq(NodeRecord)
    /\ Len(p) + Cardinality({n \in DOMAIN p : p[n].op = "receiver"}) <= MaxNodes
    /\ \A n \in DOMAIN p :
        /\ Len(p[n].args) \in Arity(p[n].op)
        /\ \A i \in DOMAIN p[n].args :
              p[n].args[i] \in 1 .. n - 1 /\ p[p[n].args[i]].op \notin Slotless
        /\ p[n].target \in 0 .. n - 1
        /\ p[n].target # 0 => p[p[n].target].op = "function"
        /\ p[n].op = "call" => p[n].target # 0
        /\ p[n].op = "receiver_pop" => p[n].target = 0
        /\ p[n].op \in Slotless => p[n].note = NoType

ASSUME ProgramsAssumption == MaxNodes \in Nat /\ \A p \in Programs : WellFormed(p)
ASSUME GuessAssumption == Guess \subseteq Word \ {NoType}

Op(n) == nodes[n].op
Arg(n, i) == nodes[n].args[i]

K == INSTANCE TypeClasses WITH Node <- 1 .. MaxNodes, Type <- Guess

Known(k, n) == k.type[n]

\* The steps of a rule are calls of the solver, one after the other.
Is(n, t) == [call |-> "bind", args |-> <<n>>, type |-> t]
Same(m, n) == [call |-> "unify", args |-> <<m, n>>, type |-> NoType]
Wrong == [call |-> "report", args |-> <<>>, type |-> NoType]

Perform(k, step) ==
    CASE step.call = "bind" -> K!Typed(k, step.args[1], step.type)
      [] step.call = "unify" -> K!Joined(k, step.args[1], step.args[2])
      [] step.call = "report" -> K!Failed(k)

After(k, steps) ==
    LET after[i \in 0 .. Len(steps)] ==
            IF i = 0 THEN k ELSE Perform(after[i - 1], steps[i])
    IN after[Len(steps)]

-----------------------------------------------------------------------------
(***************************************************************************)
(* What the syntax says of node n by itself: the constraints that          *)
(* initialize and collect_constraints record.                              *)
(***************************************************************************)
Annotated(n) == IF nodes[n].note = NoType THEN <<>> ELSE <<Is(n, nodes[n].note)>>

\* collect_target_constraints, of the call n of function f with the arguments args
TargetConstraints(n, f, args) ==
    LET parameters == nodes[f].args
    IN IF Len(args) # Len(parameters)
       THEN <<Same(n, f), Wrong>>
       ELSE <<Same(n, f)>> \o [i \in 1 .. Len(args) |-> Same(parameters[i], args[i])]

Constraints(n) ==
    LET args == nodes[n].args
    IN CASE Op(n) \in {"join", "neg"} -> <<Same(n, args[1])>>
         [] Op(n) = "not" -> <<Same(n, args[1]), Is(n, BoolType)>>
         [] Op(n) = "assign" -> <<Same(args[1], args[2])>>
         [] Op(n) \in {"Vec", "Dict"} /\ args # <<>> ->
              [i \in 1 .. Len(args) - 1 |-> Same(args[1], args[i + 1])]
         [] Op(n) = "and" -> <<Is(args[1], BoolType), Is(args[2], BoolType), Is(n, BoolType)>>
         [] Op(n) \in {"less", "eq"} -> <<Is(n, BoolType)>>
         [] Op(n) = "mod" -> <<Is(n, IntType)>>
         [] Op(n) = "cond" -> <<Is(args[1], BoolType)>>
         [] Op(n) = "push" -> <<Is(n, VoidType)>>
         [] Op(n) = "call" -> TargetConstraints(n, nodes[n].target, args)
         [] OTHER -> <<>>

Collected(n) == Annotated(n) \o Constraints(n)

-----------------------------------------------------------------------------
(***************************************************************************)
(* What a sweep deduces at node n from the solver k: one operator for each *)
(* solve_ function.                                                        *)
(***************************************************************************)
\* The rule's answer for n, or a report when it has none
Answer(k, n, t) == IF t = NoType THEN K!Failed(k) ELSE K!Typed(k, n, t)

\* Mutant of DeduceBinary: a double result chooses its operands, too.
DeduceBinaryEagerly(k, n) ==
    LET l == Arg(n, 1)
        r == Arg(n, 2)
        k1 == IF Op(n) \in {"plus", "mod"} /\ Numeric(Known(k, n))
              THEN After(k, <<Is(l, Known(k, n)), Is(r, Known(k, n))>>)
              ELSE k
    IN IF NoType \in {Known(k1, l), Known(k1, r)} THEN k1
       ELSE Answer(k1, n, BinaryResult(Op(n), Known(k1, l), Known(k1, r)))

DeduceBinary(k, n) ==
    LET l == Arg(n, 1)
        r == Arg(n, 2)
        k1 == IF Op(n) \in {"plus", "mod"} /\ Known(k, n) = IntType
              THEN After(k, <<Is(l, IntType), Is(r, IntType)>>)
              ELSE k
    IN IF NoType \in {Known(k1, l), Known(k1, r)} THEN k1
       ELSE Answer(k1, n, BinaryResult(Op(n), Known(k1, l), Known(k1, r)))

\* Mutant of DeduceConditional: a known result types both branches.
DeduceConditionalEagerly(k, n) ==
    LET l == Arg(n, 2)
        r == Arg(n, 3)
        k1 == IF Known(k, n) # NoType
              THEN After(k, <<Same(n, l), Same(n, r)>>) ELSE k
    IN IF NoType \in {Known(k1, l), Known(k1, r)} THEN k1
       ELSE Answer(k1, n, ConditionalResult(Known(k1, l), Known(k1, r)))

DeduceConditional(k, n) ==
    LET l == Arg(n, 2)
        r == Arg(n, 3)
        k1 == IF Known(k, n) \notin {NoType, DoubleType}
              THEN After(k, <<Same(n, l), Same(n, r)>>) ELSE k
        exact == \E t \in {Known(k1, l), Known(k1, r)} : t # NoType /\ ~ Numeric(t)
        k2 == IF exact THEN After(k1, <<Same(n, l), Same(n, r)>>) ELSE k1
    IN IF NoType \in {Known(k2, l), Known(k2, r)} THEN k2
       ELSE Answer(k2, n, ConditionalResult(Known(k2, l), Known(k2, r)))

DeduceUnary(k, n) ==
    LET t == Known(k, Arg(n, 1))
    IN IF t # NoType /\ UnaryResult(Op(n), t) = NoType THEN K!Failed(k) ELSE k

\* A literal's elements from its type, its type from its first element
DeduceLiteral(k, n) ==
    LET args == nodes[n].args
        element == Element(Op(n), Known(k, n))
        k1 == CASE Known(k, n) = NoType -> k
                [] Known(k, n) # NoType /\ element = NoType -> K!Failed(k)
                [] OTHER -> After(k, [i \in 1 .. Len(args) |-> Is(args[i], element)])
    IN IF args = <<>> \/ Known(k1, args[1]) = NoType THEN k1
       ELSE K!Typed(k1, n, Of(Op(n), Known(k1, args[1])))

DeduceUnwrap(k, n) ==
    LET value == Arg(n, 1)
    IN CASE Known(k, value) # NoType -> Answer(k, n, Element("Option", Known(k, value)))
         [] Known(k, value) = NoType /\ Known(k, n) # NoType ->
              K!Typed(k, value, Of("Option", Known(k, n)))
         [] OTHER -> k

\* The rules below wait for the type of the node's first operand.
DeduceIndex(k, n) ==
    LET t == Known(k, Arg(n, 1))
    IN IF IndexResult(t) = NoType THEN K!Failed(k)
       ELSE After(k, <<Is(n, IndexResult(t)), Is(Arg(n, 2), KeyType(t))>>)

DeduceField(k, n) == Answer(k, n, IF Known(k, Arg(n, 1)) = RecordType THEN FieldType ELSE NoType)

DeduceBuiltin(k, n) ==
    Answer(k, IF Op(n) = "push" THEN Arg(n, 2) ELSE n, Element("Vec", Known(k, Arg(n, 1))))

DeduceMatch(k, n) ==
    Answer(k, Arg(n, 2), IF Known(k, Arg(n, 1)) = VariantType THEN PayloadType ELSE NoType)

DeduceForeach(k, n) == Answer(k, Arg(n, 2), IterationElement(Known(k, Arg(n, 1))))

Deduced(k, n) ==
    LET waits == Known(k, Arg(n, 1)) = NoType
    IN CASE Op(n) \in Binary -> DeduceBinary(k, n)
         [] Op(n) = "cond" -> DeduceConditional(k, n)
         [] Op(n) \in Unary -> DeduceUnary(k, n)
         [] Op(n) \in Literals -> DeduceLiteral(k, n)
         [] Op(n) = "unwrap" -> DeduceUnwrap(k, n)
         [] Op(n) = "index" /\ ~ waits -> DeduceIndex(k, n)
         [] Op(n) = "field" /\ ~ waits -> DeduceField(k, n)
         [] Op(n) \in {"push", "pop"} /\ ~ waits -> DeduceBuiltin(k, n)
         [] Op(n) = "match" /\ ~ waits -> DeduceMatch(k, n)
         [] Op(n) = "foreach" /\ ~ waits -> DeduceForeach(k, n)
         [] OTHER -> k

-----------------------------------------------------------------------------
(***************************************************************************)
(* The receiver call n, once its receiver has type t (resolve_receiver and *)
(* bind_receiver): the record's own module is searched; a builtin's name   *)
(* is resolved for any other type, and when the module has no such name.   *)
(***************************************************************************)
Waiting(n) == Op(n) \in {"receiver", "receiver_pop"}

Binds(f, t) ==
    /\ f # 0
    /\ nodes[f].args # <<>>
    /\ nodes[nodes[f].args[1]].note = t

Resolvable(n, t) == Op(n) = "receiver_pop" \/ (t = RecordType /\ Binds(nodes[n].target, t))

\* add_missing_region_argument: the function takes one more argument, a region.
OmitsRegion(n) ==
    LET f == nodes[n].target
    IN /\ f # 0
       /\ Len(nodes[n].args) + 1 = Len(nodes[f].args)
       /\ nodes[Last(nodes[f].args)].note = RegionType

RegionNode == [op |-> "leaf", args |-> <<>>, note |-> RegionType, target |-> 0]

Resolution(n) ==
    LET named == [nodes EXCEPT ![n].op = IF Op(n) = "receiver_pop" THEN "pop" ELSE "call"]
    IN IF OmitsRegion(n)
       THEN Append([named EXCEPT ![n].args = Append(@, Len(nodes) + 1)], RegionNode)
       ELSE named

-----------------------------------------------------------------------------
Init ==
    /\ program \in Programs
    /\ nodes = program
    /\ classes = K!Nothing
    /\ at = 1
    /\ phase = "collect"
    /\ saved = <<>>

\* initialize and collect_constraints, one node at a time
Collect ==
    /\ phase = "collect" /\ at <= Len(nodes)
    /\ classes' = After(classes, Collected(at))
    /\ at' = at + 1
    /\ UNCHANGED <<program, nodes, phase, saved>>

\* The first sweep is made whatever was learned, unless collection failed.
StartSolving ==
    /\ phase = "collect" /\ at > Len(nodes)
    /\ phase' = IF classes.failed THEN "wrong" ELSE "solve"
    /\ classes' = K!Quiet(classes)
    /\ at' = 1
    /\ UNCHANGED <<program, nodes, saved>>

\* One node of a sweep
Deduce ==
    /\ phase = "solve" /\ at <= Len(nodes)
    /\ Waiting(at) => Known(classes, Arg(at, 1)) = NoType
    /\ classes' = Deduced(classes, at)
    /\ at' = at + 1
    /\ UNCHANGED <<program, nodes, phase, saved>>

(***************************************************************************)
(* One node of a sweep that is a receiver call whose receiver has a type   *)
(* by now: its constraints are collected at once, a builtin's rule follows *)
(* in the same visit, and another sweep will come.                         *)
(***************************************************************************)
Resolve ==
    /\ phase = "solve" /\ at <= Len(nodes)
    /\ Waiting(at) /\ Known(classes, Arg(at, 1)) # NoType
    /\ ~ classes.failed /\ Resolvable(at, Known(classes, Arg(at, 1)))
    /\ nodes' = Resolution(at)
    /\ LET f == nodes[at].target
           appended == IF Len(nodes') > Len(nodes) THEN <<Is(Len(nodes'), RegionType)>> ELSE <<>>
           collected == IF Op(at) = "receiver" THEN TargetConstraints(at, f, nodes'[at].args) ELSE <<>>
           k == [After(classes, appended \o collected) EXCEPT !.changed = TRUE]
       IN classes' = IF Op(at) = "receiver" \/ k.failed THEN k ELSE DeduceBuiltin(k, at)
    /\ at' = at + 1
    /\ UNCHANGED <<program, phase, saved>>

\* The same when the call cannot be resolved, or an error was reported before
RefuseReceiver ==
    /\ phase = "solve" /\ at <= Len(nodes)
    /\ Waiting(at) /\ Known(classes, Arg(at, 1)) # NoType
    /\ classes.failed \/ ~ Resolvable(at, Known(classes, Arg(at, 1)))
    /\ classes' = K!Failed(classes)
    /\ phase' = "wrong"
    /\ UNCHANGED <<program, nodes, at, saved>>

\* Mutant of NextSweep: the flag keeps its value.
NextSweepStale ==
    /\ phase = "solve" /\ at > Len(nodes)
    /\ classes.changed /\ ~ classes.failed
    /\ at' = 1
    /\ UNCHANGED <<program, nodes, classes, phase, saved>>

NextSweep ==
    /\ phase = "solve" /\ at > Len(nodes)
    /\ classes.changed /\ ~ classes.failed
    /\ classes' = K!Quiet(classes)
    /\ at' = 1
    /\ UNCHANGED <<program, nodes, phase, saved>>

StopSolving ==
    /\ phase = "solve" /\ at > Len(nodes)
    /\ ~ classes.changed \/ classes.failed
    /\ phase' = IF classes.failed THEN "wrong" ELSE "validate"
    /\ UNCHANGED <<program, nodes, classes, at, saved>>

HasSlot(n) == Op(n) \notin Slotless
Unresolved(n) == HasSlot(n) /\ Known(classes, n) = NoType
IsCall(op) == op \in {"function", "call", "receiver", "receiver_pop", "push", "pop"}
VoidValue(n) == HasSlot(n) /\ Known(classes, n) = VoidType /\ ~ IsCall(Op(n))

\* validate_results, then store_inferred_types
Validate ==
    /\ phase = "validate"
    /\ LET bad == {n \in DOMAIN nodes : Unresolved(n) \/ VoidValue(n)}
           first == CHOOSE n \in bad : \A m \in bad : n <= m
       IN /\ phase' = CASE bad = {} -> "stored"
                        [] bad # {} /\ Unresolved(first) -> "unresolved"
                        [] OTHER -> "wrong"
          /\ saved' = IF bad = {} THEN [n \in DOMAIN nodes |-> Known(classes, n)] ELSE saved
    /\ UNCHANGED <<program, nodes, classes, at>>

Final == phase \in {"stored", "unresolved", "wrong"}

Next ==
    \/ Collect \/ StartSolving
    \/ Deduce \/ Resolve \/ RefuseReceiver \/ NextSweep \/ StopSolving
    \/ Validate

Spec == Init /\ [][Next]_vars /\ WF_vars(Next)

-----------------------------------------------------------------------------
(***************************************************************************)
(* The language's rules, independent of how types are found: the type a    *)
(* node of the program has when the nodes it refers to have the types f.   *)
(* NoType when they fit no rule; a statement that is in order is void.     *)
(***************************************************************************)
Takes(n, f) ==
    LET c == program[n]
        parameters == program[c.target].args
        supplied == [i \in DOMAIN c.args |-> f[c.args[i]]]
        expected == [i \in DOMAIN parameters |-> f[parameters[i]]]
    IN \/ supplied = expected
       \/ c.op = "receiver" /\ expected = Append(supplied, RegionType)
                            /\ program[Last(parameters)].note = RegionType

Method(n, f) ==
    /\ program[n].target # 0
    /\ f[program[n].args[1]] = RecordType
    /\ program[program[n].target].args # <<>>
    /\ program[program[program[n].target].args[1]].note = RecordType

Judgement(n, f) ==
    LET c == program[n]
        a(i) == f[c.args[i]]
    IN CASE c.op = "join" -> a(1)
         [] c.op \in Binary -> BinaryResult(c.op, a(1), a(2))
         [] c.op = "cond" /\ a(1) = BoolType -> ConditionalResult(a(2), a(3))
         [] c.op \in Unary -> UnaryResult(c.op, a(1))
         [] c.op \in Literals /\ \A i \in DOMAIN c.args : a(i) = a(1) -> Of(c.op, a(1))
         [] c.op = "index" /\ a(2) = KeyType(a(1)) -> IndexResult(a(1))
         [] c.op = "field" /\ a(1) = RecordType -> FieldType
         [] c.op = "unwrap" -> Element("Option", a(1))
         [] c.op = "push" /\ a(2) = Element("Vec", a(1)) -> VoidType
         [] c.op \in {"pop", "receiver_pop"} -> Element("Vec", a(1))
         [] c.op = "call" /\ Takes(n, f) -> f[c.target]
         [] c.op = "receiver" /\ Method(n, f) /\ Takes(n, f) -> f[c.target]
         [] c.op = "assign" /\ a(1) = a(2) -> VoidType
         [] c.op = "match" /\ a(1) = VariantType /\ a(2) = PayloadType -> VoidType
         [] c.op = "foreach" /\ a(2) = IterationElement(a(1)) -> VoidType
         [] OTHER -> NoType

\* The nodes no other node determines
Free(n) ==
    \/ program[n].op \in {"leaf", "function"}
    \/ program[n].op \in Literals /\ program[n].args = <<>>

\* The types tried for them: Guess, what is written, what inference knows
Tried == Guess \cup {program[n].note : n \in DOMAIN program} \cup Range(classes.type)

\* The types that follow from a choice for the free nodes
Completed(choice) ==
    LET f[n \in 0 .. Len(program)] ==
            IF n = 0 THEN <<>>
            ELSE Append(f[n - 1], IF n \in DOMAIN choice THEN choice[n]
                                  ELSE Judgement(n, f[n - 1]))
    IN f[Len(program)]

Guesses ==
    LET free == {n \in DOMAIN program : Free(n)}
    IN {c \in [free -> Tried \ {NoType}] :
            \A n \in free :
                /\ program[n].note \in {NoType, c[n]}
                /\ program[n].op \in Literals => Element(program[n].op, c[n]) # NoType}

\* Every node has a type, its annotation's if it has one; values are not void.
InOrder(f) ==
    \A n \in DOMAIN program :
        /\ f[n] # NoType
        /\ program[n].note \in {NoType, f[n]}
        /\ f[n] = VoidType => IsCall(program[n].op) \/ program[n].op \in Slotless

Typings == {f \in {Completed(c) : c \in Guesses} : InOrder(f)}

\* The types that were saved, statements being void
Result == [n \in DOMAIN program |-> IF program[n].op \in Slotless THEN VoidType ELSE saved[n]]

-----------------------------------------------------------------------------
(***************************************************************************)
(* The types inference saves are the only ones the program can have:       *)
(* nothing was guessed, however the rules fed each other, and whatever the *)
(* sweep in which a receiver was resolved.                                 *)
(***************************************************************************)
StoredIsOnlyTyping == phase = "stored" => Typings = {Result}

(***************************************************************************)
(* A program that is refused for a contradiction has no types at all: no   *)
(* rule bound a node before it had to.                                     *)
(***************************************************************************)
RefusedIsUntypable == phase = "wrong" => Typings = {}

(***************************************************************************)
(* Inference ends: sweeps learn something or are the last one, and a call  *)
(* is resolved once.                                                       *)
(***************************************************************************)
Terminates == <>[]Final
=============================================================================
