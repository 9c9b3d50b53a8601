----------------------------- MODULE MCInference -----------------------------
(***************************************************************************)
(* Instances of Inference for TLC: every program of at most four nodes     *)
(* over some operations, and larger programs around calls and receivers.   *)
(***************************************************************************)
EXTENDS Inference

Leaf(t) == [op |-> "leaf", args |-> <<>>, note |-> t, target |-> 0]
Expr(op, args) == [op |-> op, args |-> args, note |-> NoType, target |-> 0]
Function(parameters, t) == [op |-> "function", args |-> parameters, note |-> t, target |-> 0]
Call(op, f, args) == [op |-> op, args |-> args, note |-> NoType, target |-> f]
VecInt == Of("Vec", IntType)

Leaves == {Leaf(t) : t \in {NoType, IntType, DoubleType, VecInt}}


-----------------------------------------------------------------------------

\* The nodes that may follow nodes numbered up to i
Following(i) ==
    Leaves
    \cup {Expr(op, <<n>>) : op \in {"neg", "unwrap", "Vec", "Option"}, n \in 1 .. i}
    \cup {Expr(op, <<m, n>>) : op \in {"plus", "assign", "index", "push"}, m, n \in 1 .. i}

\* Statements are nobody's operand; every node is there for a later one, the
\* last and the statements for themselves.
Connected(p) ==
    \A n \in DOMAIN p :
        LET used == \E m \in DOMAIN p : n \in Range(p[m].args)
        IN IF p[n].op \in Slotless THEN ~ used ELSE n = Len(p) \/ used

Small == {p \in Following(0) \X Following(1) \X Following(2) : Connected(p)}

\* Four nodes, the last a statement
Stated ==
    {p \in Following(0) \X Following(1) \X Following(2)
           \X {Expr("assign", <<m, n>>) : m, n \in 1 .. 3} : Connected(p)}

Notes == {NoType, IntType, DoubleType, BoolType, VecInt}

\* An operation between its operands and a place with a type of its own
Placed(c, t) == <<[Expr("join", <<Len(c)>>) EXCEPT !.note = t]>>

Operators ==
    {LET c == <<Leaf(l), Leaf(r), Expr(op, <<1, 2>>)>> IN c \o Placed(c, t) :
        l, r, t \in Notes, op \in Binary}

Conditionals ==
    {LET c == <<Leaf(BoolType), Leaf(l), Leaf(r), Expr("cond", <<1, 2, 3>>)>> IN c \o Placed(c, t) :
        l, r, t \in Notes}

Statements ==
    {<<Leaf(v), Leaf(b), Expr(op, <<1, 2>>), Expr(use, <<2>>)>> :
        op \in {"match", "foreach"}, use \in Unary,
        v \in {NoType, VariantType, VecInt, StringType, Of("Dict", BoolType)}, b \in Notes}

Dictionaries ==
    {<<Leaf(v), Leaf(w), Expr("Dict", <<1, 2>>), Leaf(k), Expr("index", <<3, 4>>), Expr("unwrap", <<5>>),
       Expr("plus", <<1, 6>>)>> :
        v, w \in {NoType, IntType, DoubleType}, k \in {NoType, IntType, StringType}}

(***************************************************************************)
(* The function f(r, x), result and second parameter open, called on s     *)
(* twice: on a record, and on the result of the first call, which comes    *)
(* later in the text; x and the result meet in the body.                   *)
(***************************************************************************)
Receivers ==
    {<<Leaf(r), Leaf(x), Function(<<1, 2>>, t), Expr("assign", <<3, from>>),
       Leaf(NoType), Call("receiver", 3, <<5>> \o more),
       Leaf(s), Call("receiver", 3, <<7>> \o more), Expr("assign", <<5, 8>>)>> :
        r \in {NoType, RecordType, IntType}, x \in {NoType, RegionType, IntType},
        t \in {NoType, RecordType}, from \in {1, 2}, s \in {NoType, RecordType, VecInt},
        more \in {<<>>, <<2>>}}

\* A call of a builtin's name on what a field, an element or a literal has
Builtins ==
    {<<Leaf(v), c, Call("receiver_pop", 0, <<2>>), Leaf(t), Expr("assign", <<4, 3>>)>> :
        v \in {NoType, IntType, RecordType, VecInt}, t \in Notes,
        c \in {Expr("join", <<1>>), Expr("field", <<1>>), Expr("Vec", <<1>>), Expr("Vec", <<>>)}}

\* A missing function, a function without parameters, a direct call
Calls ==
    {<<Leaf(x), Function(<<1>>, t), Function(<<>>, RecordType), Leaf(a), Call(op, f, <<4>>), Expr("field", <<5>>)>> :
        x \in {NoType, RecordType}, t \in {NoType, RecordType, VoidType}, a \in {NoType, RecordType},
        op \in {"call", "receiver"}, f \in {2, 3}}
    \cup {<<Leaf(a), Call("receiver", 0, <<1>>)>> : a \in {NoType, RecordType}}

ProgramsDef ==
    UNION {Small, Stated, Operators, Conditionals, Statements, Dictionaries,
           Receivers, Builtins, Calls}

GuessDef ==
    LET base == {IntType, DoubleType, BoolType, CharType, StringType, RecordType, VariantType, RegionType}
    IN base \cup {VoidType} \cup {Of(c, t) : c \in Literals, t \in {IntType, BoolType}}
=============================================================================
