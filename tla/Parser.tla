------------------------------- MODULE Parser -------------------------------
(***************************************************************************)
(* The parser of the seed compiler (src/seed/parser.c): from the merged     *)
(* tokens of all files to the program.  One action parses one top-level     *)
(* item, as the loop of jik_parser_parse does; statements and expressions   *)
(* are parsed by recursive descent.                                         *)
(*                                                                          *)
(* A tree is a record whose field k names its node type in ast.h.  A parse  *)
(* operator takes the token position and the depth of containers around it  *)
(* (container_depth; -1 outside any function) and returns the tree and the  *)
(* position after it, or Fail: every syntax error ends the compiler.        *)
(***************************************************************************)
EXTENDS Lexer

VARIABLES
  at,         \* position of the next token (p->pos)
  build,      \* platform and profile that apply to build directives, and the
              \* file they were set in
  program,    \* what has been parsed: declarations and build directives
  parse       \* "parsing", "parsed" or "error"

parseVars == <<at, build, program, parse>>

-----------------------------------------------------------------------------
Fail == [ok |-> FALSE]
Done(node, i) == [ok |-> TRUE, n |-> node, i |-> i]

\* Continue with F on a successful result.
Then(r, F(_)) == IF r.ok THEN F(r) ELSE Fail

Kind(i) == IF i <= Len(tokens) THEN tokens[i].kind ELSE "EOF"
Val(i)  == tokens[i].val

\* The position after a token of the given kind, as a result without a tree.
Eat(i, kind) == IF Kind(i) = kind THEN Done(<<>>, i + 1) ELSE Fail

SkipNewlines(i) ==
  CHOOSE j \in i..(Len(tokens) + 1) :
    /\ Kind(j) # "NEWLINE"
    /\ \A l \in i..(j - 1) : Kind(l) = "NEWLINE"

\* At least one newline.
EatNewlines(i) == IF Kind(i) = "NEWLINE" THEN Done(<<>>, SkipNewlines(i)) ELSE Fail

\* A node absent from its parent.
None == [k |-> "none"]

Outside == -1     \* the container depth of code outside a function

-----------------------------------------------------------------------------
\* The allocation suffix after a composite: [r], [.c], @ or nothing.
NoSuffix == [kind |-> "local", name |-> <<>>]

AllocSuffix(i, depth) ==
  CASE Kind(i) = "@" ->
         IF depth # 0 THEN Fail ELSE Done([kind |-> "implicit", name |-> <<>>], i + 1)
    [] Kind(i) = "[" ->
         LET dot  == Kind(i + 1) = "."
             name == IF dot THEN i + 2 ELSE i + 1
         IN IF depth > 0 \/ Kind(name) # "ID" \/ Kind(name + 1) # "]" THEN Fail
            ELSE Done([kind |-> IF dot THEN "container" ELSE "region", name |-> Val(name)],
                      name + 2)
    [] OTHER -> Done(NoSuffix, i)

WithSuffix(r, depth) ==
  Then(r, LAMBDA c : Then(AllocSuffix(c.i, depth),
                          LAMBDA s : Done([c.n EXCEPT !.alloc = s.n], s.i)))

\* Inside a container no suffix may be written.
Inner(depth) == IF depth = Outside THEN 1 ELSE depth + 1

\* A name and the module it is qualified with.
Name(i) ==
  IF Kind(i) # "ID" THEN Fail
  ELSE IF Kind(i + 1) # "::" THEN Done([name |-> Val(i), mod |-> <<>>], i + 1)
  ELSE IF Kind(i + 2) # "ID" THEN Fail
  ELSE Done([name |-> Val(i + 2), mod |-> Val(i)], i + 3)

RECURSIVE Expr(_, _), Unary(_, _), Postfix(_, _, _), Binary(_, _, _), BinaryRest(_, _, _, _),
          Args(_, _, _), Elements(_, _, _), Entries(_, _, _, _), Fields(_, _, _)

-----------------------------------------------------------------------------
\* Arguments after the first position inside the parentheses.
Args(i, depth, acc) ==
  Then(Expr(i, depth), LAMBDA e :
    IF Kind(e.i) = "," THEN Args(SkipNewlines(e.i + 1), depth, Append(acc, e.n))
    ELSE Then(Eat(SkipNewlines(e.i), ")"), LAMBDA c : Done(Append(acc, e.n), c.i)))

CallArgs(i, depth) ==
  Then(Eat(i, "("), LAMBDA o :
    LET first == SkipNewlines(o.i) IN
      IF Kind(first) = ")" THEN Done(<<>>, first + 1) ELSE Args(first, depth, <<>>))

CallNode(name, mod, args, ufc) ==
  [k |-> "call", name |-> name, mod |-> mod, args |-> args, ufc |-> ufc,
   must |-> FALSE, propagate |-> FALSE]

\* unwrap(x) is parsed as the postfix form x?.
UnwrapCall(i, depth) ==
  Then(Eat(i, "("), LAMBDA o :
    Then(Expr(SkipNewlines(o.i), depth), LAMBDA e :
      Then(Eat(SkipNewlines(e.i), ")"), LAMBDA c : Done([k |-> "unwrap", x |-> e.n], c.i))))

\* The elements of a vector literal after the first.
Elements(i, depth, acc) ==
  IF Kind(i) = "]" THEN Done(acc, i + 1)
  ELSE Then(Eat(i, ","), LAMBDA c :
         Then(Expr(SkipNewlines(c.i), depth), LAMBDA e :
           Elements(SkipNewlines(e.i), depth, Append(acc, e.n))))

VectorLiteral(i, depth) ==
  LET in == Inner(depth) first == SkipNewlines(i + 1) IN
    IF Kind(first) = "]" THEN Fail
    ELSE Then(Expr(first, in), LAMBDA e :
           IF Kind(e.i) = "of"
           THEN Then(Expr(e.i + 1, in), LAMBDA x :
                  Then(Eat(SkipNewlines(x.i), "]"), LAMBDA c :
                    Done([k |-> "fill", size |-> e.n, x |-> x.n, alloc |-> NoSuffix], c.i)))
           ELSE Then(Elements(SkipNewlines(e.i), in, <<e.n>>), LAMBDA l :
                  Done([k |-> "vec", elems |-> l.n, alloc |-> NoSuffix], l.i)))

\* The entries of a dictionary literal.  A closing brace right after a comma
\* ends the loop of the code, which eats the brace only after an entry.
Entries(i, depth, keys, vals) ==
  IF Kind(i) = "}" THEN Done([keys |-> keys, vals |-> vals], i)
  ELSE Then(Expr(i, depth), LAMBDA key :
         Then(Eat(key.i, ":"), LAMBDA c :
           Then(Expr(c.i, depth), LAMBDA val :
             LET next == SkipNewlines(val.i)
                 ks == Append(keys, key.n)
                 vs == Append(vals, val.n)
             IN IF Kind(next) = "}" THEN Done([keys |-> ks, vals |-> vs], next + 1)
                ELSE Then(Eat(next, ","), LAMBDA m : Entries(SkipNewlines(m.i), depth, ks, vs)))))

DictLiteral(i, depth) ==
  LET first == SkipNewlines(i + 1) IN
    IF Kind(first) = "}" THEN Fail
    ELSE Then(Entries(first, Inner(depth), <<>>, <<>>), LAMBDA l :
           Done([k |-> "dict", keys |-> l.n.keys, vals |-> l.n.vals, alloc |-> NoSuffix], l.i))

\* The initializers of a struct literal: a function from fields to
\* expressions, where a later initializer of a field replaces an earlier one.
Fields(i, depth, inits) ==
  IF Kind(i) = "}" THEN Done(inits, i + 1)
  ELSE LET name == SkipNewlines(i)
           value == IF Kind(name + 1) = "=" THEN Expr(name + 2, depth)
                    ELSE Done([k |-> "id", name |-> Val(name), mod |-> <<>>], name + 1)
       IN IF Kind(name) # "ID" THEN Fail
          ELSE Then(value, LAMBDA e :
                 LET next == SkipNewlines(e.i)
                     set  == [f \in DOMAIN inits \cup {Val(name)} |->
                                IF f = Val(name) THEN e.n ELSE inits[f]]
                 IN IF Kind(next) = "}" THEN Fields(next, depth, set)
                    ELSE Then(Eat(next, ","), LAMBDA c : Fields(c.i, depth, set)))

StructNew(i, depth, id) ==
  Then(Fields(SkipNewlines(i + 1), Inner(depth), [f \in {} |-> None]), LAMBDA l :
    Done([k |-> "structnew", id |-> id, inits |-> l.n, alloc |-> NoSuffix], l.i))

\* The payload of a variant literal is not a container of its own.
VariantNew(i, depth, id) ==
  LET first == SkipNewlines(i + 3)
      node(x) == [k |-> "variantnew", id |-> id, tag |-> Val(i + 1), x |-> x, alloc |-> NoSuffix]
  IN IF Kind(first) = "}" THEN Done(node(None), first + 1)
     ELSE Then(Expr(first, depth), LAMBDA e :
            Then(Eat(SkipNewlines(e.i), "}"), LAMBDA c : Done(node(e.n), c.i)))

SomeNew(i, depth) ==
  Then(Eat(i + 1, "{"), LAMBDA o :
    Then(Expr(o.i, depth), LAMBDA e :
      Then(Eat(SkipNewlines(e.i), "}"), LAMBDA c :
        Done([k |-> "some", x |-> e.n, alloc |-> NoSuffix], c.i))))

\* What begins with a name: a call, a struct or variant literal, or the name.
\* The look-ahead for a variant literal refuses a text that ends within it.
Named(i, depth) ==
  Then(Name(i), LAMBDA id :
    LET j == id.i IN
      CASE Kind(j) = "(" /\ id.n.mod = <<>> /\ id.n.name = <<"unwrap">> -> UnwrapCall(j, depth)
        [] Kind(j) = "(" /\ ~(id.n.mod = <<>> /\ id.n.name = <<"unwrap">>) ->
             Then(CallArgs(j, depth), LAMBDA a :
               Done(CallNode(id.n.name, id.n.mod, a.n, FALSE), a.i))
        [] Kind(j) = "{" -> WithSuffix(StructNew(j, depth, id.n), depth)
        [] Kind(j) = "." /\ Kind(j + 1) = "ID" /\ Kind(j + 2) = "{" ->
             WithSuffix(VariantNew(j, depth, id.n), depth)
        [] Kind(j) = "EOF" \/ (Kind(j) = "." /\ Kind(j + 1) = "EOF")
             \/ (Kind(j) = "." /\ Kind(j + 1) = "ID" /\ Kind(j + 2) = "EOF") -> Fail
        [] OTHER -> Done([k |-> "id", name |-> id.n.name, mod |-> id.n.mod], j))

Atom(i, depth) ==
  CASE Kind(i) \in {"INT", "FLOAT", "CHAR"} -> Done([k |-> Kind(i), val |-> Val(i)], i + 1)
    [] Kind(i) \in {"true", "false"} -> Done([k |-> "bool", val |-> Kind(i)], i + 1)
    [] Kind(i) \in {"STRING", "STRING_ML"} ->
         WithSuffix(Done([k |-> Kind(i), val |-> Val(i), alloc |-> NoSuffix], i + 1), depth)
    [] Kind(i) = "Some" -> WithSuffix(SomeNew(i, depth), depth)
    [] Kind(i) = "None" -> WithSuffix(Done([k |-> "nothing", alloc |-> NoSuffix], i + 1), depth)
    [] Kind(i) = "ID" -> Named(i, depth)
    [] Kind(i) = "(" ->
         Then(Expr(i + 1, depth), LAMBDA e :
           Then(Eat(e.i, ")"), LAMBDA c : Done([k |-> "group", x |-> e.n], c.i)))
    [] Kind(i) = "[" -> WithSuffix(VectorLiteral(i, depth), depth)
    [] Kind(i) = "{" -> WithSuffix(DictLiteral(i, depth), depth)
    [] Kind(i) = "." -> Then(Eat(i + 1, "ID"), LAMBDA c :
                          Done([k |-> "regionof", name |-> Val(i + 1)], c.i))
    [] Kind(i) = "_" -> Done([k |-> "localregion"], i + 1)
    [] OTHER -> Fail

-----------------------------------------------------------------------------
\* Member access, method-style call, subscript, slice, ? and ! after an atom.
Subscript(i, depth, node) ==
  LET slice(from, colon) ==
        Then(IF Kind(colon + 1) = "]" THEN Done(None, colon + 1) ELSE Expr(colon + 1, depth),
             LAMBDA to : Then(Eat(to.i, "]"), LAMBDA c :
               Done([k |-> "slice", x |-> node, from |-> from, to |-> to.n], c.i)))
  IN IF Kind(i + 1) = ":" THEN slice(None, i + 1)
     ELSE Then(Expr(i + 1, depth), LAMBDA e :
            IF Kind(e.i) = ":" THEN slice(e.n, e.i)
            ELSE Then(Eat(e.i, "]"), LAMBDA c : Done([k |-> "sub", x |-> node, key |-> e.n], c.i)))

Postfix(i, depth, node) ==
  CASE Kind(i) = "." ->
         Then(Eat(i + 1, "ID"), LAMBDA m :
           IF Kind(m.i) = "("
           THEN Then(CallArgs(m.i, depth), LAMBDA a :
                  Postfix(a.i, depth, CallNode(Val(i + 1), <<>>, <<node>> \o a.n, TRUE)))
           ELSE Postfix(m.i, depth, [k |-> "member", x |-> node, name |-> Val(i + 1)]))
    [] Kind(i) = "[" -> Then(Subscript(i, depth, node), LAMBDA s : Postfix(s.i, depth, s.n))
    [] Kind(i) = "?" -> Postfix(i + 1, depth, [k |-> "unwrap", x |-> node])
    [] Kind(i) = "!" ->
         IF node.k # "call" THEN Fail
         ELSE Postfix(i + 1, depth, [k |-> "must", x |-> [node EXCEPT !.must = TRUE]])
    [] Kind(i) = "@" -> Fail
    [] OTHER -> Done(node, i)

Primary(i, depth) == Then(Atom(i, depth), LAMBDA a : Postfix(a.i, depth, a.n))

Unary(i, depth) ==
  CASE Kind(i) \in {"not", "-"} ->
         Then(Unary(i + 1, depth), LAMBDA e : Done([k |-> "unop", op |-> Kind(i), x |-> e.n], e.i))
    [] Kind(i) = "must" ->
         Then(Unary(i + 1, depth), LAMBDA e :
           IF e.n.k # "call" THEN Fail
           ELSE Done([k |-> "must", x |-> [e.n EXCEPT !.must = TRUE]], e.i))
    [] OTHER -> Primary(i, depth)

-----------------------------------------------------------------------------
\* The binary operators from the loosest level to the tightest; every level is
\* a loop over the next, so that operators associate to the left.  Between
\* "and" and the comparisons stands the test "is", which does not repeat.
Levels == <<{"or"}, {"and"}, {"<", ">", "==", "!=", ">=", "<="}, {"+", "-"}, {"*", "/", "%"}>>

IsTest(r) ==
  IF Kind(r.i) # "is" THEN r
  ELSE CASE Kind(r.i + 1) = "Some" -> Done([k |-> "isopt", x |-> r.n, some |-> TRUE], r.i + 2)
         [] Kind(r.i + 1) = "None" -> Done([k |-> "isopt", x |-> r.n, some |-> FALSE], r.i + 2)
         [] Kind(r.i + 1) = "ID" -> Done([k |-> "istag", x |-> r.n, tag |-> Val(r.i + 1)], r.i + 2)
         [] OTHER -> Fail

Operand(level, i, depth) ==
  CASE level = Len(Levels) -> Unary(i, depth)
    [] level = 2 -> Then(Binary(3, i, depth), IsTest)
    [] OTHER -> Binary(level + 1, i, depth)

BinaryRest(level, i, depth, left) ==
  IF Kind(i) \notin Levels[level] THEN Done(left, i)
  ELSE Then(Operand(level, i + 1, depth), LAMBDA right :
         BinaryRest(level, right.i, depth,
                    [k |-> "binop", op |-> Kind(i), l |-> left, r |-> right.n]))

Binary(level, i, depth) ==
  Then(Operand(level, i, depth), LAMBDA left : BinaryRest(level, left.i, depth, left.n))

\* The else branch of a conditional expression is again one: it associates to
\* the right.
Expr(i, depth) ==
  Then(Binary(1, i, depth), LAMBDA x :
    IF Kind(x.i) # "if" THEN x
    ELSE Then(Expr(x.i + 1, depth), LAMBDA c :
           Then(Eat(c.i, "else"), LAMBDA e :
             Then(Expr(e.i, depth), LAMBDA y :
               Done([k |-> "ternary", c |-> c.n, x |-> x.n, y |-> y.n], y.i)))))

-----------------------------------------------------------------------------
\* Types: a name, or a container of a type, with an allocation suffix.
Containers == {"Vec", "Dict", "Option"}

RECURSIVE TypeDesc(_, _)
TypeDesc(i, depth) ==
  CASE Kind(i) = "ID" ->
         WithSuffix(Then(Name(i), LAMBDA id :
           Done([k |-> "type", con |-> "", of |-> id.n, alloc |-> NoSuffix], id.i)), depth)
    [] Kind(i) \in Containers ->
         WithSuffix(Then(Eat(i + 1, "["), LAMBDA o :
           Then(TypeDesc(o.i, depth), LAMBDA t :
             Then(Eat(t.i, "]"), LAMBDA c :
               Done([k |-> "type", con |-> Kind(i), of |-> t.n, alloc |-> NoSuffix], c.i)))), depth)
    [] OTHER -> Fail

RECURSIVE HasSuffix(_)
HasSuffix(type) ==
  \/ type.alloc.kind # "local"
  \/ type.con # "" /\ HasSuffix(type.of)

-----------------------------------------------------------------------------
\* Statements are inside a function and outside every container: depth 0.

\* An expression behind "=" or ":=", which may be a call that passes its error
\* on: "try" sets propagate in the call.
RightSide(i) ==
  IF Kind(i) # "try" THEN Expr(i, 0)
  ELSE Then(Expr(i + 1, 0), LAMBDA e :
         IF e.n.k # "call" THEN Fail ELSE Done([e.n EXCEPT !.propagate = TRUE], e.i))

\* The value assigned to lhs: x op= e stands for x = x op e.
CompoundOps == [op \in {"+=", "-=", "*=", "/=", "%="} |->
                  CASE op = "+=" -> "+" [] op = "-=" -> "-" [] op = "*=" -> "*"
                    [] op = "/=" -> "/" [] op = "%=" -> "%"]

Assigned(i, lhs) ==
  CASE Kind(i) = "=" -> RightSide(i + 1)
    [] Kind(i) \in DOMAIN CompoundOps ->
         Then(Expr(i + 1, 0), LAMBDA e :
           Done([k |-> "binop", op |-> CompoundOps[Kind(i)], l |-> lhs, r |-> e.n], e.i))
    [] OTHER -> Fail

DeclareNode(id, x, type) == [k |-> "declare", id |-> id, x |-> x, type |-> type]

\* x := e, x : T, x : T = e, or an assignment to a name.
DeclareOrAssign(i, id) ==
  CASE Kind(i) = ":=" -> Then(RightSide(i + 1), LAMBDA e : Done(DeclareNode(id, e.n, None), e.i))
    [] Kind(i) = ":" ->
         Then(TypeDesc(i + 1, 0), LAMBDA t :
           IF Kind(t.i) # "=" THEN Done(DeclareNode(id, None, t.n), t.i)
           ELSE IF HasSuffix(t.n) THEN Fail
           ELSE Then(Expr(t.i + 1, 0), LAMBDA e : Done(DeclareNode(id, e.n, t.n), e.i)))
    [] OTHER -> Then(Assigned(i, id), LAMBDA e :
                  Done([k |-> "assign", id |-> id, x |-> e.n], e.i))

\* A statement that begins with an expression.
ExprStatement(i) ==
  Then(Expr(i, 0), LAMBDA e :
    CASE e.n.k = "id" -> DeclareOrAssign(e.i, e.n)
      [] e.n.k = "member" -> Then(Assigned(e.i, e.n), LAMBDA r :
           Done([k |-> "setmember", x |-> e.n.x, name |-> e.n.name, y |-> r.n], r.i))
      [] e.n.k = "sub" -> Then(Assigned(e.i, e.n), LAMBDA r :
           Done([k |-> "setsub", x |-> e.n.x, key |-> e.n.key, y |-> r.n], r.i))
      [] e.n.k \in {"call", "must"} -> e
      [] OTHER -> Fail)

-----------------------------------------------------------------------------
RECURSIVE Statement(_), Block(_, _), If(_, _, _), Cases(_, _), Try(_)

\* A block: statements, each ended by newlines, up to a word that cannot begin
\* one.
BlockEnds == {"EOF", "end", "else", "elif", "case", "other", "except"}

Block(i, acc) ==
  IF Kind(i) \in BlockEnds THEN Done(acc, i)
  ELSE Then(Statement(i), LAMBDA s :
         Then(EatNewlines(s.i), LAMBDA n : Block(n.i, Append(acc, s.n))))

\* A colon, newlines and a block.
Body(i) == Then(Eat(i, ":"), LAMBDA c : Then(EatNewlines(c.i), LAMBDA n : Block(n.i, <<>>)))

\* ... and the "end" of the statement the block belongs to.
EndedBody(i) == Then(Body(i), LAMBDA b : Then(Eat(b.i, "end"), LAMBDA e : Done(b.n, e.i)))

\* "if" or "elif", the branches so far and what follows them.
If(i, conds, bodies) ==
  Then(Expr(i + 1, 0), LAMBDA c :
    Then(Body(c.i), LAMBDA b :
      LET cs == Append(conds, c.n)
          bs == Append(bodies, b.n)
          node(else) == [k |-> "if", conds |-> cs, bodies |-> bs, else |-> else]
      IN CASE Kind(b.i) = "end" -> Done(node(None), b.i + 1)
           [] Kind(b.i) = "else" ->
                Then(EndedBody(b.i + 1), LAMBDA e : Done(node([k |-> "block", b |-> e.n]), e.i))
           [] Kind(b.i) = "elif" -> If(b.i, cs, bs)
           [] OTHER -> Fail))

\* The pattern of a case: a tag, with braces that may hold a name to bind.
Pattern(i) ==
  LET node(braces, id) == [tag |-> Val(i), braces |-> braces, id |-> id]
  IN IF Kind(i) # "ID" THEN Fail
     ELSE IF Kind(i + 1) # "{" THEN Done(node(FALSE, None), i + 1)
     ELSE IF Kind(i + 2) = "}" THEN Done(node(TRUE, None), i + 3)
     ELSE Then(Expr(i + 2, 0), LAMBDA e :
            Then(Eat(e.i, "}"), LAMBDA c :
              IF e.n.k # "id" THEN Fail ELSE Done(node(TRUE, e.n), c.i)))

Cases(i, acc) ==
  IF Kind(i) # "case" THEN Done(acc, i)
  ELSE Then(Pattern(i + 1), LAMBDA p :
         Then(Body(p.i), LAMBDA b : Cases(b.i, Append(acc, [pattern |-> p.n, body |-> b.n]))))

\* "other" is the last arm.
Match(i) ==
  Then(Expr(i + 1, 0), LAMBDA x :
    Then(Eat(x.i, ":"), LAMBDA c : Then(EatNewlines(c.i), LAMBDA n :
      Then(Cases(n.i, <<>>), LAMBDA cs :
        LET node(other) == [k |-> "match", x |-> x.n, cases |-> cs.n, other |-> other]
        IN IF Kind(cs.i) = "other"
           THEN Then(EndedBody(cs.i + 1), LAMBDA b : Done(node([k |-> "block", b |-> b.n]), b.i))
           ELSE Then(Eat(cs.i, "end"), LAMBDA e : Done(node(None), e.i))))))

\* try call() alone passes the error on; with a block the call, or the call a
\* declaration is initialized with, is one whose error is handled here.
Caught(s) == IF s.k = "declare" THEN [s EXCEPT !.x.must = TRUE] ELSE [s EXCEPT !.must = TRUE]

Try(i) ==
  Then(Statement(i + 1), LAMBDA s :
    CASE s.n.k \notin {"declare", "call"} \/ (s.n.k = "declare" /\ s.n.x.k # "call") -> Fail
      [] Kind(s.i) # ":" /\ s.n.k = "call" -> Done([s.n EXCEPT !.propagate = TRUE], s.i)
      [] Kind(s.i) # ":" /\ s.n.k # "call" -> Fail
      [] OTHER ->
           Then(Body(s.i), LAMBDA pass :
             Then(Eat(pass.i, "except"), LAMBDA e :
               Then(EndedBody(e.i), LAMBDA err :
                 Done([k |-> "catch", s |-> Caught(s.n), pass |-> pass.n, err |-> err.n], err.i)))))

While(i) ==
  Then(Expr(i + 1, 0), LAMBDA c :
    Then(EndedBody(c.i), LAMBDA b : Done([k |-> "while", c |-> c.n, body |-> b.n], b.i)))

\* for x = a, b:   for x in c:   for x, y in c:
For(i) ==
  LET over(vars, j) ==
        Then(Expr(j, 0), LAMBDA x :
          Then(EndedBody(x.i), LAMBDA b :
            Done([k |-> "forin", vars |-> vars, x |-> x.n, body |-> b.n], b.i)))
  IN CASE Kind(i + 1) # "ID" -> Fail
       [] Kind(i + 1) = "ID" /\ Kind(i + 2) = "in" -> over(<<Val(i + 1)>>, i + 3)
       [] Kind(i + 1) = "ID" /\ Kind(i + 2) = "," ->
            IF Kind(i + 3) = "ID" /\ Kind(i + 4) = "in"
            THEN over(<<Val(i + 1), Val(i + 3)>>, i + 5) ELSE Fail
       [] OTHER ->
            Then(Eat(i + 2, "="), LAMBDA o : Then(Expr(o.i, 0), LAMBDA a :
              Then(Eat(a.i, ","), LAMBDA m : Then(Expr(m.i, 0), LAMBDA b :
                Then(EndedBody(b.i), LAMBDA s :
                  Done([k |-> "for", var |-> Val(i + 1), from |-> a.n, to |-> b.n,
                        body |-> s.n], s.i))))))

Return(i) ==
  IF Kind(i + 1) = "NEWLINE" THEN Done([k |-> "return", x |-> None], i + 1)
  ELSE Then(Expr(i + 1, 0), LAMBDA e : Done([k |-> "return", x |-> e.n], e.i))

Statement(i) ==
  CASE Kind(i) = "return" -> Return(i)
    [] Kind(i) = "if" -> If(i, <<>>, <<>>)
    [] Kind(i) = "match" -> Match(i)
    [] Kind(i) = "while" -> While(i)
    [] Kind(i) = "for" -> For(i)
    [] Kind(i) \in {"break", "continue"} -> Done([k |-> Kind(i)], i + 1)
    [] Kind(i) = "try" -> Try(i)
    [] OTHER -> ExprStatement(i)
-----------------------------------------------------------------------------
\* Declarations.

\* Parameters, optionally foreign; those of extern functions must have a type.
Param(i, extern) ==
  LET name == IF Kind(i) = "foreign" THEN i + 1 ELSE i
      node(type) == [name |-> Val(name), foreign |-> Kind(i) = "foreign", type |-> type]
  IN CASE Kind(name) # "ID" -> Fail
       [] Kind(name) = "ID" /\ Kind(name + 1) = ":" ->
            Then(TypeDesc(name + 2, Outside), LAMBDA t : Done(node(t.n), t.i))
       [] OTHER -> IF extern THEN Fail ELSE Done(node(None), name + 1)

RECURSIVE MoreParams(_, _, _)
MoreParams(i, extern, acc) ==
  IF Kind(i) # "," THEN Done(acc, i)
  ELSE Then(Param(SkipNewlines(i + 1), extern), LAMBDA p :
         MoreParams(p.i, extern, Append(acc, p.n)))

\* A list of parameters, possibly empty.  "foreign" with nothing after it is
\* taken and forgotten.
Params(i, extern) ==
  LET first == IF Kind(i) = "foreign" THEN i + 1 ELSE i IN
    IF Kind(first) # "ID" THEN MoreParams(first, extern, <<>>)
    ELSE Then(Param(i, extern), LAMBDA p : MoreParams(p.i, extern, <<p.n>>))

Function(i, throws) ==
  Then(Eat(i, "func"), LAMBDA f : Then(Eat(f.i, "ID"), LAMBDA id : Then(Eat(id.i, "("), LAMBDA o :
    Then(Params(SkipNewlines(o.i), FALSE), LAMBDA ps :
      Then(Eat(SkipNewlines(ps.i), ")"), LAMBDA c :
        LET result == IF Kind(c.i) = "->" THEN TypeDesc(c.i + 1, Outside) ELSE Done(None, c.i)
        IN Then(result, LAMBDA t : Then(EndedBody(t.i), LAMBDA b :
             Done([name |-> Val(f.i), throws |-> throws, params |-> ps.n, result |-> t.n,
                   hasReturn |-> \E j \in t.i..b.i : Kind(j) = "return", body |-> b.n], b.i))))))))

ExternFunction(i, throws, init) ==
  Then(Eat(i, "ID"), LAMBDA c : Then(Eat(c.i, "as"), LAMBDA a :
    LET name == SkipNewlines(a.i) IN
    Then(Eat(name, "ID"), LAMBDA id : Then(Eat(id.i, "("), LAMBDA o :
      Then(Params(o.i, TRUE), LAMBDA ps : Then(Eat(ps.i, ")"), LAMBDA e : Then(Eat(e.i, "->"),
        LAMBDA ar : Then(TypeDesc(ar.i, Outside), LAMBDA t :
          Done([name |-> Val(name), c |-> Val(i), throws |-> throws, init |-> init,
                params |-> ps.n, result |-> t.n], t.i)))))))))

ExternStruct(i) ==
  Then(Eat(i, "ID"), LAMBDA c : Then(Eat(c.i, "as"), LAMBDA a :
    LET name == SkipNewlines(a.i) IN
    Then(Eat(name, "ID"), LAMBDA id : Done([name |-> Val(name), c |-> Val(i)], id.i))))

\* The head of a declaration with members: keyword, name, colon, newlines.
Heading(i) == Then(Eat(i + 1, "ID"), LAMBDA id : Then(Eat(id.i, ":"), LAMBDA c : EatNewlines(c.i)))

\* Members up to "end": a name, then what Rest parses after it, then newlines.
\* unique refuses a name that is there already.
RECURSIVE Members(_, _, _, _)
Members(i, Rest(_), unique, acc) ==
  CASE Kind(i) = "end" -> Done(acc, i + 1)
    [] Kind(i) = "ID" ->
         IF unique /\ \E j \in DOMAIN acc : acc[j].name = Val(i) THEN Fail
         ELSE Then(Rest(i + 1), LAMBDA r : Then(EatNewlines(r.i), LAMBDA n :
                Members(n.i, Rest, unique, Append(acc, [name |-> Val(i), x |-> r.n]))))
    [] OTHER -> Fail

FieldType(i)  == Then(Eat(i, ":"), LAMBDA c : TypeDesc(c.i, Outside))
Payload(i)    == IF Kind(i) = ":" THEN FieldType(i) ELSE Done(None, i)
Enumerator(i) == Done(None, i)
TableEntry(i) == Then(Eat(i, ":"), LAMBDA c : Expr(c.i, Outside))

Declared(i, members) == Then(members, LAMBDA ms : Done([name |-> Val(i + 1), members |-> ms.n], ms.i))

Struct(i)  == Declared(i, Then(Heading(i), LAMBDA h : Members(h.i, FieldType, FALSE, <<>>)))
Variant(i) == Declared(i, Then(Heading(i), LAMBDA h : Members(h.i, Payload, FALSE, <<>>)))
Enum(i)    == Declared(i, Then(Heading(i), LAMBDA h : Members(h.i, Enumerator, TRUE, <<>>)))

Table(i) ==
  Then(Eat(i + 1, "ID"), LAMBDA id : Then(Eat(id.i, "["), LAMBDA o :
    Then(TypeDesc(o.i, Outside), LAMBDA key : Then(Eat(key.i, "]"), LAMBDA c :
      Then(Eat(c.i, "->"), LAMBDA ar : Then(TypeDesc(ar.i, Outside), LAMBDA val :
        Then(Eat(val.i, ":"), LAMBDA e : Then(EatNewlines(e.i), LAMBDA n :
          Then(Members(n.i, TableEntry, TRUE, <<>>), LAMBDA ms :
            Done([name |-> Val(i + 1), key |-> key.n, val |-> val.n, members |-> ms.n],
                 ms.i))))))))))

\* A global is a declaration; a literal it is initialized with is allocated in
\* the region of the globals.
Literal(x) == x.k \in {"STRING", "STRING_ML", "vec", "fill", "dict", "structnew", "variantnew",
                       "some", "nothing"}

Global(i) ==
  Then(Eat(i + 1, ":="), LAMBDA d : Then(Expr(d.i, Outside), LAMBDA e :
    Done(DeclareNode([k |-> "id", name |-> Val(i), mod |-> <<>>],
                     IF Literal(e.n) THEN [e.n EXCEPT !.alloc = [kind |-> "global", name |-> <<>>]]
                     ELSE e.n, None), e.i)))

\* use "path" as name: the modules were found before, the parser skips it.
Usage(i) ==
  Then(Eat(i + 1, "STRING"), LAMBDA s :
    IF Kind(s.i) = "as" THEN Eat(s.i + 1, "ID") ELSE Done(<<>>, s.i))

\* Prefixes of a declaration, each at most once and in any order.
DeclPrefixes == {"extern", "throws", "init"}

RECURSIVE Prefix(_, _)
Prefix(i, seen) ==
  IF Kind(i) \in DeclPrefixes \ seen THEN Prefix(i + 1, seen \cup {Kind(i)}) ELSE Done(seen, i)

-----------------------------------------------------------------------------
\* Build directives, which carry the platform and profile in force.
Platforms == {<<"all">>, <<"windows">>, <<"linux">>}
Profiles  == {<<"all">>, <<"windows", "-", "x64", "-", "mingw">>, <<"linux", "-", "x64", "-", "gnu">>}

ClosedLine(i, node) == Then(Eat(i, ")"), LAMBDA c : Then(EatNewlines(c.i), LAMBDA n : Done(node, n.i)))

Platform(i) ==
  Then(Eat(i + 1, "("), LAMBDA o :
    IF Kind(o.i) = "ID" /\ Val(o.i) \in Platforms THEN ClosedLine(o.i + 1, Val(o.i)) ELSE Fail)

RECURSIVE Dashed(_, _)
Dashed(i, name) ==
  IF Kind(i) # "-" THEN Done(name, i)
  ELSE Then(Eat(i + 1, "ID"), LAMBDA id : Dashed(id.i, name \o <<"-">> \o Val(i + 1)))

Profile(i) ==
  Then(Eat(i + 1, "("), LAMBDA o : Then(Eat(o.i, "ID"), LAMBDA id :
    Then(Dashed(id.i, Val(o.i)), LAMBDA name :
      IF name.n \in Profiles THEN ClosedLine(name.i, name.n) ELSE Fail)))

BuildDirectives == {"@includedir", "@libdir", "@link", "@copy"}

RECURSIVE Strings(_, _)
Strings(i, acc) ==
  Then(Eat(i, "STRING"), LAMBDA s :
    IF Kind(s.i) = "," THEN Strings(s.i + 1, Append(acc, Val(i)))
    ELSE ClosedLine(s.i, Append(acc, Val(i))))

BuildArgs(i) == Then(Eat(i + 1, "("), LAMBDA o : Strings(o.i, <<>>))

-----------------------------------------------------------------------------
ParseInit ==
  /\ at = 1
  /\ build = [file |-> 0, platform |-> <<"all">>, profile |-> <<"all">>]
  /\ program = [list \in {"globals", "functions", "externFunctions", "structs", "externStructs",
                          "variants", "enums", "tables", "embedded", "directives"} |-> <<>>]
  /\ parse = "parsing"

Ready(kinds) ==
  /\ scan = "scanned" /\ parse = "parsing"
  /\ Kind(at) \in kinds

\* Mutant of Scope: what one file sets stays in force in the next.
ScopeOfProgram == [build EXCEPT !.file = tokens[at].file]

\* The directives in force at the next token: none when it is the first of its
\* file.
Scope ==
  IF build.file = tokens[at].file THEN build
  ELSE [file |-> tokens[at].file, platform |-> <<"all">>, profile |-> <<"all">>]

\* The result r of parsing one item: what it adds and the directives after it.
Parsed(r, added, directives) ==
  /\ IF r.ok
     THEN /\ at' = r.i
          /\ program' = [l \in DOMAIN program |->
                           IF l \in DOMAIN added THEN Append(program[l], added[l]) ELSE program[l]]
          /\ build' = directives
          /\ parse' = parse
     ELSE /\ parse' = "error"
          /\ UNCHANGED <<at, build, program>>
  /\ UNCHANGED lexVars

Add(list, r) == Parsed(r, IF r.ok THEN [l \in {list} |-> r.n] ELSE <<>>, Scope)
Nothing      == [l \in {} |-> <<>>]

SkipNewline   == Ready({"NEWLINE"}) /\ Parsed(Eat(at, "NEWLINE"), Nothing, Scope)
ParseGlobal   == Ready({"ID"}) /\ Add("globals", Global(at))
ParseVariant  == Ready({"variant"}) /\ Add("variants", Variant(at))
ParseEnum     == Ready({"enum"}) /\ Add("enums", Enum(at))
ParseTable    == Ready({"table"}) /\ Add("tables", Table(at))
SkipUsage     == Ready({"use"}) /\ Parsed(Usage(at), Nothing, Scope)
ParseEmbedded == Ready({"EMBED"}) /\ Add("embedded", Done(Val(at), at + 1))

\* extern and throws before func, extern init before func, extern before
\* struct.
ParseDeclaration ==
  /\ Ready(DeclPrefixes \cup {"func", "struct"})
  /\ LET px == Prefix(at, {})
         extern == "extern" \in px.n  throws == "throws" \in px.n  init == "init" \in px.n
     IN CASE Kind(px.i) = "func" /\ extern ->
               IF throws /\ init THEN Add("externFunctions", Fail)
               ELSE Add("externFunctions", ExternFunction(px.i + 1, throws, init))
          [] Kind(px.i) = "func" /\ ~extern ->
               Add("functions", IF init THEN Fail ELSE Function(px.i, throws))
          [] Kind(px.i) = "struct" ->
               IF throws \/ init THEN Add("structs", Fail)
               ELSE IF extern THEN Add("externStructs", ExternStruct(px.i + 1))
               ELSE Add("structs", Struct(px.i))
          [] OTHER -> Add("functions", Fail)

SetPlatform ==
  /\ Ready({"@platform"})
  /\ LET r == Platform(at) IN
       Parsed(r, Nothing, IF r.ok THEN [Scope EXCEPT !.platform = r.n] ELSE Scope)

SetProfile ==
  /\ Ready({"@profile"})
  /\ LET r == Profile(at) IN
       Parsed(r, Nothing, IF r.ok THEN [Scope EXCEPT !.profile = r.n] ELSE Scope)

ParseBuildDirective ==
  /\ Ready(BuildDirectives)
  /\ Add("directives",
         Then(BuildArgs(at), LAMBDA r :
           Done([kind |-> Kind(at), platform |-> Scope.platform, profile |-> Scope.profile,
                 args |-> r.n], r.i)))

ItemKinds ==
  {"NEWLINE", "ID", "variant", "enum", "table", "use", "EMBED", "func", "struct", "@platform",
   "@profile", "EOF"} \cup DeclPrefixes \cup BuildDirectives

Unhandled ==
  /\ scan = "scanned" /\ parse = "parsing"
  /\ Kind(at) \notin ItemKinds
  /\ Parsed(Fail, Nothing, Scope)

EndOfTokens ==
  /\ Ready({"EOF"})
  /\ parse' = "parsed"
  /\ UNCHANGED <<lexVars, at, build, program>>

ParseNext ==
  \/ SkipNewline \/ ParseGlobal \/ ParseVariant \/ ParseEnum \/ ParseTable \/ SkipUsage
  \/ ParseEmbedded \/ ParseDeclaration \/ SetPlatform \/ SetProfile \/ ParseBuildDirective
  \/ Unhandled \/ EndOfTokens
==============================================================================
