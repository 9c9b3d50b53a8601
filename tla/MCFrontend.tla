----------------------------- MODULE MCFrontend -----------------------------
(* Instances of Frontend: texts of few atoms, and programs of small trees.   *)
EXTENDS Frontend

\* Levels of precedence, from docs/grammar.md: a tree in a place that asks for
\* a higher level is written in parentheses.
LevelOf(e) ==
  CASE e.k = "ternary" -> 0
    [] e.k = "binop" /\ e.op = "or" -> 1
    [] e.k = "binop" /\ e.op = "and" -> 2
    [] e.k \in {"isopt", "istag"} -> 3
    [] e.k = "binop" /\ e.op \in {"<", "==", ">="} -> 4
    [] e.k = "binop" /\ e.op \in {"+", "-"} -> 5
    [] e.k = "binop" /\ e.op \in {"*", "%"} -> 6
    [] e.k \in {"unop", "must"} -> 7
    [] OTHER -> 8

At0(level, e) == IF LevelOf(e) < level THEN [k |-> "group", x |-> e] ELSE e

Composite(e) == "alloc" \in DOMAIN e /\ e.alloc = NoSuffix

A == [k |-> "id", name |-> <<"a">>, mod |-> <<>>]
Q == [k |-> "id", name |-> <<"x">>, mod |-> <<"p">>]
N == [k |-> "INT", val |-> <<"1", "0">>]
Call(x) == CallNode(<<"r">>, <<>>, <<x>>, FALSE)

BinOps == {"or", "and", "<", "==", ">=", "+", "-", "*", "%"}
Bin(op, l, r) ==
  LET level == LevelOf([k |-> "binop", op |-> op])
  IN [k |-> "binop", op |-> op, l |-> At0(level, l), r |-> At0(level + 1, r)]

\* Every form of expression with x in one of its places and y in the others.
Operators(x, y) ==
  {Bin(op, x, y) : op \in BinOps} \cup {Bin(op, y, x) : op \in BinOps} \cup
  {[k |-> "unop", op |-> op, x |-> At0(7, x)] : op \in {"not", "-"}} \cup
  {[k |-> "isopt", x |-> At0(4, x), some |-> TRUE],
   [k |-> "istag", x |-> At0(4, x), tag |-> <<"t">>],
   [k |-> "ternary", x |-> At0(1, x), c |-> y, y |-> y],
   [k |-> "ternary", x |-> At0(1, y), c |-> x, y |-> y],
   [k |-> "ternary", x |-> At0(1, y), c |-> y, y |-> x]}

Base(x) == IF Composite(x) THEN [k |-> "group", x |-> x] ELSE At0(8, x)

Postfixes(x, y) ==
  {[k |-> "member", x |-> Base(x), name |-> <<"e">>],
   [k |-> "unwrap", x |-> Base(x)],
   [k |-> "must", x |-> [Call(x) EXCEPT !.must = TRUE]],
   [k |-> "must", x |-> [CallNode(<<"r">>, <<>>, <<Base(x), y>>, TRUE) EXCEPT !.must = TRUE]],
   CallNode(<<"r">>, <<"p">>, <<x, y>>, FALSE),
   CallNode(<<"r">>, <<>>, <<Base(x), y>>, TRUE),
   [k |-> "sub", x |-> Base(x), key |-> y],
   [k |-> "sub", x |-> Base(y), key |-> x],
   [k |-> "slice", x |-> Base(x), from |-> None, to |-> y],
   [k |-> "slice", x |-> Base(y), from |-> x, to |-> None],
   [k |-> "slice", x |-> Base(y), from |-> y, to |-> x]}

AllSuffixes == {NoSuffix, [kind |-> "implicit", name |-> <<>>],
             [kind |-> "region", name |-> <<"r">>], [kind |-> "container", name |-> <<"a">>]}

Composites(x, y, alloc) ==
  {[k |-> "vec", elems |-> <<x, y>>, alloc |-> alloc],
   [k |-> "vec", elems |-> <<x>>, alloc |-> alloc],
   [k |-> "fill", size |-> y, x |-> x, alloc |-> alloc],
   [k |-> "dict", keys |-> <<x, y>>, vals |-> <<y, x>>, alloc |-> alloc],
   [k |-> "some", x |-> x, alloc |-> alloc],
   [k |-> "nothing", alloc |-> alloc],
   [k |-> "STRING", val |-> <<<<"a">>, <<"esc", "n">>>>, alloc |-> alloc],
   [k |-> "STRING_ML", val |-> <<"a", "\n", "\"", "e">>, alloc |-> alloc],
   [k |-> "structnew", id |-> [name |-> <<"C">>, mod |-> <<>>],
    inits |-> [f \in {<<"a">>, <<"e">>} |-> IF f = <<"a">> THEN x ELSE y], alloc |-> alloc],
   [k |-> "variantnew", id |-> [name |-> <<"C">>, mod |-> <<"p">>], tag |-> <<"t">>, x |-> x,
    alloc |-> alloc],
   [k |-> "variantnew", id |-> [name |-> <<"C">>, mod |-> <<>>], tag |-> <<"t">>, x |-> None,
    alloc |-> alloc]}

Atoms == {A, Q, N, [k |-> "FLOAT", val |-> <<"1", ".", "0">>], [k |-> "CHAR", val |-> <<"esc", "0">>],
          [k |-> "CHAR", val |-> <<"a">>], [k |-> "bool", val |-> "true"],
          [k |-> "regionof", name |-> <<"a">>], [k |-> "localregion"]}

Shallow == Operators(A, N) \cup Postfixes(A, N) \cup Composites(A, N, NoSuffix)

\* Expressions of depth two, and literals with every suffix.
Expressions ==
  Atoms \cup (UNION {Composites(A, N, s) : s \in AllSuffixes})
  \cup UNION {Operators(e, N) \cup Postfixes(e, N) : e \in Shallow}
  \cup UNION {Composites(e, N, NoSuffix) : e \in Shallow \cup Atoms}

-----------------------------------------------------------------------------
Type(name) == [k |-> "type", con |-> "", of |-> [name |-> name, mod |-> <<>>], alloc |-> NoSuffix]
Types ==
  {Type(<<"C">>), [k |-> "type", con |-> "Vec", of |-> Type(<<"C">>), alloc |-> NoSuffix],
   [k |-> "type", con |-> "Dict", of |-> [k |-> "type", con |-> "Option", of |-> Type(<<"C">>),
                                          alloc |-> NoSuffix],
    alloc |-> [kind |-> "region", name |-> <<"r">>]]}

\* Statements without a block, and with the given blocks.
Simples ==
  {DeclareNode(A, Call(N), None), DeclareNode(A, [Call(N) EXCEPT !.propagate = TRUE], None),
   DeclareNode(A, None, [Type(<<"C">>) EXCEPT !.alloc = [kind |-> "region", name |-> <<"r">>]]),
   [k |-> "assign", id |-> Q, x |-> [Call(N) EXCEPT !.propagate = TRUE]],
   [k |-> "assign", id |-> A, x |-> Bin("+", A, N)],
   [k |-> "setmember", x |-> A, name |-> <<"e">>, y |-> N],
   [k |-> "setsub", x |-> [k |-> "member", x |-> A, name |-> <<"e">>], key |-> N, y |-> A],
   Call(A), [Call(A) EXCEPT !.propagate = TRUE],
   [k |-> "must", x |-> [Call(A) EXCEPT !.must = TRUE]],
   [k |-> "break"], [k |-> "continue"],
   [k |-> "return", x |-> None], [k |-> "return", x |-> Bin("or", A, A)]}
  \cup {DeclareNode(A, x, t) : x \in {N, None}, t \in Types \ {t \in Types : HasSuffix(t)}}

Block1(b) == [k |-> "block", b |-> b]
Cond == Bin("<", A, N)
Arm(tag, braces, id, b) == [pattern |-> [tag |-> tag, braces |-> braces, id |-> id], body |-> b]

Compounds(b, c) ==
  {[k |-> "if", conds |-> <<Cond>>, bodies |-> <<b>>, else |-> None],
   [k |-> "if", conds |-> <<Cond>>, bodies |-> <<b>>, else |-> Block1(c)],
   [k |-> "if", conds |-> <<Cond, A>>, bodies |-> <<b, c>>, else |-> None],
   [k |-> "if", conds |-> <<Cond, A, Q>>, bodies |-> <<b, c, b>>, else |-> Block1(c)],
   [k |-> "while", c |-> Cond, body |-> b],
   [k |-> "for", var |-> <<"a">>, from |-> N, to |-> Cond, body |-> b],
   [k |-> "forin", vars |-> <<<<"a">>>>, x |-> Q, body |-> b],
   [k |-> "forin", vars |-> <<<<"a">>, <<"e">>>>, x |-> Call(A), body |-> b],
   [k |-> "match", x |-> A, cases |-> <<Arm(<<"t">>, FALSE, None, b), Arm(<<"n">>, TRUE, A, c)>>,
    other |-> None],
   [k |-> "match", x |-> A, cases |-> <<Arm(<<"t">>, TRUE, None, b)>>, other |-> Block1(c)],
   [k |-> "match", x |-> A, cases |-> <<>>, other |-> None],
   [k |-> "catch", s |-> [Call(A) EXCEPT !.must = TRUE], pass |-> b, err |-> c],
   [k |-> "catch", s |-> DeclareNode(A, [Call(A) EXCEPT !.must = TRUE], None), pass |-> b,
    err |-> c]}

Bodies ==
  {<<s>> : s \in Simples} \cup {<<Call(A), s>> : s \in Compounds(<<>>, <<Call(N)>>)}

Statements ==
  Simples \cup UNION {Compounds(b, <<>>) \cup Compounds(<<>>, b) : b \in Bodies}

-----------------------------------------------------------------------------
\* Does a block hold a return statement?
RECURSIVE Returns(_)
Returns(body) ==
  \E i \in DOMAIN body : LET s == body[i] IN
    \/ s.k = "return"
    \/ "body" \in DOMAIN s /\ Returns(s.body)
    \/ s.k = "if" /\ \E j \in DOMAIN s.bodies : Returns(s.bodies[j])
    \/ s.k = "match" /\ \E j \in DOMAIN s.cases : Returns(s.cases[j].body)
    \/ s.k = "catch" /\ (Returns(s.pass) \/ Returns(s.err))
    \/ \E f \in {"else", "other"} \cap DOMAIN s : s[f].k = "block" /\ Returns(s[f].b)

Item(list, n) == [list |-> list, n |-> n]
Fun(throws, params, result, body) ==
  [name |-> <<"a">>, throws |-> throws, params |-> params, result |-> result,
   hasReturn |-> Returns(body), body |-> body]
Par(name, foreign, type) == [name |-> name, foreign |-> foreign, type |-> type]
Member(name, x) == [name |-> name, x |-> x]
InGlobalRegion(e) ==
  IF Literal(e) THEN [e EXCEPT !.alloc = [kind |-> "global", name |-> <<>>]] ELSE e

Declarations ==
  {Item("functions", Fun(throws, ps, t, <<>>)) :
     throws \in BOOLEAN, t \in Types \cup {None},
     ps \in {<<>>, <<Par(<<"a">>, FALSE, None)>>,
             <<Par(<<"a">>, TRUE, Type(<<"C">>)), Par(<<"e">>, TRUE, None)>>}}
  \cup {Item("externFunctions", [name |-> <<"a">>, c |-> <<"C">>, throws |-> th, init |-> init,
               params |-> ps, result |-> Type(<<"C">>)]) :
          th \in {FALSE, TRUE}, init \in {FALSE},
          ps \in {<<>>, <<Par(<<"a">>, TRUE, Type(<<"C">>)), Par(<<"e">>, FALSE, Type(<<"C">>))>>}}
  \cup {Item("externFunctions", [name |-> <<"a">>, c |-> <<"C">>, throws |-> FALSE, init |-> TRUE,
               params |-> <<>>, result |-> Type(<<"C">>)]),
        Item("externStructs", [name |-> <<"a">>, c |-> <<"C">>]),
        Item("enums", [name |-> <<"a">>, members |-> <<Member(<<"t">>, None), Member(<<"n">>, None)>>]),
        Item("embedded", <<"a", "\n">>), Item("embedded", <<>>)}
  \cup {Item("structs", [name |-> <<"a">>, members |-> ms]) :
          ms \in {<<>>} \cup {<<Member(<<"e">>, t), Member(<<"n">>, Type(<<"C">>))>> : t \in Types}}
  \cup {Item("variants", [name |-> <<"a">>, members |-> <<Member(<<"t">>, t), Member(<<"n">>, None)>>]) :
          t \in Types}
  \cup {Item("tables", [name |-> <<"a">>, key |-> Type(<<"C">>), val |-> t,
                        members |-> <<Member(<<"t">>, N), Member(<<"n">>, Call(N))>>]) : t \in Types}

Build(kind, args) == Item("directives", [kind |-> kind, args |-> args])
S1 == <<<<"a">>>>
Linked(kind) == Build(kind, <<S1, S1>>)

\* Files of build directives.
Settings ==
  {Item("platform", <<"linux">>), Item("platform", <<"all">>),
   Item("profile", <<"linux", "-", "x64", "-", "gnu">>), Linked("@link"), Linked("@copy"),
   Item("use", [path |-> S1, name |-> <<"p">>]), Item("structs", [name |-> <<"a">>, members |-> <<>>])}

SettingFiles ==
  {<<<<s>>, <<t>>>> : s \in Settings, t \in Settings} \cup
  {<<<<s>>, <<t, Build("@link", <<S1>>)>>>> : s \in Settings, t \in Settings}

MCItems ==
  {<<<<Item("functions", Fun(FALSE, <<>>, None, <<DeclareNode(A, e, None)>>))>>>> : e \in Expressions}
  \cup {<<<<Item("functions", Fun(FALSE, <<>>, None, <<Call(A), s>>))>>>> : s \in Statements}
  \cup {<<<<d, Item("globals", DeclareNode(A, InGlobalRegion(e), None))>>>> :
          d \in Declarations, e \in {N, [k |-> "nothing", alloc |-> NoSuffix]}}
  \cup {<<<<Item("globals", DeclareNode(A, InGlobalRegion(e), None))>>>> : e \in Shallow}
  \cup SettingFiles

\* Texts of up to three atoms, and of four of the atoms that begin something, on
\* a line of their own; and some whose last line is not ended.
Chars == {"a", "e", "x", "is", "_", "0", "1", ".", "+", "-", ">", "=", ":", "/", "\"", "'", "\\", " ",
          "\r", "\n", "@", "@link", "@embed", "@end", "?"}
FewChars == {"a", "e", "0", "_", ".", "/", "=", "\"", "'", "\\"}

SeqOf4(S) == {<<a, b, c, d>> : a \in S, b \in S, c \in S, d \in S}

MCTexts ==
  {<<t \o <<"\n">>>> : t \in {<<a, b, c>> : a \in Chars, b \in Chars, c \in Chars} \cup SeqOf4(FewChars)}
  \cup {<<<<"\n", a, b>>>> : a \in Chars, b \in Chars}
=============================================================================
