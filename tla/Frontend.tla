------------------------------ MODULE Frontend ------------------------------
(***************************************************************************)
(* The scanner and the parser of the seed compiler in a row, against what   *)
(* docs/grammar.md says.  A program is given either as texts alone, or as   *)
(* the items it consists of together with the texts that write them down;   *)
(* then parsing has to give the items back.                                 *)
(***************************************************************************)
EXTENDS Parser, SequencesExt

CONSTANTS
  Texts,        \* programs given as texts
  Items         \* programs given as items: sequences of files, each a sequence of items

VARIABLE source     \* for every file its items, or <<>> when only texts are given

vars == <<lexVars, parseVars, source>>

-----------------------------------------------------------------------------
(* How a tree is written down: a sequence of token texts, each a sequence   *)
(* of atoms.  The empty text is a place where a line may be broken.         *)

Tok(atom)  == <<<<atom>>>>
Break      == <<<<>>>>
LineEnd    == Tok("\n")

\* A token of one or two characters.
Sign(op) ==
  IF \E t \in TwoCharOperators : t[1] \o t[2] = op
  THEN <<CHOOSE t \in TwoCharOperators : t[1] \o t[2] = op>>
  ELSE Tok(op)

Join(texts, separator) ==
  FoldLeft(LAMBDA acc, t : IF acc = <<>> THEN t ELSE acc \o separator \o t, <<>>, texts)

\* A character of a literal, perhaps an escape.
CharText(c) == IF c[1] = "esc" THEN <<"\\", c[2]>> ELSE c

StringText(val) ==
  <<<<"\"">> \o FlattenSeq([i \in DOMAIN val |-> CharText(val[i])]) \o <<"\"">>>>

SuffixText(alloc) ==
  CASE alloc.kind \in {"local", "global"} -> <<>>
    [] alloc.kind = "implicit"  -> Tok("@")
    [] alloc.kind = "region"    -> Tok("[") \o <<alloc.name>> \o Tok("]")
    [] alloc.kind = "container" -> Tok("[") \o Tok(".") \o <<alloc.name>> \o Tok("]")

NameText(id) == (IF id.mod = <<>> THEN <<>> ELSE <<id.mod>> \o Sign("::")) \o <<id.name>>

RECURSIVE Text(_), TypeText(_)

List(open, nodes, close) ==
  Tok(open) \o Break \o Join([i \in DOMAIN nodes |-> Text(nodes[i])], Tok(",") \o Break)
            \o Break \o Tok(close)

\* The fields of a struct literal, in the order of their names and with a comma
\* after the last.
FieldsText(inits) ==
  LET names == SetToSeq(DOMAIN inits)
  IN Join([i \in DOMAIN names |-> <<names[i]>> \o Tok("=") \o Text(inits[names[i]])],
          Tok(",") \o Break) \o Break \o Tok(",")

Text(e) ==
  CASE e.k = "none" -> <<>>
    [] e.k \in {"INT", "FLOAT"} -> <<e.val>>
    [] e.k = "CHAR" -> <<<<"'">> \o CharText(e.val) \o <<"'">>>>
    [] e.k = "bool" -> Tok(e.val)
    [] e.k = "STRING" -> StringText(e.val) \o SuffixText(e.alloc)
    [] e.k = "STRING_ML" ->
         <<<<"\"", "\"", "\"">> \o e.val \o <<"\"", "\"", "\"">>>> \o SuffixText(e.alloc)
    [] e.k = "id" -> NameText(e)
    [] e.k = "group" -> Tok("(") \o Text(e.x) \o Tok(")")
    [] e.k = "regionof" -> Tok(".") \o <<e.name>>
    [] e.k = "localregion" -> Tok("_")
    [] e.k = "nothing" -> Tok("None") \o SuffixText(e.alloc)
    [] e.k = "some" -> Tok("Some") \o Tok("{") \o Text(e.x) \o Break \o Tok("}")
                       \o SuffixText(e.alloc)
    [] e.k = "vec" -> List("[", e.elems, "]") \o SuffixText(e.alloc)
    [] e.k = "fill" -> Tok("[") \o Break \o Text(e.size) \o Tok("of") \o Text(e.x) \o Break
                       \o Tok("]") \o SuffixText(e.alloc)
    [] e.k = "dict" ->
         Tok("{") \o Break
         \o Join([i \in DOMAIN e.keys |-> Text(e.keys[i]) \o Tok(":") \o Text(e.vals[i])],
                 Tok(",") \o Break)
         \o Break \o Tok("}") \o SuffixText(e.alloc)
    [] e.k = "structnew" -> NameText(e.id) \o Tok("{") \o Break \o FieldsText(e.inits)
                            \o Tok("}") \o SuffixText(e.alloc)
    [] e.k = "variantnew" -> NameText(e.id) \o Tok(".") \o <<e.tag>> \o Tok("{") \o Break
                             \o Text(e.x) \o Break \o Tok("}") \o SuffixText(e.alloc)
    [] e.k = "call" /\ ~e.ufc ->
         (IF e.propagate THEN Tok("try") ELSE <<>>)
         \o NameText(e) \o (IF e.args = <<>> THEN Tok("(") \o Tok(")") ELSE List("(", e.args, ")"))
    [] e.k = "call" /\ e.ufc ->
         Text(e.args[1]) \o Tok(".") \o <<e.name>> \o List("(", Tail(e.args), ")")
    [] e.k = "member" -> Text(e.x) \o Tok(".") \o <<e.name>>
    [] e.k = "sub" -> Text(e.x) \o Tok("[") \o Text(e.key) \o Tok("]")
    [] e.k = "slice" -> Text(e.x) \o Tok("[") \o Text(e.from) \o Tok(":") \o Text(e.to) \o Tok("]")
    [] e.k = "unwrap" -> Text(e.x) \o Tok("?")
    [] e.k = "must" -> IF e.x.ufc THEN Text(e.x) \o Tok("!") ELSE Tok("must") \o Text(e.x)
    [] e.k = "unop" -> Tok(e.op) \o Text(e.x)
    [] e.k = "isopt" -> Text(e.x) \o Tok("is") \o Tok(IF e.some THEN "Some" ELSE "None")
    [] e.k = "istag" -> Text(e.x) \o Tok("is") \o <<e.tag>>
    [] e.k = "binop" -> Text(e.l) \o Sign(e.op) \o Text(e.r)
    [] e.k = "ternary" -> Text(e.x) \o Tok("if") \o Text(e.c) \o Tok("else") \o Text(e.y)

TypeText(t) ==
  (IF t.con = "" THEN NameText(t.of)
   ELSE Tok(t.con) \o Tok("[") \o TypeText(t.of) \o Tok("]")) \o SuffixText(t.alloc)

-----------------------------------------------------------------------------
RECURSIVE StatementText(_), BlockText(_)

BlockText(b) == FlattenSeq([i \in DOMAIN b |-> StatementText(b[i]) \o LineEnd])
BodyText(b)  == Tok(":") \o LineEnd \o BlockText(b)
ElseText(word, block) == IF block.k = "none" THEN <<>> ELSE Tok(word) \o BodyText(block.b)

PatternText(p) ==
  <<p.tag>> \o (IF p.braces THEN Tok("{") \o Text(p.id) \o Tok("}") ELSE <<>>)

DeclareText(s) ==
  IF s.type.k = "none" THEN Text(s.id) \o Sign(":=") \o Text(s.x)
  ELSE Text(s.id) \o Tok(":") \o TypeText(s.type)
       \o (IF s.x.k = "none" THEN <<>> ELSE Tok("=") \o Text(s.x))

StatementText(s) ==
  CASE s.k = "declare" -> DeclareText(s)
    [] s.k = "assign" -> Text(s.id) \o Tok("=") \o Text(s.x)
    [] s.k = "setmember" -> Text(s.x) \o Tok(".") \o <<s.name>> \o Tok("=") \o Text(s.y)
    [] s.k = "setsub" -> Text(s.x) \o Tok("[") \o Text(s.key) \o Tok("]") \o Tok("=") \o Text(s.y)
    [] s.k \in {"call", "must"} -> Text(s)
    [] s.k \in {"break", "continue"} -> Tok(s.k)
    [] s.k = "return" -> Tok("return") \o Text(s.x)
    [] s.k = "if" ->
         FlattenSeq([i \in DOMAIN s.conds |->
           Tok(IF i = 1 THEN "if" ELSE "elif") \o Text(s.conds[i]) \o BodyText(s.bodies[i])])
         \o ElseText("else", s.else) \o Tok("end")
    [] s.k = "while" -> Tok("while") \o Text(s.c) \o BodyText(s.body) \o Tok("end")
    [] s.k = "for" -> Tok("for") \o <<s.var>> \o Tok("=") \o Text(s.from) \o Tok(",") \o Text(s.to)
                      \o BodyText(s.body) \o Tok("end")
    [] s.k = "forin" -> Tok("for") \o Join([i \in DOMAIN s.vars |-> <<s.vars[i]>>], Tok(","))
                        \o Tok("in") \o Text(s.x) \o BodyText(s.body) \o Tok("end")
    [] s.k = "match" ->
         Tok("match") \o Text(s.x) \o Tok(":") \o LineEnd
         \o FlattenSeq([i \in DOMAIN s.cases |->
              Tok("case") \o PatternText(s.cases[i].pattern) \o BodyText(s.cases[i].body)])
         \o ElseText("other", s.other) \o Tok("end")
    [] s.k = "catch" ->
         Tok("try") \o StatementText(s.s) \o BodyText(s.pass)
         \o Tok("except") \o BodyText(s.err) \o Tok("end")

-----------------------------------------------------------------------------
ParamsText(ps) ==
  Join([i \in DOMAIN ps |-> (IF ps[i].foreign THEN Tok("foreign") ELSE <<>>) \o <<ps[i].name>>
          \o (IF "con" \in DOMAIN ps[i].type THEN Tok(":") \o TypeText(ps[i].type) ELSE <<>>)],
       Tok(",") \o Break)

ResultText(t) == IF "con" \in DOMAIN t THEN Sign("->") \o TypeText(t) ELSE <<>>

MembersText(ms, TextOf(_)) ==
  FlattenSeq([i \in DOMAIN ms |-> <<ms[i].name>> \o TextOf(ms[i].x) \o LineEnd])

PayloadText(x) == IF "con" \in DOMAIN x THEN Tok(":") \o TypeText(x) ELSE <<>>
EntryText(x)   == Tok(":") \o Text(x)
NoText(x)      == <<>>

\* An item: the list of the program it is for, and its node.
ItemText(item) ==
  LET n == item.n IN
  CASE item.list = "globals" -> DeclareText(n) \o LineEnd
    [] item.list = "functions" ->
         (IF n.throws THEN Tok("throws") ELSE <<>>) \o Tok("func") \o <<n.name>> \o Tok("(") \o Break
         \o ParamsText(n.params) \o Break \o Tok(")") \o ResultText(n.result)
         \o BodyText(n.body) \o Tok("end") \o LineEnd
    [] item.list = "externFunctions" ->
         Tok("extern") \o (IF n.throws THEN Tok("throws") ELSE <<>>)
         \o (IF n.init THEN Tok("init") ELSE <<>>) \o Tok("func") \o <<n.c>> \o Tok("as") \o Break
         \o <<n.name>> \o Tok("(") \o ParamsText(n.params) \o Tok(")") \o ResultText(n.result)
         \o LineEnd
    [] item.list = "externStructs" ->
         Tok("extern") \o Tok("struct") \o <<n.c>> \o Tok("as") \o Break \o <<n.name>> \o LineEnd
    [] item.list \in {"structs", "variants"} ->
         Tok(IF item.list = "structs" THEN "struct" ELSE "variant") \o <<n.name>> \o Tok(":")
         \o LineEnd \o MembersText(n.members, PayloadText) \o Tok("end") \o LineEnd
    [] item.list = "enums" ->
         Tok("enum") \o <<n.name>> \o Tok(":") \o LineEnd \o MembersText(n.members, NoText)
         \o Tok("end") \o LineEnd
    [] item.list = "tables" ->
         Tok("table") \o <<n.name>> \o Tok("[") \o TypeText(n.key) \o Tok("]") \o ResultText(n.val)
         \o Tok(":") \o LineEnd \o MembersText(n.members, EntryText) \o Tok("end") \o LineEnd
    [] item.list = "embedded" -> <<<<"@embed", "{", "C", "}", "\n">> \o n \o <<"C", "\n">>>>
    [] item.list = "directives" ->
         Tok(n.kind) \o Tok("(") \o Join([i \in DOMAIN n.args |-> StringText(n.args[i])], Tok(","))
         \o Tok(")") \o LineEnd
    [] item.list \in {"platform", "profile"} ->
         Tok("@" \o item.list) \o Tok("(") \o Join([i \in DOMAIN n |-> <<<<n[i]>>>>], <<>>)
         \o Tok(")") \o LineEnd
    [] item.list = "use" -> Tok("use") \o StringText(n.path)
         \o (IF n.name = <<>> THEN <<>> ELSE Tok("as") \o <<n.name>>) \o LineEnd

-----------------------------------------------------------------------------
(* Layouts.  Two tokens are kept apart where their texts would run together. *)

RunTogether(s, t) ==
  \/ Last(s) \in WordAtoms /\ Head(t) \in WordAtoms
  \/ <<Last(s), Head(t)>> \in TwoCharOperators \cup {<<"/", "/">>}

Layouts == {"tight", "broken"}

\* A tight layout has the blanks it needs; in a broken one every token is after a
\* blank and lines end wherever they may, in \r\n and after a comment.
Lay(layout, texts) ==
  FoldLeft(LAMBDA acc, t :
    CASE t = <<>> -> IF layout = "broken" THEN acc \o <<"\n">> ELSE acc
      [] t = <<"\n">> /\ layout = "broken" -> acc \o <<"\t", "/", "/", "a", "\r", "\n">>
      [] acc = <<>> -> t
      [] layout = "tight" ->
           IF RunTogether(acc, t) THEN acc \o <<" ">> \o t ELSE acc \o t
      [] OTHER -> acc \o <<" ">> \o t,
    <<>>, texts)

Written(layout, items) == Lay(layout, FlattenSeq([i \in DOMAIN items |-> ItemText(items[i])]))

-----------------------------------------------------------------------------
FrontendInit ==
  /\ \/ source = <<>> /\ files \in Texts
     \/ /\ source \in Items
        /\ \E layout \in Layouts :
             files = [f \in DOMAIN source |-> Written(layout, source[f])]
  /\ LexInit /\ ParseInit

Next == (LexNext /\ UNCHANGED <<parseVars, source>>) \/ (ParseNext /\ UNCHANGED source)

Spec == FrontendInit /\ [][Next]_vars

-----------------------------------------------------------------------------
(* What the grammar says. *)

Ended == scan \in {"error", "overrun"} \/ parse # "parsing"

\* The lists of the program that the items of all files make.  A directive has
\* the platform and profile last named before it in its own file.
InForce(f, i, list) ==
  LET before == {j \in 1..(i - 1) : source[f][j].list = list}
  IN IF before = {} THEN <<"all">> ELSE source[f][CHOOSE j \in before : \A l \in before : l <= j].n

NodeOf(f, i) ==
  LET item == source[f][i] IN
  IF item.list # "directives" THEN item.n
  ELSE [kind |-> item.n.kind, args |-> item.n.args,
        platform |-> InForce(f, i, "platform"), profile |-> InForce(f, i, "profile")]

Expected ==
  [list \in DOMAIN program |->
     FlattenSeq([f \in DOMAIN source |->
       LET here == SelectSeq([i \in DOMAIN source[f] |-> i], LAMBDA i : source[f][i].list = list)
       IN [j \in DOMAIN here |-> NodeOf(f, here[j])]])]

\* A program written down from its items, in any layout, is parsed to these
\* items: operators bind and associate as the grammar says, nothing is lost,
\* read twice or put elsewhere (docs/grammar.md; lexer.c and parser.c as a
\* whole).
GrammarParsed == source # <<>> /\ Ended => parse = "parsed" /\ program = Expected

\* The lexemes of docs/grammar.md.
DigitSequence(s) ==
  /\ s # <<>> /\ Head(s) \in Digits /\ Last(s) \in Digits
  /\ \A i \in DOMAIN s : s[i] \in Digits \/ (s[i] = "_" /\ s[i + 1] \in Digits)

Exponent(s) ==
  /\ s # <<>> /\ Head(s) = "e"
  /\ LET r == Tail(s) IN
       DigitSequence(IF r # <<>> /\ Head(r) \in {"+", "-"} THEN Tail(r) ELSE r)

Fraction(s) == s # <<>> /\ Head(s) = "." /\ DigitSequence(Tail(s))

\* s is the concatenation of a p, a q and an r.
Splits(s, p(_), q(_), r(_)) ==
  \E i \in 0..Len(s) : \E j \in i..Len(s) :
    p(SubSeq(s, 1, i)) /\ q(SubSeq(s, i + 1, j)) /\ r(SubSeq(s, j + 1, Len(s)))

Absent(s) == s = <<>>

Escapes ==
  {<<"\\", c>> : c \in {"n", "t", "r", "\\", "'", "\""}} \cup
  {<<"\\", "x", a, b>> : a \in Digits \cup HexLetters, b \in Digits \cup HexLetters}
NulEscapes == {<<"\\", "0">>, <<"\\", "x", "0", "0">>}

RECURSIVE StringChars(_)
StringChars(s) ==
  \/ s = <<>>
  \/ Head(s) \notin {"\"", "\n", "\\"} /\ StringChars(Tail(s))
  \/ \E e \in Escapes \ NulEscapes : IsPrefix(e, s) /\ StringChars(SubSeq(s, Len(e) + 1, Len(s)))

Quotes == <<"\"", "\"", "\"">>

Lexeme(kind, s) ==
  CASE kind = "INT" -> DigitSequence(s)
    [] kind = "FLOAT" -> \/ Splits(s, DigitSequence, Fraction, Absent)
                         \/ Splits(s, DigitSequence, Fraction, Exponent)
                         \/ Splits(s, DigitSequence, Absent, Exponent)
    [] kind = "STRING" -> /\ Len(s) > 1 /\ Head(s) = "\"" /\ Last(s) = "\""
                          /\ StringChars(SubSeq(s, 2, Len(s) - 1))
    [] kind = "STRING_ML" -> /\ Len(s) >= 6 /\ IsPrefix(Quotes, s) /\ IsSuffix(Quotes, s)
                             /\ \A i \in 4..(Len(s) - 3) : SubSeq(s, i, i + 2) # Quotes
    [] kind = "CHAR" -> /\ Len(s) > 2 /\ Head(s) = "'" /\ Last(s) = "'"
                        /\ LET c == SubSeq(s, 2, Len(s) - 1) IN
                             (Len(c) = 1 /\ c # <<"\\">>) \/ c \in Escapes \cup NulEscapes
    [] kind = "NEWLINE" -> s = <<"\n">>
    [] kind = "ID" -> /\ s # <<>> /\ Head(s) \in WordStart
                      /\ \A i \in DOMAIN s : s[i] \in WordAtoms
                      /\ ~(Len(s) = 1 /\ Head(s) \in Keywords \cup {"_"})
    [] kind \in Keywords \cup {"_"} -> s = <<kind>>
    [] kind = "EMBED" -> s # <<>> /\ Head(s) = "@embed"
    [] OTHER -> s # <<>> /\ s \in {<<c>> : c \in OneCharTokens \cup Directives} \cup TwoCharOperators
                /\ FoldLeft(LAMBDA acc, c : acc \o c, "", s) = kind

LexemeKinds == {"INT", "FLOAT", "STRING", "STRING_ML", "CHAR", "NEWLINE", "ID"}
IsLexeme(s) ==
  \/ \E kind \in LexemeKinds : Lexeme(kind, s)
  \/ s \in {<<c>> : c \in OneCharTokens \cup Directives \cup Keywords \cup {"_"}} \cup TwoCharOperators

\* Blanks, and a comment up to the end of its line.
Ignored(s) ==
  \E i \in 0..Len(s) :
    /\ \A j \in 1..i : s[j] \in Blank
    /\ LET c == SubSeq(s, i + 1, Len(s)) IN
         c = <<>> \/ (IsPrefix(<<"/", "/">>, c) /\ \A j \in DOMAIN c : c[j] # "\n")

\* In a program given as texts, every token is a lexeme of its kind, and the longest one that begins where
\* it begins; between it and the token before is nothing but blanks and a
\* comment.  The scanner gives up only where no lexeme begins, save where a
\* number ends in a separator, a string of three quotes is not closed, or a
\* file has no tokens (docs/grammar.md, lexer.c as a whole).
LastToken == Len(tokens)
LastText  == files[tokens[LastToken].file]

Before(n) ==
  IF n = 1 \/ tokens[n - 1].file # tokens[n].file THEN 1 ELSE spans[n - 1][2]

LongestLexeme ==
  source = <<>> /\ tokens # <<>> =>
    LET from == spans[LastToken][1]  to == spans[LastToken][2] IN
    /\ Lexeme(tokens[LastToken].kind, SubSeq(LastText, from, to - 1))
    /\ tokens[LastToken].kind # "EMBED" =>
         \A j \in to..Len(LastText) : ~IsLexeme(SubSeq(LastText, from, j))
    /\ Ignored(SubSeq(LastText, Before(LastToken), from - 1))

Refused ==
  source = <<>> /\ scan = "error" =>
    \/ At(start) \in {"NUL", "@embed"} \/ IsMultiline(start) \/ ~HasLines
    \/ \A j \in start..Len(code) : ~IsLexeme(Slice(start, j + 1))
    \/ \E j \in start..Len(code) : (Lexeme("INT", Slice(start, j)) \/ Lexeme("FLOAT", Slice(start, j)))
                                   /\ At(j) = "_"

ScannedAsTheGrammarSays == LongestLexeme /\ Refused

\* The line a token is reported at is the line of the text it begins on (a
\* string over several lines: ends on; embedded C: the line after its first).
\* A newline written between the quotes of a character literal is the one that
\* is not counted (lexer.c 379-398).
RawNewlines(n) ==
  Cardinality({m \in 1..(n - 1) : /\ tokens[m].file = tokens[n].file
                                  /\ tokens[m].kind = "CHAR" /\ tokens[m].val = <<"\n">>})

LinesFollowText ==
  tokens # <<>> =>
    LET token == tokens[LastToken]
        place == IF token.kind = "STRING_ML" THEN spans[LastToken][2] ELSE spans[LastToken][1]
        above == {i \in 1..(place - 1) : LastText[i] = "\n"}
    IN token.line = 1 + Cardinality(above) + (IF token.kind = "EMBED" THEN 1 ELSE 0)
                      - RawNewlines(LastToken)
==============================================================================
