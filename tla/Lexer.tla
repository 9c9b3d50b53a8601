-------------------------------- MODULE Lexer --------------------------------
(***************************************************************************)
(* The scanner of the seed compiler (src/seed/lexer.c): from the text of    *)
(* each file of a program to one sequence of tokens.                        *)
(*                                                                          *)
(* A text is a sequence of atoms.  Most atoms are characters; a word that   *)
(* the scanner compares as a whole ("func", "@link", ...) is an atom of its *)
(* own, made of letters: an identifier is a run of word atoms, and it is a  *)
(* keyword exactly when the run is one keyword atom.  Reading past the text *)
(* gives the terminator NUL.                                                *)
(*                                                                          *)
(* The files are scanned in the order they are merged in; an action scans   *)
(* one token, after the blanks before it.                                   *)
(***************************************************************************)
EXTENDS Integers, Sequences, FiniteSets

VARIABLES
  files,      \* the texts of the program, one a file
  file,       \* the file being scanned
  pos,        \* position of the next atom in it (lex->pos)
  lineno,     \* lex->lineno
  colno,      \* lex->colno
  tokens,     \* the tokens of all files so far
  spans,      \* for every token the atoms it was scanned from
  scan        \* "scanning", "scanned", "error", or "overrun" once the scanner
              \* has left the text behind

lexVars == <<files, file, pos, lineno, colno, tokens, spans, scan>>

-----------------------------------------------------------------------------
Letters    == {"a", "e", "n", "t", "r", "x", "C"}
Digits     == {"0", "1"}
HexLetters == {"a", "e"}
Blank      == {" ", "\t", "\r"}

\* Words with a token kind of their own.
Keywords ==
  {"func", "throws", "must", "try", "except", "end", "struct", "enum", "table",
   "variant", "if", "elif", "else", "while", "for", "break", "continue",
   "return", "use", "as", "extern", "init", "true", "false", "of", "and", "or",
   "not", "is", "Vec", "Dict", "Option", "Some", "None", "in", "match", "case",
   "other", "foreign"}

\* Plain words of more than one letter, here one atom each.
Names      == {"all", "linux", "windows", "x64", "gnu", "mingw", "unwrap", "p"}
WordStart  == Letters \cup Keywords \cup Names \cup {"_"}
WordAtoms  == WordStart \cup Digits
DigitAtoms == Digits \cup {"_"}

Directives == {"@platform", "@profile", "@includedir", "@libdir", "@link", "@copy"}

\* Operators of two characters.  The scanner takes the location of the late
\* ones after it has advanced past them.
LateOperators    == {<<":", ":">>, <<"-", ">">>, <<"=", "=">>, <<"!", "=">>}
TwoCharOperators ==
  LateOperators \cup
  {<<">", "=">>, <<"<", "=">>, <<"+", "=">>, <<"-", "=">>, <<"*", "=">>,
   <<"/", "=">>, <<"%", "=">>, <<":", "=">>}

OneCharTokens ==
  {"(", ")", "{", "}", "[", "]", "+", "-", "*", "/", "%", ":", ",", "<", ">",
   "=", ".", "?", "!", "@"}

-----------------------------------------------------------------------------
code == files[file]

\* The atom at position i; the text ends in NUL.
At(i) == IF i <= Len(code) THEN code[i] ELSE "NUL"

\* The first position from i on whose atom is not in S.
RunEnd(i, S) ==
  CHOOSE j \in i..(Len(code) + 1) :
    /\ At(j) \notin S
    /\ \A k \in i..(j - 1) : At(k) \in S

\* The text from position i up to but not including j.
Slice(i, j) == SubSeq(code, i, j - 1)

\* Does the text at position i begin with w?
Prefixed(i, w) == i + Len(w) - 1 <= Len(code) /\ SubSeq(code, i, i + Len(w) - 1) = w

\* Mutant of Newlines: a newline right before the end is missed.
NewlinesShort(i, j) == Cardinality({k \in i..(j - 2) : At(k) = "\n"})

Newlines(i, j) == Cardinality({k \in i..(j - 1) : At(k) = "\n"})

\* Error locations quote the line of the token: a text without any newline has
\* no lines to quote, and the first token made in it ends the program.
HasLines == \E i \in DOMAIN code : code[i] = "\n"

\* Where the next token begins.
start == RunEnd(pos, Blank)
startCol == colno + (start - pos)

Failed ==
  /\ scan' = "error"
  /\ UNCHANGED <<files, file, pos, lineno, colno, tokens, spans>>

\* A token of the given kind and value is made from the atoms from start to
\* next - 1, at the given line and column, and the scanner moves to next.
Make(kind, val, line, col, next, nextLine, nextCol) ==
  IF ~HasLines THEN Failed
  ELSE /\ tokens' = Append(tokens, [kind |-> kind, val |-> val, line |-> line,
                                    col |-> col, file |-> file])
       /\ spans' = Append(spans, <<start, next>>)
       /\ pos' = next
       /\ lineno' = nextLine
       /\ colno' = nextCol
       /\ UNCHANGED <<files, file, scan>>

\* A token on one line whose location is its first atom.
Simple(kind, val, next) ==
  Make(kind, val, lineno, startCol, next, lineno, startCol + (next - start))

-----------------------------------------------------------------------------
\* The end of a file: the scanner of the next one starts at line 1, column 1.
\* A file without tokens is refused.
EndOfText ==
  /\ scan = "scanning"
  /\ At(start) = "NUL"
  /\ IF \A i \in DOMAIN tokens : tokens[i].file # file
     THEN Failed
     ELSE /\ IF file < Len(files)
             THEN /\ file' = file + 1 /\ pos' = 1 /\ lineno' = 1 /\ colno' = 1
                  /\ scan' = scan
             ELSE /\ scan' = "scanned"
                  /\ UNCHANGED <<file, pos, lineno, colno>>
          /\ UNCHANGED <<files, tokens, spans>>

Newline ==
  /\ scan = "scanning"
  /\ At(start) = "\n"
  /\ Make("NEWLINE", <<>>, lineno, startCol, start + 1, lineno + 1, 1)

Comment ==
  /\ scan = "scanning"
  /\ Prefixed(start, <<"/", "/">>)
  /\ LET next == CHOOSE j \in start..(Len(code) + 1) :
                   /\ At(j) \in {"\n", "NUL"}
                   /\ \A k \in start..(j - 1) : At(k) # "\n"
     IN /\ pos' = next
        /\ colno' = startCol + (next - start)
        /\ UNCHANGED <<files, file, lineno, tokens, spans, scan>>

Directive ==
  /\ scan = "scanning"
  /\ At(start) \in Directives
  /\ Simple(At(start), <<>>, start + 1)

StrayEmbedEnd == scan = "scanning" /\ At(start) = "@end" /\ Failed

IsTwoChar(i) == \E op \in TwoCharOperators : Prefixed(i, op)

TwoCharOperator ==
  /\ scan = "scanning"
  /\ ~Prefixed(start, <<"/", "/">>)
  /\ \E op \in TwoCharOperators :
       /\ Prefixed(start, op)
       /\ Make(op[1] \o op[2], <<>>, lineno,
               IF op \in LateOperators THEN startCol + 2 ELSE startCol,
               start + 2, lineno, startCol + 2)

OneCharToken ==
  /\ scan = "scanning"
  /\ At(start) \in OneCharTokens
  /\ ~IsTwoChar(start) /\ ~Prefixed(start, <<"/", "/">>)
  /\ Simple(At(start), <<>>, start + 1)

-----------------------------------------------------------------------------
\* The embedded C block: a delimiter in braces, a newline, lines of C, and the
\* first line that begins with the delimiter and holds nothing but blanks after
\* it.  The column restarts at 0, and the lines of the block are counted after
\* the token is made.
LineStarts(i) == {i} \cup {k + 1 : k \in {j \in i..Len(code) : code[j] = "\n"}}

EmbeddedC ==
  /\ scan = "scanning"
  /\ At(start) = "@embed"
  /\ LET first    == start + 2                   \* of the delimiter
         last     == RunEnd(first, WordAtoms)
         delim    == Slice(first, last)
         crlf     == At(last + 1) = "\r" /\ At(last + 2) = "\n"
         newline  == IF crlf THEN last + 2 ELSE last + 1
         body     == newline + 1
         closing  == {i \in LineStarts(body) :
                        /\ i <= Len(code)
                        /\ Prefixed(i, delim)
                        /\ At(RunEnd(i + Len(delim), Blank)) \in {"\n", "NUL"}}
         wellFormed == /\ At(start + 1) = "{" /\ At(first) \in WordStart
                       /\ At(last) = "}" /\ At(newline) = "\n"
                       /\ closing # {}
     IN IF ~wellFormed THEN Failed
        ELSE LET end   == CHOOSE i \in closing : \A j \in closing : i <= j
                 after == RunEnd(end + Len(delim), Blank)
                 next  == IF At(after) = "\n" THEN after + 1 ELSE after
             IN Make("EMBED", Slice(body, end), lineno + 1, 0, next,
                     lineno + 1 + Newlines(body, next), 0)

-----------------------------------------------------------------------------
\* What an escape at position i (after the backslash) stands for: the decoded
\* character, or "error".  NUL is no character of a string.
HexDigit(c) == c \in Digits \cup HexLetters

Escape(i, allowNul) ==
  CASE At(i) \in {"n", "t", "r", "\\", "'", "\""} -> <<"esc", At(i)>>
    [] At(i) = "0" -> IF allowNul THEN <<"esc", "0">> ELSE <<"error">>
    [] At(i) = "x" ->
         IF ~HexDigit(At(i + 1)) \/ ~HexDigit(At(i + 2)) THEN <<"error">>
         ELSE IF At(i + 1) = "0" /\ At(i + 2) = "0"
              THEN IF allowNul THEN <<"esc", "0">> ELSE <<"error">>
              ELSE <<"hex", At(i + 1), At(i + 2)>>
    [] OTHER -> <<"error">>

EscapeEnd(i) == IF At(i) = "x" THEN i + 3 ELSE i + 1

\* The rest of a string literal from position i: its decoded characters and
\* the position of the closing quote.
RECURSIVE StringRest(_, _)
StringRest(i, buf) ==
  CASE At(i) = "\"" -> [ok |-> TRUE, close |-> i, val |-> buf]
    [] At(i) \in {"NUL", "\n"} -> [ok |-> FALSE]
    [] At(i) = "\\" ->
         IF At(i + 1) = "NUL" \/ Escape(i + 1, FALSE) = <<"error">> THEN [ok |-> FALSE]
         ELSE StringRest(EscapeEnd(i + 1), Append(buf, Escape(i + 1, FALSE)))
    [] OTHER -> StringRest(i + 1, Append(buf, <<At(i)>>))

IsMultiline(i) == Prefixed(i, <<"\"", "\"", "\"">>)

String ==
  /\ scan = "scanning"
  /\ At(start) = "\"" /\ ~IsMultiline(start)
  /\ LET s == StringRest(start + 1, <<>>) IN
       IF ~s.ok \/ ~HasLines THEN Failed
       ELSE Make("STRING", s.val, lineno, startCol + 1, s.close + 1, lineno,
                 startCol + (s.close + 1 - start))

\* A string over several lines is not decoded; its token is on its last line.
MultilineString ==
  /\ scan = "scanning"
  /\ IsMultiline(start)
  /\ LET closing == {i \in (start + 3)..Len(code) : IsMultiline(i)} IN
       IF closing = {} THEN Failed
       ELSE LET close    == CHOOSE i \in closing : \A j \in closing : i <= j
                lines    == Newlines(start + 3, close)
                lastLine == CHOOSE i \in (start + 3)..close :
                              /\ i = start + 3 \/ At(i - 1) = "\n"
                              /\ Newlines(i, close) = 0
                \* the column of the closing quotes
                closeCol == IF lines = 0 THEN startCol + (close - start)
                            ELSE 1 + (close - lastLine)
            IN Make("STRING_ML", Slice(start + 3, close), lineno + lines,
                    startCol + 3, close + 3, lineno + lines, closeCol + 3)

\* A character literal: one character or escape between quotes.  The quote may
\* be the last atom of the text: the scanner then steps over the terminator and
\* compares the byte that happens to follow it.
Char ==
  /\ scan = "scanning"
  /\ At(start) = "'"
  /\ LET escaped == At(start + 1) = "\\"
         val     == IF escaped THEN Escape(start + 2, TRUE) ELSE <<At(start + 1)>>
         close   == IF escaped THEN EscapeEnd(start + 2) ELSE start + 2
     IN CASE At(start + 1) = "NUL" ->
               /\ scan' \in IF HasLines THEN {"error", "overrun"} ELSE {"error"}
               /\ UNCHANGED <<files, file, pos, lineno, colno, tokens, spans>>
          [] At(start + 1) # "NUL" /\ (val = <<"error">> \/ At(close) # "'") -> Failed
          [] OTHER -> Make("CHAR", val, lineno, startCol + 1, close + 1, lineno,
                           startCol + (close + 1 - start))

-----------------------------------------------------------------------------
\* A number: digits with separators, a fraction if a digit follows the dot, an
\* exponent if digits follow it.  A separator must be followed by a digit.
\* Mutant of FractionAt: a dot is enough.
DotAt(i) == At(i) = "."

FractionAt(i) == At(i) = "." /\ At(i + 1) \in Digits

ExponentAt(i) ==
  At(i) = "e" /\ (At(i + 1) \in Digits \/ (At(i + 1) \in {"+", "-"} /\ At(i + 2) \in Digits))

Number ==
  /\ scan = "scanning"
  /\ At(start) \in Digits
  /\ LET whole    == RunEnd(start, DigitAtoms)
         fraction == IF FractionAt(whole) THEN RunEnd(whole + 1, DigitAtoms) ELSE whole
         next     == CASE ~ExponentAt(fraction) -> fraction
                       [] At(fraction + 1) \in Digits -> RunEnd(fraction + 1, DigitAtoms)
                       [] OTHER -> RunEnd(fraction + 2, DigitAtoms)
         misplaced == \E i \in start..(next - 1) : At(i) = "_" /\ At(i + 1) \notin Digits
     IN IF misplaced THEN Failed
        ELSE Simple(IF next = whole THEN "INT" ELSE "FLOAT",
                    SelectSeq(Slice(start, next), LAMBDA c : c # "_"), next)

\* A word is a keyword, the local region "_", or an identifier.
WordKind(w) ==
  IF Len(w) = 1 /\ w[1] \in Keywords \cup {"_"} THEN w[1] ELSE "ID"

Word ==
  /\ scan = "scanning"
  /\ At(start) \in WordStart
  /\ LET next == RunEnd(start, WordAtoms)
         w    == Slice(start, next)
     IN Simple(WordKind(w), w, next)

\* Nothing begins with this atom.
Illegal ==
  /\ scan = "scanning"
  /\ At(start) \notin OneCharTokens \cup Directives \cup Digits \cup WordStart \cup
                      {"NUL", "\n", "\"", "'", "@embed", "@end"}
  /\ Failed

-----------------------------------------------------------------------------
LexInit ==
  /\ file = 1
  /\ pos = 1
  /\ lineno = 1
  /\ colno = 1
  /\ tokens = <<>>
  /\ spans = <<>>
  /\ scan = "scanning"

LexNext ==
  \/ EndOfText \/ Newline \/ Comment \/ Directive \/ StrayEmbedEnd
  \/ TwoCharOperator \/ OneCharToken \/ EmbeddedC \/ String \/ MultilineString
  \/ Char \/ Number \/ Word \/ Illegal
==============================================================================
