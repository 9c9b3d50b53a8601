-------------------------- MODULE InferenceProofs --------------------------
(***************************************************************************)
(* Proofs about Inference, for any well-formed programs: what inference    *)
(* stores is the only typing, and what it refuses has none.                *)
(***************************************************************************)
EXTENDS Inference, FiniteSetTheorems, SequenceTheorems, WellFoundedInduction, TLAPS

Node == 1 .. MaxNodes

-----------------------------------------------------------------------------
(***************************************************************************)
(* The nodes as they are, compared with the program.                       *)
(***************************************************************************)
\* The call n of the program leaves out a last argument that is a region.
LacksRegion(n) ==
    LET parameters == program[program[n].target].args
    IN /\ Len(program[n].args) + 1 = Len(parameters)
       /\ program[Last(parameters)].note = RegionType

\* The node n of the program, as it was parsed or with its receiver call resolved
KeptNode(n) ==
    \/ nodes[n] = program[n]
    \/ /\ program[n].op = "receiver_pop"
       /\ nodes[n] = [program[n] EXCEPT !.op = "pop"]
    \/ /\ program[n].op = "receiver" /\ program[n].target # 0 /\ ~ LacksRegion(n)
       /\ nodes[n] = [program[n] EXCEPT !.op = "call"]
    \/ /\ program[n].op = "receiver" /\ program[n].target # 0 /\ LacksRegion(n)
       /\ \E r \in Len(program) + 1 .. Len(nodes) :
             nodes[n] = [program[n] EXCEPT !.op = "call", !.args = Append(@, r)]

Waiters == {n \in DOMAIN program : nodes[n].op = "receiver"}

NodesKept ==
    /\ program \in Programs
    /\ nodes \in Seq(NodeRecord)
    /\ Len(program) <= Len(nodes)
    /\ Len(nodes) + Cardinality(Waiters) <= MaxNodes
    /\ \A n \in DOMAIN program : KeptNode(n)
    /\ \A n \in Len(program) + 1 .. Len(nodes) : nodes[n] = RegionNode

\* The solver's classes are classes, of one type each.
Good(k) ==
    /\ k \in [class : [Node -> SUBSET Node], type : [Node -> Word],
              changed : BOOLEAN, failed : BOOLEAN]
    /\ \A n \in Node : n \in k.class[n]
    /\ \A m, n \in Node : m \in k.class[n] => k.class[m] = k.class[n] /\ k.type[m] = k.type[n]

ClassesGood == Good(classes)

-----------------------------------------------------------------------------
(***************************************************************************)
(* Typings of the program, and what is known of them.                      *)
(***************************************************************************)
Obeys(f) ==
    /\ f \in [DOMAIN program -> Word]
    /\ \A n \in DOMAIN program :
          IF Free(n)
          THEN program[n].op \in Literals => Element(program[n].op, f[n]) # NoType
          ELSE f[n] = Judgement(n, f)
    /\ InOrder(f)

\* The typing f with the nodes that were appended
Extended(f) == [n \in Node |-> IF n \in DOMAIN program THEN f[n] ELSE RegionType]

\* What is known holds of g.
Agree(k, g) ==
    /\ ~ k.failed
    /\ \A n \in Node : k.type[n] \in {NoType, g[n]}
    /\ \A m, n \in Node : m \in k.class[n] => g[m] = g[n]

\* The solver knows nothing that is not true in every typing, and refuses no program that has one.
Truthful ==
    \A f \in [DOMAIN program -> Word] :
        Obeys(f) => phase # "wrong" /\ Agree(classes, Extended(f))

-----------------------------------------------------------------------------
(***************************************************************************)
(* What has been collected and deduced.                                    *)
(***************************************************************************)
Satisfied(k, step) ==
    CASE step.call = "bind" -> k.type[step.args[1]] = step.type
      [] step.call = "unify" -> step.args[1] \in k.class[step.args[2]]
      [] OTHER -> FALSE

\* A receiver call that was resolved has a record for its receiver.
ReceiversKnown ==
    ~ classes.failed =>
        \A n \in DOMAIN program : program[n].op = "receiver" /\ nodes[n].op = "call" =>
            /\ classes.type[program[n].args[1]] = RecordType
            /\ Binds(program[n].target, RecordType)

\* Nothing can be learned at n.
Settled(n) ==
    /\ Deduced(classes, n) = classes
    /\ Waiting(n) => Known(classes, Arg(n, 1)) = NoType

\* The nodes a sweep without change has visited are settled.
Swept ==
    /\ phase = "solve" /\ ~ classes.changed /\ ~ classes.failed =>
          \A n \in DOMAIN nodes : n < at => Settled(n)
    /\ phase \in {"validate", "stored", "unresolved"} =>
          ~ classes.failed /\ ~ classes.changed /\ \A n \in DOMAIN nodes : Settled(n)

Kept ==
    phase = "stored" =>
        /\ saved = [n \in DOMAIN nodes |-> Known(classes, n)]
        /\ \A n \in DOMAIN nodes : ~ Unresolved(n) /\ ~ VoidValue(n)

Points ==
    /\ phase \in {"collect", "solve", "validate", "stored", "unresolved", "wrong"}
    /\ at \in Nat \ {0}
    /\ phase = "collect" => nodes = program

-----------------------------------------------------------------------------
(***************************************************************************)
(* Types are words.                                                        *)
(***************************************************************************)
Basic == {IntType, DoubleType, BoolType, StringType, CharType, VoidType, RegionType,
          RecordType, VariantType}

Letter ==
    {"int", "double", "bool", "String", "char", "void", "Region", "record", "variant"}
    \cup Literals

\* Words are sequences of letters.
LEMMA WordIs == Word = Seq(Letter)
BY DEF Word, Letter

\* The basic types are words, and no type is none of them.
LEMMA BasicWords ==
    /\ Basic \subseteq Word /\ NoType \in Word
    /\ \A t \in Basic : t # NoType
    /\ IntType # DoubleType /\ DoubleType # BoolType /\ IntType # BoolType
<1>1. ASSUME NEW s \in Letter
      PROVE  <<s>> \in Seq(Letter) /\ Len(<<s>>) = 1 /\ <<s>>[1] = s
  <2>1. ASSUME NEW S, NEW x \in S PROVE <<x>> \in Seq(S) /\ Len(<<x>>) = 1 /\ <<x>>[1] = x
    OBVIOUS
  <2> HIDE DEF Letter
  <2> QED BY <2>1
<1>2. NoType \in Word /\ \A s \in Letter : <<s>> \in Word /\ <<s>> # NoType
  BY <1>1, EmptySeq, WordIs DEF NoType
<1>3. \A t \in Basic : \E s \in Letter : t = <<s>>
  BY DEF Basic, Letter, IntType, DoubleType, BoolType, StringType, CharType, VoidType,
         RegionType, RecordType, VariantType
<1>4. \A s, t \in Letter : s # t => <<s>> # <<t>>
  BY <1>1
<1>5. IntType # DoubleType /\ DoubleType # BoolType /\ IntType # BoolType
  <2>1. <<"int">>[1] = "int" /\ <<"double">>[1] = "double" /\ <<"bool">>[1] = "bool"
    OBVIOUS
  <2>2. "int" # "double" /\ "double" # "bool" /\ "int" # "bool"
    OBVIOUS
  <2> QED BY <2>1, <2>2 DEF IntType, DoubleType, BoolType
<1> QED BY <1>2, <1>3, <1>5

\* A sequence of one
LEMMA Single ==
    ASSUME NEW S, NEW c \in S
    PROVE  <<c>> \in Seq(S) /\ Len(<<c>>) = 1 /\ <<c>>[1] = c
OBVIOUS

\* A sequence with one more in front of it
LEMMA Prefixed ==
    ASSUME NEW S, NEW c \in S, NEW t \in Seq(S)
    PROVE  /\ <<c>> \o t \in Seq(S) /\ Len(<<c>> \o t) = 1 + Len(t)
           /\ Len(t) \in Nat
           /\ (<<c>> \o t)[1] = c
           /\ \A i \in 1 .. Len(t) : (<<c>> \o t)[i + 1] = t[i]
<1> DEFINE one == <<c>>
<1> DEFINE s == one \o t
<1>1. one \in Seq(S) /\ Len(one) = 1 /\ one[1] = c /\ Len(t) \in Nat
  BY Single, LenProperties
<1> HIDE DEF one
<1>2. /\ s \in Seq(S) /\ Len(s) = Len(one) + Len(t)
      /\ \A i \in 1 .. Len(one) + Len(t) :
            s[i] = IF i <= Len(one) THEN one[i] ELSE t[i - Len(one)]
  BY <1>1, ConcatProperties
<1> HIDE DEF s
<1>3. s[1] = c
  <2>1. 1 \in 1 .. Len(one) + Len(t) /\ 1 <= Len(one)
    BY <1>1
  <2> QED BY <1>1, <1>2, <2>1
<1>4. ASSUME NEW i \in 1 .. Len(t) PROVE s[i + 1] = t[i]
  <2>1. /\ i + 1 \in 1 .. Len(one) + Len(t) /\ ~ (i + 1 <= Len(one))
        /\ (i + 1) - Len(one) = i
    BY <1>1
  <2> QED BY <1>2, <2>1
<1> QED BY <1>1, <1>2, <1>3, <1>4 DEF s, one

\* The type of a container's elements is what it was built of.
LEMMA Containing ==
    ASSUME NEW c \in Letter, NEW t \in Word, t # NoType
    PROVE  Of(c, t) \in Word /\ Of(c, t) # NoType /\ Element(c, Of(c, t)) = t
<1> DEFINE s == <<c>> \o t
<1>1. t \in Seq(Letter) /\ t # << >> /\ Len(t) \in Nat \ {0}
  <2>1. t \in Seq(Letter) /\ t # << >>
    BY WordIs DEF NoType
  <2> QED BY <2>1, EmptySeq, LenProperties
<1>2. /\ s \in Seq(Letter) /\ Len(s) = 1 + Len(t) /\ s[1] = c
      /\ \A i \in 1 .. Len(t) : s[i + 1] = t[i]
  BY <1>1, Prefixed
<1> HIDE DEF s
<1>3. s # << >> /\ Len(s) > 1
  BY <1>1, <1>2, EmptySeq
<1>4. /\ Tail(s) \in Seq(Letter) /\ Len(Tail(s)) = Len(t)
      /\ \A i \in 1 .. Len(t) : Tail(s)[i] = s[i + 1]
  BY <1>1, <1>2, <1>3, HeadTailProperties
<1>5. Tail(s) = t
  BY <1>1, <1>2, <1>4, SeqEqual
<1>6. Of(c, t) = s
  BY DEF Of, s
<1> QED BY <1>2, <1>3, <1>5, <1>6, WordIs DEF Element, NoType

\* A container's type is made of its element's.
LEMMA Contained ==
    ASSUME NEW c \in Letter, NEW t \in Word
    PROVE  /\ Element(c, t) \in Word
           /\ Element(c, t) # NoType => t # NoType /\ t = Of(c, Element(c, t))
<1>1. CASE ~ (Len(t) > 1 /\ t[1] = c)
  BY <1>1, BasicWords DEF Element
<1>2. CASE Len(t) > 1 /\ t[1] = c
  <2> DEFINE rest == Tail(t)
  <2>1. t \in Seq(Letter) /\ Len(t) \in Nat /\ t # << >> /\ Element(c, t) = rest
    <3>1. t \in Seq(Letter)
      BY WordIs
    <3>2. t # << >>
      BY <1>2, EmptySeq
    <3> QED BY <1>2, <3>1, <3>2, LenProperties DEF Element
  <2>2. /\ rest \in Seq(Letter) /\ Len(rest) = Len(t) - 1
        /\ \A i \in 1 .. Len(rest) : rest[i] = t[i + 1]
    BY <2>1, HeadTailProperties
  <2> HIDE DEF rest
  <2> DEFINE s == <<c>> \o rest
  <2>3. /\ s \in Seq(Letter) /\ Len(s) = 1 + Len(rest) /\ s[1] = c
        /\ \A i \in 1 .. Len(rest) : s[i + 1] = rest[i]
    BY <2>2, Prefixed
  <2> HIDE DEF s
  <2>4. ASSUME NEW i \in 1 .. Len(t) PROVE s[i] = t[i]
    <3>1. CASE i = 1
      BY <1>2, <2>3, <3>1
    <3>2. CASE i # 1
      <4>1. i - 1 \in 1 .. Len(rest) /\ (i - 1) + 1 = i
        BY <2>1, <2>2, <3>2
      <4>2. s[(i - 1) + 1] = t[(i - 1) + 1]
        BY <2>2, <2>3, <4>1
      <4> QED BY <4>1, <4>2
    <3> QED BY <3>1, <3>2
  <2>5. Len(s) = Len(t)
    BY <2>1, <2>2, <2>3
  <2>6. s = t
    BY <2>1, <2>3, <2>4, <2>5, SeqEqual
  <2>7. t = Of(c, rest)
    BY <2>6 DEF Of, s
  <2>8. t # NoType
    BY <2>1 DEF NoType
  <2> QED BY <2>1, <2>2, <2>7, <2>8, WordIs
<1> QED BY <1>1, <1>2

\* What the rules answer
LEMMA Answers ==
    ASSUME NEW l \in Word, NEW r \in Word
    PROVE  /\ \A op : BinaryResult(op, l, r) \in Word
           /\ \A op \in {"plus", "mod"} :
                 BinaryResult(op, l, r) = IntType => l = IntType /\ r = IntType
           /\ BinaryResult("and", l, r) # NoType =>
                 l = BoolType /\ r = BoolType /\ BinaryResult("and", l, r) = BoolType
           /\ \A op \in {"less", "eq"} : BinaryResult(op, l, r) \in {NoType, BoolType}
           /\ BinaryResult("mod", l, r) \in {NoType, IntType}
           /\ ConditionalResult(l, r) \in Word
           /\ ConditionalResult(l, r) \notin {NoType, DoubleType} =>
                 l = ConditionalResult(l, r) /\ r = ConditionalResult(l, r)
           /\ ConditionalResult(l, r) # NoType /\ ~ (Numeric(l) /\ Numeric(r)) =>
                 l = ConditionalResult(l, r) /\ r = ConditionalResult(l, r)
<1>1. /\ IntType \in Word /\ DoubleType \in Word /\ BoolType \in Word /\ NoType \in Word
      /\ IntType # NoType /\ DoubleType # NoType /\ BoolType # NoType
      /\ IntType # DoubleType /\ DoubleType # BoolType /\ IntType # BoolType
  BY BasicWords DEF Basic
<1>2. ASSUME NEW op PROVE BinaryResult(op, l, r) \in {NoType, IntType, DoubleType, BoolType}
  BY DEF BinaryResult
<1>3. ASSUME NEW op \in {"plus", "mod"}, BinaryResult(op, l, r) = IntType
      PROVE  l = IntType /\ r = IntType
  BY <1>1, <1>3 DEF BinaryResult, Numeric
<1>4. /\ BinaryResult("and", l, r) # NoType =>
            l = BoolType /\ r = BoolType /\ BinaryResult("and", l, r) = BoolType
      /\ \A op \in {"less", "eq"} : BinaryResult(op, l, r) \in {NoType, BoolType}
      /\ BinaryResult("mod", l, r) \in {NoType, IntType}
  BY DEF BinaryResult
<1>5. ConditionalResult(l, r) \in {l, NoType, DoubleType}
  BY DEF ConditionalResult
<1>6. ConditionalResult(l, r) \notin {NoType, DoubleType} =>
            l = ConditionalResult(l, r) /\ r = ConditionalResult(l, r)
  BY DEF ConditionalResult
<1>7. ConditionalResult(l, r) # NoType /\ ~ (Numeric(l) /\ Numeric(r)) =>
            l = ConditionalResult(l, r) /\ r = ConditionalResult(l, r)
  BY DEF ConditionalResult
<1> QED BY <1>1, <1>2, <1>3, <1>4, <1>5, <1>6, <1>7

\* What the rules of one operand answer
LEMMA OtherAnswers ==
    ASSUME NEW t \in Word
    PROVE  /\ \A op : UnaryResult(op, t) \in {NoType, t}
           /\ UnaryResult("not", t) # NoType => t = BoolType
           /\ IndexResult(t) \in Word /\ KeyType(t) \in Word /\ KeyType(t) # NoType
           /\ IterationElement(t) \in Word
<1>0. "Dict" \in Letter /\ "Vec" \in Letter /\ "Option" \in Letter
  BY DEF Letter, Literals
<1>1. Element("Dict", t) \in Word /\ Element("Vec", t) \in Word /\ Element("Option", t) \in Word
  BY <1>0, Contained
<1>2. Element("Dict", t) # NoType => Of("Option", Element("Dict", t)) \in Word
  BY <1>0, <1>1, Containing
<1>3. CharType \in Word /\ StringType \in Word /\ IntType \in Word
      /\ StringType # NoType /\ IntType # NoType
  BY BasicWords DEF Basic
<1>4. /\ \A op : UnaryResult(op, t) \in {NoType, t}
      /\ UnaryResult("not", t) # NoType => t = BoolType
  BY DEF UnaryResult
<1>5. IndexResult(t) \in Word
  BY <1>1, <1>2, <1>3 DEF IndexResult
<1>6. KeyType(t) \in Word /\ KeyType(t) # NoType
  BY <1>3 DEF KeyType
<1>7. IterationElement(t) \in Word
  BY <1>1, <1>3 DEF IterationElement
<1> QED BY <1>4, <1>5, <1>6, <1>7

-----------------------------------------------------------------------------
(***************************************************************************)
(* The calls of the solver: what each adds to what was known.              *)
(***************************************************************************)
Step ==
    {Is(n, t) : n \in Node, t \in Word \ {NoType}}
    \cup {Same(m, n) : m, n \in Node}
    \cup {Wrong}

\* The step says something that is true of g.
Holds(step, g) ==
    CASE step.call = "bind" -> g[step.args[1]] = step.type
      [] step.call = "unify" -> g[step.args[1]] = g[step.args[2]]
      [] OTHER -> FALSE

\* Nothing is forgotten between k and l, and what is learned shows.
Grows(k, l) ==
    /\ \A n \in Node : k.class[n] \subseteq l.class[n]
    /\ \A n \in Node : k.type[n] # NoType => l.type[n] = k.type[n]
    /\ k.failed => l.failed
    /\ k.changed => l.changed
    /\ l = k \/ l.changed \/ l.failed

\* Growing twice is growing.
LEMMA GrowsOn ==
    ASSUME NEW k, NEW l, NEW m, Grows(k, l), Grows(l, m)
    PROVE  Grows(k, m)
BY DEF Grows

\* A solver that stays as it is grows.
LEMMA GrowsNot == ASSUME NEW k PROVE Grows(k, k)
BY DEF Grows

\* Without a change or an error nothing was learned on the way, either.
LEMMA GrowsBetween ==
    ASSUME NEW k, NEW l, Grows(k, l), Grows(l, k), ~ k.changed, ~ k.failed
    PROVE  l = k
BY DEF Grows

\* Reporting an error forgets nothing.
LEMMA Failing ==
    ASSUME NEW k, Good(k)
    PROVE  /\ Good(K!Failed(k)) /\ Grows(k, K!Failed(k)) /\ K!Failed(k).failed
           /\ K!Failed(k) # k \/ k.failed
BY DEF Good, Grows, K!Failed

\* Binding a node to a type says that it has that type, no more (Typed).
LEMMA Typing ==
    ASSUME NEW k, Good(k), NEW n \in Node, NEW t \in Word, t # NoType
    PROVE  /\ Good(K!Typed(k, n, t)) /\ Grows(k, K!Typed(k, n, t))
           /\ ~ K!Typed(k, n, t).failed => K!Typed(k, n, t).type[n] = t
           /\ \A g : Agree(k, g) /\ g[n] = t => Agree(K!Typed(k, n, t), g)
<1>1. CASE k.failed \/ k.type[n] = t
  <2>1. K!Typed(k, n, t) = k
    BY <1>1 DEF K!Typed
  <2> QED BY <1>1, <2>1, GrowsNot
<1>2. CASE ~ k.failed /\ k.type[n] # t /\ k.type[n] # NoType
  <2>1. K!Typed(k, n, t) = K!Failed(k)
    BY <1>2 DEF K!Typed
  <2>2. ASSUME NEW g, Agree(k, g), g[n] = t PROVE FALSE
    BY <1>2, <2>2 DEF Agree
  <2> QED BY <2>1, <2>2, Failing
<1>3. CASE ~ k.failed /\ k.type[n] # t /\ k.type[n] = NoType
  <2> DEFINE l == K!Typed(k, n, t)
  <2>1. l = [class |-> k.class,
             type |-> [m \in Node |-> IF m \in k.class[n] THEN t ELSE k.type[m]],
             changed |-> TRUE, failed |-> FALSE]
    BY <1>3 DEF K!Typed, Node
  <2> HIDE DEF l
  <2>2. /\ l.class = k.class /\ l.changed = TRUE /\ l.failed = FALSE
        /\ l \in [class : [Node -> SUBSET Node], type : [Node -> Word],
                  changed : BOOLEAN, failed : BOOLEAN]
        /\ \A m \in Node : l.type[m] = IF m \in k.class[n] THEN t ELSE k.type[m]
    BY <2>1 DEF Good
  <2>3. Good(l)
    BY <2>2 DEF Good
  <2>4. Grows(k, l)
    BY <1>3, <2>2 DEF Grows, Good
  <2>5. l.type[n] = t
    BY <2>2 DEF Good
  <2>6. ASSUME NEW g, Agree(k, g), g[n] = t PROVE Agree(l, g)
    BY <2>2, <2>6 DEF Agree
  <2> QED BY <2>3, <2>4, <2>5, <2>6 DEF l
<1> QED BY <1>1, <1>2, <1>3

\* Unifying two nodes says that they have one type, no more (Joined).
LEMMA Joining ==
    ASSUME NEW k, Good(k), NEW m \in Node, NEW n \in Node
    PROVE  /\ Good(K!Joined(k, m, n)) /\ Grows(k, K!Joined(k, m, n))
           /\ ~ K!Joined(k, m, n).failed => m \in K!Joined(k, m, n).class[n]
           /\ \A g : Agree(k, g) /\ g[m] = g[n] => Agree(K!Joined(k, m, n), g)
<1> DEFINE both == k.class[m] \cup k.class[n]
           known == {k.type[m], k.type[n]} \ {NoType}
<1>1. CASE k.failed \/ m \in k.class[n]
  <2>1. K!Joined(k, m, n) = k
    BY <1>1 DEF K!Joined
  <2> QED BY <1>1, <2>1, GrowsNot
<1>2. CASE ~ k.failed /\ m \notin k.class[n] /\ ~ \A s, t \in known : s = t
  <2>1. K!Joined(k, m, n) = K!Failed(k)
    BY <1>2 DEF K!Joined
  <2>2. ASSUME NEW g, Agree(k, g), g[m] = g[n] PROVE FALSE
    BY <1>2, <2>2 DEF Agree
  <2> QED BY <2>1, <2>2, Failing
<1>3. CASE ~ k.failed /\ m \notin k.class[n] /\ \A s, t \in known : s = t
  <2> DEFINE l == K!Joined(k, m, n)
             type == IF k.type[m] = NoType THEN k.type[n] ELSE k.type[m]
  <2>1. l = [class |-> [i \in Node |-> IF i \in both THEN both ELSE k.class[i]],
             type |-> [i \in Node |-> IF i \in both /\ known # {}
                                      THEN CHOOSE t \in known : TRUE ELSE k.type[i]],
             changed |-> TRUE, failed |-> FALSE]
    BY <1>3 DEF K!Joined, Node
  <2> HIDE DEF l
  <2>2. /\ \A i \in Node : k.class[i] \subseteq Node /\ k.type[i] \in Word /\ i \in k.class[i]
        /\ \A i \in both : k.type[i] \in {k.type[m], k.type[n]}
        /\ \A i, j \in Node : i \in k.class[j] => k.class[i] = k.class[j] /\ k.type[i] = k.type[j]
        /\ both \subseteq Node
    BY DEF Good
  <2>3. known # {} => (CHOOSE t \in known : TRUE) = type
    <3>1. known # {} => type \in known
      OBVIOUS
    <3>2. known # {} => (CHOOSE t \in known : TRUE) \in known
      <4> HIDE DEF known
      <4> QED OBVIOUS
    <3> QED BY <1>3, <3>1, <3>2
  <2>4. known = {} => type = NoType
    OBVIOUS
  <2>5. /\ l.changed = TRUE /\ l.failed = FALSE
        /\ \A i \in Node : l.class[i] = IF i \in both THEN both ELSE k.class[i]
        /\ \A i \in Node : l.type[i] = IF i \in both THEN type ELSE k.type[i]
    BY <2>1, <2>2, <2>3, <2>4
  <2>6. l \in [class : [Node -> SUBSET Node], type : [Node -> Word],
               changed : BOOLEAN, failed : BOOLEAN]
    <3>1. \A i \in Node : l.class[i] \in SUBSET Node /\ l.type[i] \in Word
      BY <2>2, <2>5
    <3> QED BY <2>1, <3>1
  <2>7. Good(l)
    <3>1. ASSUME NEW i \in Node PROVE i \in l.class[i]
      BY <2>2, <2>5
    <3>2. ASSUME NEW i \in Node, NEW j \in Node, i \in l.class[j]
          PROVE  l.class[i] = l.class[j] /\ l.type[i] = l.type[j]
      <4>1. CASE j \in both
        BY <2>5, <3>2, <4>1
      <4>2. CASE j \notin both
        <5>1. i \in k.class[j] /\ k.class[i] = k.class[j]
          BY <2>2, <2>5, <3>2, <4>2
        <5>2. i \notin both
          BY <2>2, <4>2, <5>1
        <5> QED BY <2>2, <2>5, <4>2, <5>1, <5>2
      <4> QED BY <4>1, <4>2
    <3> QED BY <2>6, <3>1, <3>2 DEF Good
  <2>8. Grows(k, l)
    <3>1. ASSUME NEW i \in Node PROVE k.class[i] \subseteq l.class[i]
      BY <2>2, <2>5
    <3>2. ASSUME NEW i \in Node, k.type[i] # NoType PROVE l.type[i] = k.type[i]
      <4>1. CASE i \in both
        <5>1. k.type[i] \in known
          BY <2>2, <3>2, <4>1
        <5>2. type \in known
          BY <5>1
        <5> QED BY <1>3, <2>5, <4>1, <5>1, <5>2
      <4> QED BY <2>5, <4>1
    <3> QED BY <1>3, <2>5, <3>1, <3>2 DEF Grows
  <2>9. m \in l.class[n]
    BY <2>2, <2>5
  <2>10. ASSUME NEW g, Agree(k, g), g[m] = g[n] PROVE Agree(l, g)
    <3>1. \A i \in both : g[i] = g[n]
      BY <2>2, <2>10 DEF Agree
    <3>2. type \in {NoType, g[n]}
      BY <2>10 DEF Agree
    <3>3. \A i \in Node : l.type[i] \in {NoType, g[i]}
      BY <2>5, <2>10, <3>1, <3>2 DEF Agree
    <3>4. \A i, j \in Node : i \in l.class[j] => g[i] = g[j]
      BY <2>5, <2>10, <3>1 DEF Agree
    <3> QED BY <2>5, <3>3, <3>4 DEF Agree
  <2> QED BY <2>7, <2>8, <2>9, <2>10 DEF l
<1> QED BY <1>1, <1>2, <1>3

\* Each call of the solver says what its step says, no more.
LEMMA Performing ==
    ASSUME NEW k, Good(k), NEW s \in Step
    PROVE  /\ Good(Perform(k, s)) /\ Grows(k, Perform(k, s))
           /\ ~ Perform(k, s).failed => Satisfied(Perform(k, s), s)
           /\ \A g : Agree(k, g) /\ Holds(s, g) => Agree(Perform(k, s), g)
<1>1. CASE \E n \in Node, t \in Word \ {NoType} : s = Is(n, t)
  <2>1. PICK n \in Node, t \in Word \ {NoType} : s = Is(n, t)
    BY <1>1
  <2>2. s.call = "bind" /\ s.args[1] = n /\ s.type = t
    BY <2>1 DEF Is
  <2>3. /\ Perform(k, s) = K!Typed(k, n, t)
        /\ \A l : Satisfied(l, s) <=> l.type[n] = t
        /\ \A g : Holds(s, g) <=> g[n] = t
    BY <2>2 DEF Perform, Satisfied, Holds
  <2> QED BY <2>3, Typing
<1>2. CASE \E m, n \in Node : s = Same(m, n)
  <2>1. PICK m \in Node, n \in Node : s = Same(m, n)
    BY <1>2
  <2>2. s.call = "unify" /\ s.args[1] = m /\ s.args[2] = n
    BY <2>1 DEF Same
  <2>3. /\ Perform(k, s) = K!Joined(k, m, n)
        /\ \A l : Satisfied(l, s) <=> m \in l.class[n]
        /\ \A g : Holds(s, g) <=> g[m] = g[n]
    BY <2>2 DEF Perform, Satisfied, Holds
  <2> QED BY <2>3, Joining
<1>3. CASE s = Wrong
  <2>1. s.call = "report"
    BY <1>3 DEF Wrong
  <2>2. Perform(k, s) = K!Failed(k) /\ \A g : ~ Holds(s, g)
    BY <2>1 DEF Perform, Holds
  <2> QED BY <2>2, Failing
<1> QED BY <1>1, <1>2, <1>3 DEF Step

\* What a step asked for holds on as the solver grows.
LEMMA StaysSatisfied ==
    ASSUME NEW k, Good(k), NEW l, Grows(k, l), NEW s \in Step, Satisfied(k, s)
    PROVE  Satisfied(l, s)
<1>1. CASE \E n \in Node, t \in Word \ {NoType} : s = Is(n, t)
  <2>1. PICK n \in Node, t \in Word \ {NoType} : s = Is(n, t)
    BY <1>1
  <2>2. s.call = "bind" /\ s.args[1] = n /\ s.type = t
    BY <2>1 DEF Is
  <2>3. k.type[n] = t /\ t # NoType
    BY <2>2 DEF Satisfied
  <2> QED BY <2>2, <2>3 DEF Satisfied, Grows
<1>2. CASE \E m, n \in Node : s = Same(m, n)
  <2>1. PICK m \in Node, n \in Node : s = Same(m, n)
    BY <1>2
  <2>2. s.call = "unify" /\ s.args[1] = m /\ s.args[2] = n
    BY <2>1 DEF Same
  <2>3. m \in k.class[n]
    BY <2>2 DEF Satisfied
  <2> QED BY <2>2, <2>3 DEF Satisfied, Grows
<1>3. CASE s = Wrong
  <2>1. s.call = "report"
    BY <1>3 DEF Wrong
  <2> QED BY <2>1 DEF Satisfied
<1> QED BY <1>1, <1>2, <1>3 DEF Step

\* A set of numbers that is not empty has a least.
LEMMA Least ==
    ASSUME NEW S \in SUBSET Nat, S # {}
    PROVE  \E h \in S : \A k \in S : h <= k
<1> DEFINE Below == OpToRel(<, Nat)
<1>1. PICK h \in S : \A k \in S : ~ (<<k, h>> \in Below)
  BY NatLessThanWellFounded, WFMin
<1>2. ASSUME NEW k \in S PROVE h <= k
  <2>1. <<k, h>> \in Nat \X Nat /\ ~ (<<k, h>> \in Below)
    BY <1>1
  <2> QED BY <2>1 DEF OpToRel
<1> QED BY <1>2

\* After is what one step after the other makes.
LEMMA AfterIs ==
    ASSUME NEW k, NEW steps, Len(steps) \in Nat
    PROVE  \E a : /\ a[0] = k /\ a[Len(steps)] = After(k, steps)
                  /\ \A i \in 1 .. Len(steps) : a[i] = Perform(a[i - 1], steps[i])
<1> DEFINE N == Len(steps)
           Up(a, j) == a = [i \in 0 .. j |-> IF i = 0 THEN k ELSE Perform(a[i - 1], steps[i])]
           Bad == {j \in 0 .. N : ~ \E a : Up(a, j)}
<1>1. Bad = {}
  <2>1. SUFFICES ASSUME Bad # {} PROVE FALSE
    OBVIOUS
  <2>2. PICK j \in Bad : \A i \in Bad : j <= i
    <3>1. Bad \in SUBSET Nat
      OBVIOUS
    <3> QED BY <2>1, <3>1, Least
  <2>3. CASE j = 0
    <3> DEFINE a == [i \in 0 .. 0 |-> k]
    <3>1. Up(a, 0)
      OBVIOUS
    <3> QED BY <2>2, <2>3, <3>1
  <2>4. CASE j # 0
    <3>1. j \in Nat /\ j - 1 \in 0 .. N /\ j - 1 \notin Bad /\ j \in 1 .. N
      <4>1. j \in 0 .. N
        BY <2>2
      <4>2. j - 1 \notin Bad
        <5> HIDE DEF Bad
        <5> QED BY <2>2, <4>1
      <4> QED BY <2>4, <4>1, <4>2
    <3>2. PICK a : Up(a, j - 1)
      BY <3>1
    <3> DEFINE b == [i \in 0 .. j |-> IF i = j THEN Perform(a[j - 1], steps[j]) ELSE a[i]]
    <3>3. ASSUME NEW i \in 0 .. j
          PROVE  b[i] = IF i = 0 THEN k ELSE Perform(b[i - 1], steps[i])
      <4>1. CASE i = j
        <5>1. i # 0 /\ j - 1 \in 0 .. j /\ j - 1 # j
          BY <3>1, <4>1
        <5> QED BY <4>1, <5>1
      <4>2. CASE i # j
        <5>1. i \in 0 .. (j - 1) /\ (i # 0 => i - 1 \in 0 .. j /\ i - 1 # j)
          BY <3>1, <4>2
        <5>2. a[i] = IF i = 0 THEN k ELSE Perform(a[i - 1], steps[i])
          BY <3>2, <5>1
        <5>3. b[i] = a[i] /\ (i # 0 => b[i - 1] = a[i - 1])
          BY <4>2, <5>1
        <5> QED BY <5>2, <5>3
      <4> QED BY <4>1, <4>2
    <3>4. b = [i \in 0 .. j |-> b[i]]
      OBVIOUS
    <3> HIDE DEF b
    <3>5. Up(b, j)
      BY <3>3, <3>4
    <3> QED BY <2>2, <3>5
  <2> QED BY <2>3, <2>4
<1>2. \E a : Up(a, N)
  <2>1. N \in 0 .. N
    OBVIOUS
  <2> QED BY <1>1, <2>1
<1> DEFINE f == CHOOSE a : Up(a, N)
<1>3. Up(f, N)
  <2> HIDE DEF Up
  <2> QED BY <1>2
<1>4. After(k, steps) = f[N]
  BY DEF After
<1> HIDE DEF f
<1>5. \A i \in 0 .. N : f[i] = IF i = 0 THEN k ELSE Perform(f[i - 1], steps[i])
  BY <1>3
<1>6. f[0] = k /\ \A i \in 1 .. N : f[i] = Perform(f[i - 1], steps[i])
  <2>1. 0 \in 0 .. N /\ \A i \in 1 .. N : i \in 0 .. N /\ i # 0
    OBVIOUS
  <2> QED BY <1>5, <2>1
<1> QED BY <1>4, <1>6

\* The steps one after the other say what each of them says, no more.
LEMMA Performed ==
    ASSUME NEW k, Good(k), NEW steps, Len(steps) \in Nat,
           \A i \in 1 .. Len(steps) : steps[i] \in Step
    PROVE  /\ Good(After(k, steps)) /\ Grows(k, After(k, steps))
           /\ ~ After(k, steps).failed =>
                 \A i \in 1 .. Len(steps) : Satisfied(After(k, steps), steps[i])
           /\ \A g : Agree(k, g) /\ (\A i \in 1 .. Len(steps) : Holds(steps[i], g))
                       => Agree(After(k, steps), g)
<1>1. PICK a : /\ a[0] = k /\ a[Len(steps)] = After(k, steps)
               /\ \A i \in 1 .. Len(steps) : a[i] = Perform(a[i - 1], steps[i])
  BY AfterIs
<1> DEFINE N == Len(steps)
           True(g) == \A i \in 1 .. N : Holds(steps[i], g)
           Fine(j) ==
             /\ Good(a[j]) /\ Grows(k, a[j])
             /\ ~ a[j].failed => \A i \in 1 .. j : Satisfied(a[j], steps[i])
             /\ \A g : Agree(k, g) /\ True(g) => Agree(a[j], g)
           Bad == {j \in 0 .. N : ~ Fine(j)}
<1>2. Bad = {}
  <2>1. SUFFICES ASSUME Bad # {} PROVE FALSE
    OBVIOUS
  <2>2. PICK j \in Bad : \A i \in Bad : j <= i
    <3>1. Bad \in SUBSET Nat
      OBVIOUS
    <3> HIDE DEF Bad
    <3> QED BY <2>1, <3>1, Least
  <2>3. CASE j = 0
    <3>1. Fine(0)
      BY <1>1, GrowsNot
    <3> QED BY <2>3, <3>1
  <2>4. CASE j # 0
    <3>1. j - 1 \in 0 .. N /\ j - 1 \notin Bad /\ j \in 1 .. N
      BY <2>2, <2>4
    <3>2. Fine(j - 1)
      BY <3>1
    <3> DEFINE l == a[j - 1]
               m == a[j]
    <3>3. m = Perform(l, steps[j]) /\ steps[j] \in Step
      BY <1>1, <3>1
    <3>4. /\ Good(m) /\ Grows(l, m)
          /\ ~ m.failed => Satisfied(m, steps[j])
          /\ \A g : Agree(l, g) /\ Holds(steps[j], g) => Agree(m, g)
      BY <3>2, <3>3, Performing
    <3>5. Grows(k, m)
      BY <3>2, <3>4, GrowsOn
    <3>6. ASSUME ~ m.failed, NEW i \in 1 .. j PROVE Satisfied(m, steps[i])
      <4>1. CASE i = j
        BY <3>4, <3>6, <4>1
      <4>2. CASE i # j
        <5>1. i \in 1 .. (j - 1) /\ i \in 1 .. N
          BY <3>1, <4>2
        <5>2. ~ l.failed
          BY <3>4, <3>6 DEF Grows
        <5>3. Satisfied(l, steps[i])
          BY <3>2, <5>1, <5>2
        <5> QED BY <3>2, <3>4, <5>1, <5>3, StaysSatisfied
      <4> QED BY <4>1, <4>2
    <3>7. ASSUME NEW g, Agree(k, g), True(g) PROVE Agree(m, g)
      BY <3>1, <3>2, <3>4, <3>7
    <3>8. Fine(j)
      BY <3>4, <3>5, <3>6, <3>7
    <3> QED BY <3>8
  <2> QED BY <2>3, <2>4
<1>3. Fine(N)
  <2>1. N \in 0 .. N
    OBVIOUS
  <2> HIDE DEF Fine
  <2> QED BY <1>2, <2>1
<1> QED BY <1>1, <1>3

-----------------------------------------------------------------------------
(***************************************************************************)
(* The shape of the nodes: what is known of a program holds of the nodes   *)
(* that are made of it.                                                    *)
(***************************************************************************)
Shaped(c, p) ==
    /\ c \in NodeRecord
    /\ Len(c.args) \in Arity(c.op) /\ Len(c.args) \in Nat /\ DOMAIN c.args = 1 .. Len(c.args)
    /\ \A i \in 1 .. Len(c.args) : c.args[i] \in DOMAIN p /\ p[c.args[i]].op \notin Slotless
    /\ c.target # 0 => c.target \in DOMAIN p /\ p[c.target].op = "function"
    /\ c.op = "call" => c.target # 0
    /\ c.op = "receiver_pop" => c.target = 0
    /\ c.op \in Slotless => c.note = NoType

\* The program is well-formed, node by node.
LEMMA ProgramShape ==
    ASSUME NodesKept
    PROVE  /\ program \in Seq(NodeRecord) /\ Len(program) \in Nat
           /\ DOMAIN program = 1 .. Len(program)
           /\ \A n \in DOMAIN program :
                 /\ Shaped(program[n], program)
                 /\ \A i \in 1 .. Len(program[n].args) : program[n].args[i] \in 1 .. n - 1
                 /\ program[n].target \in 0 .. n - 1
<1>1. WellFormed(program)
  BY ProgramsAssumption DEF NodesKept
<1>2. program \in Seq(NodeRecord) /\ Len(program) \in Nat /\ DOMAIN program = 1 .. Len(program)
  <2>1. program \in Seq(NodeRecord)
    BY <1>1 DEF WellFormed
  <2> QED BY <2>1, LenProperties
<1>3. ASSUME NEW n \in DOMAIN program
      PROVE  /\ Shaped(program[n], program)
             /\ \A i \in 1 .. Len(program[n].args) : program[n].args[i] \in 1 .. n - 1
             /\ program[n].target \in 0 .. n - 1
  <2> DEFINE c == program[n]
  <2>1. c \in NodeRecord /\ n \in 1 .. Len(program)
    BY <1>2, ElementOfSeq
  <2>2. c.args \in Seq(Nat)
    BY <2>1 DEF NodeRecord
  <2>3. Len(c.args) \in Nat /\ DOMAIN c.args = 1 .. Len(c.args)
    BY <2>2, LenProperties
  <2>4. /\ Len(c.args) \in Arity(c.op)
        /\ \A i \in DOMAIN c.args : c.args[i] \in 1 .. n - 1 /\ program[c.args[i]].op \notin Slotless
        /\ c.target \in 0 .. n - 1
        /\ c.target # 0 => program[c.target].op = "function"
        /\ c.op = "call" => c.target # 0
        /\ c.op = "receiver_pop" => c.target = 0
        /\ c.op \in Slotless => c.note = NoType
    BY <1>1 DEF WellFormed
  <2> HIDE DEF c
  <2>5. \A i \in 1 .. n - 1 : i \in DOMAIN program
    BY <1>2, <2>1
  <2>6. c.target # 0 => c.target \in 1 .. n - 1
    BY <2>1, <2>4
  <2>7. Shaped(c, program)
    BY <2>1, <2>3, <2>4, <2>5, <2>6 DEF Shaped
  <2> QED BY <2>3, <2>4, <2>7 DEF c
<1> QED BY <1>2, <1>3

\* The nodes are those of the program, and regions after them.
LEMMA NodesAre ==
    ASSUME NodesKept
    PROVE  /\ Len(nodes) \in Nat /\ DOMAIN nodes = 1 .. Len(nodes)
           /\ DOMAIN program \subseteq DOMAIN nodes /\ DOMAIN nodes \subseteq Node
           /\ \A n \in DOMAIN nodes : nodes[n] \in NodeRecord
           /\ \A n \in DOMAIN nodes :
                 IF n \in DOMAIN program THEN KeptNode(n) ELSE nodes[n] = RegionNode
           /\ Waiters \subseteq DOMAIN program /\ IsFiniteSet(Waiters) /\ Cardinality(Waiters) \in Nat
<1>1. /\ Len(nodes) \in Nat /\ DOMAIN nodes = 1 .. Len(nodes)
      /\ \A n \in DOMAIN nodes : nodes[n] \in NodeRecord
  <2>1. nodes \in Seq(NodeRecord)
    BY DEF NodesKept
  <2> QED BY <2>1, LenProperties, ElementOfSeq
<1>2. Len(program) \in Nat /\ DOMAIN program = 1 .. Len(program)
  BY ProgramShape
<1>3. Waiters \subseteq DOMAIN program
  BY DEF Waiters
<1>4. IsFiniteSet(Waiters) /\ Cardinality(Waiters) \in Nat
  <2>1. IsFiniteSet(1 .. Len(program))
    BY <1>2, FS_Interval
  <2> QED BY <1>2, <1>3, <2>1, FS_Subset, FS_CardinalityType
<1>5. DOMAIN program \subseteq DOMAIN nodes
  BY <1>1, <1>2 DEF NodesKept
<1>6. DOMAIN nodes \subseteq Node
  <2>1. Len(nodes) + Cardinality(Waiters) <= MaxNodes
    BY DEF NodesKept
  <2> QED BY <1>1, <1>4, <2>1, ProgramsAssumption DEF Node
<1>7. ASSUME NEW n \in DOMAIN nodes
      PROVE  IF n \in DOMAIN program THEN KeptNode(n) ELSE nodes[n] = RegionNode
  <2>1. CASE n \in DOMAIN program
    BY <2>1 DEF NodesKept
  <2>2. CASE n \notin DOMAIN program
    <3>1. n \in Len(program) + 1 .. Len(nodes)
      BY <1>1, <1>2, <2>2
    <3> QED BY <2>2, <3>1 DEF NodesKept
  <2> QED BY <2>1, <2>2
<1> QED BY <1>1, <1>3, <1>4, <1>5, <1>6, <1>7

\* What resolving a call leaves as it was
LEMMA KeptParts ==
    ASSUME NodesKept, NEW n \in DOMAIN program
    PROVE  /\ nodes[n].note = program[n].note
           /\ nodes[n].target = program[n].target
           /\ \/ nodes[n].op = program[n].op /\ nodes[n].args = program[n].args
              \/ program[n].op = "receiver_pop" /\ nodes[n].op = "pop" /\ nodes[n].args = program[n].args
              \/ program[n].op = "receiver" /\ nodes[n].op = "call" /\ program[n].target # 0
           /\ nodes[n].op \in Slotless <=> program[n].op \in Slotless
           /\ program[n].op = "function" => nodes[n] = program[n]
<1> DEFINE c == program[n]
<1>1. KeptNode(n)
  BY DEF NodesKept
<1>2. c \in NodeRecord
  BY ProgramShape DEF Shaped
<1>3. CASE nodes[n] = c
  BY <1>3
<1>4. CASE c.op = "receiver_pop" /\ nodes[n] = [c EXCEPT !.op = "pop"]
  BY <1>2, <1>4 DEF NodeRecord, Slotless
<1>5. CASE c.op = "receiver" /\ c.target # 0 /\ nodes[n] = [c EXCEPT !.op = "call"]
  BY <1>2, <1>5 DEF NodeRecord, Slotless
<1>6. ASSUME NEW r, c.op = "receiver", c.target # 0,
             nodes[n] = [c EXCEPT !.op = "call", !.args = Append(@, r)]
      PROVE  /\ nodes[n].note = program[n].note
             /\ nodes[n].target = program[n].target
             /\ nodes[n].op = "call"
  BY <1>2, <1>6 DEF NodeRecord
<1>7. CASE \E r : c.op = "receiver" /\ c.target # 0 /\
                  nodes[n] = [c EXCEPT !.op = "call", !.args = Append(@, r)]
  BY <1>6, <1>7 DEF Slotless
<1> QED BY <1>1, <1>3, <1>4, <1>5, <1>7 DEF KeptNode

\* The arguments of a resolved receiver call
LEMMA ResolvedArguments ==
    ASSUME NodesKept, NEW n \in DOMAIN program, program[n].op = "receiver", nodes[n].op = "call"
    PROVE  LET old == program[n].args
               new == nodes[n].args
           IN /\ new \in Seq(Nat) /\ Len(old) \in Nat
              /\ Len(new) = IF LacksRegion(n) THEN Len(old) + 1 ELSE Len(old)
              /\ \A i \in 1 .. Len(old) : new[i] = old[i]
              /\ LacksRegion(n) => new[Len(old) + 1] \in DOMAIN nodes \ DOMAIN program
<1> DEFINE c == program[n]
           new == nodes[n].args
<1>1. KeptNode(n)
  BY DEF NodesKept
<1>2. c \in NodeRecord /\ c.args \in Seq(Nat) /\ Len(c.args) \in Nat
  BY ProgramShape DEF Shaped, NodeRecord
<1>3. CASE ~ LacksRegion(n) /\ nodes[n] = [c EXCEPT !.op = "call"]
  <2>1. nodes[n].args = c.args
    BY <1>2, <1>3 DEF NodeRecord
  <2> QED BY <1>2, <1>3, <2>1
<1>4. ASSUME LacksRegion(n), NEW r \in Len(program) + 1 .. Len(nodes),
             nodes[n] = [c EXCEPT !.op = "call", !.args = Append(@, r)]
      PROVE  /\ new \in Seq(Nat)
             /\ Len(new) = Len(c.args) + 1
             /\ \A i \in 1 .. Len(c.args) : new[i] = c.args[i]
             /\ new[Len(c.args) + 1] \in DOMAIN nodes \ DOMAIN program
  <2>1. nodes[n].args = Append(c.args, r)
    BY <1>2, <1>4 DEF NodeRecord
  <2>2. r \in Nat /\ r \in DOMAIN nodes \ DOMAIN program
    BY <1>4, ProgramShape, NodesAre
  <2> QED BY <1>2, <2>1, <2>2, AppendProperties
<1>5. CASE LacksRegion(n) /\ \E r \in Len(program) + 1 .. Len(nodes) :
             nodes[n] = [c EXCEPT !.op = "call", !.args = Append(@, r)]
  BY <1>2, <1>4, <1>5
<1>6. nodes[n] # c /\ c.op # "receiver_pop"
  OBVIOUS
<1> QED BY <1>1, <1>3, <1>5, <1>6 DEF KeptNode

\* Nodes refer to nodes that have types, whatever was resolved.
LEMMA NodesShape ==
    ASSUME NodesKept, NEW n \in DOMAIN nodes
    PROVE  Shaped(nodes[n], nodes)
<1> DEFINE c == nodes[n]
<1>1. /\ c \in NodeRecord /\ c.args \in Seq(Nat)
      /\ Len(c.args) \in Nat /\ DOMAIN c.args = 1 .. Len(c.args)
  <2>1. c \in NodeRecord
    BY NodesAre
  <2>2. c.args \in Seq(Nat)
    BY <2>1 DEF NodeRecord
  <2> QED BY <2>1, <2>2, LenProperties
<1>2. CASE n \notin DOMAIN program
  <2>1. c = RegionNode
    BY <1>2, NodesAre
  <2>2. c.op = "leaf" /\ c.args = << >> /\ c.target = 0
    BY <2>1 DEF RegionNode
  <2>3. Len(c.args) = 0
    BY <2>2, EmptySeq
  <2> QED BY <1>1, <2>2, <2>3 DEF Shaped, Arity, Unary, Binary, Slotless
<1>3. CASE n \in DOMAIN program
  <2> DEFINE b == program[n]
  <2>1. Shaped(b, program)
    BY <1>3, ProgramShape
  <2>2. /\ c.note = b.note /\ c.target = b.target
        /\ \/ c.op = b.op /\ c.args = b.args
           \/ b.op = "receiver_pop" /\ c.op = "pop" /\ c.args = b.args
           \/ b.op = "receiver" /\ c.op = "call" /\ b.target # 0
        /\ c.op \in Slotless <=> b.op \in Slotless
    BY <1>3, KeptParts
  <2>3. \A i \in DOMAIN program : i \in DOMAIN nodes /\ (nodes[i].op \in Slotless <=> program[i].op \in Slotless)
    BY NodesAre, KeptParts
  <2>4. c.target # 0 => c.target \in DOMAIN nodes /\ nodes[c.target].op = "function"
    BY <2>1, <2>2, <2>3, KeptParts DEF Shaped
  <2>5. c.op = "call" => c.target # 0
    BY <2>1, <2>2 DEF Shaped
  <2>6. (c.op = "receiver_pop" => c.target = 0) /\ (c.op \in Slotless => c.note = NoType)
    BY <2>1, <2>2 DEF Shaped
  <2>7. Len(c.args) \in Arity(c.op)
    <3>1. CASE c.op = b.op /\ c.args = b.args
      BY <2>1, <3>1 DEF Shaped
    <3>2. CASE b.op = "receiver_pop" /\ c.op = "pop" /\ c.args = b.args
      BY <2>1, <3>2 DEF Shaped, Arity, Unary, Binary, Slotless
    <3>3. CASE b.op = "receiver" /\ c.op = "call"
      BY <1>1, <3>3 DEF Arity, Unary, Binary, Slotless
    <3> QED BY <2>2, <3>1, <3>2, <3>3
  <2>8. ASSUME NEW i \in 1 .. Len(c.args)
        PROVE  c.args[i] \in DOMAIN nodes /\ nodes[c.args[i]].op \notin Slotless
    <3>1. CASE c.args = b.args
      BY <2>1, <2>3, <3>1 DEF Shaped
    <3>2. CASE b.op = "receiver" /\ c.op = "call"
      <4>1. /\ Len(b.args) \in Nat
            /\ Len(c.args) = IF LacksRegion(n) THEN Len(b.args) + 1 ELSE Len(b.args)
            /\ \A j \in 1 .. Len(b.args) : c.args[j] = b.args[j]
            /\ LacksRegion(n) => c.args[Len(b.args) + 1] \in DOMAIN nodes \ DOMAIN program
        BY <1>3, <3>2, ResolvedArguments
      <4>2. CASE i \in 1 .. Len(b.args)
        BY <2>1, <2>3, <4>1, <4>2 DEF Shaped
      <4>3. CASE i \notin 1 .. Len(b.args)
        <5>1. c.args[i] \in DOMAIN nodes \ DOMAIN program
          <6>1. LacksRegion(n) /\ i = Len(b.args) + 1
            BY <1>1, <4>1, <4>3
          <6> QED BY <4>1, <6>1
        <5>2. nodes[c.args[i]].op = "leaf"
          BY <5>1, NodesAre DEF RegionNode
        <5> QED BY <5>1, <5>2 DEF Slotless
      <4> QED BY <4>2, <4>3
    <3> QED BY <2>2, <3>1, <3>2
  <2> HIDE DEF c, b
  <2>9. Shaped(c, nodes)
    BY <1>1, <2>4, <2>5, <2>6, <2>7, <2>8 DEF Shaped
  <2> QED BY <2>9 DEF c
<1> QED BY <1>2, <1>3

\* How many nodes an operation refers to
LEMMA Arities ==
    ASSUME NEW c, NEW p, Shaped(c, p)
    PROVE  /\ c.op \in Binary \cup {"index", "push", "assign", "match", "foreach"} => Len(c.args) = 2
           /\ c.op \in Unary \cup {"join", "field", "unwrap", "pop", "receiver_pop"} => Len(c.args) = 1
           /\ c.op = "cond" => Len(c.args) = 3
           /\ c.op = "receiver" => Len(c.args) >= 1
<1> DEFINE op == c.op
           len == Len(c.args)
<1>1. len \in Arity(op) /\ len \in Nat
  BY DEF Shaped
<1> HIDE DEF op, len
<1>2. op \in Binary \cup {"index", "push", "assign", "match", "foreach"} => len = 2
  BY <1>1 DEF Arity, Binary, Unary, Slotless
<1>3. op \in Unary \cup {"join", "field", "unwrap", "pop", "receiver_pop"} => len = 1
  BY <1>1 DEF Arity, Binary, Unary, Slotless
<1>4. (op = "cond" => len = 3) /\ (op = "receiver" => len >= 1)
  BY <1>1 DEF Arity, Binary, Unary, Slotless
<1> QED BY <1>2, <1>3, <1>4 DEF op, len

-----------------------------------------------------------------------------
(***************************************************************************)
(* The language's rules for one node c of p, as conditions on the types g  *)
(* of the nodes, v being its own: what Judgement says, rule by rule.       *)
(***************************************************************************)
CallFits(c, v, g, p) ==
    LET parameters == p[c.target].args
    IN /\ v = g[c.target]
       /\ Len(c.args) = Len(parameters)
       /\ \A i \in 1 .. Len(c.args) : g[parameters[i]] = g[c.args[i]]

ReceiverFits(c, v, g, p) ==
    LET parameters == p[c.target].args
    IN /\ c.target # 0
       /\ g[c.args[1]] = RecordType
       /\ parameters # <<>> /\ p[parameters[1]].note = RecordType
       /\ v = g[c.target]
       /\ \A i \in 1 .. Len(c.args) : g[parameters[i]] = g[c.args[i]]
       /\ \/ Len(c.args) = Len(parameters)
          \/ /\ Len(c.args) + 1 = Len(parameters)
             /\ g[Last(parameters)] = RegionType
             /\ p[Last(parameters)].note = RegionType

Fits(c, v, g, p) ==
    LET a(i) == g[c.args[i]]
    IN /\ c.op = "join" => v = a(1)
       /\ c.op \in Binary => v = BinaryResult(c.op, a(1), a(2))
       /\ c.op = "cond" => a(1) = BoolType /\ v = ConditionalResult(a(2), a(3))
       /\ c.op \in Unary => v = UnaryResult(c.op, a(1))
       /\ c.op \in Literals => /\ Element(c.op, v) # NoType
                               /\ \A i \in 1 .. Len(c.args) : a(i) = Element(c.op, v)
       /\ c.op = "index" => a(2) = KeyType(a(1)) /\ v = IndexResult(a(1))
       /\ c.op = "field" => a(1) = RecordType /\ v = FieldType
       /\ c.op = "unwrap" => v = Element("Option", a(1))
       /\ c.op = "push" => a(2) = Element("Vec", a(1)) /\ v = VoidType
       /\ c.op \in {"pop", "receiver_pop"} => v = Element("Vec", a(1))
       /\ c.op = "call" => CallFits(c, v, g, p)
       /\ c.op = "receiver" => ReceiverFits(c, v, g, p)
       /\ c.op = "assign" => a(1) = a(2)
       /\ c.op = "match" => a(1) = VariantType /\ a(2) = PayloadType
       /\ c.op = "foreach" => a(2) = IterationElement(a(1))

\* g gives every node of p a type, its annotation's if it has one.
Types(g, p) ==
    \A n \in DOMAIN p : g[n] \in Word /\ g[n] # NoType /\ p[n].note \in {NoType, g[n]}

\* Judgement, rule by rule
LEMMA Judged ==
    ASSUME NEW f, NEW n
    PROVE  LET c == program[n]
               a(i) == f[c.args[i]]
               j == Judgement(n, f)
           IN /\ c.op = "join" => j = a(1)
              /\ c.op \in Binary => j = BinaryResult(c.op, a(1), a(2))
              /\ c.op = "cond" =>
                    j = IF a(1) = BoolType THEN ConditionalResult(a(2), a(3)) ELSE NoType
              /\ c.op \in Unary => j = UnaryResult(c.op, a(1))
              /\ c.op \in Literals =>
                    j = IF \A i \in DOMAIN c.args : a(i) = a(1) THEN Of(c.op, a(1)) ELSE NoType
              /\ c.op = "index" => j = IF a(2) = KeyType(a(1)) THEN IndexResult(a(1)) ELSE NoType
              /\ c.op = "field" => j = IF a(1) = RecordType THEN FieldType ELSE NoType
              /\ c.op = "unwrap" => j = Element("Option", a(1))
              /\ c.op = "push" => j = IF a(2) = Element("Vec", a(1)) THEN VoidType ELSE NoType
              /\ c.op \in {"pop", "receiver_pop"} => j = Element("Vec", a(1))
              /\ c.op = "call" => j = IF Takes(n, f) THEN f[c.target] ELSE NoType
              /\ c.op = "receiver" =>
                    j = IF Method(n, f) /\ Takes(n, f) THEN f[c.target] ELSE NoType
              /\ c.op = "assign" => j = IF a(1) = a(2) THEN VoidType ELSE NoType
              /\ c.op = "match" =>
                    j = IF a(1) = VariantType /\ a(2) = PayloadType THEN VoidType ELSE NoType
              /\ c.op = "foreach" =>
                    j = IF a(2) = IterationElement(a(1)) THEN VoidType ELSE NoType
<1> DEFINE c == program[n]
           a(i) == f[c.args[i]]
           j == Judgement(n, f)
<1>1. c.op = "join" => j = a(1)
  BY DEF Judgement, Binary, Unary, Literals
<1>2. c.op \in Binary => j = BinaryResult(c.op, a(1), a(2))
  BY DEF Judgement, Binary, Unary, Literals
<1>3. c.op = "cond" => j = IF a(1) = BoolType THEN ConditionalResult(a(2), a(3)) ELSE NoType
  BY DEF Judgement, Binary, Unary, Literals
<1>4. c.op \in Unary => j = UnaryResult(c.op, a(1))
  BY DEF Judgement, Binary, Unary, Literals
<1>5. c.op \in Literals =>
         j = IF \A i \in DOMAIN c.args : a(i) = a(1) THEN Of(c.op, a(1)) ELSE NoType
  BY DEF Judgement, Binary, Unary, Literals
<1>6. c.op = "index" => j = IF a(2) = KeyType(a(1)) THEN IndexResult(a(1)) ELSE NoType
  BY DEF Judgement, Binary, Unary, Literals
<1>7. c.op = "field" => j = IF a(1) = RecordType THEN FieldType ELSE NoType
  BY DEF Judgement, Binary, Unary, Literals
<1>8. c.op = "unwrap" => j = Element("Option", a(1))
  BY DEF Judgement, Binary, Unary, Literals
<1>9. c.op = "push" => j = IF a(2) = Element("Vec", a(1)) THEN VoidType ELSE NoType
  BY DEF Judgement, Binary, Unary, Literals
<1>10. c.op \in {"pop", "receiver_pop"} => j = Element("Vec", a(1))
  BY DEF Judgement, Binary, Unary, Literals
<1>11. c.op = "call" => j = IF Takes(n, f) THEN f[c.target] ELSE NoType
  BY DEF Judgement, Binary, Unary, Literals
<1>12. c.op = "receiver" => j = IF Method(n, f) /\ Takes(n, f) THEN f[c.target] ELSE NoType
  BY DEF Judgement, Binary, Unary, Literals
<1>13. c.op = "assign" => j = IF a(1) = a(2) THEN VoidType ELSE NoType
  BY DEF Judgement, Binary, Unary, Literals
<1>14. c.op = "match" =>
          j = IF a(1) = VariantType /\ a(2) = PayloadType THEN VoidType ELSE NoType
  BY DEF Judgement, Binary, Unary, Literals
<1>15. c.op = "foreach" => j = IF a(2) = IterationElement(a(1)) THEN VoidType ELSE NoType
  BY DEF Judgement, Binary, Unary, Literals
<1> QED BY <1>1, <1>2, <1>3, <1>4, <1>5, <1>6, <1>7, <1>8, <1>9, <1>10, <1>11, <1>12,
           <1>13, <1>14, <1>15

\* What a function takes, argument by argument
LEMMA Taken ==
    ASSUME NodesKept, NEW f, NEW n \in DOMAIN program, program[n].target # 0
    PROVE  LET c == program[n]
               parameters == program[c.target].args
           IN Takes(n, f) <=>
                /\ \A i \in 1 .. Len(c.args) : f[parameters[i]] = f[c.args[i]]
                /\ \/ Len(c.args) = Len(parameters)
                   \/ /\ c.op = "receiver" /\ Len(c.args) + 1 = Len(parameters)
                      /\ f[Last(parameters)] = RegionType
                      /\ program[Last(parameters)].note = RegionType
<1> DEFINE c == program[n]
           parameters == program[c.target].args
           supplied == [i \in DOMAIN c.args |-> f[c.args[i]]]
           expected == [i \in DOMAIN parameters |-> f[parameters[i]]]
           All == Range(f) \cup {f[c.args[i]] : i \in DOMAIN c.args}
                    \cup {f[parameters[i]] : i \in DOMAIN parameters} \cup {RegionType}
<1>1. /\ Len(c.args) \in Nat /\ DOMAIN c.args = 1 .. Len(c.args)
      /\ Len(parameters) \in Nat /\ DOMAIN parameters = 1 .. Len(parameters)
  BY ProgramShape DEF Shaped
<1>2. Last(parameters) = parameters[Len(parameters)]
  BY DEF Last
<1>3. supplied = expected <=>
         /\ Len(c.args) = Len(parameters)
         /\ \A i \in 1 .. Len(c.args) : f[parameters[i]] = f[c.args[i]]
  <2>1. 1 .. Len(c.args) = 1 .. Len(parameters) <=> Len(c.args) = Len(parameters)
    BY <1>1
  <2>2. DOMAIN supplied = 1 .. Len(c.args) /\ DOMAIN expected = 1 .. Len(parameters)
    BY <1>1
  <2>3. /\ \A i \in 1 .. Len(c.args) : supplied[i] = f[c.args[i]]
        /\ \A i \in 1 .. Len(parameters) : expected[i] = f[parameters[i]]
    BY <1>1
  <2>4. ASSUME supplied = expected
        PROVE  /\ Len(c.args) = Len(parameters)
               /\ \A i \in 1 .. Len(c.args) : f[parameters[i]] = f[c.args[i]]
    <3> HIDE DEF supplied, expected, c, parameters
    <3> QED BY <2>1, <2>2, <2>3, <2>4
  <2>5. ASSUME Len(c.args) = Len(parameters),
               \A i \in 1 .. Len(c.args) : f[parameters[i]] = f[c.args[i]]
        PROVE  supplied = expected
    BY <1>1, <2>5
  <2> QED BY <2>4, <2>5
<1>4. supplied \in Seq(All) /\ Len(supplied) = Len(c.args)
  <2>1. supplied \in [1 .. Len(c.args) -> All]
    BY <1>1
  <2>2. supplied \in Seq(All)
    <3> HIDE DEF supplied, All, c
    <3> QED BY <1>1, <2>1, SeqDef
  <2>3. DOMAIN supplied = 1 .. Len(c.args) /\ Len(c.args) \in Nat
    BY <1>1
  <2> HIDE DEF supplied, All, c
  <2> QED BY <2>2, <2>3, LenProperties
<1>5. expected = Append(supplied, RegionType) <=>
         /\ Len(c.args) + 1 = Len(parameters)
         /\ \A i \in 1 .. Len(c.args) : f[parameters[i]] = f[c.args[i]]
         /\ f[Last(parameters)] = RegionType
  <2> DEFINE more == Append(supplied, RegionType)
  <2>1. /\ more \in Seq(All) /\ Len(more) = Len(c.args) + 1
        /\ \A i \in 1 .. Len(c.args) : more[i] = f[c.args[i]]
        /\ more[Len(c.args) + 1] = RegionType
    <3>1. \A i \in 1 .. Len(c.args) : supplied[i] = f[c.args[i]]
      BY <1>1
    <3>2. RegionType \in All
      OBVIOUS
    <3> HIDE DEF supplied, All
    <3> QED BY <1>4, <3>1, <3>2, AppendProperties
  <2>2. expected \in Seq(All) /\ Len(expected) = Len(parameters)
    <3>1. expected \in [1 .. Len(parameters) -> All]
      BY <1>1
    <3>2. expected \in Seq(All)
      <4> HIDE DEF expected, All, parameters
      <4> QED BY <1>1, <3>1, SeqDef
    <3>3. DOMAIN expected = 1 .. Len(parameters) /\ Len(parameters) \in Nat
      BY <1>1
    <3> HIDE DEF expected, All, parameters
    <3> QED BY <3>2, <3>3, LenProperties
  <2>3. \A i \in 1 .. Len(parameters) : expected[i] = f[parameters[i]]
    BY <1>1
  <2> HIDE DEF more, expected, All
  <2>4. ASSUME expected = more
        PROVE  /\ Len(c.args) + 1 = Len(parameters)
               /\ \A i \in 1 .. Len(c.args) : f[parameters[i]] = f[c.args[i]]
               /\ f[Last(parameters)] = RegionType
    <3>1. Len(c.args) + 1 = Len(parameters)
      BY <2>1, <2>2, <2>4
    <3>2. \A i \in 1 .. Len(c.args) : i \in 1 .. Len(parameters)
      BY <1>1, <3>1
    <3>3. Len(parameters) \in 1 .. Len(parameters)
      BY <1>1, <3>1
    <3> HIDE DEF c, parameters
    <3> QED BY <1>2, <2>1, <2>3, <2>4, <3>1, <3>2, <3>3
  <2>5. ASSUME Len(c.args) + 1 = Len(parameters),
               \A i \in 1 .. Len(c.args) : f[parameters[i]] = f[c.args[i]],
               f[Last(parameters)] = RegionType
        PROVE  expected = more
    <3>1. ASSUME NEW i \in 1 .. Len(expected) PROVE expected[i] = more[i]
      <4>1. CASE i = Len(parameters)
        <5> HIDE DEF c, parameters
        <5> QED BY <1>2, <2>1, <2>2, <2>3, <2>5, <4>1
      <4>2. CASE i # Len(parameters)
        <5>1. i \in 1 .. Len(c.args)
          BY <1>1, <2>2, <2>5, <4>2
        <5> HIDE DEF c, parameters
        <5> QED BY <2>1, <2>2, <2>3, <2>5, <5>1
      <4> QED BY <4>1, <4>2
    <3> HIDE DEF c, parameters
    <3> QED BY <2>1, <2>2, <2>5, <3>1, SeqEqual
  <2> QED BY <2>4, <2>5 DEF more
<1>6. Takes(n, f) <=>
         \/ supplied = expected
         \/ c.op = "receiver" /\ expected = Append(supplied, RegionType)
                              /\ program[Last(parameters)].note = RegionType
  BY DEF Takes
<1> HIDE DEF supplied, expected
<1> QED BY <1>3, <1>5, <1>6

\* A typing follows the rules.
LEMMA ObeysFits ==
    ASSUME NodesKept, NEW f, Obeys(f), NEW n \in DOMAIN program
    PROVE  Fits(program[n], f[n], f, program)
<1> DEFINE c == program[n]
           a(i) == f[c.args[i]]
           j == Judgement(n, f)
           v == f[n]
<1>1. v \in Word /\ v # NoType
  BY DEF Obeys, InOrder
<1>2. ~ Free(n) => v = j
  BY DEF Obeys
<1>3. Free(n) <=> c.op \in {"leaf", "function"} \/ (c.op \in Literals /\ c.args = << >>)
  BY DEF Free
<1>4. /\ Len(c.args) \in Arity(c.op) /\ Len(c.args) \in Nat /\ DOMAIN c.args = 1 .. Len(c.args)
      /\ \A i \in 1 .. Len(c.args) : c.args[i] \in DOMAIN program
  BY ProgramShape DEF Shaped
<1>5. \A i \in 1 .. Len(c.args) : a(i) \in Word /\ a(i) # NoType
  BY <1>4 DEF Obeys, InOrder
<1>6. c.op = "join" => v = a(1)
  BY <1>2, <1>3, Judged DEF Literals
<1>7. c.op \in Binary => v = BinaryResult(c.op, a(1), a(2))
  <2>1. c.op \in Binary => ~ Free(n)
    BY <1>3 DEF Literals, Binary
  <2> QED BY <1>2, <2>1, Judged
<1>8. c.op = "cond" => a(1) = BoolType /\ v = ConditionalResult(a(2), a(3))
  <2>1. c.op = "cond" => ~ Free(n)
    BY <1>3 DEF Literals
  <2> QED BY <1>1, <1>2, <2>1, Judged
<1>9. c.op \in Unary => v = UnaryResult(c.op, a(1))
  <2>1. c.op \in Unary => ~ Free(n)
    BY <1>3 DEF Literals, Unary
  <2> QED BY <1>2, <2>1, Judged
<1>10. c.op \in Literals => /\ Element(c.op, v) # NoType
                            /\ \A i \in 1 .. Len(c.args) : a(i) = Element(c.op, v)
  <2> SUFFICES ASSUME c.op \in Literals
               PROVE  /\ Element(c.op, v) # NoType
                      /\ \A i \in 1 .. Len(c.args) : a(i) = Element(c.op, v)
    OBVIOUS
  <2>1. CASE c.args = << >>
    <3>1. Element(c.op, v) # NoType
      BY <1>3, <2>1 DEF Obeys
    <3>2. Len(c.args) = 0
      BY <2>1, EmptySeq
    <3> QED BY <3>1, <3>2
  <2>2. CASE c.args # << >>
    <3>1. ~ Free(n)
      BY <1>3, <2>2 DEF Literals
    <3>2. v = IF \A i \in DOMAIN c.args : a(i) = a(1) THEN Of(c.op, a(1)) ELSE NoType
      BY <1>2, <3>1, Judged
    <3>3. v = Of(c.op, a(1)) /\ \A i \in DOMAIN c.args : a(i) = a(1)
      BY <1>1, <3>2
    <3>4. 1 \in 1 .. Len(c.args)
      <4>1. c.args \in Seq(Nat)
        BY ProgramShape DEF Shaped, NodeRecord
      <4> QED BY <1>4, <2>2, <4>1, EmptySeq
    <3>5. c.op \in Letter
      BY DEF Letter
    <3>6. Element(c.op, v) = a(1) /\ a(1) # NoType
      BY <1>5, <3>3, <3>4, <3>5, Containing
    <3> QED BY <1>4, <3>3, <3>6
  <2> QED BY <2>1, <2>2
<1>11. c.op = "index" => a(2) = KeyType(a(1)) /\ v = IndexResult(a(1))
  <2>1. c.op = "index" => ~ Free(n)
    BY <1>3 DEF Literals
  <2> QED BY <1>1, <1>2, <2>1, Judged
<1>12. c.op = "field" => a(1) = RecordType /\ v = FieldType
  <2>1. c.op = "field" => ~ Free(n)
    BY <1>3 DEF Literals
  <2> QED BY <1>1, <1>2, <2>1, Judged
<1>13. c.op = "unwrap" => v = Element("Option", a(1))
  <2>1. c.op = "unwrap" => ~ Free(n)
    BY <1>3 DEF Literals
  <2> QED BY <1>1, <1>2, <2>1, Judged
<1>14. c.op = "push" => a(2) = Element("Vec", a(1)) /\ v = VoidType
  <2>1. c.op = "push" => ~ Free(n)
    BY <1>3 DEF Literals
  <2> QED BY <1>1, <1>2, <2>1, Judged
<1>15. c.op \in {"pop", "receiver_pop"} => v = Element("Vec", a(1))
  <2>1. c.op \in {"pop", "receiver_pop"} => ~ Free(n)
    BY <1>3 DEF Literals
  <2> QED BY <1>1, <1>2, <2>1, Judged
<1>16. c.op = "call" => CallFits(c, v, f, program)
  <2> SUFFICES ASSUME c.op = "call" PROVE CallFits(c, v, f, program)
    OBVIOUS
  <2>1. ~ Free(n) /\ c.target # 0
    BY <1>3, ProgramShape DEF Literals, Shaped
  <2>2. v = f[c.target] /\ Takes(n, f)
    BY <1>1, <1>2, <2>1, Judged
  <2> QED BY <2>1, <2>2, Taken DEF CallFits
<1>17. c.op = "receiver" => ReceiverFits(c, v, f, program)
  <2> SUFFICES ASSUME c.op = "receiver" PROVE ReceiverFits(c, v, f, program)
    OBVIOUS
  <2>1. ~ Free(n)
    BY <1>3 DEF Literals
  <2>2. v = f[c.target] /\ Takes(n, f) /\ Method(n, f)
    BY <1>1, <1>2, <2>1, Judged
  <2>3. c.target # 0
    BY <2>2 DEF Method
  <2> QED BY <2>2, <2>3, Taken DEF ReceiverFits, Method
<1>18. c.op = "assign" => a(1) = a(2)
  <2>1. c.op = "assign" => ~ Free(n)
    BY <1>3 DEF Literals
  <2> QED BY <1>1, <1>2, <2>1, Judged
<1>19. c.op = "match" => a(1) = VariantType /\ a(2) = PayloadType
  <2>1. c.op = "match" => ~ Free(n)
    BY <1>3 DEF Literals
  <2> QED BY <1>1, <1>2, <2>1, Judged
<1>20. c.op = "foreach" => a(2) = IterationElement(a(1))
  <2>1. c.op = "foreach" => ~ Free(n)
    BY <1>3 DEF Literals
  <2> QED BY <1>1, <1>2, <2>1, Judged
<1> QED
  <2> HIDE DEF j
  <2> QED BY <1>6, <1>7, <1>8, <1>9, <1>10, <1>11, <1>12, <1>13, <1>14, <1>15, <1>16, <1>17,
             <1>18, <1>19, <1>20 DEF Fits

\* A typing gives every node a type, its annotation's if it has one.
LEMMA ObeysTypes ==
    ASSUME NodesKept, NEW f, Obeys(f)
    PROVE  /\ Types(Extended(f), nodes)
           /\ \A n \in DOMAIN program : Extended(f)[n] = f[n]
           /\ \A n \in Node \ DOMAIN program : Extended(f)[n] = RegionType
<1>1. \A n \in DOMAIN program : f[n] \in Word /\ f[n] # NoType /\ program[n].note \in {NoType, f[n]}
  BY DEF Obeys, InOrder
<1>2. DOMAIN program \subseteq DOMAIN nodes /\ DOMAIN nodes \subseteq Node
  BY NodesAre
<1>3. /\ \A n \in DOMAIN program : Extended(f)[n] = f[n]
      /\ \A n \in Node \ DOMAIN program : Extended(f)[n] = RegionType
  BY <1>2 DEF Extended
<1>4. RegionType \in Word /\ RegionType # NoType
  BY BasicWords DEF Basic
<1>5. \A n \in DOMAIN nodes \ DOMAIN program : nodes[n].note = RegionType
  BY NodesAre DEF RegionNode
<1>6. \A n \in DOMAIN program : nodes[n].note = program[n].note
  BY KeptParts
<1> QED BY <1>1, <1>2, <1>3, <1>4, <1>5, <1>6 DEF Types

\* What fits the program fits the nodes made of it.
LEMMA FitsNodes ==
    ASSUME NodesKept, NEW f, Obeys(f), NEW n \in DOMAIN nodes
    PROVE  Fits(nodes[n], Extended(f)[n], Extended(f), nodes)
<1> DEFINE g == Extended(f)
           c == nodes[n]
           b == program[n]
<1>1. /\ \A m \in DOMAIN program : g[m] = f[m]
      /\ \A m \in Node \ DOMAIN program : g[m] = RegionType
      /\ DOMAIN nodes \subseteq Node
  BY ObeysTypes, NodesAre
<1>2. CASE n \notin DOMAIN program
  <2>1. c.op = "leaf"
    BY <1>2, NodesAre DEF RegionNode
  <2> QED BY <2>1 DEF Fits, Binary, Unary, Literals
<1>3. CASE n \in DOMAIN program
  <2>1. Fits(b, f[n], f, program)
    BY <1>3, ObeysFits
  <2>2. /\ Len(b.args) \in Nat /\ Len(b.args) \in Arity(b.op)
        /\ \A i \in 1 .. Len(b.args) : b.args[i] \in DOMAIN program
        /\ b.target # 0 => b.target \in DOMAIN program /\ program[b.target].op = "function"
    BY <1>3, ProgramShape DEF Shaped
  <2>3. \A i \in 1 .. Len(b.args) : g[b.args[i]] = f[b.args[i]]
    BY <1>1, <2>2
  <2>4. g[n] = f[n]
    BY <1>1, <1>3
  <2>5. /\ c.note = b.note /\ c.target = b.target
        /\ \/ c.op = b.op /\ c.args = b.args
           \/ b.op = "receiver_pop" /\ c.op = "pop" /\ c.args = b.args
           \/ b.op = "receiver" /\ c.op = "call" /\ b.target # 0
    BY <1>3, KeptParts
  <2>6. b.target # 0 =>
           LET parameters == program[b.target].args
           IN /\ nodes[b.target] = program[b.target]
              /\ g[b.target] = f[b.target]
              /\ Len(parameters) \in Nat
              /\ \A i \in 1 .. Len(parameters) :
                    /\ parameters[i] \in DOMAIN program
                    /\ g[parameters[i]] = f[parameters[i]]
                    /\ nodes[parameters[i]].note = program[parameters[i]].note
    BY <1>1, <2>2, ProgramShape, KeptParts DEF Shaped
  <2>7. /\ c.op \in Binary \cup {"index", "push", "assign", "match", "foreach"} => Len(c.args) = 2
        /\ c.op \in Unary \cup {"join", "field", "unwrap", "pop", "receiver_pop"} => Len(c.args) = 1
        /\ c.op = "cond" => Len(c.args) = 3
    <3>1. Shaped(c, nodes)
      BY NodesShape
    <3> QED BY <3>1 DEF Shaped, Arity, Binary, Unary, Slotless
  <2> HIDE DEF g, c, b
  <2>8. CASE c.args = b.args /\ c.op = b.op /\ b.op \notin {"call", "receiver"}
    <3>1. /\ c.op \in Unary \cup {"join", "field", "unwrap", "pop", "receiver_pop"} =>
                g[c.args[1]] = f[b.args[1]]
          /\ c.op \in Binary \cup {"index", "push", "assign", "match", "foreach"} =>
                g[c.args[1]] = f[b.args[1]] /\ g[c.args[2]] = f[b.args[2]]
          /\ c.op = "cond" =>
                g[c.args[1]] = f[b.args[1]] /\ g[c.args[2]] = f[b.args[2]] /\ g[c.args[3]] = f[b.args[3]]
      BY <2>3, <2>7, <2>8
    <3>2. Fits(c, g[n], g, nodes)
      BY <2>1, <2>3, <2>4, <2>8, <3>1 DEF Fits
    <3> QED BY <3>2 DEF g, c
  <2>9. CASE c.args = b.args /\ b.op = "receiver_pop" /\ c.op = "pop"
    <3>1. g[c.args[1]] = f[b.args[1]]
      BY <2>3, <2>7, <2>9
    <3>2. g[n] = Element("Vec", g[c.args[1]])
      BY <2>1, <2>4, <2>9, <3>1 DEF Fits
    <3>3. Fits(c, g[n], g, nodes)
      BY <2>9, <3>2 DEF Fits, Binary, Unary, Literals
    <3> QED BY <3>3 DEF g, c
  <2>10. CASE c.args = b.args /\ c.op = "call" /\ b.op = "call"
    <3>1. b.target # 0
      BY <1>3, <2>10, ProgramShape DEF Shaped, b
    <3>2. CallFits(b, f[n], f, program)
      BY <2>1, <2>10 DEF Fits
    <3>3. CallFits(c, g[n], g, nodes)
      BY <2>3, <2>4, <2>5, <2>6, <2>10, <3>1, <3>2 DEF CallFits
    <3>4. Fits(c, g[n], g, nodes)
      BY <2>10, <3>3 DEF Fits, Binary, Unary, Literals
    <3> QED BY <3>4 DEF g, c
  <2>11. CASE c.args = b.args /\ c.op = "receiver" /\ b.op = "receiver"
    <3> DEFINE parameters == program[b.target].args
    <3>1. ReceiverFits(b, f[n], f, program)
      BY <2>1, <2>11 DEF Fits
    <3>2. b.target # 0 /\ Len(b.args) >= 1
      BY <2>2, <2>11, <3>1 DEF ReceiverFits, Arity, Unary, Binary, Slotless
    <3>3. nodes[b.target] = program[b.target] /\ g[b.target] = f[b.target]
      BY <2>6, <3>2
    <3>4. /\ Len(parameters) \in Nat
          /\ \A i \in 1 .. Len(parameters) :
                /\ g[parameters[i]] = f[parameters[i]]
                /\ nodes[parameters[i]].note = program[parameters[i]].note
      BY <2>6, <3>2
    <3>5. /\ parameters # << >> /\ Len(b.args) \in 1 .. Len(parameters)
          /\ 1 \in 1 .. Len(parameters) /\ 1 \in 1 .. Len(b.args)
          /\ Len(parameters) \in 1 .. Len(parameters)
          /\ Last(parameters) = parameters[Len(parameters)]
      <4>1. /\ parameters # << >> /\ Len(b.args) \in Nat
            /\ Len(b.args) = Len(parameters) \/ Len(b.args) + 1 = Len(parameters)
        BY <2>2, <3>1, <3>4 DEF ReceiverFits
      <4> HIDE DEF parameters
      <4> QED BY <3>2, <3>4, <4>1 DEF Last
    <3>6. \A i \in 1 .. Len(b.args) : i \in 1 .. Len(parameters)
      BY <2>2, <3>4, <3>5
    <3>7. ReceiverFits(c, g[n], g, nodes)
      <4> HIDE DEF parameters
      <4>1. /\ g[b.args[1]] = RecordType /\ nodes[parameters[1]].note = RecordType
            /\ g[n] = g[b.target]
        BY <2>3, <2>4, <3>1, <3>3, <3>4, <3>5 DEF ReceiverFits, parameters
      <4>2. \A i \in 1 .. Len(b.args) : g[parameters[i]] = g[b.args[i]]
        BY <2>3, <3>1, <3>4, <3>6 DEF ReceiverFits, parameters
      <4>3. \/ Len(b.args) = Len(parameters)
            \/ /\ Len(b.args) + 1 = Len(parameters)
               /\ g[Last(parameters)] = RegionType
               /\ nodes[Last(parameters)].note = RegionType
        BY <3>1, <3>4, <3>5 DEF ReceiverFits, parameters
      <4>4. nodes[c.target].args = parameters /\ c.args = b.args /\ c.target = b.target
        BY <2>5, <2>11, <3>3 DEF parameters
      <4> QED BY <3>2, <3>5, <4>1, <4>2, <4>3, <4>4 DEF ReceiverFits
    <3>8. Fits(c, g[n], g, nodes)
      BY <2>11, <3>7 DEF Fits, Binary, Unary, Literals
    <3> QED BY <3>8 DEF g, c
  <2>12. CASE b.op = "receiver" /\ c.op = "call" /\ b.target # 0
    <3> DEFINE parameters == program[b.target].args
    <3>1. ReceiverFits(b, f[n], f, program)
      BY <2>1, <2>12 DEF Fits
    <3>2. /\ Len(b.args) \in Nat /\ Len(c.args) \in Nat
          /\ Len(c.args) = IF LacksRegion(n) THEN Len(b.args) + 1 ELSE Len(b.args)
          /\ \A i \in 1 .. Len(b.args) : c.args[i] = b.args[i]
          /\ LacksRegion(n) => c.args[Len(b.args) + 1] \in DOMAIN nodes \ DOMAIN program
      BY <1>3, <2>12, ResolvedArguments, NodesShape DEF Shaped, b, c
    <3>3. /\ nodes[b.target].args = parameters /\ g[b.target] = f[b.target]
          /\ Len(parameters) \in Nat
          /\ \A i \in 1 .. Len(parameters) : g[parameters[i]] = f[parameters[i]]
      BY <2>6, <2>12
    <3>4. LacksRegion(n) <=> Len(b.args) + 1 = Len(parameters)
                               /\ program[Last(parameters)].note = RegionType
      BY DEF LacksRegion, b
    <3>5. Last(parameters) = parameters[Len(parameters)]
      BY DEF Last
    <3> HIDE DEF parameters
    <3>6. /\ \A i \in 1 .. Len(b.args) : f[parameters[i]] = f[b.args[i]]
          /\ f[n] = f[b.target]
          /\ \/ Len(b.args) = Len(parameters) /\ ~ LacksRegion(n)
             \/ /\ Len(b.args) + 1 = Len(parameters) /\ LacksRegion(n)
                /\ f[Last(parameters)] = RegionType
      BY <3>1, <3>2, <3>3, <3>4 DEF ReceiverFits, parameters
    <3>7. Len(c.args) = Len(parameters)
      BY <3>2, <3>6
    <3>8. ASSUME NEW i \in 1 .. Len(c.args) PROVE g[parameters[i]] = g[c.args[i]]
      <4>1. i \in 1 .. Len(parameters)
        BY <3>7
      <4>2. CASE i \in 1 .. Len(b.args)
        BY <2>3, <3>2, <3>3, <3>6, <4>1, <4>2
      <4>3. CASE i \notin 1 .. Len(b.args)
        <5>1. i = Len(b.args) + 1 /\ i = Len(parameters) /\ LacksRegion(n)
          BY <3>2, <3>3, <3>6, <3>7, <4>3
        <5>2. g[c.args[i]] = RegionType
          BY <1>1, <3>2, <5>1
        <5> QED BY <3>2, <3>3, <3>5, <3>6, <4>1, <5>1, <5>2
      <4> QED BY <4>2, <4>3
    <3>9. CallFits(c, g[n], g, nodes)
      BY <2>4, <2>5, <3>3, <3>6, <3>7, <3>8 DEF CallFits
    <3>10. Fits(c, g[n], g, nodes)
      BY <2>12, <3>9 DEF Fits, Binary, Unary, Literals
    <3> QED BY <3>10 DEF g, c
  <2> QED BY <2>5, <2>8, <2>9, <2>10, <2>11, <2>12
<1> QED BY <1>2, <1>3

-----------------------------------------------------------------------------
(***************************************************************************)
(* The constraints collected at a node, as a set of steps.                 *)
(***************************************************************************)
LEMMA Listed ==
    /\ ToSet(<< >>) = {}
    /\ \A S : << >> \in Seq(S)
    /\ \A S : \A a \in S : <<a>> \in Seq(S) /\ ToSet(<<a>>) = {a}
    /\ \A S : \A a, b \in S : <<a, b>> \in Seq(S) /\ ToSet(<<a, b>>) = {a, b}
    /\ \A S : \A a, b, c \in S : <<a, b, c>> \in Seq(S) /\ ToSet(<<a, b, c>>) = {a, b, c}
<1>1. ToSet(<< >>) = {}
  <2>1. DOMAIN << >> = {}
    OBVIOUS
  <2> QED BY <2>1 DEF ToSet
<1>2. ASSUME NEW S, NEW a \in S PROVE <<a>> \in Seq(S) /\ ToSet(<<a>>) = {a}
  <2>1. DOMAIN <<a>> = {1} /\ <<a>>[1] = a
    OBVIOUS
  <2> QED BY <2>1 DEF ToSet
<1>3. ASSUME NEW S, NEW a \in S, NEW b \in S PROVE <<a, b>> \in Seq(S) /\ ToSet(<<a, b>>) = {a, b}
  <2>1. DOMAIN <<a, b>> = {1, 2} /\ <<a, b>>[1] = a /\ <<a, b>>[2] = b
    OBVIOUS
  <2> QED BY <2>1 DEF ToSet
<1>4. ASSUME NEW S, NEW a \in S, NEW b \in S, NEW c \in S
      PROVE  <<a, b, c>> \in Seq(S) /\ ToSet(<<a, b, c>>) = {a, b, c}
  <2>1. /\ DOMAIN <<a, b, c>> = {1, 2, 3}
        /\ <<a, b, c>>[1] = a /\ <<a, b, c>>[2] = b /\ <<a, b, c>>[3] = c
    OBVIOUS
  <2> QED BY <2>1 DEF ToSet
<1> QED BY <1>1, <1>2, <1>3, <1>4

\* The members of a sequence
LEMMA Members ==
    ASSUME NEW S, NEW s \in Seq(S)
    PROVE  /\ Len(s) \in Nat /\ DOMAIN s = 1 .. Len(s)
           /\ \A x : x \in ToSet(s) <=> \E i \in 1 .. Len(s) : s[i] = x
           /\ \A i \in 1 .. Len(s) : s[i] \in S
<1>1. Len(s) \in Nat /\ DOMAIN s = 1 .. Len(s) /\ \A i \in 1 .. Len(s) : s[i] \in S
  BY LenProperties, ElementOfSeq
<1> QED BY <1>1 DEF ToSet

\* The members of two sequences
LEMMA Together ==
    ASSUME NEW S, NEW s \in Seq(S), NEW t \in Seq(S)
    PROVE  s \o t \in Seq(S) /\ ToSet(s \o t) = ToSet(s) \cup ToSet(t)
<1> DEFINE u == s \o t
<1>1. /\ u \in Seq(S) /\ Len(u) = Len(s) + Len(t)
      /\ \A i \in 1 .. Len(s) + Len(t) : u[i] = IF i <= Len(s) THEN s[i] ELSE t[i - Len(s)]
  BY ConcatProperties
<1> HIDE DEF u
<1>2. /\ Len(s) \in Nat /\ Len(t) \in Nat
      /\ \A x : x \in ToSet(s) <=> \E i \in 1 .. Len(s) : s[i] = x
      /\ \A x : x \in ToSet(t) <=> \E i \in 1 .. Len(t) : t[i] = x
      /\ \A x : x \in ToSet(u) <=> \E i \in 1 .. Len(u) : u[i] = x
  BY <1>1, Members
<1>3. ASSUME NEW i \in 1 .. Len(u) PROVE u[i] \in ToSet(s) \cup ToSet(t)
  <2>1. CASE i <= Len(s)
    BY <1>1, <1>2, <2>1
  <2>2. CASE ~ (i <= Len(s))
    <3>1. i - Len(s) \in 1 .. Len(t) /\ u[i] = t[i - Len(s)]
      BY <1>1, <1>2, <2>2
    <3> QED BY <1>2, <3>1
  <2> QED BY <2>1, <2>2
<1>4. ASSUME NEW i \in 1 .. Len(s) PROVE s[i] \in ToSet(u)
  <2>1. i \in 1 .. Len(u) /\ u[i] = s[i]
    BY <1>1, <1>2
  <2> QED BY <1>2, <2>1
<1>5. ASSUME NEW i \in 1 .. Len(t) PROVE t[i] \in ToSet(u)
  <2>1. i + Len(s) \in 1 .. Len(u) /\ ~ (i + Len(s) <= Len(s)) /\ (i + Len(s)) - Len(s) = i
    BY <1>1, <1>2
  <2>2. u[i + Len(s)] = t[i]
    BY <1>1, <2>1
  <2> QED BY <1>2, <2>1, <2>2
<1>6. ToSet(u) = ToSet(s) \cup ToSet(t)
  <2>1. ToSet(u) \subseteq ToSet(s) \cup ToSet(t)
    BY <1>2, <1>3
  <2>2. ToSet(s) \subseteq ToSet(u) /\ ToSet(t) \subseteq ToSet(u)
    BY <1>2, <1>4, <1>5
  <2> QED BY <2>1, <2>2
<1> QED BY <1>1, <1>6 DEF u

\* A sequence given by its elements
LEMMA Tabled ==
    ASSUME NEW S, NEW N \in Nat, NEW s \in [1 .. N -> S]
    PROVE  s \in Seq(S) /\ Len(s) = N /\ \A x : x \in ToSet(s) <=> \E i \in 1 .. N : s[i] = x
<1>1. s \in Seq(S)
  BY SeqDef
<1>2. Len(s) = N
  BY <1>1, LenProperties
<1> QED BY <1>1, <1>2, Members

\* What a call of f with these arguments says of its parts
CallTold(n, f, args, s) ==
    LET parameters == nodes[f].args
    IN \/ s = Same(n, f)
       \/ Len(args) # Len(parameters) /\ s = Wrong
       \/ /\ Len(args) = Len(parameters)
          /\ \E i \in 1 .. Len(args) : s = Same(parameters[i], args[i])

Told(n, s) ==
    LET c == nodes[n]
    IN \/ c.note # NoType /\ s = Is(n, c.note)
       \/ c.op \in {"join", "neg", "not"} /\ s = Same(n, c.args[1])
       \/ c.op \in {"not", "and", "less", "eq"} /\ s = Is(n, BoolType)
       \/ c.op = "and" /\ s \in {Is(c.args[1], BoolType), Is(c.args[2], BoolType)}
       \/ c.op = "assign" /\ s = Same(c.args[1], c.args[2])
       \/ c.op \in {"Vec", "Dict"} /\ \E i \in 1 .. Len(c.args) - 1 : s = Same(c.args[1], c.args[i + 1])
       \/ c.op = "mod" /\ s = Is(n, IntType)
       \/ c.op = "cond" /\ s = Is(c.args[1], BoolType)
       \/ c.op = "push" /\ s = Is(n, VoidType)
       \/ c.op = "call" /\ CallTold(n, c.target, c.args, s)

\* The steps the rules make are steps.
LEMMA StepsAre ==
    /\ \A n \in Node : \A t \in Word : t # NoType => Is(n, t) \in Step
    /\ \A m, n \in Node : Same(m, n) \in Step
    /\ Wrong \in Step
BY DEF Step

\* What collect_target_constraints says of a call
LEMMA TargetTold ==
    ASSUME NodesKept, NEW n \in DOMAIN nodes, NEW f \in DOMAIN nodes,
           NEW args \in Seq(Nat), \A i \in 1 .. Len(args) : args[i] \in Node
    PROVE  /\ TargetConstraints(n, f, args) \in Seq(Step)
           /\ \A s : s \in ToSet(TargetConstraints(n, f, args)) <=> CallTold(n, f, args, s)
<1> DEFINE parameters == nodes[f].args
           same == <<Same(n, f)>>
           rest == [i \in 1 .. Len(args) |-> Same(parameters[i], args[i])]
<1>1. DOMAIN nodes \subseteq Node
  BY NodesAre
<1>2. /\ Len(parameters) \in Nat
      /\ \A i \in 1 .. Len(parameters) : parameters[i] \in Node
  BY <1>1, NodesShape DEF Shaped
<1>3. Same(n, f) \in Step /\ Wrong \in Step
  BY <1>1, StepsAre
<1>4. CASE Len(args) # Len(parameters)
  <2>1. TargetConstraints(n, f, args) = <<Same(n, f), Wrong>>
    BY <1>4 DEF TargetConstraints
  <2>2. /\ <<Same(n, f), Wrong>> \in Seq(Step)
        /\ ToSet(<<Same(n, f), Wrong>>) = {Same(n, f), Wrong}
    BY <1>3, Listed
  <2> QED BY <1>4, <2>1, <2>2 DEF CallTold
<1>5. CASE Len(args) = Len(parameters)
  <2>1. TargetConstraints(n, f, args) = same \o rest
    BY <1>5 DEF TargetConstraints
  <2>2. same \in Seq(Step) /\ ToSet(same) = {Same(n, f)}
    BY <1>3, Listed
  <2>3. rest \in [1 .. Len(args) -> Step]
    BY <1>2, <1>5, StepsAre
  <2>4. /\ rest \in Seq(Step)
        /\ \A x : x \in ToSet(rest) <=> \E i \in 1 .. Len(args) : rest[i] = x
    <3> DEFINE N == Len(args)
    <3>1. N \in Nat /\ rest \in [1 .. N -> Step]
      BY <2>3, LenProperties
    <3> HIDE DEF rest, N
    <3>2. /\ rest \in Seq(Step)
          /\ \A x : x \in ToSet(rest) <=> \E i \in 1 .. N : rest[i] = x
      BY <3>1, Tabled
    <3> QED BY <3>2 DEF N
  <2>5. \A i \in 1 .. Len(args) : rest[i] = Same(parameters[i], args[i])
    OBVIOUS
  <2> HIDE DEF same, rest
  <2>6. same \o rest \in Seq(Step) /\ ToSet(same \o rest) = {Same(n, f)} \cup ToSet(rest)
    BY <2>2, <2>4, Together
  <2> QED BY <1>5, <2>1, <2>4, <2>5, <2>6 DEF CallTold
<1> QED BY <1>4, <1>5

\* What collect_constraints says of a node
LEMMA ConstraintsTold ==
    ASSUME NodesKept, NEW n \in DOMAIN nodes
    PROVE  /\ Constraints(n) \in Seq(Step)
           /\ \A s : Told(n, s) <=> \/ s \in ToSet(Constraints(n))
                                    \/ nodes[n].note # NoType /\ s = Is(n, nodes[n].note)
<1> DEFINE c == nodes[n]
           args == c.args
           note(s) == c.note # NoType /\ s = Is(n, c.note)
<1>1. /\ DOMAIN nodes \subseteq Node /\ n \in Node
      /\ Len(args) \in Nat /\ DOMAIN args = 1 .. Len(args) /\ args \in Seq(Nat)
      /\ \A i \in 1 .. Len(args) : args[i] \in Node
      /\ c.op = "call" => c.target \in DOMAIN nodes
  BY NodesAre, NodesShape DEF Shaped, NodeRecord
<1>0. /\ c.op \in Binary \cup {"index", "push", "assign", "match", "foreach"} => Len(args) = 2
      /\ c.op \in Unary \cup {"join", "field", "unwrap", "pop", "receiver_pop"} => Len(args) = 1
      /\ c.op = "cond" => Len(args) = 3
  BY NodesShape, Arities
<1>2. /\ BoolType \in Word /\ BoolType # NoType /\ IntType \in Word /\ IntType # NoType
      /\ VoidType \in Word /\ VoidType # NoType
  BY BasicWords DEF Basic
<1>3. /\ Is(n, BoolType) \in Step /\ Is(n, IntType) \in Step /\ Is(n, VoidType) \in Step
  BY <1>1, <1>2, StepsAre
<1>4. CASE c.op \in {"join", "neg"}
  <2>1. Constraints(n) = <<Same(n, args[1])>>
    BY <1>4 DEF Constraints, Op
  <2>2. 1 \in 1 .. Len(args)
    <3>1. Len(args) = 1
      BY <1>0, <1>4 DEF Unary
    <3> QED BY <3>1
  <2>3. Same(n, args[1]) \in Step
    BY <1>1, <2>2, StepsAre
  <2>4. Constraints(n) \in Seq(Step) /\ ToSet(Constraints(n)) = {Same(n, args[1])}
    BY <2>1, <2>3, Listed
  <2> QED BY <1>4, <2>4 DEF Told
<1>5. CASE c.op = "not"
  <2>1. Constraints(n) = <<Same(n, args[1]), Is(n, BoolType)>>
    BY <1>5 DEF Constraints, Op
  <2>2. 1 \in 1 .. Len(args)
    <3>1. Len(args) = 1
      BY <1>0, <1>5 DEF Unary
    <3> QED BY <3>1
  <2>3. Same(n, args[1]) \in Step
    BY <1>1, <2>2, StepsAre
  <2>4. Constraints(n) \in Seq(Step) /\ ToSet(Constraints(n)) = {Same(n, args[1]), Is(n, BoolType)}
    BY <1>3, <2>1, <2>3, Listed
  <2> QED BY <1>5, <2>4 DEF Told
<1>6. CASE c.op = "assign"
  <2>1. Constraints(n) = <<Same(args[1], args[2])>>
    BY <1>6 DEF Constraints, Op
  <2>2. 1 \in 1 .. Len(args) /\ 2 \in 1 .. Len(args)
    BY <1>0, <1>6 DEF Binary
  <2>3. Same(args[1], args[2]) \in Step
    BY <1>1, <2>2, StepsAre
  <2>4. Constraints(n) \in Seq(Step) /\ ToSet(Constraints(n)) = {Same(args[1], args[2])}
    BY <2>1, <2>3, Listed
  <2> QED BY <1>6, <2>4 DEF Told
<1>7. CASE c.op \in {"Vec", "Dict"} /\ args # << >>
  <2> DEFINE rest == [i \in 1 .. Len(args) - 1 |-> Same(args[1], args[i + 1])]
  <2>1. Constraints(n) = rest
    BY <1>7 DEF Constraints, Op
  <2>2. Len(args) - 1 \in Nat
    BY <1>1, <1>7, EmptySeq
  <2>3. rest \in [1 .. Len(args) - 1 -> Step]
    <3>1. \A i \in 1 .. Len(args) - 1 : 1 \in 1 .. Len(args) /\ i + 1 \in 1 .. Len(args)
      BY <1>1
    <3> QED BY <1>1, <3>1, StepsAre
  <2>4. /\ rest \in Seq(Step)
        /\ \A x : x \in ToSet(rest) <=> \E i \in 1 .. Len(args) - 1 : rest[i] = x
    <3> DEFINE N == Len(args) - 1
    <3>1. N \in Nat /\ rest \in [1 .. N -> Step]
      BY <2>2, <2>3
    <3> HIDE DEF rest, N
    <3>2. /\ rest \in Seq(Step)
          /\ \A x : x \in ToSet(rest) <=> \E i \in 1 .. N : rest[i] = x
      BY <3>1, Tabled
    <3> QED BY <3>2 DEF N
  <2>5. \A i \in 1 .. Len(args) - 1 : rest[i] = Same(args[1], args[i + 1])
    OBVIOUS
  <2> HIDE DEF rest
  <2>6. \A s : s \in ToSet(Constraints(n)) <=>
               \E i \in 1 .. Len(args) - 1 : s = Same(args[1], args[i + 1])
    <3>1. ASSUME NEW s PROVE s \in ToSet(rest) <=> \E i \in 1 .. Len(args) - 1 : s = rest[i]
      BY <2>4
    <3> HIDE DEF args, c
    <3>2. ASSUME NEW s
          PROVE  s \in ToSet(rest) <=> \E i \in 1 .. Len(args) - 1 : s = Same(args[1], args[i + 1])
      <4>1. ASSUME NEW i \in 1 .. Len(args) - 1
            PROVE  s = rest[i] <=> s = Same(args[1], args[i + 1])
        BY <2>5
      <4> QED BY <3>1, <4>1
    <3> QED BY <2>1, <3>2
  <2>7. Constraints(n) \in Seq(Step)
    BY <2>1, <2>4
  <2>8. ASSUME NEW s
        PROVE  Told(n, s) <=> \/ note(s)
                              \/ \E i \in 1 .. Len(args) - 1 : s = Same(args[1], args[i + 1])
    BY <1>7 DEF Told
  <2> QED BY <2>6, <2>7, <2>8
<1>8. CASE c.op \in {"Vec", "Dict"} /\ args = << >>
  <2>1. Constraints(n) = << >>
    BY <1>8 DEF Constraints, Op
  <2>2. Len(args) = 0 /\ 1 .. Len(args) - 1 = {}
    BY <1>8, EmptySeq
  <2> QED BY <1>8, <2>1, <2>2, Listed DEF Told
<1>9. CASE c.op = "and"
  <2>1. Constraints(n) = <<Is(args[1], BoolType), Is(args[2], BoolType), Is(n, BoolType)>>
    BY <1>9 DEF Constraints, Op
  <2>2. 1 \in 1 .. Len(args) /\ 2 \in 1 .. Len(args)
    BY <1>0, <1>9 DEF Binary
  <2>3. Is(args[1], BoolType) \in Step /\ Is(args[2], BoolType) \in Step
    BY <1>1, <1>2, <2>2, StepsAre
  <2>4. /\ Constraints(n) \in Seq(Step)
        /\ ToSet(Constraints(n)) = {Is(args[1], BoolType), Is(args[2], BoolType), Is(n, BoolType)}
    BY <1>3, <2>1, <2>3, Listed
  <2> QED BY <1>9, <2>4 DEF Told
<1>10. CASE c.op \in {"less", "eq"}
  <2>1. Constraints(n) = <<Is(n, BoolType)>>
    BY <1>10 DEF Constraints, Op
  <2>2. Constraints(n) \in Seq(Step) /\ ToSet(Constraints(n)) = {Is(n, BoolType)}
    BY <1>3, <2>1, Listed
  <2> QED BY <1>10, <2>2 DEF Told
<1>11. CASE c.op = "mod"
  <2>1. Constraints(n) = <<Is(n, IntType)>>
    BY <1>11 DEF Constraints, Op
  <2>2. Constraints(n) \in Seq(Step) /\ ToSet(Constraints(n)) = {Is(n, IntType)}
    BY <1>3, <2>1, Listed
  <2> QED BY <1>11, <2>2 DEF Told
<1>12. CASE c.op = "cond"
  <2>1. Constraints(n) = <<Is(args[1], BoolType)>>
    BY <1>12 DEF Constraints, Op
  <2>2. 1 \in 1 .. Len(args)
    <3>1. Len(args) >= 1
      BY <1>0, <1>12
    <3> HIDE DEF args
    <3> QED BY <1>1, <3>1
  <2>3. Is(args[1], BoolType) \in Step
    BY <1>1, <1>2, <2>2, StepsAre
  <2>4. Constraints(n) \in Seq(Step) /\ ToSet(Constraints(n)) = {Is(args[1], BoolType)}
    BY <2>1, <2>3, Listed
  <2> QED BY <1>12, <2>4 DEF Told
<1>13. CASE c.op = "push"
  <2>1. Constraints(n) = <<Is(n, VoidType)>>
    BY <1>13 DEF Constraints, Op
  <2>2. Constraints(n) \in Seq(Step) /\ ToSet(Constraints(n)) = {Is(n, VoidType)}
    BY <1>3, <2>1, Listed
  <2> QED BY <1>13, <2>2 DEF Told
<1>14. CASE c.op = "call"
  <2>1. Constraints(n) = TargetConstraints(n, c.target, args)
    BY <1>14 DEF Constraints, Op
  <2>2. /\ Constraints(n) \in Seq(Step)
        /\ \A s : s \in ToSet(Constraints(n)) <=> CallTold(n, c.target, args, s)
    BY <1>1, <1>14, <2>1, TargetTold
  <2> QED BY <1>14, <2>2 DEF Told
<1>15. CASE c.op \notin {"join", "neg", "not", "assign", "Vec", "Dict", "and", "less", "eq", "mod",
                         "cond", "push", "call"}
  <2>1. Constraints(n) = << >>
    BY <1>15 DEF Constraints, Op
  <2> QED BY <1>15, <2>1, Listed DEF Told
<1> QED BY <1>4, <1>5, <1>6, <1>7, <1>8, <1>9, <1>10, <1>11, <1>12, <1>13, <1>14, <1>15

\* What a node says with its annotation
LEMMA CollectedTold ==
    ASSUME NodesKept, NEW n \in DOMAIN nodes
    PROVE  /\ Collected(n) \in Seq(Step)
           /\ \A s : s \in ToSet(Collected(n)) <=> Told(n, s)
<1>1. n \in Node /\ nodes[n].note \in Word
  BY NodesAre DEF NodeRecord
<1>2. Annotated(n) \in Seq(Step)
      /\ ToSet(Annotated(n)) = IF nodes[n].note = NoType THEN {} ELSE {Is(n, nodes[n].note)}
  <2>1. nodes[n].note # NoType => Is(n, nodes[n].note) \in Step
    BY <1>1, StepsAre
  <2> QED BY <2>1, Listed DEF Annotated
<1>3. /\ Collected(n) \in Seq(Step)
      /\ ToSet(Collected(n)) = ToSet(Annotated(n)) \cup ToSet(Constraints(n))
  BY <1>2, ConstraintsTold, Together DEF Collected
<1> QED BY <1>2, <1>3, ConstraintsTold

\* When a step is true
LEMMA HoldsOf ==
    /\ \A g, n, t : Holds(Is(n, t), g) <=> g[n] = t
    /\ \A g, m, n : Holds(Same(m, n), g) <=> g[m] = g[n]
<1>1. ASSUME NEW g, NEW n, NEW t PROVE Holds(Is(n, t), g) <=> g[n] = t
  <2>1. Is(n, t).call = "bind" /\ Is(n, t).args[1] = n /\ Is(n, t).type = t
    BY DEF Is
  <2> QED BY <2>1 DEF Holds
<1>2. ASSUME NEW g, NEW m, NEW n PROVE Holds(Same(m, n), g) <=> g[m] = g[n]
  <2>1. Same(m, n).call = "unify" /\ Same(m, n).args[1] = m /\ Same(m, n).args[2] = n
    BY DEF Same
  <2> QED BY <2>1 DEF Holds
<1> QED BY <1>1, <1>2

\* Every constraint is true of types that fit.
LEMMA ToldHolds ==
    ASSUME NodesKept, NEW g, Types(g, nodes), NEW n \in DOMAIN nodes,
           Fits(nodes[n], g[n], g, nodes), NEW s, Told(n, s)
    PROVE  Holds(s, g)
<1> DEFINE c == nodes[n]
           args == c.args
<1>1. /\ Len(args) \in Nat
      /\ \A i \in 1 .. Len(args) : args[i] \in DOMAIN nodes
  BY NodesShape DEF Shaped
<1>2. \A m \in DOMAIN nodes : g[m] \in Word /\ g[m] # NoType /\ nodes[m].note \in {NoType, g[m]}
  BY DEF Types
<1>3. /\ c.op \in Binary \cup {"index", "push", "assign", "match", "foreach"} => Len(args) = 2
      /\ c.op \in Unary \cup {"join", "field", "unwrap", "pop", "receiver_pop"} => Len(args) = 1
      /\ c.op = "cond" => Len(args) = 3
  BY NodesShape, Arities
<1>4. CASE c.note # NoType /\ s = Is(n, c.note)
  BY <1>2, <1>4, HoldsOf
<1>5. CASE c.op \in {"join", "neg", "not"} /\ s = Same(n, args[1])
  <2>1. g[n] \in Word /\ g[n] # NoType /\ g[args[1]] \in Word
    <3>1. Len(args) = 1
      BY <1>3, <1>5 DEF Unary
    <3> QED BY <1>1, <1>2, <3>1
  <2>2. g[n] = g[args[1]]
    <3>1. CASE c.op = "join"
      BY <3>1 DEF Fits
    <3>2. CASE c.op \in {"neg", "not"}
      BY <2>1, <3>2, OtherAnswers DEF Fits, Unary
    <3> QED BY <1>5, <3>1, <3>2
  <2> QED BY <1>5, <2>2, HoldsOf
<1>6. CASE c.op = "not" /\ s = Is(n, BoolType)
  <2>1. g[n] # NoType /\ g[args[1]] \in Word
    <3>1. Len(args) = 1
      BY <1>3, <1>6 DEF Unary
    <3> QED BY <1>1, <1>2, <3>1
  <2>2. g[n] = UnaryResult("not", g[args[1]])
    BY <1>6 DEF Fits, Unary
  <2>3. g[n] = BoolType
    BY <2>1, <2>2, OtherAnswers
  <2> QED BY <1>6, <2>3, HoldsOf
<1>7. CASE \/ c.op = "and" /\ s \in {Is(n, BoolType), Is(args[1], BoolType), Is(args[2], BoolType)}
           \/ c.op \in {"less", "eq"} /\ s = Is(n, BoolType)
           \/ c.op = "mod" /\ s = Is(n, IntType)
  <2> DEFINE l == g[args[1]]
             r == g[args[2]]
  <2>1. g[n] # NoType /\ l \in Word /\ r \in Word
    <3>1. Len(args) = 2
      BY <1>3, <1>7 DEF Binary
    <3> QED BY <1>1, <1>2, <3>1
  <2>2. g[n] = BinaryResult(c.op, l, r)
    BY <1>7 DEF Fits, Binary
  <2> HIDE DEF l, r
  <2>3. /\ c.op = "and" => l = BoolType /\ r = BoolType /\ g[n] = BoolType
        /\ c.op \in {"less", "eq"} => g[n] = BoolType
        /\ c.op = "mod" => g[n] = IntType
    BY <2>1, <2>2, Answers
  <2> QED BY <1>7, <2>3, HoldsOf DEF l, r
<1>8. CASE \/ c.op = "assign" /\ s = Same(args[1], args[2])
           \/ c.op = "cond" /\ s = Is(args[1], BoolType)
           \/ c.op = "push" /\ s = Is(n, VoidType)
  <2>1. /\ c.op = "assign" => g[args[1]] = g[args[2]]
        /\ c.op = "cond" => g[args[1]] = BoolType
        /\ c.op = "push" => g[n] = VoidType
    BY DEF Fits
  <2> QED BY <1>8, <2>1, HoldsOf
<1>9. CASE c.op \in {"Vec", "Dict"} /\ \E i \in 1 .. Len(args) - 1 : s = Same(args[1], args[i + 1])
  <2>1. PICK i \in 1 .. Len(args) - 1 : s = Same(args[1], args[i + 1])
    BY <1>9
  <2>2. \A j \in 1 .. Len(args) : g[args[j]] = Element(c.op, g[n])
    BY <1>9 DEF Fits, Literals
  <2>3. 1 \in 1 .. Len(args) /\ i + 1 \in 1 .. Len(args)
    BY <1>1
  <2>4. g[args[1]] = g[args[i + 1]]
    BY <2>2, <2>3
  <2> QED BY <2>1, <2>4, HoldsOf
<1>10. CASE c.op = "call" /\ CallTold(n, c.target, args, s)
  <2>1. /\ g[n] = g[c.target]
        /\ Len(args) = Len(nodes[c.target].args)
        /\ \A i \in 1 .. Len(args) : g[nodes[c.target].args[i]] = g[args[i]]
    BY <1>10 DEF Fits, CallFits
  <2> QED BY <1>10, <2>1, HoldsOf DEF CallTold
<1> QED BY <1>4, <1>5, <1>6, <1>7, <1>8, <1>9, <1>10 DEF Told

-----------------------------------------------------------------------------
(***************************************************************************)
(* What a sweep does at a node is sound: l is k with nothing forgotten and *)
(* nothing added that is not so in all types that fit at n.                *)
(***************************************************************************)
Sound(k, l, n) ==
    /\ Good(l) /\ Grows(k, l)
    /\ \A g : Types(g, nodes) /\ Fits(nodes[n], g[n], g, nodes) /\ Agree(k, g) => Agree(l, g)

\* Learning nothing is sound.
LEMMA SoundNot == ASSUME NEW k, Good(k), NEW n PROVE Sound(k, k, n)
BY GrowsNot DEF Sound

\* Performed, for the set of the steps
LEMMA PerformedAll ==
    ASSUME NEW k, Good(k), NEW steps \in Seq(Step)
    PROVE  /\ Good(After(k, steps)) /\ Grows(k, After(k, steps))
           /\ ~ After(k, steps).failed =>
                 \A s \in ToSet(steps) : Satisfied(After(k, steps), s)
           /\ \A g : Agree(k, g) /\ (\A s \in ToSet(steps) : Holds(s, g))
                       => Agree(After(k, steps), g)
BY Performed, Members

\* An answer says that the node has that type, no more.
LEMMA Answering ==
    ASSUME NEW k, Good(k), NEW n \in Node, NEW t \in Word
    PROVE  /\ Good(Answer(k, n, t)) /\ Grows(k, Answer(k, n, t))
           /\ ~ Answer(k, n, t).failed => t # NoType /\ Answer(k, n, t).type[n] = t
           /\ \A g : Agree(k, g) /\ t # NoType /\ g[n] = t => Agree(Answer(k, n, t), g)
<1>1. CASE t = NoType
  <2>1. Answer(k, n, t) = K!Failed(k)
    BY <1>1 DEF Answer
  <2> QED BY <1>1, <2>1, Failing
<1>2. CASE t # NoType
  <2>1. Answer(k, n, t) = K!Typed(k, n, t)
    BY <1>2 DEF Answer
  <2> QED BY <1>2, <2>1, Typing
<1> QED BY <1>1, <1>2

\* The operands of a node, and what fitting types give them
LEMMA Operands ==
    ASSUME NodesKept, NEW n \in DOMAIN nodes
    PROVE  LET args == nodes[n].args
           IN /\ n \in Node /\ Len(args) \in Nat /\ DOMAIN args = 1 .. Len(args)
              /\ \A i \in 1 .. Len(args) :
                    /\ args[i] \in Node
                    /\ Arg(n, i) = args[i]
                    /\ \A g : Types(g, nodes) => g[args[i]] \in Word /\ g[args[i]] # NoType
              /\ \A g : Types(g, nodes) => g[n] \in Word /\ g[n] # NoType
BY NodesAre, NodesShape DEF Shaped, Types, Arg

\* solve_binary: the integer result of plus and mod has integer operands.
LEMMA BinarySound ==
    ASSUME NodesKept, NEW n \in DOMAIN nodes, NEW k, Good(k), nodes[n].op \in Binary
    PROVE  Sound(k, DeduceBinary(k, n), n)
<1> DEFINE c == nodes[n]
           l == Arg(n, 1)
           r == Arg(n, 2)
           steps == <<Is(l, IntType), Is(r, IntType)>>
           down == Op(n) \in {"plus", "mod"} /\ Known(k, n) = IntType
           k1 == IF down THEN After(k, steps) ELSE k
           fit(g) == Types(g, nodes) /\ Fits(c, g[n], g, nodes)
<1>1. Len(c.args) = 2
  BY NodesShape, Arities
<1>2. /\ n \in Node /\ l \in Node /\ r \in Node
      /\ l = c.args[1] /\ r = c.args[2]
      /\ \A g : Types(g, nodes) => /\ g[l] \in Word /\ g[l] # NoType
                                   /\ g[r] \in Word /\ g[r] # NoType
                                   /\ g[n] \in Word /\ g[n] # NoType
  <2>1. 1 \in 1 .. Len(c.args) /\ 2 \in 1 .. Len(c.args)
    BY <1>1
  <2> QED BY <2>1, Operands
<1>3. \A g : fit(g) => g[n] = BinaryResult(c.op, g[l], g[r])
  BY <1>2 DEF Fits
<1>4. /\ steps \in Seq(Step)
      /\ ToSet(steps) = {Is(l, IntType), Is(r, IntType)}
  <2>1. Is(l, IntType) \in Step /\ Is(r, IntType) \in Step
    BY <1>2, StepsAre, BasicWords DEF Basic
  <2> QED BY <2>1, Listed
<1> HIDE DEF l, r, steps
<1>5. Sound(k, k1, n)
  <2>1. CASE ~ down
    BY <2>1, SoundNot
  <2>2. CASE down
    <3>1. ASSUME NEW g, fit(g), Agree(k, g) PROVE \A s \in ToSet(steps) : Holds(s, g)
      <4>1. g[n] = IntType
        <5>1. IntType # NoType
          BY BasicWords DEF Basic
        <5> QED BY <1>2, <2>2, <3>1, <5>1 DEF Agree, Known
      <4>2. g[l] = IntType /\ g[r] = IntType
        BY <1>2, <1>3, <2>2, <3>1, <4>1, Answers DEF Op
      <4> QED BY <1>4, <4>2, HoldsOf
    <3>2. /\ Good(After(k, steps)) /\ Grows(k, After(k, steps))
          /\ \A g : Agree(k, g) /\ (\A s \in ToSet(steps) : Holds(s, g)) => Agree(After(k, steps), g)
      BY <1>4, PerformedAll
    <3> QED BY <2>2, <3>1, <3>2 DEF Sound
  <2> QED BY <2>1, <2>2
<1> HIDE DEF k1
<1>6. DeduceBinary(k, n) =
         IF NoType \in {Known(k1, l), Known(k1, r)} THEN k1
         ELSE Answer(k1, n, BinaryResult(Op(n), Known(k1, l), Known(k1, r)))
  BY DEF DeduceBinary, k1, l, r, steps
<1>7. CASE NoType \in {Known(k1, l), Known(k1, r)}
  BY <1>5, <1>6, <1>7
<1>8. CASE ~ (NoType \in {Known(k1, l), Known(k1, r)})
  <2> DEFINE t == BinaryResult(Op(n), Known(k1, l), Known(k1, r))
  <2>1. Good(k1) /\ Known(k1, l) \in Word /\ Known(k1, r) \in Word
    BY <1>2, <1>5 DEF Sound, Good, Known
  <2>2. t \in Word
    BY <2>1, Answers
  <2>3. ASSUME NEW g, fit(g), Agree(k1, g) PROVE t # NoType /\ g[n] = t
    <3>1. Known(k1, l) = g[l] /\ Known(k1, r) = g[r]
      BY <1>2, <1>8, <2>3 DEF Agree, Known
    <3> QED BY <1>2, <1>3, <2>3, <3>1 DEF Op
  <2> HIDE DEF t
  <2>4. /\ Good(Answer(k1, n, t)) /\ Grows(k1, Answer(k1, n, t))
        /\ \A g : Agree(k1, g) /\ t # NoType /\ g[n] = t => Agree(Answer(k1, n, t), g)
    BY <1>2, <2>1, <2>2, Answering
  <2>5. Grows(k, Answer(k1, n, t))
    BY <1>5, <2>4, GrowsOn DEF Sound
  <2>6. Sound(k, Answer(k1, n, t), n)
    BY <1>5, <2>3, <2>4, <2>5 DEF Sound
  <2> QED BY <1>6, <1>8, <2>6 DEF t
<1> QED BY <1>7, <1>8

\* solve_conditional: a type that is no number is that of both branches.
LEMMA ConditionalSound ==
    ASSUME NodesKept, NEW n \in DOMAIN nodes, NEW k, Good(k), nodes[n].op = "cond"
    PROVE  Sound(k, DeduceConditional(k, n), n)
<1> DEFINE c == nodes[n]
           l == Arg(n, 2)
           r == Arg(n, 3)
           steps == <<Same(n, l), Same(n, r)>>
           k1 == IF Known(k, n) \notin {NoType, DoubleType} THEN After(k, steps) ELSE k
           exact == \E t \in {Known(k1, l), Known(k1, r)} : t # NoType /\ ~ Numeric(t)
           k2 == IF exact THEN After(k1, steps) ELSE k1
           fit(g) == Types(g, nodes) /\ Fits(c, g[n], g, nodes)
<1>1. Len(c.args) = 3
  BY NodesShape, Arities
<1>2. /\ n \in Node /\ l \in Node /\ r \in Node
      /\ l = c.args[2] /\ r = c.args[3]
      /\ \A g : Types(g, nodes) => /\ g[l] \in Word /\ g[l] # NoType
                                   /\ g[r] \in Word /\ g[r] # NoType
                                   /\ g[n] \in Word /\ g[n] # NoType
  <2>1. 2 \in 1 .. Len(c.args) /\ 3 \in 1 .. Len(c.args)
    BY <1>1
  <2> QED BY <2>1, Operands
<1>3. \A g : fit(g) => g[n] = ConditionalResult(g[l], g[r])
  BY <1>2 DEF Fits
<1>4. /\ steps \in Seq(Step)
      /\ ToSet(steps) = {Same(n, l), Same(n, r)}
  <2>1. Same(n, l) \in Step /\ Same(n, r) \in Step
    BY <1>2, StepsAre
  <2> QED BY <2>1, Listed
<1>5. \A g : g[l] = g[n] /\ g[r] = g[n] => \A s \in ToSet(steps) : Holds(s, g)
  BY <1>4, HoldsOf
<1> HIDE DEF l, r, steps
<1>6. ASSUME NEW j, Good(j)
      PROVE  /\ Good(After(j, steps)) /\ Grows(j, After(j, steps))
             /\ \A g : Agree(j, g) /\ g[l] = g[n] /\ g[r] = g[n] => Agree(After(j, steps), g)
  BY <1>4, <1>5, <1>6, PerformedAll
<1>7. Sound(k, k1, n)
  <2>1. CASE Known(k, n) \in {NoType, DoubleType}
    BY <2>1, SoundNot
  <2>2. CASE Known(k, n) \notin {NoType, DoubleType}
    <3>1. ASSUME NEW g, fit(g), Agree(k, g) PROVE g[l] = g[n] /\ g[r] = g[n]
      <4>1. g[n] = Known(k, n)
        BY <1>2, <2>2, <3>1 DEF Agree, Known
      <4> QED BY <1>2, <1>3, <2>2, <3>1, <4>1, Answers
    <3> QED BY <1>6, <2>2, <3>1 DEF Sound
  <2> QED BY <2>1, <2>2
<1> HIDE DEF k1
<1>8. Sound(k, k2, n)
  <2>1. CASE ~ exact
    BY <1>7, <2>1
  <2>2. CASE exact
    <3>1. ASSUME NEW g, fit(g), Agree(k1, g) PROVE g[l] = g[n] /\ g[r] = g[n]
      <4>1. ~ (Numeric(g[l]) /\ Numeric(g[r]))
        BY <1>2, <2>2, <3>1 DEF Agree, Known
      <4> QED BY <1>2, <1>3, <3>1, <4>1, Answers
    <3>2. Good(k1) /\ Grows(k, k1)
      BY <1>7 DEF Sound
    <3>3. Grows(k, After(k1, steps))
      BY <1>6, <3>2, GrowsOn
    <3> QED BY <1>6, <1>7, <2>2, <3>1, <3>2, <3>3 DEF Sound
  <2> QED BY <2>1, <2>2
<1> HIDE DEF k2
<1>9. DeduceConditional(k, n) =
         IF NoType \in {Known(k2, l), Known(k2, r)} THEN k2
         ELSE Answer(k2, n, ConditionalResult(Known(k2, l), Known(k2, r)))
  BY DEF DeduceConditional, k1, k2, l, r, steps
<1>10. CASE NoType \in {Known(k2, l), Known(k2, r)}
  BY <1>8, <1>9, <1>10
<1>11. CASE ~ (NoType \in {Known(k2, l), Known(k2, r)})
  <2> DEFINE t == ConditionalResult(Known(k2, l), Known(k2, r))
  <2>1. Good(k2) /\ Known(k2, l) \in Word /\ Known(k2, r) \in Word
    BY <1>2, <1>8 DEF Sound, Good, Known
  <2>2. t \in Word
    BY <2>1, Answers
  <2>3. ASSUME NEW g, fit(g), Agree(k2, g) PROVE t # NoType /\ g[n] = t
    <3>1. Known(k2, l) = g[l] /\ Known(k2, r) = g[r]
      BY <1>2, <1>11, <2>3 DEF Agree, Known
    <3> QED BY <1>2, <1>3, <2>3, <3>1
  <2> HIDE DEF t
  <2>4. /\ Good(Answer(k2, n, t)) /\ Grows(k2, Answer(k2, n, t))
        /\ \A g : Agree(k2, g) /\ t # NoType /\ g[n] = t => Agree(Answer(k2, n, t), g)
    BY <1>2, <2>1, <2>2, Answering
  <2>5. Grows(k, Answer(k2, n, t))
    BY <1>8, <2>4, GrowsOn DEF Sound
  <2>6. Sound(k, Answer(k2, n, t), n)
    BY <1>8, <2>3, <2>4, <2>5 DEF Sound
  <2> QED BY <1>9, <1>11, <2>6 DEF t
<1> QED BY <1>10, <1>11

\* solve_unary
LEMMA UnarySound ==
    ASSUME NodesKept, NEW n \in DOMAIN nodes, NEW k, Good(k), nodes[n].op \in Unary
    PROVE  Sound(k, DeduceUnary(k, n), n)
<1> DEFINE c == nodes[n]
           m == Arg(n, 1)
           t == Known(k, m)
<1>1. Len(c.args) = 1
  BY NodesShape, Arities
<1>2. /\ n \in Node /\ m \in Node /\ m = c.args[1]
      /\ \A g : Types(g, nodes) => g[n] # NoType
  <2>1. 1 \in 1 .. Len(c.args)
    BY <1>1
  <2> QED BY <2>1, Operands
<1>3. DeduceUnary(k, n) = IF t # NoType /\ UnaryResult(Op(n), t) = NoType THEN K!Failed(k) ELSE k
  BY DEF DeduceUnary
<1>4. CASE t # NoType /\ UnaryResult(Op(n), t) = NoType
  <2>1. ASSUME NEW g, Types(g, nodes), Fits(c, g[n], g, nodes), Agree(k, g) PROVE FALSE
    <3>1. g[m] = t
      BY <1>2, <1>4, <2>1 DEF Agree, Known
    <3>2. g[n] = UnaryResult(c.op, g[m])
      BY <1>2, <2>1 DEF Fits
    <3> QED BY <1>2, <1>4, <2>1, <3>1, <3>2 DEF Op
  <2> QED BY <1>3, <1>4, <2>1, Failing DEF Sound
<1>5. CASE ~ (t # NoType /\ UnaryResult(Op(n), t) = NoType)
  BY <1>3, <1>5, SoundNot
<1> QED BY <1>4, <1>5

\* solve_literal: the elements have the one type of the container's elements.
LEMMA LiteralSound ==
    ASSUME NodesKept, NEW n \in DOMAIN nodes, NEW k, Good(k), nodes[n].op \in Literals
    PROVE  Sound(k, DeduceLiteral(k, n), n)
<1> DEFINE c == nodes[n]
           args == c.args
           element == Element(Op(n), Known(k, n))
           steps == [i \in 1 .. Len(args) |-> Is(args[i], element)]
           k1 == CASE Known(k, n) = NoType -> k
                   [] Known(k, n) # NoType /\ element = NoType -> K!Failed(k)
                   [] OTHER -> After(k, steps)
           fit(g) == Types(g, nodes) /\ Fits(c, g[n], g, nodes)
<1>1. /\ n \in Node /\ Len(args) \in Nat
      /\ \A i \in 1 .. Len(args) : args[i] \in Node
      /\ \A g : Types(g, nodes) => /\ g[n] \in Word /\ g[n] # NoType
                                   /\ \A i \in 1 .. Len(args) : g[args[i]] \in Word
  BY Operands
<1>2. \A g : fit(g) => /\ Element(c.op, g[n]) # NoType
                       /\ \A i \in 1 .. Len(args) : g[args[i]] = Element(c.op, g[n])
  BY DEF Fits
<1>3. c.op \in Letter /\ Op(n) = c.op
  BY DEF Letter, Op
<1>4. Known(k, n) \in Word /\ element \in Word
  <2>1. Known(k, n) \in Word
    BY <1>1 DEF Good, Known
  <2> QED BY <1>3, <2>1, Contained
<1>5. \A g : fit(g) /\ Agree(k, g) /\ Known(k, n) # NoType => element = Element(c.op, g[n])
  BY <1>1, <1>3 DEF Agree, Known
<1>6. Sound(k, k1, n)
  <2>1. CASE Known(k, n) = NoType
    BY <2>1, SoundNot
  <2>2. CASE Known(k, n) # NoType /\ element = NoType
    <3>1. ASSUME NEW g, fit(g), Agree(k, g) PROVE FALSE
      BY <1>2, <1>5, <2>2, <3>1
    <3>2. k1 = K!Failed(k)
      BY <2>2
    <3> HIDE DEF k1
    <3> QED BY <3>1, <3>2, Failing DEF Sound
  <2>3. CASE Known(k, n) # NoType /\ element # NoType
    <3>1. k1 = After(k, steps)
      BY <2>3
    <3>2. steps \in [1 .. Len(args) -> Step]
      <4>1. \A i \in 1 .. Len(args) : Is(args[i], element) \in Step
        BY <1>1, <1>4, <2>3, StepsAre
      <4> HIDE DEF element
      <4> QED BY <4>1
    <3>3. \A i \in 1 .. Len(args) : steps[i] = Is(args[i], element)
      OBVIOUS
    <3> DEFINE N == Len(args)
    <3>4. N \in Nat /\ steps \in [1 .. N -> Step]
      BY <1>1, <3>2
    <3> HIDE DEF k1, steps, N
    <3>5. /\ steps \in Seq(Step)
          /\ \A x : x \in ToSet(steps) <=> \E i \in 1 .. N : steps[i] = x
      BY <3>4, Tabled
    <3>6. ASSUME NEW g, fit(g), Agree(k, g) PROVE \A s \in ToSet(steps) : Holds(s, g)
      <4>1. element = Element(c.op, g[n])
        BY <1>5, <2>3, <3>6
      <4>2. \A i \in 1 .. Len(args) : g[args[i]] = element
        BY <1>2, <3>6, <4>1
      <4> HIDE DEF element, args
      <4> QED BY <3>3, <3>5, <4>2, HoldsOf DEF N
    <3>7. /\ Good(After(k, steps)) /\ Grows(k, After(k, steps))
          /\ \A g : Agree(k, g) /\ (\A s \in ToSet(steps) : Holds(s, g)) => Agree(After(k, steps), g)
      BY <3>5, PerformedAll
    <3> QED BY <3>1, <3>6, <3>7 DEF Sound
  <2> QED BY <2>1, <2>2, <2>3
<1>7. DeduceLiteral(k, n) =
        IF args = <<>> \/ Known(k1, args[1]) = NoType THEN k1
        ELSE K!Typed(k1, n, Of(Op(n), Known(k1, args[1])))
  BY DEF DeduceLiteral
<1> HIDE DEF k1
<1>8. CASE args = <<>> \/ Known(k1, args[1]) = NoType
  BY <1>6, <1>7, <1>8
<1>9. CASE args # <<>> /\ Known(k1, args[1]) # NoType
  <2> DEFINE first == Known(k1, args[1])
             t == Of(Op(n), first)
  <2>1. 1 \in 1 .. Len(args)
    <3>1. args \in Seq(Nat)
      BY NodesAre DEF NodeRecord
    <3> QED BY <1>1, <1>9, <3>1, EmptySeq
  <2>2. Good(k1) /\ first \in Word
    BY <1>1, <1>6, <2>1 DEF Sound, Good, Known
  <2>3. t \in Word /\ t # NoType
    BY <1>3, <1>9, <2>2, Containing
  <2>4. ASSUME NEW g, fit(g), Agree(k1, g) PROVE g[n] = t
    <3>1. first = g[args[1]]
      BY <1>1, <1>9, <2>1, <2>4 DEF Agree, Known
    <3>2. first = Element(c.op, g[n])
      BY <1>2, <2>1, <2>4, <3>1
    <3>3. g[n] = Of(c.op, Element(c.op, g[n]))
      BY <1>1, <1>2, <1>3, <2>4, Contained
    <3> QED BY <1>3, <3>2, <3>3
  <2> HIDE DEF t
  <2>5. /\ Good(K!Typed(k1, n, t)) /\ Grows(k1, K!Typed(k1, n, t))
        /\ \A g : Agree(k1, g) /\ g[n] = t => Agree(K!Typed(k1, n, t), g)
    BY <1>1, <2>2, <2>3, Typing
  <2>6. Grows(k, K!Typed(k1, n, t))
    BY <1>6, <2>5, GrowsOn DEF Sound
  <2>7. Sound(k, K!Typed(k1, n, t), n)
    BY <1>6, <2>4, <2>5, <2>6 DEF Sound
  <2> QED BY <1>7, <1>9, <2>7 DEF t
<1> QED BY <1>8, <1>9

\* solve_unwrap, in both directions
LEMMA UnwrapSound ==
    ASSUME NodesKept, NEW n \in DOMAIN nodes, NEW k, Good(k), nodes[n].op = "unwrap"
    PROVE  Sound(k, DeduceUnwrap(k, n), n)
<1> DEFINE c == nodes[n]
           m == Arg(n, 1)
           t == Element("Option", Known(k, m))
           u == Of("Option", Known(k, n))
           fit(g) == Types(g, nodes) /\ Fits(c, g[n], g, nodes)
<1>1. Len(c.args) = 1
  BY NodesShape, Arities
<1>2. /\ n \in Node /\ m \in Node /\ m = c.args[1]
      /\ \A g : Types(g, nodes) => g[n] # NoType /\ g[m] \in Word
  <2>1. 1 \in 1 .. Len(c.args)
    BY <1>1
  <2> QED BY <2>1, Operands
<1>3. \A g : fit(g) => g[n] = Element("Option", g[m])
  BY <1>2 DEF Fits
<1>4. "Option" \in Letter
  BY DEF Letter, Literals
<1>5. Known(k, m) \in Word /\ Known(k, n) \in Word
  BY <1>2 DEF Good, Known
<1>6. CASE Known(k, m) # NoType
  <2>1. DeduceUnwrap(k, n) = Answer(k, n, t)
    BY <1>6 DEF DeduceUnwrap
  <2>2. t \in Word
    BY <1>4, <1>5, Contained
  <2>3. ASSUME NEW g, fit(g), Agree(k, g) PROVE t # NoType /\ g[n] = t
    BY <1>2, <1>3, <1>6, <2>3 DEF Agree, Known
  <2> HIDE DEF t
  <2> QED BY <1>2, <2>1, <2>2, <2>3, Answering DEF Sound
<1>7. CASE Known(k, m) = NoType /\ Known(k, n) # NoType
  <2>1. DeduceUnwrap(k, n) = K!Typed(k, m, u)
    BY <1>7 DEF DeduceUnwrap
  <2>2. u \in Word /\ u # NoType
    BY <1>4, <1>5, <1>7, Containing
  <2>3. ASSUME NEW g, fit(g), Agree(k, g) PROVE g[m] = u
    <3>1. Known(k, n) = g[n] /\ Element("Option", g[m]) = g[n] /\ g[n] # NoType
      BY <1>2, <1>3, <1>7, <2>3 DEF Agree, Known
    <3> QED BY <1>2, <1>4, <2>3, <3>1, Contained
  <2> HIDE DEF u
  <2> QED BY <1>2, <2>1, <2>2, <2>3, Typing DEF Sound
<1>8. CASE Known(k, m) = NoType /\ Known(k, n) = NoType
  <2>1. DeduceUnwrap(k, n) = k
    BY <1>8 DEF DeduceUnwrap
  <2> QED BY <2>1, SoundNot
<1> QED BY <1>6, <1>7, <1>8

\* solve_index
LEMMA IndexSound ==
    ASSUME NodesKept, NEW n \in DOMAIN nodes, NEW k, Good(k), nodes[n].op = "index",
           Known(k, Arg(n, 1)) # NoType
    PROVE  Sound(k, DeduceIndex(k, n), n)
<1> DEFINE c == nodes[n]
           m == Arg(n, 1)
           i == Arg(n, 2)
           t == Known(k, m)
           steps == <<Is(n, IndexResult(t)), Is(i, KeyType(t))>>
           fit(g) == Types(g, nodes) /\ Fits(c, g[n], g, nodes)
<1>1. Len(c.args) = 2
  BY NodesShape, Arities
<1>2. /\ n \in Node /\ m \in Node /\ i \in Node /\ m = c.args[1] /\ i = c.args[2]
      /\ \A g : Types(g, nodes) => g[n] # NoType
  <2>1. 1 \in 1 .. Len(c.args) /\ 2 \in 1 .. Len(c.args)
    BY <1>1
  <2> QED BY <2>1, Operands
<1>3. \A g : fit(g) /\ Agree(k, g) => /\ g[m] = t
                                      /\ g[i] = KeyType(t) /\ g[n] = IndexResult(t)
                                      /\ IndexResult(t) # NoType
  BY <1>2 DEF Fits, Agree, Known
<1>4. t \in Word
  BY <1>2 DEF Good, Known
<1>5. IndexResult(t) \in Word /\ KeyType(t) \in Word /\ KeyType(t) # NoType
  BY <1>4, OtherAnswers
<1>6. CASE IndexResult(t) = NoType
  <2>1. DeduceIndex(k, n) = K!Failed(k)
    BY <1>6 DEF DeduceIndex
  <2> QED BY <1>3, <1>6, <2>1, Failing DEF Sound
<1>7. CASE IndexResult(t) # NoType
  <2>1. DeduceIndex(k, n) = After(k, steps)
    BY <1>7 DEF DeduceIndex
  <2>2. Is(n, IndexResult(t)) \in Step /\ Is(i, KeyType(t)) \in Step
    BY <1>2, <1>5, <1>7, StepsAre
  <2>3. /\ steps \in Seq(Step)
        /\ ToSet(steps) = {Is(n, IndexResult(t)), Is(i, KeyType(t))}
    BY <2>2, Listed
  <2>4. ASSUME NEW g, fit(g), Agree(k, g) PROVE \A s \in ToSet(steps) : Holds(s, g)
    BY <1>3, <2>3, <2>4, HoldsOf
  <2> HIDE DEF steps
  <2> QED BY <2>1, <2>3, <2>4, PerformedAll DEF Sound
<1> QED BY <1>6, <1>7

\* solve_field
LEMMA FieldSound ==
    ASSUME NodesKept, NEW n \in DOMAIN nodes, NEW k, Good(k), nodes[n].op = "field",
           Known(k, Arg(n, 1)) # NoType
    PROVE  Sound(k, DeduceField(k, n), n)
<1> DEFINE c == nodes[n]
           m == Arg(n, 1)
           t == IF Known(k, m) = RecordType THEN FieldType ELSE NoType
<1>1. Len(c.args) = 1
  BY NodesShape, Arities
<1>2. n \in Node /\ m \in Node /\ m = c.args[1]
  <2>1. 1 \in 1 .. Len(c.args)
    BY <1>1
  <2> QED BY <2>1, Operands
<1>3. t \in Word /\ FieldType # NoType
  BY BasicWords DEF Basic, FieldType
<1>4. ASSUME NEW g, Types(g, nodes), Fits(c, g[n], g, nodes), Agree(k, g)
      PROVE  t # NoType /\ g[n] = t
  BY <1>2, <1>3, <1>4 DEF Fits, Agree, Known
<1>5. DeduceField(k, n) = Answer(k, n, t)
  BY DEF DeduceField
<1> HIDE DEF t
<1> QED BY <1>2, <1>3, <1>4, <1>5, Answering DEF Sound

\* The builtins push and pop
LEMMA BuiltinSound ==
    ASSUME NodesKept, NEW n \in DOMAIN nodes, NEW k, Good(k),
           nodes[n].op \in {"push", "pop", "receiver_pop"},
           Known(k, Arg(n, 1)) # NoType
    PROVE  Sound(k, DeduceBuiltin(k, n), n)
<1> DEFINE c == nodes[n]
           m == Arg(n, 1)
           e == IF Op(n) = "push" THEN Arg(n, 2) ELSE n
           t == Element("Vec", Known(k, m))
<1>1. Len(c.args) = IF c.op = "push" THEN 2 ELSE 1
  BY NodesShape, Arities
<1>2. /\ n \in Node /\ m \in Node /\ m = c.args[1]
      /\ e \in Node /\ e = IF c.op = "push" THEN c.args[2] ELSE n
      /\ \A g : Types(g, nodes) => g[e] # NoType
  <2>1. 1 \in 1 .. Len(c.args) /\ (c.op = "push" => 2 \in 1 .. Len(c.args))
    BY <1>1
  <2> QED BY <2>1, Operands DEF Op
<1>3. t \in Word
  <2>1. Known(k, m) \in Word
    BY <1>2 DEF Good, Known
  <2>2. "Vec" \in Letter
    BY DEF Letter, Literals
  <2> QED BY <2>1, <2>2, Contained
<1>4. ASSUME NEW g, Types(g, nodes), Fits(c, g[n], g, nodes), Agree(k, g)
      PROVE  t # NoType /\ g[e] = t
  <2>1. g[m] = Known(k, m)
    BY <1>2, <1>4 DEF Agree, Known
  <2>2. g[e] = Element("Vec", g[m])
    BY <1>2, <1>4 DEF Fits
  <2> QED BY <1>2, <1>4, <2>1, <2>2
<1>5. DeduceBuiltin(k, n) = Answer(k, e, t)
  BY DEF DeduceBuiltin
<1> HIDE DEF t, e
<1> QED BY <1>2, <1>3, <1>4, <1>5, Answering DEF Sound

\* The variables match and foreach bind
LEMMA BindingSound ==
    ASSUME NodesKept, NEW n \in DOMAIN nodes, NEW k, Good(k), nodes[n].op \in {"match", "foreach"},
           Known(k, Arg(n, 1)) # NoType
    PROVE  /\ nodes[n].op = "match" => Sound(k, DeduceMatch(k, n), n)
           /\ nodes[n].op = "foreach" => Sound(k, DeduceForeach(k, n), n)
<1> DEFINE c == nodes[n]
           m == Arg(n, 1)
           e == Arg(n, 2)
           t == IF Known(k, m) = VariantType THEN PayloadType ELSE NoType
           u == IterationElement(Known(k, m))
<1>1. Len(c.args) = 2
  BY NodesShape, Arities
<1>2. /\ m \in Node /\ m = c.args[1] /\ e \in Node /\ e = c.args[2]
      /\ \A g : Types(g, nodes) => g[e] # NoType
  <2>1. 1 \in 1 .. Len(c.args) /\ 2 \in 1 .. Len(c.args)
    BY <1>1
  <2> QED BY <2>1, Operands
<1>3. t \in Word /\ u \in Word /\ PayloadType # NoType
  <2>1. Known(k, m) \in Word
    BY <1>2 DEF Good, Known
  <2> QED BY <2>1, OtherAnswers, BasicWords DEF Basic, PayloadType
<1>4. ASSUME NEW g, Types(g, nodes), Fits(c, g[n], g, nodes), Agree(k, g)
      PROVE  /\ c.op = "match" => t # NoType /\ g[e] = t
             /\ c.op = "foreach" => u # NoType /\ g[e] = u
  <2>1. g[m] = Known(k, m)
    BY <1>2, <1>4 DEF Agree, Known
  <2> QED BY <1>2, <1>3, <1>4, <2>1 DEF Fits
<1>5. DeduceMatch(k, n) = Answer(k, e, t) /\ DeduceForeach(k, n) = Answer(k, e, u)
  BY DEF DeduceMatch, DeduceForeach
<1> HIDE DEF t, u, e
<1>6. CASE c.op = "match"
  BY <1>2, <1>3, <1>4, <1>5, <1>6, Answering DEF Sound
<1>7. CASE c.op = "foreach"
  BY <1>2, <1>3, <1>4, <1>5, <1>7, Answering DEF Sound
<1> QED BY <1>6, <1>7

\* Which rule a node has
LEMMA Rules ==
    ASSUME NEW k, NEW n
    PROVE  LET waits == Known(k, Arg(n, 1)) = NoType
               d == Deduced(k, n)
           IN /\ Op(n) \in Binary => d = DeduceBinary(k, n)
              /\ Op(n) = "cond" => d = DeduceConditional(k, n)
              /\ Op(n) \in Unary => d = DeduceUnary(k, n)
              /\ Op(n) \in Literals => d = DeduceLiteral(k, n)
              /\ Op(n) = "unwrap" => d = DeduceUnwrap(k, n)
              /\ Op(n) = "index" => d = IF waits THEN k ELSE DeduceIndex(k, n)
              /\ Op(n) = "field" => d = IF waits THEN k ELSE DeduceField(k, n)
              /\ Op(n) \in {"push", "pop"} => d = IF waits THEN k ELSE DeduceBuiltin(k, n)
              /\ Op(n) = "match" => d = IF waits THEN k ELSE DeduceMatch(k, n)
              /\ Op(n) = "foreach" => d = IF waits THEN k ELSE DeduceForeach(k, n)
              /\ Op(n) \notin Binary \cup Unary \cup Literals \cup
                    {"cond", "unwrap", "index", "field", "push", "pop", "match", "foreach"} => d = k
<1> DEFINE op == Op(n)
           waits == Known(k, Arg(n, 1)) = NoType
           d == Deduced(k, n)
<1>1. d = CASE op \in Binary -> DeduceBinary(k, n)
            [] op = "cond" -> DeduceConditional(k, n)
            [] op \in Unary -> DeduceUnary(k, n)
            [] op \in Literals -> DeduceLiteral(k, n)
            [] op = "unwrap" -> DeduceUnwrap(k, n)
            [] op = "index" /\ ~ waits -> DeduceIndex(k, n)
            [] op = "field" /\ ~ waits -> DeduceField(k, n)
            [] op \in {"push", "pop"} /\ ~ waits -> DeduceBuiltin(k, n)
            [] op = "match" /\ ~ waits -> DeduceMatch(k, n)
            [] op = "foreach" /\ ~ waits -> DeduceForeach(k, n)
            [] OTHER -> k
  BY DEF Deduced
<1> HIDE DEF op, waits, d
<1>2. /\ op \in Binary => d = DeduceBinary(k, n)
      /\ op = "cond" => d = DeduceConditional(k, n)
      /\ op \in Unary => d = DeduceUnary(k, n)
      /\ op \in Literals => d = DeduceLiteral(k, n)
      /\ op = "unwrap" => d = DeduceUnwrap(k, n)
  BY <1>1 DEF Binary, Unary, Literals
<1>3. /\ op = "index" => d = IF waits THEN k ELSE DeduceIndex(k, n)
      /\ op = "field" => d = IF waits THEN k ELSE DeduceField(k, n)
      /\ op \in {"push", "pop"} => d = IF waits THEN k ELSE DeduceBuiltin(k, n)
      /\ op = "match" => d = IF waits THEN k ELSE DeduceMatch(k, n)
      /\ op = "foreach" => d = IF waits THEN k ELSE DeduceForeach(k, n)
  BY <1>1 DEF Binary, Unary, Literals
<1>4. op \notin Binary \cup Unary \cup Literals \cup
         {"cond", "unwrap", "index", "field", "push", "pop", "match", "foreach"} => d = k
  BY <1>1
<1> QED BY <1>2, <1>3, <1>4 DEF op, waits, d

\* What a sweep deduces at a node holds in every types that fit there.
LEMMA DeducingSound ==
    ASSUME NodesKept, NEW n \in DOMAIN nodes, NEW k, Good(k)
    PROVE  Sound(k, Deduced(k, n), n)
<1> DEFINE op == Op(n)
<1>1. nodes[n].op = op
  BY DEF Op
<1>2. CASE op \in Binary
  BY <1>1, <1>2, Rules, BinarySound
<1>3. CASE op = "cond"
  BY <1>1, <1>3, Rules, ConditionalSound
<1>4. CASE op \in Unary
  BY <1>1, <1>4, Rules, UnarySound
<1>5. CASE op \in Literals
  BY <1>1, <1>5, Rules, LiteralSound
<1>6. CASE op = "unwrap"
  BY <1>1, <1>6, Rules, UnwrapSound
<1>7. CASE op = "index"
  BY <1>1, <1>7, Rules, IndexSound, SoundNot
<1>8. CASE op = "field"
  BY <1>1, <1>8, Rules, FieldSound, SoundNot
<1>9. CASE op \in {"push", "pop"}
  BY <1>1, <1>9, Rules, BuiltinSound, SoundNot
<1>10. CASE op \in {"match", "foreach"}
  BY <1>1, <1>10, Rules, BindingSound, SoundNot
<1>11. CASE op \notin Binary \cup Unary \cup Literals \cup
              {"cond", "unwrap", "index", "field", "push", "pop", "match", "foreach"}
  BY <1>11, Rules, SoundNot
<1> QED BY <1>2, <1>3, <1>4, <1>5, <1>6, <1>7, <1>8, <1>9, <1>10, <1>11

-----------------------------------------------------------------------------
(***************************************************************************)
(* The invariant.                                                          *)
(***************************************************************************)
\* The constraints of the nodes that were collected hold.
Constrained ==
    ~ classes.failed =>
        \A n \in DOMAIN nodes : (phase = "collect" => n < at) =>
            \A s : Told(n, s) => Satisfied(classes, s)

Inv ==
    /\ NodesKept /\ ClassesGood /\ Points
    /\ Truthful
    /\ Constrained /\ ReceiversKnown
    /\ Swept /\ Kept

ShapesAll == \A n \in DOMAIN nodes : Shaped(nodes[n], nodes)

FitsAll ==
    \A f \in [DOMAIN program -> Word] : Obeys(f) =>
        \A n \in DOMAIN nodes : Fits(nodes[n], Extended(f)[n], Extended(f), nodes)

\* NodesShape, for all nodes at once
LEMMA AllShaped == NodesKept => ShapesAll
BY NodesShape DEF ShapesAll

\* FitsNodes, for all nodes and typings at once
LEMMA AllFit == NodesKept => FitsAll
BY FitsNodes DEF FitsAll

\* The same of the nodes a step leads to
LEMMA PrimedAll == NodesKept' => ShapesAll' /\ FitsAll'
BY AllShaped, AllFit, PTL

-----------------------------------------------------------------------------
(***************************************************************************)
(* The nodes, step by step.                                                *)
(***************************************************************************)
LEMMA InitNodes == Init => NodesKept
<1> SUFFICES ASSUME Init PROVE NodesKept
  OBVIOUS
<1>1. program \in Programs /\ nodes = program /\ WellFormed(program)
  BY ProgramsAssumption DEF Init
<1>2. program \in Seq(NodeRecord) /\ Len(program) \in Nat
  <2>1. program \in Seq(NodeRecord)
    BY <1>1 DEF WellFormed
  <2> QED BY <2>1, LenProperties
<1>3. Len(nodes) + Cardinality(Waiters) <= MaxNodes
  BY <1>1 DEF WellFormed, Waiters
<1>4. \A n \in DOMAIN program : KeptNode(n)
  BY <1>1 DEF KeptNode
<1>5. Len(program) + 1 .. Len(nodes) = {}
  BY <1>1, <1>2
<1> QED BY <1>1, <1>2, <1>3, <1>4, <1>5 DEF NodesKept

\* The nodes stay as they are.
LEMMA SameNodes == NodesKept /\ UNCHANGED <<program, nodes>> => NodesKept'
<1> SUFFICES ASSUME NodesKept, program' = program, nodes' = nodes PROVE NodesKept'
  OBVIOUS
<1>1. Waiters' = Waiters
  BY DEF Waiters
<1>2. \A n : KeptNode(n)' <=> KeptNode(n)
  BY DEF KeptNode, LacksRegion
<1> QED BY <1>1, <1>2 DEF NodesKept

\* A node that waits is one of the program, as it was parsed.
LEMMA WaitingNode ==
    ASSUME NodesKept, NEW n \in DOMAIN nodes, Waiting(n)
    PROVE  /\ n \in DOMAIN program /\ nodes[n] = program[n]
           /\ program[n].op \in {"receiver", "receiver_pop"}
           /\ program[n].op = "receiver_pop" => program[n].target = 0
           /\ Len(program[n].args) >= 1
           /\ program[n].args[1] \in 1 .. n - 1
           /\ Arg(n, 1) = program[n].args[1]
<1>1. nodes[n].op \in {"receiver", "receiver_pop"}
  BY DEF Waiting, Op
<1>2. n \in DOMAIN program
  <2>1. nodes[n].op # "leaf"
    BY <1>1
  <2> QED BY <2>1, NodesAre DEF RegionNode
<1>3. KeptNode(n) /\ program[n] \in NodeRecord
  BY <1>2, ProgramShape DEF NodesKept, Shaped
<1>4. nodes[n] = program[n]
  <2>1. nodes[n].op # "pop" /\ nodes[n].op # "call"
    BY <1>1
  <2>2. \A r : /\ [program[n] EXCEPT !.op = "pop"].op = "pop"
               /\ [program[n] EXCEPT !.op = "call"].op = "call"
               /\ [program[n] EXCEPT !.op = "call", !.args = Append(@, r)].op = "call"
    BY <1>3 DEF NodeRecord
  <2> QED BY <1>3, <2>1, <2>2 DEF KeptNode
<1>5. Shaped(program[n], program) /\ \A i \in 1 .. Len(program[n].args) : program[n].args[i] \in 1 .. n - 1
  BY <1>2, ProgramShape
<1>6. Len(program[n].args) >= 1 /\ Len(program[n].args) \in Nat
  <2>1. Len(program[n].args) \in Nat
    BY <1>5 DEF Shaped
  <2>2. program[n].op = "receiver" => Len(program[n].args) >= 1
    BY <1>5, Arities
  <2>3. program[n].op = "receiver_pop" => Len(program[n].args) = 1
    BY <1>5, Arities
  <2> QED BY <1>1, <1>4, <2>1, <2>2, <2>3
<1>7. program[n].args[1] \in 1 .. n - 1
  BY <1>5, <1>6
<1> QED BY <1>1, <1>2, <1>4, <1>5, <1>6, <1>7 DEF Shaped, Arg

\* A call lacks its region whatever else was resolved.
LEMMA OmitsIs ==
    ASSUME NodesKept, NEW n \in DOMAIN nodes, Waiting(n)
    PROVE  OmitsRegion(n) <=> program[n].target # 0 /\ LacksRegion(n)
<1>1. n \in DOMAIN program /\ nodes[n] = program[n]
  BY WaitingNode
<1> DEFINE f == program[n].target
           parameters == program[f].args
<1>2. CASE f = 0
  BY <1>1, <1>2 DEF OmitsRegion
<1>3. CASE f # 0
  <2>1. f \in DOMAIN program /\ program[f].op = "function"
    BY <1>1, <1>3, ProgramShape DEF Shaped
  <2>2. nodes[f] = program[f]
    BY <2>1, KeptParts
  <2>3. /\ Len(program[n].args) \in Nat /\ Len(parameters) \in Nat
        /\ \A i \in 1 .. Len(parameters) : parameters[i] \in DOMAIN program
    BY <1>1, <2>1, ProgramShape DEF Shaped
  <2>4. ASSUME Len(program[n].args) + 1 = Len(parameters)
        PROVE  nodes[Last(parameters)].note = program[Last(parameters)].note
    <3>1. Last(parameters) \in DOMAIN program
      BY <2>3, <2>4 DEF Last
    <3> QED BY <3>1, KeptParts
  <2> QED BY <1>1, <1>3, <2>2, <2>4 DEF OmitsRegion, LacksRegion
<1> QED BY <1>2, <1>3

\* What Resolve makes of the nodes
LEMMA Resolved ==
    ASSUME NodesKept, Points, Resolve
    PROVE  /\ program' = program
           /\ at \in DOMAIN program /\ at \in DOMAIN nodes /\ nodes[at] = program[at]
           /\ nodes' \in Seq(NodeRecord)
           /\ Len(nodes') = IF OmitsRegion(at) THEN Len(nodes) + 1 ELSE Len(nodes)
           /\ \A m \in DOMAIN nodes : m # at => nodes'[m] = nodes[m]
           /\ OmitsRegion(at) => nodes'[Len(nodes) + 1] = RegionNode
           /\ program[at].op = "receiver_pop" =>
                 ~ OmitsRegion(at) /\ nodes'[at] = [program[at] EXCEPT !.op = "pop"]
           /\ program[at].op = "receiver" =>
                 /\ program[at].target # 0
                 /\ OmitsRegion(at) <=> LacksRegion(at)
                 /\ nodes'[at] = IF OmitsRegion(at)
                                 THEN [program[at] EXCEPT !.op = "call", !.args = Append(@, Len(nodes) + 1)]
                                 ELSE [program[at] EXCEPT !.op = "call"]
<1> DEFINE c == program[at]
           op == IF c.op = "receiver_pop" THEN "pop" ELSE "call"
           named == [nodes EXCEPT ![at].op = op]
           r == Len(nodes) + 1
           longer == [named EXCEPT ![at].args = Append(@, r)]
<1>0. /\ program' = program /\ Waiting(at) /\ at <= Len(nodes)
      /\ Resolvable(at, Known(classes, Arg(at, 1)))
      /\ nodes' = Resolution(at)
  BY DEF Resolve
<1>1. /\ nodes \in Seq(NodeRecord) /\ Len(nodes) \in Nat /\ DOMAIN nodes = 1 .. Len(nodes)
      /\ \A m \in DOMAIN nodes : nodes[m] \in NodeRecord
  BY NodesAre DEF NodesKept
<1>2. at \in DOMAIN nodes
  BY <1>0, <1>1 DEF Points
<1>3. /\ at \in DOMAIN program /\ nodes[at] = c /\ c.op \in {"receiver", "receiver_pop"}
      /\ c.op = "receiver_pop" => c.target = 0
      /\ c \in NodeRecord /\ c.args \in Seq(Nat)
  <2>1. /\ at \in DOMAIN program /\ nodes[at] = c /\ c.op \in {"receiver", "receiver_pop"}
        /\ c.op = "receiver_pop" => c.target = 0
    BY <1>0, <1>2, WaitingNode
  <2>2. c \in NodeRecord
    BY <1>1, <1>2, <2>1
  <2> QED BY <2>1, <2>2 DEF NodeRecord
<1>4. OmitsRegion(at) <=> c.target # 0 /\ LacksRegion(at)
  BY <1>0, <1>2, OmitsIs
<1>5. c.op = "receiver" => c.target # 0
  <2>1. c.op = "receiver" => Binds(c.target, Known(classes, Arg(at, 1))) \/ Binds(c.target, RecordType)
    BY <1>0, <1>3 DEF Resolvable, Op
  <2> QED BY <2>1 DEF Binds
<1>6. c.op = "receiver_pop" => ~ OmitsRegion(at)
  BY <1>3, <1>4
<1>7. op \in Operations /\ RegionNode \in NodeRecord
  <2>1. op \in Operations
    BY DEF Operations
  <2>2. RegionType \in Word
    BY BasicWords DEF Basic
  <2>3. << >> \in Seq(Nat) /\ "leaf" \in Operations
    BY EmptySeq DEF Operations
  <2> QED BY <2>1, <2>2, <2>3 DEF RegionNode, NodeRecord
<1>8. Resolution(at) = IF OmitsRegion(at) THEN Append(longer, RegionNode) ELSE named
  BY <1>3 DEF Resolution, Op
<1>9. /\ named \in Seq(NodeRecord) /\ Len(named) = Len(nodes)
      /\ \A m \in DOMAIN nodes : m # at => named[m] = nodes[m]
      /\ named[at] = [c EXCEPT !.op = op]
  <2>1. [c EXCEPT !.op = op] \in NodeRecord
    BY <1>3, <1>7 DEF NodeRecord
  <2>2. named = [nodes EXCEPT ![at] = [c EXCEPT !.op = op]]
    BY <1>3
  <2>3. /\ named \in Seq(NodeRecord) /\ Len(named) = Len(nodes)
    BY <1>1, <1>2, <2>1, <2>2, ExceptSeq
  <2>4. DOMAIN named = DOMAIN nodes
    BY <2>2
  <2> QED BY <1>1, <1>2, <2>2, <2>3
<1>10. CASE ~ OmitsRegion(at)
  <2>1. nodes' = named
    BY <1>0, <1>8, <1>10
  <2> HIDE DEF named
  <2> QED BY <1>0, <1>2, <1>3, <1>4, <1>5, <1>9, <1>10, <2>1
<1>11. CASE OmitsRegion(at)
  <2> DEFINE e == [c EXCEPT !.op = op, !.args = Append(@, r)]
  <2>1. c.op = "receiver" /\ op = "call"
    BY <1>3, <1>6, <1>11
  <2>2. e \in NodeRecord
    <3>1. Append(c.args, r) \in Seq(Nat)
      BY <1>1, <1>3, AppendProperties
    <3> QED BY <1>3, <1>7, <3>1 DEF NodeRecord
  <2>3. longer = [named EXCEPT ![at] = e]
    <3>1. [[c EXCEPT !.op = op] EXCEPT !.args = Append(@, r)] = e
      BY <1>3 DEF NodeRecord
    <3>2. longer = [named EXCEPT ![at] = [named[at] EXCEPT !.args = Append(@, r)]]
      OBVIOUS
    <3> HIDE DEF named, longer, e
    <3> QED BY <1>9, <3>1, <3>2
  <2> HIDE DEF named, longer, e
  <2>4. /\ longer \in Seq(NodeRecord) /\ Len(longer) = Len(nodes)
        /\ \A m \in DOMAIN nodes : m # at => longer[m] = nodes[m]
        /\ longer[at] = e
    <3>1. DOMAIN named = DOMAIN nodes
      BY <1>1, <1>9, LenProperties
    <3> QED BY <1>1, <1>2, <1>9, <2>2, <2>3, <3>1, ExceptSeq
  <2>5. nodes' = Append(longer, RegionNode)
    BY <1>0, <1>8, <1>11
  <2>6. /\ nodes' \in Seq(NodeRecord) /\ Len(nodes') = Len(nodes) + 1
        /\ \A m \in 1 .. Len(nodes) : nodes'[m] = longer[m]
        /\ nodes'[Len(nodes) + 1] = RegionNode
    BY <1>7, <2>4, <2>5, AppendProperties
  <2>7. nodes'[at] = [c EXCEPT !.op = "call", !.args = Append(@, r)]
    BY <1>1, <1>2, <2>1, <2>4, <2>6 DEF e
  <2> QED BY <1>0, <1>1, <1>2, <1>3, <1>4, <1>5, <1>11, <2>1, <2>4, <2>6, <2>7
<1> QED BY <1>10, <1>11

\* Resolving a call keeps the nodes those of the program.
LEMMA ResolveNodes == NodesKept /\ Points /\ Resolve => NodesKept'
<1> SUFFICES ASSUME NodesKept, Points, Resolve PROVE NodesKept'
  OBVIOUS
<1> DEFINE c == program[at]
           more == OmitsRegion(at)
<1>1. /\ program' = program
      /\ at \in DOMAIN program /\ at \in DOMAIN nodes /\ nodes[at] = c
      /\ nodes' \in Seq(NodeRecord)
      /\ Len(nodes') = IF more THEN Len(nodes) + 1 ELSE Len(nodes)
      /\ \A m \in DOMAIN nodes : m # at => nodes'[m] = nodes[m]
      /\ more => nodes'[Len(nodes) + 1] = RegionNode
      /\ c.op = "receiver_pop" => ~ more /\ nodes'[at] = [c EXCEPT !.op = "pop"]
      /\ c.op = "receiver" =>
            /\ c.target # 0
            /\ more <=> LacksRegion(at)
            /\ nodes'[at] = IF more
                            THEN [c EXCEPT !.op = "call", !.args = Append(@, Len(nodes) + 1)]
                            ELSE [c EXCEPT !.op = "call"]
  BY Resolved
<1> HIDE DEF more
<1>2. /\ Len(nodes) \in Nat /\ DOMAIN nodes = 1 .. Len(nodes)
      /\ Len(program) \in Nat /\ DOMAIN program = 1 .. Len(program)
      /\ DOMAIN program \subseteq DOMAIN nodes
      /\ Waiters \subseteq DOMAIN program /\ IsFiniteSet(Waiters) /\ Cardinality(Waiters) \in Nat
      /\ Len(nodes) + Cardinality(Waiters) <= MaxNodes
      /\ c \in NodeRecord
  BY NodesAre, ProgramShape, <1>1 DEF NodesKept, Shaped
<1>3. c.op \in {"receiver", "receiver_pop"}
  BY <1>1, WaitingNode DEF Resolve
<1>4. \A m : LacksRegion(m)' <=> LacksRegion(m)
  BY <1>1 DEF LacksRegion
<1>5. ASSUME NEW m \in DOMAIN program PROVE KeptNode(m)'
  <2>1. CASE m # at
    <3>1. nodes'[m] = nodes[m] /\ KeptNode(m)
      BY <1>1, <1>2, <2>1 DEF NodesKept
    <3>2. Len(program) + 1 .. Len(nodes) \subseteq Len(program) + 1 .. Len(nodes')
      BY <1>1, <1>2
    <3>3. CASE program[m].op = "receiver" /\ program[m].target # 0 /\ LacksRegion(m)
               /\ \E r \in Len(program) + 1 .. Len(nodes) :
                     nodes[m] = [program[m] EXCEPT !.op = "call", !.args = Append(@, r)]
      <4>1. PICK r \in Len(program) + 1 .. Len(nodes) :
               nodes[m] = [program[m] EXCEPT !.op = "call", !.args = Append(@, r)]
        BY <3>3
      <4>2. r \in (Len(program) + 1 .. Len(nodes))'
        BY <1>1, <3>2, <4>1
      <4>3. (nodes[m] = [program[m] EXCEPT !.op = "call", !.args = Append(@, r)])'
        BY <1>1, <3>1, <4>1
      <4>4. (program[m].op = "receiver" /\ program[m].target # 0 /\ LacksRegion(m))'
        BY <1>1, <1>4, <3>3
      <4> QED BY <4>2, <4>3, <4>4 DEF KeptNode
    <3>4. CASE \/ nodes[m] = program[m]
               \/ program[m].op = "receiver_pop" /\ nodes[m] = [program[m] EXCEPT !.op = "pop"]
               \/ /\ program[m].op = "receiver" /\ program[m].target # 0 /\ ~ LacksRegion(m)
                  /\ nodes[m] = [program[m] EXCEPT !.op = "call"]
      BY <1>1, <1>4, <3>1, <3>4 DEF KeptNode
    <3> QED BY <3>1, <3>3, <3>4 DEF KeptNode
  <2>2. CASE m = at /\ c.op = "receiver_pop"
    BY <1>1, <2>2 DEF KeptNode
  <2>3. CASE m = at /\ c.op = "receiver" /\ ~ more
    BY <1>1, <1>4, <2>3 DEF KeptNode
  <2>4. CASE m = at /\ c.op = "receiver" /\ more
    <3>1. Len(nodes) + 1 \in Len(program) + 1 .. Len(nodes')
      BY <1>1, <1>2, <2>4
    <3> QED BY <1>1, <1>4, <2>4, <3>1 DEF KeptNode
  <2> QED BY <1>3, <2>1, <2>2, <2>3, <2>4
<1>6. ASSUME NEW m \in Len(program) + 1 .. Len(nodes') PROVE nodes'[m] = RegionNode
  <2>1. CASE m \in 1 .. Len(nodes)
    <3>1. m \in Len(program) + 1 .. Len(nodes) /\ m # at
      BY <1>1, <1>2, <2>1
    <3>2. nodes[m] = RegionNode
      BY <3>1 DEF NodesKept
    <3> QED BY <1>1, <1>2, <2>1, <3>1, <3>2
  <2>2. CASE m \notin 1 .. Len(nodes)
    <3>1. more /\ m = Len(nodes) + 1
      BY <1>1, <1>2, <2>2
    <3> QED BY <1>1, <3>1
  <2> QED BY <2>1, <2>2
<1>7. Len(nodes') + Cardinality(Waiters') <= MaxNodes
  <2>1. nodes'[at].op # "receiver"
    <3>1. [c EXCEPT !.op = "pop"].op = "pop" /\ [c EXCEPT !.op = "call"].op = "call"
          /\ [c EXCEPT !.op = "call", !.args = Append(@, Len(nodes) + 1)].op = "call"
      BY <1>2 DEF NodeRecord
    <3> QED BY <1>1, <1>3, <3>1
  <2>2. Waiters' = Waiters \ {at}
    BY <1>1, <1>2, <2>1 DEF Waiters
  <2>3. CASE more
    <3>1. at \in Waiters
      BY <1>1, <1>3, <2>3 DEF Waiters
    <3>2. Cardinality(Waiters \ {at}) = Cardinality(Waiters) - 1
      BY <1>2, <3>1, FS_RemoveElement
    <3> QED BY <1>1, <1>2, <2>2, <2>3, <3>2, ProgramsAssumption
  <2>4. CASE ~ more
    <3>1. Cardinality(Waiters \ {at}) <= Cardinality(Waiters) /\ Cardinality(Waiters \ {at}) \in Nat
      BY <1>2, FS_Subset, FS_CardinalityType
    <3> QED BY <1>1, <1>2, <2>2, <2>4, <3>1, ProgramsAssumption
  <2> QED BY <2>3, <2>4
<1>8. Len(program) <= Len(nodes') /\ program' \in Programs
  BY <1>1, <1>2 DEF NodesKept
<1> QED BY <1>1, <1>5, <1>6, <1>7, <1>8 DEF NodesKept

-----------------------------------------------------------------------------
(***************************************************************************)
(* What is learned, step by step.                                          *)
(***************************************************************************)
LEMMA InitInv == Init => Inv
<1> SUFFICES ASSUME Init PROVE Inv
  OBVIOUS
<1>1. NodesKept /\ nodes = program /\ at = 1 /\ phase = "collect" /\ classes = K!Nothing
  BY InitNodes DEF Init
<1>2. /\ classes = [class |-> [n \in Node |-> {n}], type |-> [n \in Node |-> NoType],
                    changed |-> FALSE, failed |-> FALSE]
  BY <1>1 DEF K!Nothing, Node
<1>3. ClassesGood
  <2>1. NoType \in Word
    BY BasicWords
  <2> QED BY <1>2, <2>1 DEF ClassesGood, Good
<1>4. Truthful
  BY <1>1, <1>2 DEF Truthful, Agree
<1>5. Constrained
  <2>1. \A n \in DOMAIN nodes : ~ (n < 1)
    BY <1>1, NodesAre
  <2> QED BY <1>1, <2>1 DEF Constrained
<1>6. ReceiversKnown /\ Swept /\ Kept /\ Points
  BY <1>1 DEF ReceiversKnown, Swept, Kept, Points
<1> QED BY <1>1, <1>3, <1>4, <1>5, <1>6 DEF Inv

\* Typings are of the program, which never changes.
LEMMA SameProgram ==
    ASSUME program' = program
    PROVE  /\ \A f : Obeys(f)' <=> Obeys(f)
           /\ \A f : Extended(f)' = Extended(f)
<1>1. ASSUME NEW f PROVE Obeys(f)' <=> Obeys(f)
  <2>1. \A n : Free(n)' <=> Free(n)
    BY DEF Free
  <2>2. \A n : Judgement(n, f)' = Judgement(n, f)
    BY DEF Judgement, Takes, Method
  <2>3. InOrder(f)' <=> InOrder(f)
    BY DEF InOrder
  <2> QED BY <2>1, <2>2, <2>3 DEF Obeys
<1>2. ASSUME NEW f PROVE Extended(f)' = Extended(f)
  BY DEF Extended
<1> QED BY <1>1, <1>2

\* A step that only adds what every typing agrees with
LEMMA StaysTruthful ==
    ASSUME Truthful, program' = program,
           \A f \in [DOMAIN program -> Word] :
              Obeys(f) /\ phase # "wrong" /\ Agree(classes, Extended(f))
                => phase' # "wrong" /\ Agree(classes', Extended(f))
    PROVE  Truthful'
BY SameProgram DEF Truthful

\* What the nodes at hand have in common with every typing
LEMMA TypingFits ==
    ASSUME NodesKept, NEW f \in [DOMAIN program -> Word], Obeys(f), NEW n \in DOMAIN nodes
    PROVE  /\ Types(Extended(f), nodes)
           /\ Fits(nodes[n], Extended(f)[n], Extended(f), nodes)
BY ObeysTypes, FitsNodes

\* What a node says is a step.
LEMMA ToldSteps ==
    ASSUME NodesKept, NEW n \in DOMAIN nodes, NEW s, Told(n, s)
    PROVE  s \in Step
BY CollectedTold, Members

\* What does not depend on more than the nodes
LEMMA SameRules ==
    ASSUME nodes' = nodes
    PROVE  /\ \A n, s : Told(n, s)' <=> Told(n, s)
           /\ \A k, n : Deduced(k, n)' = Deduced(k, n)
           /\ \A n : (Waiting(n)' <=> Waiting(n)) /\ Arg(n, 1)' = Arg(n, 1)
           /\ \A f, t : Binds(f, t)' <=> Binds(f, t)
<1>1. \A n : Op(n)' = Op(n)
  BY DEF Op
<1>2. \A n, i : Arg(n, i)' = Arg(n, i)
  BY DEF Arg
<1>3. ASSUME NEW n, NEW s PROVE Told(n, s)' <=> Told(n, s)
  BY DEF Told, CallTold
<1>4. ASSUME NEW k, NEW n PROVE Deduced(k, n)' = Deduced(k, n)
  <2>1. DeduceBinary(k, n)' = DeduceBinary(k, n)
    BY <1>1, <1>2 DEF DeduceBinary
  <2>2. DeduceConditional(k, n)' = DeduceConditional(k, n)
    BY <1>1, <1>2 DEF DeduceConditional
  <2>3. DeduceUnary(k, n)' = DeduceUnary(k, n)
    BY <1>1, <1>2 DEF DeduceUnary
  <2>4. DeduceLiteral(k, n)' = DeduceLiteral(k, n)
    BY <1>1, <1>2 DEF DeduceLiteral
  <2>5. DeduceUnwrap(k, n)' = DeduceUnwrap(k, n)
    BY <1>1, <1>2 DEF DeduceUnwrap
  <2>6. DeduceIndex(k, n)' = DeduceIndex(k, n)
    BY <1>1, <1>2 DEF DeduceIndex
  <2>7. DeduceField(k, n)' = DeduceField(k, n)
    BY <1>1, <1>2 DEF DeduceField
  <2>8. DeduceBuiltin(k, n)' = DeduceBuiltin(k, n)
    BY <1>1, <1>2 DEF DeduceBuiltin
  <2>9. DeduceMatch(k, n)' = DeduceMatch(k, n)
    BY <1>1, <1>2 DEF DeduceMatch
  <2>10. DeduceForeach(k, n)' = DeduceForeach(k, n)
    BY <1>1, <1>2 DEF DeduceForeach
  <2> QED BY <1>1, <1>2, <2>1, <2>2, <2>3, <2>4, <2>5, <2>6, <2>7, <2>8, <2>9, <2>10 DEF Deduced
<1>5. ASSUME NEW n PROVE Waiting(n)' <=> Waiting(n)
  BY <1>1 DEF Waiting
<1>6. ASSUME NEW f, NEW t PROVE Binds(f, t)' <=> Binds(f, t)
  BY DEF Binds
<1> QED BY <1>2, <1>3, <1>4, <1>5, <1>6

\* As long as the nodes stay as they are, what was collected holds on.
LEMMA StaysConstrained ==
    ASSUME Inv, UNCHANGED <<program, nodes>>, Grows(classes, classes'),
           \A n \in DOMAIN nodes :
              (phase' = "collect" => n < at') /\ ~ (phase = "collect" => n < at) /\ ~ classes'.failed =>
                 \A s : Told(n, s) => Satisfied(classes', s)
    PROVE  Constrained'
<1> SUFFICES ASSUME ~ classes'.failed, NEW n \in DOMAIN nodes, phase' = "collect" => n < at',
                    NEW s, Told(n, s)
             PROVE  Satisfied(classes', s)
  BY SameRules DEF Constrained
<1>1. ~ classes.failed
  BY DEF Grows
<1>2. CASE phase = "collect" => n < at
  <2>1. Satisfied(classes, s)
    BY <1>1, <1>2 DEF Inv, Constrained
  <2>2. NodesKept /\ Good(classes)
    BY DEF Inv, ClassesGood
  <2> QED BY <2>1, <2>2, ToldSteps, StaysSatisfied
<1>3. CASE ~ (phase = "collect" => n < at)
  BY <1>3
<1> QED BY <1>2, <1>3

\* As long as the nodes stay as they are, the receivers keep their types.
LEMMA StaysReceivers ==
    ASSUME Inv, UNCHANGED <<program, nodes>>, Grows(classes, classes')
    PROVE  ReceiversKnown'
<1> SUFFICES ASSUME ~ classes'.failed, NEW n \in DOMAIN program,
                    program[n].op = "receiver", nodes[n].op = "call"
             PROVE  /\ classes'.type[program[n].args[1]] = RecordType
                    /\ Binds(program[n].target, RecordType)
  BY SameRules DEF ReceiversKnown
<1>1. ~ classes.failed
  BY DEF Grows
<1>2. /\ classes.type[program[n].args[1]] = RecordType
      /\ Binds(program[n].target, RecordType)
  BY <1>1 DEF Inv, ReceiversKnown
<1>3. program[n].args[1] \in Node
  <2>1. NodesKept
    BY DEF Inv
  <2>2. Shaped(program[n], program)
    BY <2>1, ProgramShape
  <2>3. Len(program[n].args) >= 1 /\ Len(program[n].args) \in Nat
    BY <2>2, Arities DEF Shaped
  <2> QED BY <2>1, <2>2, <2>3, NodesAre DEF Shaped
<1>4. RecordType # NoType
  BY BasicWords DEF Basic
<1> QED BY <1>2, <1>3, <1>4 DEF Grows

\* The constraints of a node are true in every typing.
LEMMA CollectInv == Inv /\ Collect => Inv'
<1> SUFFICES ASSUME Inv, Collect PROVE Inv'
  OBVIOUS
<1>1. /\ NodesKept /\ Good(classes) /\ Points /\ Truthful
      /\ phase = "collect" /\ at <= Len(nodes) /\ phase' = phase /\ at' = at + 1
      /\ classes' = After(classes, Collected(at))
      /\ program' = program /\ nodes' = nodes
  BY DEF Inv, ClassesGood, Collect
<1>2. at \in Nat \ {0} /\ at \in DOMAIN nodes
  BY <1>1, NodesAre DEF Points
<1>3. /\ Collected(at) \in Seq(Step)
      /\ \A s : s \in ToSet(Collected(at)) <=> Told(at, s)
  BY <1>1, <1>2, CollectedTold
<1>4. /\ Good(classes') /\ Grows(classes, classes')
      /\ ~ classes'.failed => \A s : Told(at, s) => Satisfied(classes', s)
      /\ \A g : Agree(classes, g) /\ (\A s : Told(at, s) => Holds(s, g)) => Agree(classes', g)
  BY <1>1, <1>3, PerformedAll
<1>5. Truthful'
  <2>1. ASSUME NEW f \in [DOMAIN program -> Word], Obeys(f), Agree(classes, Extended(f))
        PROVE  Agree(classes', Extended(f))
    BY <1>1, <1>2, <1>4, <2>1, TypingFits, ToldHolds
  <2> QED BY <1>1, <2>1, StaysTruthful
<1>6. Constrained'
  <2>1. ASSUME NEW n \in DOMAIN nodes, n < at', ~ (n < at) PROVE n = at
    BY <1>1, <1>2, <2>1, NodesAre
  <2> QED BY <1>1, <1>4, <2>1, StaysConstrained
<1>7. ReceiversKnown'
  BY <1>1, <1>4, StaysReceivers
<1>8. NodesKept'
  BY <1>1, SameNodes
<1>9. Points' /\ Swept' /\ Kept'
  BY <1>1, <1>2 DEF Points, Swept, Kept
<1> QED BY <1>4, <1>5, <1>6, <1>7, <1>8, <1>9 DEF Inv, ClassesGood

\* Resetting the flag forgets nothing.
LEMMA Quieting ==
    ASSUME NEW k, Good(k)
    PROVE  /\ Good(K!Quiet(k)) /\ ~ K!Quiet(k).changed
           /\ K!Quiet(k).class = k.class /\ K!Quiet(k).type = k.type
           /\ K!Quiet(k).failed = k.failed
           /\ \A g : Agree(k, g) <=> Agree(K!Quiet(k), g)
           /\ \A s : Satisfied(k, s) <=> Satisfied(K!Quiet(k), s)
<1> DEFINE l == K!Quiet(k)
<1>1. /\ l.class = k.class /\ l.type = k.type /\ l.failed = k.failed /\ l.changed = FALSE
      /\ l = [class |-> k.class, type |-> k.type, changed |-> FALSE, failed |-> k.failed]
  BY DEF K!Quiet
<1> HIDE DEF l
<1>2. Good(l)
  BY <1>1 DEF Good
<1>3. \A g : Agree(k, g) <=> Agree(l, g)
  BY <1>1 DEF Agree
<1>4. \A s : Satisfied(k, s) <=> Satisfied(l, s)
  BY <1>1 DEF Satisfied
<1> QED BY <1>1, <1>2, <1>3, <1>4 DEF l

\* A sweep begins.
LEMMA SweepInv ==
    ASSUME Inv, UNCHANGED <<program, nodes, saved>>, classes' = K!Quiet(classes), at' = 1,
           phase' = IF classes.failed THEN "wrong" ELSE "solve",
           phase = "collect" => at > Len(nodes)
    PROVE  Inv'
<1>1. NodesKept /\ Good(classes) /\ Truthful
  BY DEF Inv, ClassesGood
<1>2. /\ Good(classes') /\ ~ classes'.changed /\ classes'.type = classes.type
      /\ classes'.failed = classes.failed
      /\ \A g : Agree(classes, g) <=> Agree(classes', g)
      /\ \A s : Satisfied(classes, s) <=> Satisfied(classes', s)
  BY <1>1, Quieting
<1>3. Truthful'
  <2>1. ASSUME NEW f \in [DOMAIN program -> Word], Agree(classes, Extended(f))
        PROVE  phase' # "wrong" /\ Agree(classes', Extended(f))
    BY <1>2, <2>1 DEF Agree
  <2> QED BY <1>1, <2>1, StaysTruthful
<1>4. Constrained'
  <2>1. \A n \in DOMAIN nodes : phase = "collect" => n < at
    BY <1>1, NodesAre DEF Inv, Points
  <2> QED BY <1>2, <2>1, SameRules DEF Inv, Constrained
<1>5. ReceiversKnown'
  BY <1>2, SameRules DEF Inv, ReceiversKnown
<1>6. Swept'
  <2>1. \A n \in DOMAIN nodes : ~ (n < 1)
    BY <1>1, NodesAre
  <2> QED BY <2>1 DEF Swept
<1>7. NodesKept' /\ Kept' /\ Points'
  BY <1>1, SameNodes DEF Kept, Points
<1> QED BY <1>2, <1>3, <1>4, <1>5, <1>6, <1>7 DEF Inv, ClassesGood

\* The first sweep begins.
LEMMA StartSolvingInv == Inv /\ StartSolving => Inv'
BY SweepInv DEF StartSolving

\* Another sweep begins.
LEMMA NextSweepInv == Inv /\ NextSweep => Inv'
BY SweepInv DEF NextSweep

\* A sweep that learns nothing at a node leaves it settled.
LEMMA DeduceInv == Inv /\ Deduce => Inv'
<1> SUFFICES ASSUME Inv, Deduce PROVE Inv'
  OBVIOUS
<1>1. /\ NodesKept /\ Good(classes) /\ Points /\ Truthful
      /\ phase = "solve" /\ at <= Len(nodes) /\ phase' = phase /\ at' = at + 1
      /\ Waiting(at) => Known(classes, Arg(at, 1)) = NoType
      /\ classes' = Deduced(classes, at)
      /\ program' = program /\ nodes' = nodes
  BY DEF Inv, ClassesGood, Deduce
<1>2. at \in Nat \ {0} /\ at \in DOMAIN nodes
  BY <1>1, NodesAre DEF Points
<1>3. /\ Good(classes') /\ Grows(classes, classes')
      /\ \A g : Types(g, nodes) /\ Fits(nodes[at], g[at], g, nodes) /\ Agree(classes, g)
                   => Agree(classes', g)
  BY <1>1, <1>2, DeducingSound DEF Sound
<1>4. Truthful'
  <2>1. ASSUME NEW f \in [DOMAIN program -> Word], Obeys(f), Agree(classes, Extended(f))
        PROVE  Agree(classes', Extended(f))
    BY <1>1, <1>2, <1>3, <2>1, TypingFits
  <2> QED BY <1>1, <2>1, StaysTruthful
<1>5. Constrained' /\ ReceiversKnown'
  BY <1>1, <1>3, StaysConstrained, StaysReceivers
<1>6. Swept'
  <2> SUFFICES ASSUME ~ classes'.changed, ~ classes'.failed, NEW n \in DOMAIN nodes, n < at'
               PROVE  Settled(n)'
    BY <1>1 DEF Swept
  <2>1. classes' = classes
    BY <1>3 DEF Grows
  <2>2. Settled(n)
    <3>1. CASE n = at
      BY <1>1, <2>1, <3>1 DEF Settled
    <3>2. CASE n # at
      <4>1. n < at
        BY <1>1, <1>2, <3>2, NodesAre
      <4> QED BY <1>1, <2>1, <4>1 DEF Inv, Swept
    <3> QED BY <3>1, <3>2
  <2> QED BY <1>1, <2>1, <2>2, SameRules DEF Settled, Known
<1>7. NodesKept' /\ Kept' /\ Points'
  BY <1>1, <1>2, SameNodes DEF Kept, Points
<1> QED BY <1>3, <1>4, <1>5, <1>6, <1>7 DEF Inv, ClassesGood

\* A sweep has learned nothing: every node is settled.
LEMMA StopSolvingInv == Inv /\ StopSolving => Inv'
<1> SUFFICES ASSUME Inv, StopSolving PROVE Inv'
  OBVIOUS
<1>1. /\ NodesKept /\ Good(classes) /\ Points /\ Truthful
      /\ phase = "solve" /\ at > Len(nodes) /\ at' = at
      /\ ~ classes.changed \/ classes.failed
      /\ phase' = IF classes.failed THEN "wrong" ELSE "validate"
      /\ program' = program /\ nodes' = nodes /\ classes' = classes
  BY DEF Inv, ClassesGood, StopSolving
<1>2. Truthful'
  <2>1. ASSUME NEW f \in [DOMAIN program -> Word], Agree(classes, Extended(f))
        PROVE  phase' # "wrong" /\ Agree(classes', Extended(f))
    BY <1>1, <2>1 DEF Agree
  <2> QED BY <1>1, <2>1, StaysTruthful
<1>3. Constrained' /\ ReceiversKnown'
  BY <1>1, GrowsNot, StaysConstrained, StaysReceivers
<1>4. Swept'
  <2>1. ASSUME ~ classes.failed PROVE \A n \in DOMAIN nodes : Settled(n)
    <3>1. \A n \in DOMAIN nodes : n < at
      BY <1>1, NodesAre DEF Points
    <3> QED BY <1>1, <2>1, <3>1 DEF Inv, Swept
  <2>2. \A n : Settled(n)' <=> Settled(n)
    BY <1>1, SameRules DEF Settled, Known
  <2> QED BY <1>1, <2>1, <2>2 DEF Swept
<1>5. NodesKept' /\ Kept' /\ Points' /\ ClassesGood'
  BY <1>1, SameNodes DEF Kept, Points, ClassesGood
<1> QED BY <1>2, <1>3, <1>4, <1>5 DEF Inv

\* A value that is void has that type in every typing, and is in order in none.
LEMMA ValidateInv == Inv /\ Validate => Inv'
<1> SUFFICES ASSUME Inv, Validate PROVE Inv'
  OBVIOUS
<1> DEFINE bad == {n \in DOMAIN nodes : Unresolved(n) \/ VoidValue(n)}
           first == CHOOSE n \in bad : \A m \in bad : n <= m
<1>1. /\ NodesKept /\ Good(classes) /\ Points /\ Truthful
      /\ phase = "validate" /\ at' = at
      /\ phase' = CASE bad = {} -> "stored"
                    [] bad # {} /\ Unresolved(first) -> "unresolved"
                    [] OTHER -> "wrong"
      /\ saved' = IF bad = {} THEN [n \in DOMAIN nodes |-> Known(classes, n)] ELSE saved
      /\ program' = program /\ nodes' = nodes /\ classes' = classes
  BY DEF Inv, ClassesGood, Validate
<1>2. bad # {} => first \in bad
  <2>1. bad \in SUBSET Nat
    BY <1>1, NodesAre
  <2>2. bad # {} => \E n \in bad : \A m \in bad : n <= m
    <3> HIDE DEF bad
    <3> QED BY <2>1, Least
  <2> HIDE DEF bad
  <2> QED BY <2>2
<1>3. \A n : /\ Unresolved(n)' <=> Unresolved(n)
             /\ VoidValue(n)' <=> VoidValue(n)
             /\ Settled(n)' <=> Settled(n)
  <2>1. \A n : Settled(n)' <=> Settled(n)
    BY <1>1, SameRules DEF Settled, Known
  <2> QED BY <1>1, <2>1 DEF Unresolved, VoidValue, HasSlot, Known, Op
<1>4. Truthful'
  <2>1. ASSUME NEW f \in [DOMAIN program -> Word], Obeys(f), Agree(classes, Extended(f)),
               phase' = "wrong"
        PROVE  FALSE
    <3>1. first \in bad /\ ~ Unresolved(first)
      BY <1>1, <1>2, <2>1
    <3> HIDE DEF first
    <3>2. first \in DOMAIN nodes /\ VoidValue(first)
      BY <3>1
    <3>3. /\ first \in Node /\ Known(classes, first) = VoidType
          /\ nodes[first].op \notin Slotless /\ ~ IsCall(nodes[first].op)
      BY <1>1, <3>2, NodesAre DEF VoidValue, HasSlot, Op
    <3>4. VoidType # NoType /\ VoidType # RegionType
      <4>1. <<"void">>[1] = "void" /\ <<"Region">>[1] = "Region" /\ "void" # "Region"
        OBVIOUS
      <4>2. VoidType # NoType
        BY BasicWords DEF Basic
      <4> QED BY <4>1, <4>2 DEF VoidType, RegionType
    <3>5. Extended(f)[first] = VoidType
      BY <2>1, <3>3, <3>4 DEF Agree, Known
    <3>6. first \in DOMAIN program /\ f[first] = VoidType
      BY <1>1, <2>1, <3>3, <3>4, <3>5, ObeysTypes
    <3>7. IsCall(program[first].op) \/ program[first].op \in Slotless
      BY <2>1, <3>6 DEF Obeys, InOrder
    <3>8. IsCall(nodes[first].op) \/ nodes[first].op \in Slotless
      BY <1>1, <3>6, <3>7, KeptParts DEF IsCall
    <3> QED BY <3>3, <3>8
  <2> QED BY <1>1, <2>1, StaysTruthful
<1>5. Constrained' /\ ReceiversKnown'
  <2>1. phase' # "collect"
    BY <1>1
  <2> QED BY <1>1, <2>1, GrowsNot, StaysConstrained, StaysReceivers
<1>6. Swept' /\ Points'
  <2>1. phase' \in {"stored", "unresolved", "wrong"}
    BY <1>1
  <2> QED BY <1>1, <1>3, <2>1 DEF Inv, Swept, Points
<1>7. Kept'
  <2> SUFFICES ASSUME phase' = "stored" PROVE bad = {}
    BY <1>1, <1>3 DEF Kept, Known
  <2> QED BY <1>1
<1>8. NodesKept' /\ ClassesGood'
  BY <1>1, SameNodes DEF ClassesGood
<1> QED BY <1>4, <1>5, <1>6, <1>7, <1>8 DEF Inv

\* A receiver that no function takes is refused: no typing has a call of it.
LEMMA RefuseReceiverInv == Inv /\ RefuseReceiver => Inv'
<1> SUFFICES ASSUME Inv, RefuseReceiver PROVE Inv'
  OBVIOUS
<1> DEFINE t == Known(classes, Arg(at, 1))
<1>1. /\ NodesKept /\ Good(classes) /\ Points /\ Truthful
      /\ phase = "solve" /\ at <= Len(nodes) /\ at' = at /\ phase' = "wrong"
      /\ Waiting(at) /\ t # NoType
      /\ classes.failed \/ ~ Resolvable(at, t)
      /\ classes' = K!Failed(classes)
      /\ program' = program /\ nodes' = nodes
  BY DEF Inv, ClassesGood, RefuseReceiver
<1>2. at \in DOMAIN nodes
  BY <1>1, NodesAre DEF Points
<1>3. Good(classes') /\ Grows(classes, classes') /\ classes'.failed
  BY <1>1, Failing
<1>4. ASSUME NEW f \in [DOMAIN program -> Word], Obeys(f), Agree(classes, Extended(f))
      PROVE  FALSE
  <2> DEFINE g == Extended(f)
  <2>1. ~ classes.failed /\ ~ Resolvable(at, t)
    BY <1>1, <1>4 DEF Agree
  <2>2. nodes[at].op = "receiver"
    BY <1>1, <2>1 DEF Waiting, Resolvable, Op
  <2>3. ReceiverFits(nodes[at], g[at], g, nodes)
    BY <1>1, <1>2, <1>4, <2>2, TypingFits DEF Fits
  <2>4. g[nodes[at].args[1]] = RecordType /\ Binds(nodes[at].target, RecordType)
    BY <2>3 DEF ReceiverFits, Binds
  <2>5. t = RecordType
    <3>1. Arg(at, 1) \in Node /\ Arg(at, 1) = nodes[at].args[1]
      BY <1>1, <1>2, WaitingNode, NodesAre, ProgramShape DEF Arg
    <3> QED BY <1>1, <1>4, <2>4, <3>1 DEF Agree, Known
  <2> QED BY <2>1, <2>4, <2>5 DEF Resolvable
<1>5. Truthful'
  BY <1>1, <1>4, StaysTruthful
<1>6. Constrained' /\ ReceiversKnown'
  BY <1>1, <1>3 DEF Constrained, ReceiversKnown
<1>7. Swept' /\ Kept' /\ Points'
  BY <1>1 DEF Swept, Kept, Points
<1>8. NodesKept' /\ ClassesGood'
  BY <1>1, <1>3, SameNodes DEF ClassesGood
<1> QED BY <1>5, <1>6, <1>7, <1>8 DEF Inv

-----------------------------------------------------------------------------
(***************************************************************************)
(* A receiver call is resolved.                                            *)
(***************************************************************************)
NodesIn == Len(nodes) \in Nat /\ DOMAIN nodes = 1 .. Len(nodes) /\ DOMAIN nodes \subseteq Node

\* A number at most one larger
LEMMA OneMore ==
    ASSUME NEW l \in Nat, NEW m \in Nat, m = l + 1 \/ m = l
    PROVE  (\A i : i \in 1 .. l => i \in 1 .. m) /\ (m > l => m = l + 1)
OBVIOUS

\* The nodes are numbered from one.
LEMMA AllIn == NodesKept => NodesIn
BY NodesAre DEF NodesIn

\* The same of the nodes a step leads to
LEMMA PrimedIn == NodesKept' => NodesIn'
BY AllIn, PTL

\* The nodes that stay as they were, and what they say
LEMMA ResolveSame ==
    ASSUME NodesKept, Points, Resolve
    PROVE  /\ \A m \in DOMAIN nodes : nodes'[m].note = nodes[m].note
           /\ \A m \in DOMAIN nodes : nodes[m].op = "function" => nodes'[m] = nodes[m]
           /\ \A m \in DOMAIN nodes : m # at => \A s : Told(m, s)' <=> Told(m, s)
           /\ \A m \in DOMAIN program : program[m].op = "receiver" /\ program[m].target # 0 =>
                 \A t : Binds(program[m].target, t)' <=> Binds(program[m].target, t)
           /\ nodes'[at].op = IF program[at].op = "receiver" THEN "call" ELSE "pop"
           /\ nodes'[at].target = program[at].target
<1> DEFINE c == program[at]
<1>1. /\ program' = program
      /\ at \in DOMAIN program /\ at \in DOMAIN nodes /\ nodes[at] = c
      /\ c.op \in {"receiver", "receiver_pop"}
      /\ \A m \in DOMAIN nodes : m # at => nodes'[m] = nodes[m]
      /\ \/ c.op = "receiver_pop" /\ nodes'[at] = [c EXCEPT !.op = "pop"]
         \/ c.op = "receiver" /\ nodes'[at] = [c EXCEPT !.op = "call"]
         \/ c.op = "receiver" /\ \E r : nodes'[at] = [c EXCEPT !.op = "call", !.args = Append(@, r)]
  <2>1. at \in DOMAIN nodes /\ Waiting(at)
    BY Resolved DEF Resolve
  <2> QED BY <2>1, Resolved, WaitingNode
<1>2. c \in NodeRecord
  BY <1>1, ProgramShape DEF Shaped
<1>3. /\ nodes'[at].note = c.note /\ nodes'[at].target = c.target
      /\ nodes'[at].op = IF c.op = "receiver" THEN "call" ELSE "pop"
  <2>1. /\ [c EXCEPT !.op = "pop"].note = c.note /\ [c EXCEPT !.op = "pop"].target = c.target
        /\ [c EXCEPT !.op = "pop"].op = "pop"
        /\ [c EXCEPT !.op = "call"].note = c.note /\ [c EXCEPT !.op = "call"].target = c.target
        /\ [c EXCEPT !.op = "call"].op = "call"
    BY <1>2 DEF NodeRecord
  <2>2. ASSUME NEW r
        PROVE  /\ [c EXCEPT !.op = "call", !.args = Append(@, r)].note = c.note
               /\ [c EXCEPT !.op = "call", !.args = Append(@, r)].target = c.target
               /\ [c EXCEPT !.op = "call", !.args = Append(@, r)].op = "call"
    BY <1>2 DEF NodeRecord
  <2>3. CASE \E r : nodes'[at] = [c EXCEPT !.op = "call", !.args = Append(@, r)]
    <3>1. PICK r : nodes'[at] = [c EXCEPT !.op = "call", !.args = Append(@, r)]
      BY <2>3
    <3>2. nodes'[at].note = c.note /\ nodes'[at].target = c.target /\ nodes'[at].op = "call"
      BY <2>2, <3>1
    <3>3. [c EXCEPT !.op = "pop"].op # "call"
      BY <2>1
    <3>4. c.op = "receiver"
      BY <1>1, <3>2, <3>3
    <3> QED BY <3>2, <3>4
  <2>4. CASE ~ \E r : nodes'[at] = [c EXCEPT !.op = "call", !.args = Append(@, r)]
    BY <1>1, <2>1, <2>4
  <2> QED BY <2>3, <2>4
<1>4. \A m \in DOMAIN nodes : nodes'[m].note = nodes[m].note
  BY <1>1, <1>3
<1>5. \A m \in DOMAIN nodes : nodes[m].op = "function" => nodes'[m] = nodes[m]
  BY <1>1
<1>6. ASSUME NEW m \in DOMAIN nodes, m # at, NEW s PROVE Told(m, s)' <=> Told(m, s)
  <2>1. nodes'[m] = nodes[m]
    BY <1>1, <1>6
  <2>2. nodes[m].op = "call" => nodes'[nodes[m].target] = nodes[nodes[m].target]
    <3>1. Shaped(nodes[m], nodes)
      BY NodesShape
    <3> QED BY <1>5, <3>1 DEF Shaped
  <2> QED BY <2>1, <2>2 DEF Told, CallTold
<1>7. ASSUME NEW m \in DOMAIN program, program[m].op = "receiver", program[m].target # 0, NEW t
      PROVE  Binds(program[m].target, t)' <=> Binds(program[m].target, t)
  <2> DEFINE f == program[m].target
  <2>1. f \in DOMAIN program /\ program[f].op = "function"
    BY <1>7, ProgramShape DEF Shaped
  <2>2. f \in DOMAIN nodes /\ nodes[f] = program[f] /\ nodes'[f] = nodes[f]
    <3>1. f \in DOMAIN nodes /\ nodes[f] = program[f]
      BY <2>1, NodesAre, KeptParts
    <3> QED BY <1>5, <2>1, <3>1
  <2>3. nodes[f].args # << >> => nodes[f].args[1] \in DOMAIN nodes
    <3>1. Shaped(nodes[f], nodes) /\ nodes[f].args \in Seq(Nat)
      BY <2>2, NodesShape DEF Shaped, NodeRecord
    <3>2. nodes[f].args # << >> => 1 \in 1 .. Len(nodes[f].args)
      BY <3>1, EmptySeq
    <3> QED BY <3>1, <3>2 DEF Shaped
  <2> HIDE DEF f
  <2>4. Binds(f, t)' <=> Binds(f, t)
    <3>1. f' = f
      BY <1>1 DEF f
    <3> QED BY <1>4, <2>2, <2>3, <3>1 DEF Binds
  <2> QED BY <1>1, <2>4 DEF f
<1> QED BY <1>3, <1>4, <1>5, <1>6, <1>7

\* Setting the flag learns nothing.
LEMMA Flagging ==
    ASSUME NEW k, Good(k)
    PROVE  LET l == [k EXCEPT !.changed = TRUE]
           IN /\ Good(l) /\ Grows(k, l) /\ l.changed /\ l.failed = k.failed
              /\ l.type = k.type
              /\ \A g : Agree(k, g) <=> Agree(l, g)
<1> DEFINE l == [k EXCEPT !.changed = TRUE]
<1>1. /\ l.class = k.class /\ l.type = k.type /\ l.failed = k.failed /\ l.changed = TRUE
      /\ l \in [class : [Node -> SUBSET Node], type : [Node -> Word],
                changed : BOOLEAN, failed : BOOLEAN]
  BY DEF Good
<1> HIDE DEF l
<1>2. Good(l)
  BY <1>1 DEF Good
<1>3. Grows(k, l)
  BY <1>1 DEF Grows
<1>4. \A g : Agree(k, g) <=> Agree(l, g)
  BY <1>1 DEF Agree
<1> QED BY <1>1, <1>2, <1>3, <1>4 DEF l

\* The steps by which a call is resolved, and what comes of them
LEMMA ResolveSteps ==
    ASSUME Inv, Resolve, NodesKept'
    PROVE  /\ Good(classes') /\ Grows(classes, classes') /\ classes'.changed
           /\ ~ classes'.failed =>
                 /\ Len(nodes') > Len(nodes) => Satisfied(classes', Is(Len(nodes'), RegionType))
                 /\ program[at].op = "receiver" =>
                       \A s : CallTold(at, program[at].target, nodes'[at].args, s)
                                => Satisfied(classes', s)
           /\ \A f \in [DOMAIN program -> Word] :
                 Obeys(f) /\ Agree(classes, Extended(f)) => Agree(classes', Extended(f))
<1> DEFINE F == program[at].target
           args == nodes'[at].args
           more == Len(nodes') > Len(nodes)
           region == Is(Len(nodes'), RegionType)
           appended == IF more THEN <<region>> ELSE << >>
           call == program[at].op = "receiver"
           collected == IF call THEN TargetConstraints(at, F, args) ELSE << >>
           k0 == After(classes, appended \o collected)
           k == [k0 EXCEPT !.changed = TRUE]
<1>1. /\ NodesKept /\ Points /\ Good(classes)
      /\ program' = program
      /\ at \in DOMAIN program /\ at \in DOMAIN nodes /\ nodes[at] = program[at]
      /\ \A m \in DOMAIN nodes : m # at => nodes'[m] = nodes[m]
      /\ call => program[at].target # 0
      /\ Len(nodes') = Len(nodes) + 1 \/ Len(nodes') = Len(nodes)
  <2>1. NodesKept /\ Points /\ Good(classes)
    BY DEF Inv, ClassesGood
  <2> QED BY <2>1, Resolved
<1>2. classes' = IF call \/ k.failed THEN k ELSE DeduceBuiltin(k, at)
  BY <1>1 DEF Resolve, Op
<1>3. NodesIn /\ NodesIn' /\ ShapesAll' /\ FitsAll'
  BY <1>1, AllIn, PrimedIn, PrimedAll
<1>31. /\ Len(nodes) \in Nat /\ DOMAIN nodes = 1 .. Len(nodes)
       /\ Len(nodes') \in Nat /\ DOMAIN nodes' = 1 .. Len(nodes') /\ DOMAIN nodes' \subseteq Node
       /\ at \in DOMAIN nodes'
  <2>1. /\ Len(nodes) \in Nat /\ DOMAIN nodes = 1 .. Len(nodes)
        /\ Len(nodes') \in Nat /\ DOMAIN nodes' = 1 .. Len(nodes') /\ DOMAIN nodes' \subseteq Node
    BY <1>3 DEF NodesIn
  <2>2. at \in 1 .. Len(nodes)
    BY <1>1, <2>1
  <2>3. Len(nodes') = Len(nodes) + 1 \/ Len(nodes') = Len(nodes)
    BY <1>1
  <2>4. at \in 1 .. Len(nodes')
    BY <2>1, <2>2, <2>3, OneMore
  <2> QED BY <2>1, <2>4
<1>4. more => region \in Step
  <2>1. more => Len(nodes') \in Node
    BY <1>3 DEF NodesIn
  <2>2. RegionType \in Word /\ RegionType # NoType
    BY BasicWords DEF Basic
  <2> QED BY <2>1, <2>2, StepsAre
<1>5. appended \in Seq(Step) /\ ToSet(appended) = IF more THEN {region} ELSE {}
  <2> HIDE DEF region, more
  <2> QED BY <1>4, Listed
<1>6. call => F \in DOMAIN nodes /\ nodes'[F] = nodes[F]
  <2>1. call => F \in DOMAIN program /\ program[F].op = "function"
    BY <1>1, ProgramShape DEF Shaped
  <2>2. call => F \in DOMAIN nodes /\ nodes[F].op = "function"
    BY <1>1, <2>1, NodesAre, KeptParts
  <2> QED BY <1>1, <2>2, ResolveSame
<1>7. args \in Seq(Nat) /\ \A i \in 1 .. Len(args) : args[i] \in Node
  <2>1. Shaped(nodes'[at], nodes')
    BY <1>3, <1>31 DEF ShapesAll
  <2> QED BY <1>31, <2>1 DEF Shaped, NodeRecord
<1>8. /\ collected \in Seq(Step)
      /\ \A s : s \in ToSet(collected) <=> call /\ CallTold(at, F, args, s)
  <2>1. CASE call
    <3> HIDE DEF F, args
    <3> QED BY <1>1, <1>6, <1>7, <2>1, TargetTold
  <2>2. CASE ~ call
    BY <2>2, Listed
  <2> QED BY <2>1, <2>2
<1>9. /\ appended \o collected \in Seq(Step)
      /\ ToSet(appended \o collected) = ToSet(appended) \cup ToSet(collected)
  <2> HIDE DEF appended, collected
  <2> QED BY <1>5, <1>8, Together
<1>10. /\ Good(k0) /\ Grows(classes, k0)
       /\ ~ k0.failed => \A s \in ToSet(appended \o collected) : Satisfied(k0, s)
       /\ \A g : Agree(classes, g) /\ (\A s \in ToSet(appended \o collected) : Holds(s, g))
                    => Agree(k0, g)
  <2> HIDE DEF appended, collected
  <2> QED BY <1>1, <1>9, PerformedAll
<1> HIDE DEF appended, collected, k0
<1>11. /\ Good(k) /\ Grows(k0, k) /\ k.changed /\ k.failed = k0.failed /\ k.type = k0.type
       /\ \A g : Agree(k0, g) <=> Agree(k, g)
  BY <1>10, Flagging
<1> HIDE DEF k
<1>12. /\ Good(classes') /\ Grows(k, classes') /\ classes'.changed
       /\ \A g : Types(g, nodes) /\ Fits(nodes[at], g[at], g, nodes) /\ Agree(k, g)
                    => Agree(classes', g)
  <2>1. CASE classes' = k
    BY <1>11, <2>1, GrowsNot
  <2>2. CASE ~ call /\ classes' = DeduceBuiltin(k, at)
    <3>1. Waiting(at) /\ Known(classes, Arg(at, 1)) # NoType
      BY DEF Resolve
    <3>2. nodes[at].op = "receiver_pop" /\ Arg(at, 1) \in Node
      <4>1. Arg(at, 1) \in 1 .. at - 1 /\ nodes[at].op \in {"receiver", "receiver_pop"}
        BY <1>1, <3>1, WaitingNode
      <4>2. at \in Node
        BY <1>1, NodesAre
      <4> QED BY <1>1, <2>2, <4>1, <4>2, ProgramsAssumption DEF Node
    <3>3. Known(k, Arg(at, 1)) # NoType
      BY <1>10, <1>11, <3>1, <3>2 DEF Grows, Known
    <3>4. Sound(k, classes', at)
      BY <1>1, <1>11, <2>2, <3>2, <3>3, BuiltinSound
    <3> QED BY <1>11, <3>4 DEF Sound, Grows
  <2> QED BY <1>2, <2>1, <2>2
<1>13. Grows(classes, classes')
  BY <1>10, <1>11, <1>12, GrowsOn
<1>14. ASSUME ~ classes'.failed, NEW s \in Step,
              (more /\ s = region) \/ (call /\ CallTold(at, F, args, s))
       PROVE  Satisfied(classes', s)
  <2>1. ~ k0.failed
    BY <1>11, <1>12, <1>14 DEF Grows
  <2>2. s \in ToSet(appended \o collected)
    BY <1>5, <1>8, <1>9, <1>14
  <2>3. Satisfied(k0, s)
    BY <1>10, <2>1, <2>2
  <2>4. Grows(k0, classes')
    BY <1>11, <1>12, GrowsOn
  <2> QED BY <1>10, <2>3, <2>4, StaysSatisfied
<1>15. \A s : call /\ CallTold(at, F, args, s) => s \in Step
  BY <1>8, Members
<1>16. ASSUME NEW f \in [DOMAIN program -> Word], Obeys(f), Agree(classes, Extended(f))
       PROVE  Agree(classes', Extended(f))
  <2> DEFINE g == Extended(f)
  <2>1. ASSUME more PROVE Holds(region, g)
    <3>1. Len(nodes') \in Node \ DOMAIN program
      <4>1. Len(nodes') = Len(nodes) + 1 /\ Len(nodes) \in Nat /\ Len(program) <= Len(nodes)
        <5>1. Len(nodes') = Len(nodes) + 1 \/ Len(nodes') = Len(nodes)
          BY <1>1
        <5>2. Len(program) <= Len(nodes)
          BY <1>1 DEF NodesKept
        <5> QED BY <1>31, <2>1, <5>1, <5>2, OneMore
      <4>2. Len(nodes') \in Node
        BY <1>31, <4>1
      <4> QED BY <1>1, <4>1, <4>2, ProgramShape
    <3>2. g[Len(nodes')] = RegionType
      BY <1>1, <1>16, <3>1, ObeysTypes
    <3> QED BY <3>2, HoldsOf
  <2>2. ASSUME call, NEW s, CallTold(at, F, args, s) PROVE Holds(s, g)
    <3>1. at \in DOMAIN nodes' /\ Obeys(f)' /\ Extended(f)' = g /\ f \in [DOMAIN program' -> Word]
      <4>1. Obeys(f)' /\ Extended(f)' = g
        BY <1>1, <1>16, SameProgram
      <4> QED BY <1>1, <1>31, <4>1
    <3>2. Fits(nodes'[at], g[at], g, nodes')
      BY <1>3, <3>1 DEF FitsAll
    <3>3. nodes'[at].op = "call" /\ nodes'[at].target = F
      BY <1>1, <2>2, ResolveSame
    <3>4. CallFits(nodes'[at], g[at], g, nodes')
      BY <3>2, <3>3 DEF Fits
    <3>5. /\ g[at] = g[F] /\ Len(args) = Len(nodes[F].args)
          /\ \A i \in 1 .. Len(args) : g[nodes[F].args[i]] = g[args[i]]
      BY <1>6, <2>2, <3>3, <3>4 DEF CallFits
    <3> HIDE DEF g, F, args
    <3> QED BY <2>2, <3>5, HoldsOf DEF CallTold
  <2>3. \A s \in ToSet(appended \o collected) : Holds(s, g)
    BY <1>5, <1>8, <1>9, <2>1, <2>2
  <2>4. Agree(k, g)
    BY <1>10, <1>11, <1>16, <2>3
  <2> QED BY <1>1, <1>12, <1>16, <2>4, TypingFits
<1>17. more /\ ~ classes'.failed => Satisfied(classes', region)
  BY <1>4, <1>14
<1>18. call /\ ~ classes'.failed => \A s : CallTold(at, F, args, s) => Satisfied(classes', s)
  BY <1>14, <1>15
<1> QED BY <1>12, <1>13, <1>16, <1>17, <1>18

\* A call is resolved in the middle of a sweep: its constraints hold at once.
LEMMA ResolveInv == Inv /\ Resolve => Inv'
<1> SUFFICES ASSUME Inv, Resolve PROVE Inv'
  OBVIOUS
<1>1. /\ NodesKept /\ Points /\ Good(classes) /\ Truthful /\ Constrained /\ ReceiversKnown
      /\ NodesKept'
      /\ phase = "solve" /\ phase' = phase /\ at' = at + 1
  BY ResolveNodes DEF Inv, ClassesGood, Resolve
<1>2. /\ program' = program
      /\ at \in DOMAIN program /\ at \in DOMAIN nodes /\ nodes[at] = program[at]
      /\ Len(nodes') = IF OmitsRegion(at) THEN Len(nodes) + 1 ELSE Len(nodes)
      /\ \A m \in DOMAIN nodes : m # at => nodes'[m] = nodes[m]
      /\ OmitsRegion(at) => nodes'[Len(nodes) + 1] = RegionNode
  BY <1>1, Resolved
<1>3. /\ Good(classes') /\ Grows(classes, classes') /\ classes'.changed
      /\ ~ classes'.failed =>
            /\ Len(nodes') > Len(nodes) => Satisfied(classes', Is(Len(nodes'), RegionType))
            /\ program[at].op = "receiver" =>
                  \A s : CallTold(at, program[at].target, nodes'[at].args, s)
                           => Satisfied(classes', s)
      /\ \A f \in [DOMAIN program -> Word] :
            Obeys(f) /\ Agree(classes, Extended(f)) => Agree(classes', Extended(f))
  BY <1>1, ResolveSteps
<1>4. /\ \A m \in DOMAIN nodes : nodes'[m].note = nodes[m].note
      /\ \A m \in DOMAIN nodes : m # at => \A s : Told(m, s)' <=> Told(m, s)
      /\ \A m \in DOMAIN program : program[m].op = "receiver" /\ program[m].target # 0 =>
            \A t : Binds(program[m].target, t)' <=> Binds(program[m].target, t)
      /\ nodes'[at].op = IF program[at].op = "receiver" THEN "call" ELSE "pop"
      /\ nodes'[at].target = program[at].target
  BY <1>1, ResolveSame
<1>5. NodesIn /\ NodesIn'
  BY <1>1, AllIn, PrimedIn
<1>6. at' = at + 1 /\ at \in Nat
  BY <1>1 DEF Points
<1>7. Truthful'
  BY <1>1, <1>2, <1>3, StaysTruthful
<1>8. Constrained'
  <2> SUFFICES ASSUME ~ classes'.failed, NEW n \in DOMAIN nodes', NEW s, Told(n, s)'
               PROVE  Satisfied(classes', s)
    BY DEF Constrained
  <2>1. ~ classes.failed
    BY <1>3 DEF Grows
  <2>2. ASSUME NEW m \in DOMAIN nodes, NEW q, Told(m, q) PROVE Satisfied(classes', q)
    <3>1. Satisfied(classes, q) /\ q \in Step
      BY <1>1, <2>1, <2>2, ToldSteps DEF Constrained
    <3> QED BY <1>1, <1>3, <3>1, StaysSatisfied
  <2>3. CASE n \in DOMAIN nodes /\ n # at
    BY <1>4, <2>2, <2>3
  <2>4. CASE n = at
    <3>1. nodes'[at].op \in {"call", "pop"}
      BY <1>4
    <3>2. \/ nodes'[at].note # NoType /\ s = Is(at, nodes'[at].note)
          \/ nodes'[at].op = "call" /\ CallTold(n, nodes[n].target, nodes[n].args, s)'
      BY <2>4, <3>1 DEF Told
    <3>3. CASE nodes'[at].note # NoType /\ s = Is(at, nodes'[at].note)
      <4>1. Told(at, s)
        BY <1>2, <1>4, <3>3 DEF Told
      <4> QED BY <1>2, <2>2, <4>1
    <3>4. CASE nodes'[at].op = "call" /\ CallTold(n, nodes[n].target, nodes[n].args, s)'
      <4> DEFINE F == program[at].target
      <4>1. program[at].op = "receiver"
        BY <1>4, <3>4
      <4>2. F # 0
        BY <1>1, <4>1, Resolved
      <4>3. F \in DOMAIN program /\ program[F].op = "function"
        BY <1>1, <1>2, <4>2, ProgramShape DEF Shaped
      <4>4. F \in DOMAIN nodes /\ F # at /\ nodes'[F] = nodes[F]
        BY <1>1, <1>2, <4>1, <4>3, NodesAre
      <4>5. CallTold(at, F, nodes'[at].args, s)
        BY <1>4, <2>4, <3>4, <4>4 DEF CallTold
      <4> QED BY <1>3, <4>1, <4>5
    <3> QED BY <3>2, <3>3, <3>4
  <2>5. CASE n \notin DOMAIN nodes
    <3>1. OmitsRegion(at) /\ n = Len(nodes) + 1 /\ n = Len(nodes')
      BY <1>2, <1>5, <2>5 DEF NodesIn
    <3>2. nodes'[n] = RegionNode
      BY <1>2, <3>1
    <3>3. nodes'[n].op = "leaf" /\ nodes'[n].note = RegionType
      BY <3>2 DEF RegionNode
    <3>4. s = Is(n, RegionType)
      BY <3>3 DEF Told
    <3> QED BY <1>3, <1>5, <3>1, <3>4 DEF NodesIn
  <2> QED BY <2>3, <2>4, <2>5
<1>9. ReceiversKnown'
  <2> SUFFICES ASSUME ~ classes'.failed, NEW n \in DOMAIN program,
                      program[n].op = "receiver", nodes'[n].op = "call"
               PROVE  /\ classes'.type[program[n].args[1]] = RecordType
                      /\ Binds(program[n].target, RecordType)'
    BY <1>2 DEF ReceiversKnown
  <2>1. ~ classes.failed
    BY <1>3 DEF Grows
  <2>2. /\ classes.type[program[n].args[1]] = RecordType
        /\ Binds(program[n].target, RecordType)
    <3>1. CASE n # at
      <4>1. nodes[n].op = "call"
        BY <1>1, <1>2, <3>1, NodesAre
      <4> QED BY <1>1, <2>1, <4>1 DEF ReceiversKnown
    <3>2. CASE n = at
      <4>1. Resolvable(at, Known(classes, Arg(at, 1))) /\ Waiting(at)
        BY DEF Resolve
      <4> QED BY <1>2, <3>2, <4>1 DEF Resolvable, Op, Known, Arg
    <3> QED BY <3>1, <3>2
  <2>3. program[n].args[1] \in Node
    <3>1. Shaped(program[n], program)
      BY <1>1, ProgramShape
    <3>2. Len(program[n].args) >= 1 /\ Len(program[n].args) \in Nat
      BY <3>1, Arities DEF Shaped
    <3> QED BY <1>1, <3>1, <3>2, NodesAre DEF Shaped
  <2>4. classes'.type[program[n].args[1]] = RecordType
    <3>1. RecordType # NoType
      BY BasicWords DEF Basic
    <3> QED BY <1>3, <2>2, <2>3, <3>1 DEF Grows
  <2> QED BY <1>4, <2>2, <2>4 DEF Binds
<1>10. Swept' /\ Kept' /\ Points'
  BY <1>1, <1>3, <1>6 DEF Swept, Kept, Points
<1> QED BY <1>1, <1>3, <1>7, <1>8, <1>9, <1>10 DEF Inv, ClassesGood

\* Every step keeps the invariant.
LEMMA NextInv == Inv /\ [Next]_vars => Inv'
<1> SUFFICES ASSUME Inv, [Next]_vars PROVE Inv'
  OBVIOUS
<1>1. CASE UNCHANGED vars
  <2>1. NodesKept' /\ ClassesGood'
    BY <1>1, SameNodes DEF vars, Inv, ClassesGood
  <2>2. Truthful'
    BY <1>1, StaysTruthful DEF vars, Inv
  <2>3. Constrained' /\ ReceiversKnown'
    BY <1>1, GrowsNot, StaysConstrained, StaysReceivers DEF vars
  <2>4. \A n : Settled(n)' <=> Settled(n)
    BY <1>1, SameRules DEF vars, Settled, Known
  <2>5. Swept' /\ Points'
    BY <1>1, <2>4 DEF vars, Inv, Swept, Points
  <2>6. Kept'
    BY <1>1 DEF vars, Inv, Kept, Unresolved, VoidValue, HasSlot, Known, Op
  <2> QED BY <2>1, <2>2, <2>3, <2>5, <2>6 DEF Inv
<1> QED BY <1>1, CollectInv, StartSolvingInv, DeduceInv, ResolveInv, RefuseReceiverInv,
           NextSweepInv, StopSolvingInv, ValidateInv DEF Next

\* The invariant holds.
LEMMA Invariant == Spec => []Inv
BY InitInv, NextInv, PTL DEF Spec

-----------------------------------------------------------------------------
(***************************************************************************)
(* The types that follow from a choice for the free nodes.                 *)
(***************************************************************************)
FreeNodes == {n \in DOMAIN program : Free(n)}

\* What a node refers to is earlier, the parameters of its function included.
LEMMA Earlier ==
    ASSUME NodesKept, NEW n \in DOMAIN program
    PROVE  LET c == program[n]
               parameters == program[c.target].args
           IN /\ n \in Nat /\ c.op \in Operations /\ Len(c.args) \in Nat /\ DOMAIN c.args = 1 .. Len(c.args)
              /\ \A i \in 1 .. Len(c.args) : c.args[i] \in 1 .. n - 1
              /\ c.target # 0 =>
                    /\ c.target \in 1 .. n - 1
                    /\ Len(parameters) \in Nat /\ DOMAIN parameters = 1 .. Len(parameters)
                    /\ \A i \in 1 .. Len(parameters) : parameters[i] \in 1 .. n - 1
              /\ \A m \in 1 .. n - 1 : m \in DOMAIN program
<1> DEFINE c == program[n]
           parameters == program[c.target].args
<1>1. /\ DOMAIN program = 1 .. Len(program) /\ Len(program) \in Nat
      /\ \A m \in DOMAIN program :
            /\ Shaped(program[m], program)
            /\ \A i \in 1 .. Len(program[m].args) : program[m].args[i] \in 1 .. m - 1
            /\ program[m].target \in 0 .. m - 1
  BY ProgramShape
<1>2. n \in Nat /\ \A m \in 1 .. n - 1 : m \in DOMAIN program
  BY <1>1
<1>3. /\ c.op \in Operations /\ Len(c.args) \in Nat /\ DOMAIN c.args = 1 .. Len(c.args)
      /\ \A i \in 1 .. Len(c.args) : c.args[i] \in 1 .. n - 1
  BY <1>1 DEF Shaped, NodeRecord
<1>4. ASSUME c.target # 0
      PROVE  /\ c.target \in 1 .. n - 1
             /\ Len(parameters) \in Nat /\ DOMAIN parameters = 1 .. Len(parameters)
             /\ \A i \in 1 .. Len(parameters) : parameters[i] \in 1 .. n - 1
  <2>1. c.target \in 0 .. n - 1
    BY <1>1
  <2>2. c.target \in 1 .. n - 1
    BY <1>2, <1>4, <2>1
  <2>3. c.target \in DOMAIN program
    BY <1>2, <2>2
  <2>4. /\ Len(parameters) \in Nat /\ DOMAIN parameters = 1 .. Len(parameters)
        /\ \A i \in 1 .. Len(parameters) : parameters[i] \in 1 .. c.target - 1
    BY <1>1, <2>3 DEF Shaped
  <2>5. \A i \in 1 .. c.target - 1 : i \in 1 .. n - 1
    BY <1>2, <2>2
  <2> QED BY <2>2, <2>4, <2>5
<1> QED BY <1>2, <1>3, <1>4

\* The operands a node has for its operation
LEMMA HasOperands ==
    ASSUME NodesKept, NEW n \in DOMAIN program
    PROVE  LET c == program[n]
           IN /\ c.op \in Binary \cup Unary \cup Slotless
                        \cup {"join", "index", "field", "unwrap", "push", "pop", "receiver_pop",
                              "cond", "receiver"} => c.args[1] \in 1 .. n - 1
              /\ c.op \in Binary \cup Slotless \cup {"index", "push", "cond"} => c.args[2] \in 1 .. n - 1
              /\ c.op = "cond" => c.args[3] \in 1 .. n - 1
              /\ c.op \in Literals /\ ~ Free(n) => c.args[1] \in 1 .. n - 1
<1> DEFINE c == program[n]
           len == Len(c.args)
<1>1. len \in Nat /\ \A i \in 1 .. len : c.args[i] \in 1 .. n - 1
  BY Earlier
<1>2. /\ c.op \in Binary \cup {"index", "push", "assign", "match", "foreach"} => len = 2
      /\ c.op \in Unary \cup {"join", "field", "unwrap", "pop", "receiver_pop"} => len = 1
      /\ c.op = "cond" => len = 3
      /\ c.op = "receiver" => len >= 1
  BY ProgramShape, Arities
<1>3. c.op \in Literals /\ ~ Free(n) => len >= 1
  <2>1. c.args \in Seq(Nat)
    BY ProgramShape DEF Shaped, NodeRecord
  <2> QED BY <1>1, <2>1, EmptySeq DEF Free
<1> HIDE DEF len
<1>4. /\ len >= 1 => c.args[1] \in 1 .. n - 1
      /\ len >= 2 => c.args[2] \in 1 .. n - 1
      /\ len >= 3 => c.args[3] \in 1 .. n - 1
  BY <1>1
<1>5. c.op \in Binary \cup Unary \cup Slotless
                  \cup {"join", "index", "field", "unwrap", "push", "pop", "receiver_pop",
                        "cond", "receiver"} => len >= 1
  BY <1>2 DEF Slotless
<1>6. c.op \in Binary \cup Slotless \cup {"index", "push", "cond"} => len >= 2
  BY <1>2 DEF Slotless
<1>7. c.op = "cond" => len >= 3
  BY <1>2
<1> QED BY <1>3, <1>4, <1>5, <1>6, <1>7

\* A judgement depends on the earlier nodes only.
LEMMA JudgementLocal ==
    ASSUME NodesKept, NEW n \in DOMAIN program, ~ Free(n), NEW f, NEW h,
           \A m \in 1 .. n - 1 : f[m] = h[m]
    PROVE  Judgement(n, f) = Judgement(n, h)
<1> DEFINE c == program[n]
           j == Judgement(n, f)
           i == Judgement(n, h)
<1>1. /\ c.op \in Binary \cup Unary \cup Slotless
                  \cup {"join", "index", "field", "unwrap", "push", "pop", "receiver_pop",
                        "cond", "receiver"} => f[c.args[1]] = h[c.args[1]]
      /\ c.op \in Binary \cup Slotless \cup {"index", "push", "cond"} => f[c.args[2]] = h[c.args[2]]
      /\ c.op = "cond" => f[c.args[3]] = h[c.args[3]]
      /\ c.op \in Literals => f[c.args[1]] = h[c.args[1]]
  BY HasOperands
<1>2. c.op \in Operations /\ \A k \in DOMAIN c.args : f[c.args[k]] = h[c.args[k]]
  BY Earlier
<1>3. c.target # 0 => f[c.target] = h[c.target] /\ (Takes(n, f) <=> Takes(n, h))
  <2> SUFFICES ASSUME c.target # 0
               PROVE  f[c.target] = h[c.target] /\ (Takes(n, f) <=> Takes(n, h))
    OBVIOUS
  <2> DEFINE parameters == program[c.target].args
  <2>1. /\ c.target \in 1 .. n - 1 /\ Len(c.args) \in Nat /\ Len(parameters) \in Nat
        /\ \A k \in 1 .. Len(parameters) : f[parameters[k]] = h[parameters[k]]
        /\ \A k \in 1 .. Len(c.args) : f[c.args[k]] = h[c.args[k]]
    BY Earlier
  <2>2. ASSUME NEW g
        PROVE  Takes(n, g) <=>
                /\ \A k \in 1 .. Len(c.args) : g[parameters[k]] = g[c.args[k]]
                /\ \/ Len(c.args) = Len(parameters)
                   \/ /\ c.op = "receiver" /\ Len(c.args) + 1 = Len(parameters)
                      /\ g[Last(parameters)] = RegionType
                      /\ program[Last(parameters)].note = RegionType
    BY Taken
  <2>3. Last(parameters) = parameters[Len(parameters)]
    BY DEF Last
  <2>4. Len(c.args) + 1 = Len(parameters) => f[Last(parameters)] = h[Last(parameters)]
    <3>1. Len(c.args) + 1 = Len(parameters) => Len(parameters) \in 1 .. Len(parameters)
      BY <2>1
    <3> HIDE DEF parameters, c
    <3> QED BY <2>1, <2>3, <3>1
  <2>5. Len(c.args) = Len(parameters) \/ Len(c.args) + 1 = Len(parameters) =>
           \A k \in 1 .. Len(c.args) : k \in 1 .. Len(parameters)
    BY <2>1
  <2> HIDE DEF parameters, c
  <2> QED BY <2>1, <2>2, <2>4, <2>5
<1>4. c.op = "receiver" => (Method(n, f) <=> Method(n, h))
  BY <1>1 DEF Method
<1>5. c.op = "call" => c.target # 0
  BY ProgramShape DEF Shaped
<1>6. c.op = "receiver" /\ c.target = 0 => ~ Method(n, f) /\ ~ Method(n, h)
  BY DEF Method
<1>7. c.op \in Operations \ {"leaf", "function"}
  BY <1>2 DEF Free
<1> HIDE DEF c
<1>8. CASE c.op \in Binary \cup Unary \cup {"join", "cond"}
  BY <1>1, <1>8, Judged DEF c
<1>9. CASE c.op \in Literals
  BY <1>1, <1>2, <1>9, Judged DEF c
<1>10. CASE c.op \in {"index", "field", "unwrap", "push", "pop", "receiver_pop"}
  BY <1>1, <1>10, Judged DEF c
<1>11. CASE c.op \in {"call", "receiver"}
  BY <1>3, <1>4, <1>5, <1>6, <1>11, Judged DEF c
<1>12. CASE c.op \in Slotless
  BY <1>1, <1>12, Judged DEF c, Slotless
<1> QED BY <1>7, <1>8, <1>9, <1>10, <1>11, <1>12 DEF Operations

\* A judgement is a type.
LEMMA JudgementWord ==
    ASSUME NodesKept, NEW n \in DOMAIN program, ~ Free(n), NEW f,
           \A m \in 1 .. n - 1 : f[m] \in Word
    PROVE  Judgement(n, f) \in Word
<1> DEFINE c == program[n]
           j == Judgement(n, f)
           a(i) == f[c.args[i]]
<1>1. /\ c.op \in Binary \cup Unary \cup Slotless
                  \cup {"join", "index", "field", "unwrap", "push", "pop", "receiver_pop",
                        "cond", "receiver"} => a(1) \in Word
      /\ c.op \in Binary \cup Slotless \cup {"index", "push", "cond"} => a(2) \in Word
      /\ c.op = "cond" => a(3) \in Word
      /\ c.op \in Literals => a(1) \in Word
  BY HasOperands
<1>2. c.op \in Operations \ {"leaf", "function"}
  BY Earlier DEF Free
<1>3. c.target # 0 => f[c.target] \in Word
  BY Earlier
<1>4. NoType \in Word /\ VoidType \in Word /\ FieldType \in Word
  BY BasicWords DEF Basic, FieldType
<1>5. (c.op = "call" => c.target # 0) /\ (Method(n, f) => c.target # 0)
  BY ProgramShape DEF Shaped, Method
<1>6. \A k \in Letter : \A t \in Word : Element(k, t) \in Word /\ Of(k, t) \in Word
  BY Contained, Prefixed, WordIs DEF Of
<1>7. "Option" \in Letter /\ "Vec" \in Letter /\ Literals \subseteq Letter
  BY DEF Letter, Literals
<1> HIDE DEF c, a
<1>8. CASE c.op \in Binary
  <2>1. j = BinaryResult(c.op, a(1), a(2))
    BY <1>8, Judged DEF c, a
  <2>2. \A op : BinaryResult(op, a(1), a(2)) \in Word
    BY <1>1, <1>8, Answers
  <2> QED BY <2>1, <2>2
<1>9. CASE c.op = "cond"
  BY <1>1, <1>4, <1>9, Judged, Answers DEF c, a
<1>10. CASE c.op \in Unary \cup {"join"}
  BY <1>1, <1>4, <1>10, Judged, OtherAnswers DEF c, a
<1>11. CASE c.op \in Literals
  BY <1>1, <1>4, <1>6, <1>7, <1>11, Judged DEF c, a
<1>12. CASE c.op \in {"index", "field", "push"}
  BY <1>1, <1>4, <1>12, Judged, OtherAnswers DEF c, a
<1>13. CASE c.op \in {"unwrap", "pop", "receiver_pop"}
  BY <1>1, <1>6, <1>7, <1>13, Judged DEF c, a
<1>14. CASE c.op \in {"call", "receiver"}
  BY <1>3, <1>4, <1>5, <1>14, Judged DEF c
<1>15. CASE c.op \in Slotless
  BY <1>4, <1>15, Judged DEF c, Slotless
<1> QED BY <1>2, <1>8, <1>9, <1>10, <1>11, <1>12, <1>13, <1>14, <1>15 DEF Operations

\* Completed judges the nodes that are not free, one after the other.
LEMMA CompletedIs ==
    ASSUME NodesKept, NEW c \in [FreeNodes -> Word]
    PROVE  /\ Completed(c) \in [DOMAIN program -> Word]
           /\ \A n \in DOMAIN program :
                 Completed(c)[n] = IF Free(n) THEN c[n] ELSE Judgement(n, Completed(c))
<1> DEFINE N == Len(program)
           X(i, s) == IF i \in DOMAIN c THEN c[i] ELSE Judgement(i, s)
           Up(a, j) == a = [i \in 0 .. j |-> IF i = 0 THEN << >> ELSE Append(a[i - 1], X(i, a[i - 1]))]
           Bad == {j \in 0 .. N : ~ \E a : Up(a, j)}
<1>0. N \in Nat /\ DOMAIN program = 1 .. N
  BY ProgramShape
<1>1. Bad = {}
  <2>1. SUFFICES ASSUME Bad # {} PROVE FALSE
    OBVIOUS
  <2>2. PICK j \in Bad : \A i \in Bad : j <= i
    <3>1. Bad \in SUBSET Nat
      BY <1>0
    <3> HIDE DEF Bad
    <3> QED BY <2>1, <3>1, Least
  <2> HIDE DEF X
  <2>3. CASE j = 0
    <3> DEFINE a == [i \in 0 .. 0 |-> << >>]
    <3>1. Up(a, 0)
      OBVIOUS
    <3> QED BY <2>2, <2>3, <3>1
  <2>4. CASE j # 0
    <3>1. j \in Nat /\ j - 1 \in 0 .. N /\ j - 1 \notin Bad /\ j \in 1 .. N
      <4>1. j \in 0 .. N
        BY <2>2
      <4>2. j - 1 \notin Bad
        <5> HIDE DEF Bad
        <5> QED BY <1>0, <2>2, <4>1
      <4> QED BY <1>0, <2>4, <4>1, <4>2
    <3>2. PICK a : Up(a, j - 1)
      BY <3>1
    <3> DEFINE b == [i \in 0 .. j |-> IF i = j THEN Append(a[j - 1], X(j, a[j - 1])) ELSE a[i]]
    <3>3. ASSUME NEW i \in 0 .. j
          PROVE  b[i] = IF i = 0 THEN << >> ELSE Append(b[i - 1], X(i, b[i - 1]))
      <4>1. CASE i = j
        <5>1. i # 0 /\ j - 1 \in 0 .. j /\ j - 1 # j
          BY <3>1, <4>1
        <5> QED BY <4>1, <5>1
      <4>2. CASE i # j
        <5>1. i \in 0 .. (j - 1) /\ (i # 0 => i - 1 \in 0 .. j /\ i - 1 # j)
          BY <3>1, <4>2
        <5>2. a[i] = IF i = 0 THEN << >> ELSE Append(a[i - 1], X(i, a[i - 1]))
          BY <3>2, <5>1
        <5>3. b[i] = a[i] /\ (i # 0 => b[i - 1] = a[i - 1])
          BY <4>2, <5>1
        <5> QED BY <5>2, <5>3
      <4> QED BY <4>1, <4>2
    <3>4. b = [i \in 0 .. j |-> b[i]]
      OBVIOUS
    <3> HIDE DEF b
    <3>5. Up(b, j)
      BY <3>3, <3>4
    <3> QED BY <2>2, <3>5
  <2> QED BY <2>3, <2>4
<1>2. \E a : Up(a, N)
  <2>1. N \in 0 .. N
    BY <1>0
  <2> QED BY <1>1, <2>1
<1> DEFINE f == CHOOSE a : Up(a, N)
<1>3. Up(f, N)
  <2> HIDE DEF Up
  <2> QED BY <1>2
<1>4. Completed(c) = f[N]
  BY DEF Completed
<1> HIDE DEF f, N
<1>5. \A i \in 0 .. N : f[i] = IF i = 0 THEN << >> ELSE Append(f[i - 1], X(i, f[i - 1]))
  <2> HIDE DEF X
  <2> QED BY <1>3
<1> DEFINE Fine(j) ==
             /\ f[j] \in Seq(Word) /\ Len(f[j]) = j
             /\ \A m \in 1 .. j : f[j][m] = IF Free(m) THEN c[m] ELSE Judgement(m, f[j])
           Worse == {j \in 0 .. N : ~ Fine(j)}
<1>6. Worse = {}
  <2>1. SUFFICES ASSUME Worse # {} PROVE FALSE
    OBVIOUS
  <2>2. PICK j \in Worse : \A i \in Worse : j <= i
    <3>1. Worse \in SUBSET Nat
      BY <1>0
    <3> HIDE DEF Worse
    <3> QED BY <2>1, <3>1, Least
  <2>3. CASE j = 0
    <3>1. f[0] = << >>
      BY <1>0, <1>5
    <3>2. f[0] \in Seq(Word) /\ Len(f[0]) = 0
      BY <3>1, EmptySeq
    <3>3. Fine(0)
      BY <3>2
    <3> QED BY <2>2, <2>3, <3>3
  <2>4. CASE j # 0
    <3> DEFINE s == f[j - 1]
               v == X(j, s)
    <3>1. j \in Nat /\ j - 1 \in 0 .. N /\ j - 1 \notin Worse /\ j \in 1 .. N /\ j \in 0 .. N
      <4>1. j \in 0 .. N
        BY <2>2
      <4>2. j - 1 \notin Worse
        <5> HIDE DEF Worse
        <5> QED BY <1>0, <2>2, <4>1
      <4> QED BY <1>0, <2>4, <4>1, <4>2
    <3>2. s \in Seq(Word) /\ Len(s) = j - 1
          /\ \A m \in 1 .. j - 1 : s[m] = IF Free(m) THEN c[m] ELSE Judgement(m, s)
      <4>1. Fine(j - 1)
        BY <3>1
      <4> QED BY <4>1
    <3>3. f[j] = Append(s, v)
      <4> HIDE DEF X
      <4> QED BY <1>5, <2>4, <3>1
    <3>4. \A m \in 1 .. j - 1 : s[m] \in Word
      BY <3>2, ElementOfSeq
    <3>5. j \in DOMAIN program /\ (j \in DOMAIN c <=> Free(j))
      BY <1>0, <3>1 DEF FreeNodes
    <3>6. v \in Word
      <4>1. CASE Free(j)
        BY <3>5, <4>1
      <4>2. CASE ~ Free(j)
        <5>1. v = Judgement(j, s)
          BY <3>5, <4>2
        <5> QED BY <3>4, <3>5, <4>2, <5>1, JudgementWord
      <4> QED BY <4>1, <4>2
    <3>7. /\ f[j] \in Seq(Word) /\ Len(f[j]) = j
          /\ \A m \in 1 .. j - 1 : f[j][m] = s[m]
          /\ f[j][j] = v
      <4> HIDE DEF s, v
      <4>1. (j - 1) + 1 = j
        BY <3>1
      <4> QED BY <3>2, <3>3, <3>6, <4>1, AppendProperties
    <3>8. ASSUME NEW m \in 1 .. j, ~ Free(m) PROVE Judgement(m, s) = Judgement(m, f[j])
      <4>1. m \in DOMAIN program /\ \A i \in 1 .. m - 1 : i \in 1 .. j - 1
        BY <1>0, <3>1
      <4>2. \A i \in 1 .. m - 1 : s[i] = f[j][i]
        BY <3>7, <4>1
      <4> HIDE DEF s
      <4> QED BY <3>8, <4>1, <4>2, JudgementLocal
    <3>9. ASSUME NEW m \in 1 .. j
          PROVE  f[j][m] = IF Free(m) THEN c[m] ELSE Judgement(m, f[j])
      <4>1. CASE m = j
        <5>1. v = IF Free(j) THEN c[j] ELSE Judgement(j, s)
          BY <3>5
        <5> HIDE DEF v, s
        <5> QED BY <3>7, <3>8, <4>1, <5>1
      <4>2. CASE m # j
        <5>1. m \in 1 .. j - 1
          BY <3>1, <4>2
        <5> HIDE DEF v, s
        <5> QED BY <3>2, <3>7, <3>8, <5>1
      <4> QED BY <4>1, <4>2
    <3>10. Fine(j)
      BY <3>7, <3>9
    <3> QED BY <2>2, <3>10
  <2> QED BY <2>3, <2>4
<1>7. Fine(N)
  <2>1. N \in 0 .. N
    BY <1>0
  <2> HIDE DEF Fine
  <2> QED BY <1>6, <2>1
<1>8. f[N] \in [1 .. N -> Word]
  BY <1>7, LenProperties
<1> QED BY <1>0, <1>4, <1>7, <1>8

\* The typings of the program are typings.
LEMMA TypingObeys ==
    ASSUME NodesKept, ClassesGood, NEW t \in Typings
    PROVE  t \in [DOMAIN program -> Word] /\ Obeys(t)
<1>1. PICK c \in Guesses : t = Completed(c)
  BY DEF Typings
<1>2. InOrder(t)
  BY DEF Typings
<1>3. /\ c \in [FreeNodes -> Tried \ {NoType}]
      /\ \A n \in FreeNodes : program[n].op \in Literals => Element(program[n].op, c[n]) # NoType
  BY DEF Guesses, FreeNodes
<1>4. Tried \subseteq Word
  <2>1. \A n \in DOMAIN program : program[n].note \in Word
    BY ProgramShape DEF Shaped, NodeRecord
  <2>2. Range(classes.type) \subseteq Word
    BY DEF ClassesGood, Good, Range
  <2> QED BY <2>1, <2>2, GuessAssumption DEF Tried
<1>5. c \in [FreeNodes -> Word]
  BY <1>3, <1>4
<1>6. /\ t \in [DOMAIN program -> Word]
      /\ \A n \in DOMAIN program : t[n] = IF Free(n) THEN c[n] ELSE Judgement(n, t)
  BY <1>1, <1>5, CompletedIs
<1> QED BY <1>2, <1>3, <1>6 DEF Obeys, FreeNodes

(***************************************************************************)
(* A program that is refused for a contradiction has no types at all.      *)
(***************************************************************************)
THEOREM RefusedUntypable == Spec => []RefusedIsUntypable
<1>1. Inv => RefusedIsUntypable
  BY TypingObeys DEF Inv, Truthful, RefusedIsUntypable
<1> QED BY <1>1, Invariant, PTL

-----------------------------------------------------------------------------
(***************************************************************************)
(* When nothing is left to learn, what is known fits.                      *)
(***************************************************************************)
\* Nothing is left to learn at n: its constraints hold, its rule adds nothing.
AtRest(k, n) ==
    /\ Good(k) /\ ~ k.changed /\ ~ k.failed
    /\ Deduced(k, n) = k
    /\ \A m \in DOMAIN nodes : nodes[m].op \notin Slotless => k.type[m] # NoType
    /\ \A s : Told(n, s) => Satisfied(k, s)

\* When a step holds
LEMMA SatisfiedOf ==
    /\ \A k, n, t : Satisfied(k, Is(n, t)) <=> k.type[n] = t
    /\ \A k, m, n : Satisfied(k, Same(m, n)) <=> m \in k.class[n]
    /\ \A k : ~ Satisfied(k, Wrong)
<1>1. ASSUME NEW k, NEW n, NEW t PROVE Satisfied(k, Is(n, t)) <=> k.type[n] = t
  <2>1. Is(n, t).call = "bind" /\ Is(n, t).args[1] = n /\ Is(n, t).type = t
    BY DEF Is
  <2> QED BY <2>1 DEF Satisfied
<1>2. ASSUME NEW k, NEW m, NEW n PROVE Satisfied(k, Same(m, n)) <=> m \in k.class[n]
  <2>1. Same(m, n).call = "unify" /\ Same(m, n).args[1] = m /\ Same(m, n).args[2] = n
    BY DEF Same
  <2> QED BY <2>1 DEF Satisfied
<1>3. \A k : ~ Satisfied(k, Wrong)
  <2>1. Wrong.call = "report"
    BY DEF Wrong
  <2> QED BY <2>1 DEF Satisfied
<1> QED BY <1>1, <1>2, <1>3

\* The types at hand
LEMMA RestTypes ==
    ASSUME NodesKept, NEW n \in DOMAIN nodes, NEW k, AtRest(k, n)
    PROVE  LET args == nodes[n].args
           IN /\ n \in Node /\ Known(k, n) \in Word
              /\ nodes[n].op \notin Slotless => Known(k, n) # NoType
              /\ Len(args) \in Nat
              /\ \A i \in 1 .. Len(args) :
                    /\ args[i] \in Node /\ Arg(n, i) = args[i]
                    /\ Known(k, args[i]) \in Word /\ Known(k, args[i]) # NoType
<1>1. /\ n \in Node /\ Len(nodes[n].args) \in Nat
      /\ \A i \in 1 .. Len(nodes[n].args) :
            /\ nodes[n].args[i] \in Node /\ Arg(n, i) = nodes[n].args[i]
            /\ nodes[n].args[i] \in DOMAIN nodes /\ nodes[nodes[n].args[i]].op \notin Slotless
  BY NodesShape, Operands DEF Shaped
<1>2. \A m \in Node : Known(k, m) \in Word
  BY DEF AtRest, Good, Known
<1>3. \A m \in DOMAIN nodes : nodes[m].op \notin Slotless => Known(k, m) # NoType
  BY DEF AtRest, Known
<1> QED BY <1>1, <1>2, <1>3

\* The first two operands of a node that has them
LEMMA RestOperands ==
    ASSUME NodesKept, NEW n \in DOMAIN nodes, NEW k, AtRest(k, n)
    PROVE  LET c == nodes[n]
               one == /\ c.args[1] \in Node /\ Arg(n, 1) = c.args[1]
                      /\ Known(k, c.args[1]) \in Word /\ Known(k, c.args[1]) # NoType
               two == /\ c.args[2] \in Node /\ Arg(n, 2) = c.args[2]
                      /\ Known(k, c.args[2]) \in Word /\ Known(k, c.args[2]) # NoType
           IN /\ c.op \in Binary \cup {"index", "push", "assign", "match", "foreach"} => one /\ two
              /\ c.op \in Unary \cup {"join", "field", "unwrap", "pop", "receiver_pop"} => one
<1> DEFINE c == nodes[n]
           len == Len(c.args)
<1>1. /\ len \in Nat
      /\ \A i \in 1 .. len :
            /\ c.args[i] \in Node /\ Arg(n, i) = c.args[i]
            /\ Known(k, c.args[i]) \in Word /\ Known(k, c.args[i]) # NoType
  BY RestTypes
<1>2. /\ c.op \in Binary \cup {"index", "push", "assign", "match", "foreach"} => len = 2
      /\ c.op \in Unary \cup {"join", "field", "unwrap", "pop", "receiver_pop"} => len = 1
  BY NodesShape, Arities
<1> HIDE DEF len
<1>3. /\ len = 2 => 1 \in 1 .. len /\ 2 \in 1 .. len
      /\ len = 1 => 1 \in 1 .. len
  OBVIOUS
<1> QED BY <1>1, <1>2, <1>3

\* An answer that changed nothing was known.
LEMMA Answered ==
    ASSUME NEW k, Good(k), ~ k.failed, NEW m \in Node, NEW t \in Word, Answer(k, m, t) = k
    PROVE  t # NoType /\ Known(k, m) = t
BY Answering DEF Known

\* A binary operation at rest
LEMMA RestBinary ==
    ASSUME NodesKept, NEW n \in DOMAIN nodes, NEW k, AtRest(k, n), nodes[n].op \in Binary
    PROVE  Known(k, n) = BinaryResult(nodes[n].op, Known(k, nodes[n].args[1]), Known(k, nodes[n].args[2]))
<1> DEFINE l == Arg(n, 1)
           r == Arg(n, 2)
           steps == <<Is(l, IntType), Is(r, IntType)>>
           k1 == IF Op(n) \in {"plus", "mod"} /\ Known(k, n) = IntType THEN After(k, steps) ELSE k
           t(j) == BinaryResult(Op(n), Known(j, l), Known(j, r))
<1>1. /\ Good(k) /\ ~ k.changed /\ ~ k.failed /\ Deduced(k, n) = k
      /\ n \in Node /\ l \in Node /\ r \in Node
      /\ l = nodes[n].args[1] /\ r = nodes[n].args[2]
      /\ Known(k, l) # NoType /\ Known(k, r) # NoType
      /\ Known(k, l) \in Word /\ Known(k, r) \in Word
  BY RestTypes, RestOperands DEF AtRest
<1>2. DeduceBinary(k, n) = k
  BY <1>1, Rules DEF Op
<1>3. steps \in Seq(Step)
  <2>1. Is(l, IntType) \in Step /\ Is(r, IntType) \in Step
    BY <1>1, StepsAre, BasicWords DEF Basic
  <2> QED BY <2>1, Listed
<1> HIDE DEF l, r, steps
<1>4. Good(k1) /\ Grows(k, k1)
  BY <1>1, <1>3, PerformedAll, GrowsNot
<1> HIDE DEF k1
<1>5. DeduceBinary(k, n) =
         IF NoType \in {Known(k1, l), Known(k1, r)} THEN k1 ELSE Answer(k1, n, t(k1))
  BY DEF DeduceBinary, k1, l, r, steps
<1>6. ASSUME NEW j, Good(j) PROVE t(j) \in Word
  <2>1. Known(j, l) \in Word /\ Known(j, r) \in Word
    BY <1>1, <1>6 DEF Good, Known
  <2> QED BY <2>1, Answers
<1> HIDE DEF t
<1>7. Grows(k1, k)
  <2>1. Grows(k1, Answer(k1, n, t(k1)))
    BY <1>1, <1>4, <1>6, Answering
  <2> QED BY <1>2, <1>5, <2>1, GrowsNot
<1>8. k1 = k
  BY <1>1, <1>4, <1>7, GrowsBetween
<1>9. Answer(k, n, t(k)) = k
  BY <1>1, <1>2, <1>5, <1>8
<1>10. Known(k, n) = t(k)
  BY <1>1, <1>6, <1>9, Answered
<1> QED BY <1>1, <1>10 DEF t, Op

\* A conditional at rest
LEMMA RestConditional ==
    ASSUME NodesKept, NEW n \in DOMAIN nodes, NEW k, AtRest(k, n), nodes[n].op = "cond"
    PROVE  /\ Known(k, nodes[n].args[1]) = BoolType
           /\ Known(k, n) = ConditionalResult(Known(k, nodes[n].args[2]), Known(k, nodes[n].args[3]))
<1> DEFINE l == Arg(n, 2)
           r == Arg(n, 3)
           steps == <<Same(n, l), Same(n, r)>>
           k1 == IF Known(k, n) \notin {NoType, DoubleType} THEN After(k, steps) ELSE k
           exact == \E t \in {Known(k1, l), Known(k1, r)} : t # NoType /\ ~ Numeric(t)
           k2 == IF exact THEN After(k1, steps) ELSE k1
           t(j) == ConditionalResult(Known(j, l), Known(j, r))
<1>0. Known(k, nodes[n].args[1]) = BoolType
  <2>1. Told(n, Is(nodes[n].args[1], BoolType))
    BY DEF Told
  <2> QED BY <2>1, SatisfiedOf DEF AtRest, Known
<1>1. /\ Good(k) /\ ~ k.changed /\ ~ k.failed /\ Deduced(k, n) = k
      /\ n \in Node /\ l \in Node /\ r \in Node
      /\ l = nodes[n].args[2] /\ r = nodes[n].args[3]
      /\ Known(k, l) # NoType /\ Known(k, r) # NoType
  <2>1. Len(nodes[n].args) = 3
    BY NodesShape, Arities
  <2>2. 2 \in 1 .. Len(nodes[n].args) /\ 3 \in 1 .. Len(nodes[n].args)
    BY <2>1
  <2> QED BY <2>2, RestTypes DEF AtRest
<1>2. DeduceConditional(k, n) = k
  BY <1>1, Rules DEF Op
<1>3. steps \in Seq(Step)
  <2>1. Same(n, l) \in Step /\ Same(n, r) \in Step
    BY <1>1, StepsAre
  <2> QED BY <2>1, Listed
<1> HIDE DEF l, r, steps
<1>4. Good(k1) /\ Grows(k, k1)
  BY <1>1, <1>3, PerformedAll, GrowsNot
<1> HIDE DEF k1
<1>5. Good(k2) /\ Grows(k1, k2)
  <2> HIDE DEF exact
  <2> QED BY <1>3, <1>4, PerformedAll, GrowsNot
<1> HIDE DEF k2
<1>6. DeduceConditional(k, n) =
         IF NoType \in {Known(k2, l), Known(k2, r)} THEN k2 ELSE Answer(k2, n, t(k2))
  BY DEF DeduceConditional, k1, k2, l, r, steps
<1>7. ASSUME NEW j, Good(j) PROVE t(j) \in Word
  <2>1. Known(j, l) \in Word /\ Known(j, r) \in Word
    BY <1>1, <1>7 DEF Good, Known
  <2> QED BY <2>1, Answers
<1> HIDE DEF t
<1>8. Grows(k2, k)
  <2>1. Grows(k2, Answer(k2, n, t(k2)))
    BY <1>1, <1>5, <1>7, Answering
  <2> QED BY <1>2, <1>6, <2>1, GrowsNot
<1>9. k2 = k
  BY <1>1, <1>4, <1>5, <1>8, GrowsOn, GrowsBetween
<1>10. Answer(k, n, t(k)) = k
  BY <1>1, <1>2, <1>6, <1>9
<1>11. Known(k, n) = t(k)
  BY <1>1, <1>7, <1>10, Answered
<1> QED BY <1>0, <1>1, <1>11 DEF t

\* A literal at rest
LEMMA RestLiteral ==
    ASSUME NodesKept, NEW n \in DOMAIN nodes, NEW k, AtRest(k, n), nodes[n].op \in Literals
    PROVE  LET element == Element(nodes[n].op, Known(k, n))
           IN /\ element # NoType
              /\ \A i \in 1 .. Len(nodes[n].args) : Known(k, nodes[n].args[i]) = element
<1> DEFINE args == nodes[n].args
           element == Element(Op(n), Known(k, n))
           steps == [i \in 1 .. Len(args) |-> Is(args[i], element)]
           k1 == CASE Known(k, n) = NoType -> k
                   [] Known(k, n) # NoType /\ element = NoType -> K!Failed(k)
                   [] OTHER -> After(k, steps)
           t(j) == Of(Op(n), Known(j, args[1]))
<1>1. /\ Good(k) /\ ~ k.changed /\ ~ k.failed /\ Deduced(k, n) = k
      /\ n \in Node /\ Known(k, n) # NoType /\ Known(k, n) \in Word
      /\ Len(args) \in Nat /\ \A i \in 1 .. Len(args) : args[i] \in Node
  <2>1. nodes[n].op \notin Slotless
    BY DEF Literals, Slotless
  <2> QED BY <2>1, RestTypes DEF AtRest
<1>2. DeduceLiteral(k, n) = k /\ Op(n) = nodes[n].op
  BY <1>1, Rules DEF Op
<1>3. Op(n) \in Letter
  BY <1>2 DEF Letter
<1>4. element \in Word
  BY <1>1, <1>3, Contained
<1> HIDE DEF element
<1>5. element # NoType => steps \in Seq(Step) /\ Len(steps) = Len(args)
                          /\ \A i \in 1 .. Len(args) : steps[i] = Is(args[i], element)
  <2> SUFFICES ASSUME element # NoType
               PROVE  steps \in Seq(Step) /\ Len(steps) = Len(args)
                      /\ \A i \in 1 .. Len(args) : steps[i] = Is(args[i], element)
    OBVIOUS
  <2> DEFINE N == Len(args)
  <2>1. N \in Nat /\ steps \in [1 .. N -> Step]
    BY <1>1, <1>4, StepsAre
  <2>2. \A i \in 1 .. Len(args) : steps[i] = Is(args[i], element)
    OBVIOUS
  <2> HIDE DEF steps, N
  <2>3. steps \in Seq(Step) /\ Len(steps) = N
    BY <2>1, Tabled
  <2> QED BY <2>2, <2>3 DEF N
<1> HIDE DEF steps
<1>6. k1 = IF element = NoType THEN K!Failed(k) ELSE After(k, steps)
  BY <1>1
<1>7. Good(k1) /\ Grows(k, k1)
  BY <1>1, <1>5, <1>6, Failing, PerformedAll
<1> HIDE DEF k1
<1>8. DeduceLiteral(k, n) =
         IF args = << >> \/ Known(k1, args[1]) = NoType THEN k1 ELSE K!Typed(k1, n, t(k1))
  BY DEF DeduceLiteral, k1, element, steps
<1>9. Grows(k1, k)
  <2>1. CASE args = << >> \/ Known(k1, args[1]) = NoType
    BY <1>2, <1>8, <2>1, GrowsNot
  <2>2. CASE ~ (args = << >> \/ Known(k1, args[1]) = NoType)
    <3>1. args[1] \in Node
      <4>1. args \in Seq(Nat)
        BY NodesShape DEF Shaped, NodeRecord
      <4>2. 1 \in 1 .. Len(args)
        BY <1>1, <2>2, <4>1, EmptySeq
      <4> QED BY <1>1, <4>2
    <3>2. Known(k1, args[1]) \in Word
      BY <1>7, <3>1 DEF Good, Known
    <3>3. t(k1) \in Word /\ t(k1) # NoType
      BY <1>3, <2>2, <3>2, Containing
    <3> HIDE DEF t
    <3>4. Grows(k1, K!Typed(k1, n, t(k1)))
      BY <1>1, <1>7, <3>3, Typing
    <3> QED BY <1>2, <1>8, <2>2, <3>4
  <2> QED BY <2>1, <2>2
<1>10. k1 = k
  BY <1>1, <1>7, <1>9, GrowsBetween
<1>11. element # NoType
  BY <1>1, <1>6, <1>10, Failing
<1>12. \A s \in ToSet(steps) : Satisfied(k, s)
  BY <1>1, <1>5, <1>6, <1>10, <1>11, PerformedAll
<1>13. ASSUME NEW i \in 1 .. Len(args) PROVE Known(k, args[i]) = element
  <2>1. steps[i] \in ToSet(steps)
    BY <1>5, <1>11, Members
  <2>2. Satisfied(k, Is(args[i], element))
    BY <1>5, <1>11, <1>12, <2>1
  <2> QED BY <2>2, SatisfiedOf DEF Known
<1> QED BY <1>2, <1>11, <1>13 DEF element

\* The rules that wait for their first operand, and those of one step
LEMMA RestOthers ==
    ASSUME NodesKept, NEW n \in DOMAIN nodes, NEW k, AtRest(k, n)
    PROVE  LET c == nodes[n]
               a(i) == Known(k, c.args[i])
               v == Known(k, n)
           IN /\ c.op \in Unary => v = UnaryResult(c.op, a(1))
              /\ c.op = "unwrap" => v = Element("Option", a(1))
              /\ c.op = "index" => a(2) = KeyType(a(1)) /\ v = IndexResult(a(1))
              /\ c.op = "field" => a(1) = RecordType /\ v = FieldType
              /\ c.op = "push" => a(2) = Element("Vec", a(1)) /\ v = VoidType
              /\ c.op = "pop" => v = Element("Vec", a(1))
              /\ c.op = "match" => a(1) = VariantType /\ a(2) = PayloadType
              /\ c.op = "foreach" => a(2) = IterationElement(a(1))
<1> DEFINE c == nodes[n]
           x == c.args[1]
           y == c.args[2]
           a == Known(k, x)
           v == Known(k, n)
<1>1. /\ Good(k) /\ ~ k.changed /\ ~ k.failed /\ Deduced(k, n) = k /\ n \in Node
      /\ \A s : Told(n, s) => Satisfied(k, s)
      /\ Op(n) = c.op
  BY RestTypes DEF AtRest, Op
<1>2. /\ c.op \in Unary \cup {"unwrap", "index", "field", "push", "pop", "match", "foreach"} =>
            x \in Node /\ Arg(n, 1) = x /\ a \in Word /\ a # NoType
      /\ c.op \in {"index", "push", "match", "foreach"} => y \in Node /\ Arg(n, 2) = y
  BY RestOperands
<1>3. "Option" \in Letter /\ "Vec" \in Letter
  BY DEF Letter, Literals
<1>4. a \in Word => Element("Option", a) \in Word /\ Element("Vec", a) \in Word
  BY <1>3, Contained
<1>5. FieldType \in Word /\ PayloadType \in Word /\ NoType \in Word /\ VoidType # NoType
      /\ FieldType # NoType
  BY BasicWords DEF Basic, FieldType, PayloadType
<1> HIDE DEF a, x, y
<1>6. c.op \in Unary => v = UnaryResult(c.op, a)
  <2> SUFFICES ASSUME c.op \in Unary PROVE v = UnaryResult(c.op, a)
    OBVIOUS
  <2>1. Told(n, Same(n, x))
    BY DEF Told, Unary, x
  <2>2. n \in k.class[x]
    BY <1>1, <2>1, SatisfiedOf
  <2>3. v = a
    BY <1>1, <1>2, <2>2 DEF Good, Known, a
  <2>4. IF a # NoType /\ UnaryResult(c.op, a) = NoType THEN K!Failed(k) = k ELSE TRUE
    BY <1>1, <1>2, Rules DEF DeduceUnary, a
  <2>5. UnaryResult(c.op, a) # NoType
    BY <1>1, <1>2, <2>4, Failing
  <2> QED BY <1>2, <2>3, <2>5, OtherAnswers
<1>7. c.op = "unwrap" => v = Element("Option", a)
  <2> SUFFICES ASSUME c.op = "unwrap" PROVE v = Element("Option", a)
    OBVIOUS
  <2>1. DeduceUnwrap(k, n) = Answer(k, n, Element("Option", a))
    BY <1>2 DEF DeduceUnwrap, a
  <2>2. Answer(k, n, Element("Option", a)) = k
    BY <1>1, <2>1, Rules
  <2> QED BY <1>1, <1>2, <1>4, <2>2, Answered
<1>8. c.op = "index" => Known(k, y) = KeyType(a) /\ v = IndexResult(a)
  <2> SUFFICES ASSUME c.op = "index" PROVE Known(k, y) = KeyType(a) /\ v = IndexResult(a)
    OBVIOUS
  <2> DEFINE steps == <<Is(n, IndexResult(a)), Is(y, KeyType(a))>>
  <2>1. k = IF IndexResult(a) = NoType THEN K!Failed(k) ELSE After(k, steps)
    BY <1>1, <1>2, Rules DEF DeduceIndex, a
  <2>2. IndexResult(a) # NoType /\ After(k, steps) = k
    BY <1>1, <2>1, Failing
  <2>3. IndexResult(a) \in Word /\ KeyType(a) \in Word /\ KeyType(a) # NoType
    BY <1>2, OtherAnswers
  <2>4. Is(n, IndexResult(a)) \in Step /\ Is(y, KeyType(a)) \in Step
    BY <1>1, <1>2, <2>2, <2>3, StepsAre
  <2>5. steps \in Seq(Step) /\ ToSet(steps) = {Is(n, IndexResult(a)), Is(y, KeyType(a))}
    BY <2>4, Listed
  <2>6. \A s \in ToSet(steps) : Satisfied(k, s)
    <3> HIDE DEF steps
    <3> QED BY <1>1, <2>2, <2>5, PerformedAll
  <2>7. Satisfied(k, Is(n, IndexResult(a))) /\ Satisfied(k, Is(y, KeyType(a)))
    BY <2>5, <2>6
  <2> QED BY <2>7, SatisfiedOf DEF Known
<1>9. c.op = "field" => a = RecordType /\ v = FieldType
  <2> SUFFICES ASSUME c.op = "field" PROVE a = RecordType /\ v = FieldType
    OBVIOUS
  <2> DEFINE t == IF a = RecordType THEN FieldType ELSE NoType
  <2>1. Answer(k, n, t) = k
    BY <1>1, <1>2, Rules DEF DeduceField, a
  <2>2. t # NoType /\ v = t
    <3>1. t \in Word
      BY <1>5
    <3> HIDE DEF t
    <3> QED BY <1>1, <2>1, <3>1, Answered
  <2> QED BY <2>2
<1>10. c.op = "push" => Known(k, y) = Element("Vec", a) /\ v = VoidType
  <2> SUFFICES ASSUME c.op = "push" PROVE Known(k, y) = Element("Vec", a) /\ v = VoidType
    OBVIOUS
  <2>1. Answer(k, y, Element("Vec", a)) = k
    BY <1>1, <1>2, Rules DEF DeduceBuiltin, a
  <2>2. Told(n, Is(n, VoidType))
    BY DEF Told
  <2>3. v = VoidType
    BY <1>1, <2>2, SatisfiedOf DEF Known
  <2> QED BY <1>1, <1>2, <1>4, <2>1, <2>3, Answered
<1>11. c.op = "pop" => v = Element("Vec", a)
  <2> SUFFICES ASSUME c.op = "pop" PROVE v = Element("Vec", a)
    OBVIOUS
  <2>1. Answer(k, n, Element("Vec", a)) = k
    BY <1>1, <1>2, Rules DEF DeduceBuiltin, a
  <2> QED BY <1>1, <1>2, <1>4, <2>1, Answered
<1>12. c.op = "match" => a = VariantType /\ Known(k, y) = PayloadType
  <2> SUFFICES ASSUME c.op = "match" PROVE a = VariantType /\ Known(k, y) = PayloadType
    OBVIOUS
  <2> DEFINE t == IF a = VariantType THEN PayloadType ELSE NoType
  <2>1. Answer(k, y, t) = k
    BY <1>1, <1>2, Rules DEF DeduceMatch, a
  <2>2. t # NoType /\ Known(k, y) = t
    <3>1. t \in Word
      BY <1>5
    <3> HIDE DEF t
    <3> QED BY <1>1, <1>2, <2>1, <3>1, Answered
  <2> QED BY <2>2
<1>13. c.op = "foreach" => Known(k, y) = IterationElement(a)
  <2> SUFFICES ASSUME c.op = "foreach" PROVE Known(k, y) = IterationElement(a)
    OBVIOUS
  <2>1. Answer(k, y, IterationElement(a)) = k
    BY <1>1, <1>2, Rules DEF DeduceForeach, a
  <2>2. IterationElement(a) \in Word
    BY <1>2, OtherAnswers
  <2> QED BY <1>1, <1>2, <2>1, <2>2, Answered
<1> HIDE DEF c
<1> QED BY <1>6, <1>7, <1>8, <1>9, <1>10, <1>11, <1>12, <1>13 DEF a, x, y, c

\* A call at rest
LEMMA RestCall ==
    ASSUME NodesKept, NEW n \in DOMAIN nodes, NEW k, AtRest(k, n), nodes[n].op = "call"
    PROVE  CallFits(nodes[n], Known(k, n), k.type, nodes)
<1> DEFINE c == nodes[n]
           F == c.target
           parameters == nodes[F].args
<1>1. /\ Good(k) /\ n \in Node
      /\ \A s : Told(n, s) => Satisfied(k, s)
      /\ \A i \in 1 .. Len(c.args) : c.args[i] \in Node
  BY RestTypes DEF AtRest
<1>2. F \in DOMAIN nodes
  BY NodesShape DEF Shaped
<1>3. /\ F \in Node /\ \A i \in 1 .. Len(parameters) : parameters[i] \in Node
  BY <1>2, NodesShape, NodesAre DEF Shaped
<1>4. \A s : CallTold(n, F, c.args, s) => Satisfied(k, s)
  BY <1>1 DEF Told
<1>5. Known(k, n) = k.type[F]
  <2>1. n \in k.class[F]
    BY <1>4, SatisfiedOf DEF CallTold
  <2> QED BY <1>1, <1>3, <2>1 DEF Good, Known
<1>6. Len(c.args) = Len(parameters)
  <2>1. Len(c.args) # Len(parameters) => Satisfied(k, Wrong)
    BY <1>4 DEF CallTold
  <2> QED BY <2>1, SatisfiedOf
<1>7. ASSUME NEW i \in 1 .. Len(c.args) PROVE k.type[parameters[i]] = k.type[c.args[i]]
  <2>1. CallTold(n, F, c.args, Same(parameters[i], c.args[i]))
    BY <1>6 DEF CallTold
  <2>2. parameters[i] \in k.class[c.args[i]]
    BY <1>4, <2>1, SatisfiedOf
  <2>3. parameters[i] \in Node /\ c.args[i] \in Node
    BY <1>1, <1>3, <1>6
  <2> QED BY <1>1, <2>2, <2>3 DEF Good
<1> QED BY <1>5, <1>6, <1>7 DEF CallFits

\* A node at rest fits: its type is what the rules say.
LEMMA RestFits ==
    ASSUME NodesKept, NEW n \in DOMAIN nodes, NEW k, AtRest(k, n), ~ Waiting(n)
    PROVE  /\ Fits(nodes[n], k.type[n], k.type, nodes)
           /\ nodes[n].note \in {NoType, k.type[n]}
<1> DEFINE c == nodes[n]
           v == k.type[n]
           a(i) == k.type[c.args[i]]
<1>1. /\ Good(k) /\ n \in Node
      /\ \A s : Told(n, s) => Satisfied(k, s)
  BY RestTypes DEF AtRest
<1>2. c.op \notin {"receiver", "receiver_pop"}
  BY DEF Waiting, Op
<1>3. c.op = "join" => v = a(1)
  <2> SUFFICES ASSUME c.op = "join" PROVE v = a(1)
    OBVIOUS
  <2>1. Told(n, Same(n, c.args[1]))
    BY DEF Told
  <2>2. n \in k.class[c.args[1]]
    BY <1>1, <2>1, SatisfiedOf
  <2>3. c.args[1] \in Node
    BY RestOperands
  <2> QED BY <1>1, <2>2, <2>3 DEF Good
<1>4. c.op = "assign" => a(1) = a(2)
  <2> SUFFICES ASSUME c.op = "assign" PROVE a(1) = a(2)
    OBVIOUS
  <2>1. Told(n, Same(c.args[1], c.args[2]))
    BY DEF Told
  <2>2. c.args[1] \in k.class[c.args[2]]
    BY <1>1, <2>1, SatisfiedOf
  <2>3. c.args[1] \in Node /\ c.args[2] \in Node
    BY RestOperands
  <2> QED BY <1>1, <2>2, <2>3 DEF Good
<1>5. c.note \in {NoType, v}
  <2>1. c.note # NoType => Told(n, Is(n, c.note))
    BY DEF Told
  <2> QED BY <1>1, <2>1, SatisfiedOf
<1>6. c.op \in Binary => v = BinaryResult(c.op, a(1), a(2))
  BY RestBinary DEF Known
<1>7. c.op = "cond" => a(1) = BoolType /\ v = ConditionalResult(a(2), a(3))
  BY RestConditional DEF Known
<1>8. c.op \in Literals => /\ Element(c.op, v) # NoType
                           /\ \A i \in 1 .. Len(c.args) : a(i) = Element(c.op, v)
  BY RestLiteral DEF Known
<1>9. /\ c.op \in Unary => v = UnaryResult(c.op, a(1))
      /\ c.op = "unwrap" => v = Element("Option", a(1))
      /\ c.op = "index" => a(2) = KeyType(a(1)) /\ v = IndexResult(a(1))
      /\ c.op = "field" => a(1) = RecordType /\ v = FieldType
      /\ c.op = "push" => a(2) = Element("Vec", a(1)) /\ v = VoidType
      /\ c.op = "pop" => v = Element("Vec", a(1))
      /\ c.op = "match" => a(1) = VariantType /\ a(2) = PayloadType
      /\ c.op = "foreach" => a(2) = IterationElement(a(1))
  BY RestOthers DEF Known
<1>10. c.op = "call" => CallFits(c, v, k.type, nodes)
  BY RestCall DEF Known
<1> HIDE DEF c, v
<1> QED BY <1>2, <1>3, <1>4, <1>5, <1>6, <1>7, <1>8, <1>9, <1>10 DEF Fits, c, v

-----------------------------------------------------------------------------
(***************************************************************************)
(* What is stored is a typing.                                             *)
(***************************************************************************)
LEMMA StoredAtRest ==
    ASSUME Inv, phase = "stored"
    PROVE  /\ NodesKept /\ Good(classes)
           /\ \A n \in DOMAIN nodes : AtRest(classes, n) /\ ~ Waiting(n)
           /\ Result \in [DOMAIN program -> Word]
           /\ \A n \in DOMAIN program :
                 Result[n] = IF program[n].op \in Slotless THEN VoidType ELSE classes.type[n]
           /\ \A n \in DOMAIN program : Result[n] # NoType
<1>1. /\ NodesKept /\ Good(classes) /\ ~ classes.failed /\ ~ classes.changed
      /\ \A n \in DOMAIN nodes : Settled(n)
      /\ saved = [n \in DOMAIN nodes |-> Known(classes, n)]
      /\ \A n \in DOMAIN nodes : ~ Unresolved(n) /\ ~ VoidValue(n)
      /\ \A n \in DOMAIN nodes : \A s : Told(n, s) => Satisfied(classes, s)
  BY DEF Inv, ClassesGood, Swept, Kept, Constrained
<1>2. \A m \in DOMAIN nodes : nodes[m].op \notin Slotless => classes.type[m] # NoType
  BY <1>1 DEF Unresolved, HasSlot, Op, Known
<1>3. ASSUME NEW n \in DOMAIN nodes PROVE AtRest(classes, n) /\ ~ Waiting(n)
  <2>1. AtRest(classes, n)
    BY <1>1, <1>2 DEF AtRest, Settled
  <2>2. ASSUME Waiting(n) PROVE FALSE
    <3>1. Arg(n, 1) = nodes[n].args[1] /\ 1 \in 1 .. Len(nodes[n].args)
      <4>1. /\ nodes[n] = program[n] /\ Len(program[n].args) >= 1
            /\ Arg(n, 1) = program[n].args[1]
        BY <1>1, <2>2, WaitingNode
      <4>2. Len(nodes[n].args) \in Nat
        BY <1>1, NodesShape DEF Shaped
      <4> QED BY <4>1, <4>2
    <3>2. Known(classes, Arg(n, 1)) # NoType
      BY <1>1, <2>1, <3>1, RestTypes
    <3> QED BY <1>1, <2>2, <3>2 DEF Settled
  <2> QED BY <2>1, <2>2
<1>4. DOMAIN program \subseteq DOMAIN nodes /\ DOMAIN nodes \subseteq Node
  BY <1>1, NodesAre
<1>5. \A n \in DOMAIN program :
         Result[n] = IF program[n].op \in Slotless THEN VoidType ELSE classes.type[n]
  BY <1>1, <1>4 DEF Result, Known
<1>6. VoidType \in Word /\ VoidType # NoType
  BY BasicWords DEF Basic
<1>7. \A n \in DOMAIN program : classes.type[n] \in Word
  BY <1>1, <1>4 DEF Good
<1>8. \A n \in DOMAIN program : nodes[n].op \in Slotless <=> program[n].op \in Slotless
  BY <1>1, KeptParts
<1>9. \A n \in DOMAIN program : Result[n] \in Word /\ Result[n] # NoType
  BY <1>2, <1>4, <1>5, <1>6, <1>7, <1>8
<1>10. Result \in [DOMAIN program -> Word]
  BY <1>9 DEF Result
<1> QED BY <1>1, <1>3, <1>5, <1>9, <1>10

\* What a node refers to has the type it is known to have.
LEMMA ResultParts ==
    ASSUME Inv, phase = "stored", NEW n \in DOMAIN program
    PROVE  LET c == program[n]
           IN /\ Len(c.args) \in Nat /\ DOMAIN c.args = 1 .. Len(c.args)
              /\ \A i \in 1 .. Len(c.args) : Result[c.args[i]] = classes.type[c.args[i]]
              /\ c.target # 0 =>
                    /\ c.target \in DOMAIN program /\ nodes[c.target] = program[c.target]
                    /\ Result[c.target] = classes.type[c.target]
                    /\ Len(program[c.target].args) \in Nat
                    /\ \A i \in 1 .. Len(program[c.target].args) :
                          LET p == program[c.target].args[i]
                          IN /\ Result[p] = classes.type[p]
                             /\ nodes[p].note = program[p].note
<1>1. /\ NodesKept
      /\ \A m \in DOMAIN program :
            Result[m] = IF program[m].op \in Slotless THEN VoidType ELSE classes.type[m]
  BY StoredAtRest
<1>2. \A m \in DOMAIN program : Shaped(program[m], program)
  BY <1>1, ProgramShape
<1>3. ASSUME NEW m \in DOMAIN program
      PROVE  /\ Len(program[m].args) \in Nat /\ DOMAIN program[m].args = 1 .. Len(program[m].args)
             /\ \A i \in 1 .. Len(program[m].args) :
                   /\ program[m].args[i] \in DOMAIN program
                   /\ Result[program[m].args[i]] = classes.type[program[m].args[i]]
  BY <1>1, <1>2 DEF Shaped
<1>4. program[n].target # 0 =>
         /\ program[n].target \in DOMAIN program
         /\ program[program[n].target].op = "function"
  BY <1>2 DEF Shaped
<1>5. program[n].target # 0 =>
         /\ nodes[program[n].target] = program[program[n].target]
         /\ Result[program[n].target] = classes.type[program[n].target]
  BY <1>1, <1>4, KeptParts DEF Slotless
<1>6. \A m \in DOMAIN program : nodes[m].note = program[m].note
  BY <1>1, KeptParts
<1> QED BY <1>3, <1>4, <1>5, <1>6

\* A call that was resolved is judged like the one that was written.
LEMMA ResultReceiver ==
    ASSUME Inv, phase = "stored", NEW n \in DOMAIN program, program[n].op = "receiver"
    PROVE  Judgement(n, Result) = Result[n]
<1> DEFINE c == program[n]
           F == c.target
           new == nodes[n].args
           parameters == program[F].args
<1>1. /\ NodesKept /\ Good(classes) /\ ReceiversKnown /\ n \in DOMAIN nodes
      /\ AtRest(classes, n) /\ ~ Waiting(n)
      /\ Result[n] = classes.type[n]
  BY StoredAtRest, NodesAre DEF Inv, Slotless
<1>2. nodes[n].op = "call" /\ nodes[n].target = F /\ F # 0
  BY <1>1, KeptParts DEF Waiting, Op
<1>3. /\ F \in DOMAIN program /\ nodes[F] = program[F]
      /\ Result[F] = classes.type[F]
      /\ Len(c.args) \in Nat /\ Len(parameters) \in Nat
      /\ \A i \in 1 .. Len(parameters) :
            /\ Result[parameters[i]] = classes.type[parameters[i]]
            /\ nodes[parameters[i]].note = program[parameters[i]].note
      /\ \A i \in 1 .. Len(c.args) : Result[c.args[i]] = classes.type[c.args[i]]
  BY <1>2, ResultParts
<1>4. CallFits(nodes[n], classes.type[n], classes.type, nodes)
  BY <1>1, <1>2, RestFits DEF Fits
<1>5. /\ classes.type[n] = classes.type[F]
      /\ Len(new) = Len(parameters)
      /\ \A i \in 1 .. Len(new) : classes.type[parameters[i]] = classes.type[new[i]]
  BY <1>2, <1>3, <1>4 DEF CallFits
<1>6. /\ Len(new) = IF LacksRegion(n) THEN Len(c.args) + 1 ELSE Len(c.args)
      /\ \A i \in 1 .. Len(c.args) : new[i] = c.args[i]
      /\ LacksRegion(n) => new[Len(c.args) + 1] \in DOMAIN nodes \ DOMAIN program
  BY <1>1, <1>2, ResolvedArguments
<1>7. Len(c.args) >= 1
  BY <1>1, ProgramShape, Arities
<1>8. Method(n, Result)
  <2>1. ~ classes.failed
    BY <1>1 DEF AtRest
  <2>2. classes.type[c.args[1]] = RecordType /\ Binds(F, RecordType)
    BY <1>1, <1>2, <2>1 DEF ReceiversKnown
  <2>3. 1 \in 1 .. Len(c.args) /\ 1 \in 1 .. Len(parameters)
    BY <1>3, <1>5, <1>6, <1>7
  <2> QED BY <1>2, <1>3, <2>2, <2>3 DEF Method, Binds
<1>9. \A i \in 1 .. Len(c.args) : Result[parameters[i]] = Result[c.args[i]]
  <2>1. \A i \in 1 .. Len(c.args) : i \in 1 .. Len(new) /\ i \in 1 .. Len(parameters)
    BY <1>3, <1>5, <1>6
  <2> QED BY <1>3, <1>5, <1>6, <2>1
<1>10. \/ Len(c.args) = Len(parameters)
       \/ /\ Len(c.args) + 1 = Len(parameters)
          /\ Result[Last(parameters)] = RegionType
          /\ program[Last(parameters)].note = RegionType
  <2>1. CASE ~ LacksRegion(n)
    BY <1>5, <1>6, <2>1
  <2>2. CASE LacksRegion(n)
    <3> DEFINE r == new[Len(c.args) + 1]
               last == Len(c.args) + 1
    <3>1. Len(parameters) = last /\ last \in 1 .. Len(parameters) /\ last \in 1 .. Len(new)
      BY <1>3, <1>5, <1>6, <2>2
    <3>2. Last(parameters) = parameters[last]
      BY <3>1 DEF Last
    <3>3. r \in DOMAIN nodes /\ nodes[r] = RegionNode
      BY <1>1, <1>6, <2>2, NodesAre
    <3>4. nodes[r].note = RegionType /\ RegionType # NoType /\ nodes[r].op = "leaf"
      BY <3>3, BasicWords DEF RegionNode, Basic
    <3>5. AtRest(classes, r) /\ ~ Waiting(r)
      BY <3>3, StoredAtRest
    <3>6. classes.type[r] = RegionType
      BY <1>1, <3>3, <3>4, <3>5, RestFits
    <3>7. Result[parameters[last]] = RegionType
      BY <1>3, <1>5, <3>1, <3>6
    <3>8. program[Last(parameters)].note = RegionType
      BY <2>2 DEF LacksRegion
    <3> QED BY <3>1, <3>2, <3>7, <3>8
  <2> QED BY <2>1, <2>2
<1>11. Takes(n, Result)
  BY <1>1, <1>2, <1>9, <1>10, Taken
<1>12. Judgement(n, Result) = Result[F]
  BY <1>8, <1>11, Judged
<1> QED BY <1>1, <1>3, <1>5, <1>12

\* What is stored follows from what is stored for the free nodes.
LEMMA ResultJudged ==
    ASSUME Inv, phase = "stored", NEW n \in DOMAIN program, ~ Free(n)
    PROVE  Judgement(n, Result) = Result[n]
<1> DEFINE c == program[n]
           R == Result
           v == classes.type[n]
           a(i) == R[c.args[i]]
           b(i) == classes.type[c.args[i]]
<1>1. /\ NodesKept /\ n \in DOMAIN nodes
      /\ AtRest(classes, n) /\ ~ Waiting(n)
      /\ R[n] = IF c.op \in Slotless THEN VoidType ELSE v
      /\ v \in Word
  BY StoredAtRest, NodesAre DEF Good
<1>2. /\ Fits(nodes[n], v, classes.type, nodes)
      /\ nodes[n].op \notin {"receiver", "receiver_pop"}
  BY <1>1, RestFits DEF Waiting, Op
<1>3. /\ Len(c.args) \in Nat /\ DOMAIN c.args = 1 .. Len(c.args)
      /\ \A i \in 1 .. Len(c.args) : a(i) = b(i)
  BY ResultParts
<1>4. /\ nodes[n].target = c.target
      /\ \/ nodes[n].op = c.op /\ nodes[n].args = c.args
         \/ c.op = "receiver_pop" /\ nodes[n].op = "pop" /\ nodes[n].args = c.args
         \/ c.op = "receiver"
  BY <1>1, KeptParts
<1>5. /\ c.op \in Binary \cup Unary \cup Slotless
                  \cup {"join", "index", "field", "unwrap", "push", "pop", "receiver_pop",
                        "cond", "receiver"} => a(1) = b(1)
      /\ c.op \in Binary \cup Slotless \cup {"index", "push", "cond"} => a(2) = b(2)
      /\ c.op = "cond" => a(3) = b(3)
      /\ c.op \in Literals => 1 \in 1 .. Len(c.args) /\ a(1) = b(1)
  <2> DEFINE len == Len(c.args)
  <2>1. /\ c.op \in Binary \cup {"index", "push", "assign", "match", "foreach"} => len = 2
        /\ c.op \in Unary \cup {"join", "field", "unwrap", "pop", "receiver_pop"} => len = 1
        /\ c.op = "cond" => len = 3
        /\ c.op = "receiver" => len >= 1
    BY <1>1, ProgramShape, Arities
  <2>2. c.op \in Literals => 1 \in 1 .. Len(c.args)
    <3>1. c.args \in Seq(Nat)
      BY <1>1, ProgramShape DEF Shaped, NodeRecord
    <3> QED BY <1>3, <3>1, EmptySeq DEF Free
  <2>3. /\ c.op \in Binary \cup Unary \cup Slotless
                  \cup {"join", "index", "field", "unwrap", "push", "pop", "receiver_pop",
                        "cond", "receiver"} => len >= 1
        /\ c.op \in Binary \cup Slotless \cup {"index", "push", "cond"} => len >= 2
        /\ c.op = "cond" => len >= 3
    <3> HIDE DEF len
    <3>1. c.op \in Binary \cup Unary \cup Slotless
                  \cup {"join", "index", "field", "unwrap", "push", "pop", "receiver_pop",
                        "cond", "receiver"} => len >= 1
      BY <2>1 DEF Slotless
    <3>2. c.op \in Binary \cup Slotless \cup {"index", "push", "cond"} => len >= 2
      BY <2>1 DEF Slotless
    <3>3. c.op = "cond" => len >= 3
      BY <2>1
    <3> QED BY <3>1, <3>2, <3>3
  <2>4. /\ len >= 1 => 1 \in 1 .. len
        /\ len >= 2 => 2 \in 1 .. len
        /\ len >= 3 => 3 \in 1 .. len
    BY <1>3
  <2> QED BY <1>3, <2>2, <2>3, <2>4
<1>6. c.op \in Operations \ {"leaf", "function"}
  BY <1>1, Earlier DEF Free
<1>7. CASE c.op = "receiver"
  BY <1>7, ResultReceiver
<1>8. CASE c.op = "receiver_pop"
  <2>1. v = Element("Vec", b(1))
    BY <1>2, <1>4, <1>8 DEF Fits
  <2>2. Judgement(n, R) = Element("Vec", a(1))
    BY <1>8, Judged
  <2> QED BY <1>1, <1>5, <1>8, <2>1, <2>2 DEF Slotless
<1>9. c.op \notin {"receiver", "receiver_pop"} =>
         nodes[n].op = c.op /\ nodes[n].args = c.args
  BY <1>4
<1>10. CASE c.op \in Literals
  <2>1. /\ Element(c.op, v) # NoType
        /\ \A i \in 1 .. Len(c.args) : b(i) = Element(c.op, v)
    BY <1>2, <1>9, <1>10 DEF Fits, Literals
  <2>2. \A i \in DOMAIN c.args : a(i) = a(1)
    BY <1>3, <1>5, <1>10, <2>1
  <2>3. Judgement(n, R) = Of(c.op, a(1))
    BY <1>10, <2>2, Judged
  <2>4. a(1) = Element(c.op, v)
    BY <1>5, <1>10, <2>1
  <2>5. v = Of(c.op, Element(c.op, v))
    BY <1>1, <1>10, <2>1, Contained DEF Letter
  <2> QED BY <1>1, <1>10, <2>3, <2>4, <2>5 DEF Literals, Slotless
<1>11. CASE c.op = "call"
  <2>1. c.target # 0
    BY <1>1, <1>11, ProgramShape DEF Shaped
  <2>2. /\ nodes[c.target] = program[c.target] /\ R[c.target] = classes.type[c.target]
        /\ Len(program[c.target].args) \in Nat
        /\ \A i \in 1 .. Len(program[c.target].args) :
              R[program[c.target].args[i]] = classes.type[program[c.target].args[i]]
    BY <2>1, ResultParts
  <2>3. CallFits(nodes[n], v, classes.type, nodes)
    BY <1>2, <1>9, <1>11 DEF Fits
  <2>4. /\ v = classes.type[c.target]
        /\ Len(c.args) = Len(program[c.target].args)
        /\ \A i \in 1 .. Len(c.args) : classes.type[program[c.target].args[i]] = b(i)
    BY <1>4, <1>9, <1>11, <2>2, <2>3 DEF CallFits
  <2>5. Takes(n, R)
    BY <1>1, <1>3, <2>1, <2>2, <2>4, Taken
  <2>6. Judgement(n, R) = R[c.target]
    BY <1>11, <2>5, Judged
  <2> QED BY <1>1, <1>11, <2>2, <2>4, <2>6 DEF Slotless
<1>12. CASE c.op \in Binary \cup Unary \cup {"join", "cond"}
  <2>1. /\ c.op = "join" => v = b(1)
        /\ c.op \in Binary => v = BinaryResult(c.op, b(1), b(2))
        /\ c.op = "cond" => b(1) = BoolType /\ v = ConditionalResult(b(2), b(3))
        /\ c.op \in Unary => v = UnaryResult(c.op, b(1))
    BY <1>2, <1>9, <1>12 DEF Fits, Binary, Unary
  <2>2. Judgement(n, R) = v
    BY <1>5, <1>12, <2>1, Judged
  <2> QED BY <1>1, <1>12, <2>2 DEF Binary, Unary, Slotless
<1>13. CASE c.op \in {"index", "field", "unwrap", "push", "pop"}
  <2>1. /\ c.op = "index" => b(2) = KeyType(b(1)) /\ v = IndexResult(b(1))
        /\ c.op = "field" => b(1) = RecordType /\ v = FieldType
        /\ c.op = "unwrap" => v = Element("Option", b(1))
        /\ c.op = "push" => b(2) = Element("Vec", b(1)) /\ v = VoidType
        /\ c.op = "pop" => v = Element("Vec", b(1))
    BY <1>2, <1>9, <1>13 DEF Fits
  <2>2. Judgement(n, R) = v
    BY <1>5, <1>13, <2>1, Judged
  <2> QED BY <1>1, <1>13, <2>2 DEF Slotless
<1>14. CASE c.op \in Slotless
  <2>1. /\ c.op = "assign" => b(1) = b(2)
        /\ c.op = "match" => b(1) = VariantType /\ b(2) = PayloadType
        /\ c.op = "foreach" => b(2) = IterationElement(b(1))
    BY <1>2, <1>9, <1>14 DEF Fits, Slotless
  <2>2. Judgement(n, R) = VoidType
    BY <1>5, <1>14, <2>1, Judged DEF Slotless
  <2> QED BY <1>1, <1>14, <2>2
<1> HIDE DEF c, R
<1> QED BY <1>6, <1>7, <1>8, <1>10, <1>11, <1>12, <1>13, <1>14 DEF Operations

\* What validate_results checks is what makes a typing be in order.
LEMMA ResultInOrder ==
    ASSUME Inv, phase = "stored"
    PROVE  InOrder(Result)
<1> SUFFICES ASSUME NEW n \in DOMAIN program
             PROVE  /\ Result[n] # NoType
                    /\ program[n].note \in {NoType, Result[n]}
                    /\ Result[n] = VoidType => IsCall(program[n].op) \/ program[n].op \in Slotless
  BY DEF InOrder
<1>1. /\ NodesKept /\ n \in DOMAIN nodes
      /\ AtRest(classes, n) /\ ~ Waiting(n)
      /\ Result[n] = IF program[n].op \in Slotless THEN VoidType ELSE classes.type[n]
      /\ Result[n] # NoType
  BY StoredAtRest, NodesAre
<1>2. CASE program[n].op \in Slotless
  BY <1>1, <1>2, ProgramShape DEF Shaped
<1>3. CASE program[n].op \notin Slotless
  <2>1. nodes[n].note \in {NoType, classes.type[n]}
    BY <1>1, RestFits
  <2>2. ~ VoidValue(n)
    BY <1>1 DEF Inv, Kept
  <2>3. /\ nodes[n].note = program[n].note /\ nodes[n].op \notin Slotless
        /\ IsCall(nodes[n].op) => IsCall(program[n].op)
    BY <1>1, <1>3, KeptParts DEF IsCall
  <2> QED BY <1>1, <1>3, <2>1, <2>2, <2>3 DEF VoidValue, HasSlot, Op, Known
<1> QED BY <1>2, <1>3

\* What is stored is a typing: the one its free nodes are completed to.
LEMMA ResultTyping ==
    ASSUME Inv, phase = "stored"
    PROVE  Result \in Typings
<1> DEFINE R == Result
           c == [n \in FreeNodes |-> R[n]]
           q == Completed(c)
<1>1. /\ NodesKept /\ Good(classes)
      /\ R \in [DOMAIN program -> Word]
      /\ \A n \in DOMAIN program :
            /\ n \in DOMAIN nodes /\ AtRest(classes, n) /\ ~ Waiting(n)
            /\ R[n] = IF program[n].op \in Slotless THEN VoidType ELSE classes.type[n]
            /\ R[n] # NoType
  BY StoredAtRest, NodesAre
<1>2. InOrder(R)
  BY ResultInOrder
<1>3. c \in [FreeNodes -> Word]
  BY <1>1 DEF FreeNodes
<1>4. c \in Guesses
  <2>1. ASSUME NEW n \in FreeNodes
        PROVE  /\ R[n] \in Tried \ {NoType}
               /\ program[n].note \in {NoType, R[n]}
               /\ program[n].op \in Literals => Element(program[n].op, R[n]) # NoType
    <3>1. n \in DOMAIN program /\ program[n].op \notin Slotless /\ R[n] = classes.type[n]
      BY <1>1 DEF FreeNodes, Free, Literals, Slotless
    <3>2. n \in DOMAIN classes.type
      BY <1>1, <3>1, NodesAre DEF Good
    <3>3. R[n] \in Tried
      BY <3>1, <3>2 DEF Tried, Range
    <3>4. program[n].op \in Literals => Element(program[n].op, R[n]) # NoType
      <4>1. nodes[n].op \in Literals => Element(nodes[n].op, classes.type[n]) # NoType
        BY <1>1, <3>1, RestFits DEF Fits, Literals
      <4>2. program[n].op \in Literals => nodes[n].op = program[n].op
        BY <1>1, <3>1, KeptParts DEF Literals
      <4> QED BY <3>1, <4>1, <4>2
    <3> QED BY <1>1, <1>2, <3>1, <3>3, <3>4 DEF InOrder
  <2>2. c \in [FreeNodes -> Tried \ {NoType}]
    BY <2>1
  <2> QED BY <2>1, <2>2 DEF Guesses, FreeNodes
<1>5. /\ q \in [DOMAIN program -> Word]
      /\ \A n \in DOMAIN program : q[n] = IF Free(n) THEN c[n] ELSE Judgement(n, q)
  BY <1>1, <1>3, CompletedIs
<1> HIDE DEF q
<1>6. \A n \in DOMAIN program : R[n] = IF Free(n) THEN c[n] ELSE Judgement(n, R)
  BY ResultJudged DEF FreeNodes
<1> HIDE DEF c
<1> DEFINE Bad == {n \in DOMAIN program : q[n] # R[n]}
<1>7. Bad = {}
  <2>1. SUFFICES ASSUME Bad # {} PROVE FALSE
    OBVIOUS
  <2>2. Bad \in SUBSET Nat
    BY <1>1, ProgramShape
  <2>3. PICK n \in Bad : \A m \in Bad : n <= m
    <3> HIDE DEF Bad
    <3> QED BY <2>1, <2>2, Least
  <2>4. n \in DOMAIN program /\ q[n] # R[n]
    BY <2>3
  <2>5. \A m \in 1 .. n - 1 : q[m] = R[m]
    <3>1. n \in Nat /\ \A m \in 1 .. n - 1 : m \in DOMAIN program
      BY <1>1, <2>4, Earlier
    <3>2. \A m \in Bad : n <= m
      BY <2>3
    <3> QED BY <3>1, <3>2
  <2>6. CASE Free(n)
    BY <1>5, <1>6, <2>4, <2>6
  <2>7. CASE ~ Free(n)
    <3>1. Judgement(n, q) = Judgement(n, R)
      BY <1>1, <2>4, <2>5, <2>7, JudgementLocal
    <3> QED BY <1>5, <1>6, <2>4, <2>7, <3>1
  <2> QED BY <2>6, <2>7
<1>8. q = R
  BY <1>1, <1>5, <1>7
<1> QED BY <1>2, <1>4, <1>8 DEF Typings, q

\* There is no other typing.
LEMMA ResultOnly ==
    ASSUME Inv, phase = "stored", NEW t \in Typings
    PROVE  t = Result
<1>1. /\ NodesKept /\ ClassesGood /\ Truthful
      /\ Result \in [DOMAIN program -> Word]
      /\ \A n \in DOMAIN program :
            /\ n \in Node
            /\ Result[n] = IF program[n].op \in Slotless THEN VoidType ELSE classes.type[n]
            /\ Result[n] # NoType
  BY StoredAtRest, NodesAre DEF Inv
<1>2. t \in [DOMAIN program -> Word] /\ Obeys(t)
  BY <1>1, TypingObeys
<1>3. Agree(classes, Extended(t))
  BY <1>1, <1>2 DEF Truthful
<1>4. ASSUME NEW n \in DOMAIN program PROVE t[n] = Result[n]
  <2>1. CASE program[n].op \in Slotless
    <3>1. ~ Free(n)
      BY <2>1 DEF Free, Slotless, Literals
    <3>2. t[n] = Judgement(n, t) /\ t[n] # NoType
      BY <1>2, <3>1 DEF Obeys, InOrder
    <3>3. Judgement(n, t) \in {VoidType, NoType}
      BY <2>1, Judged DEF Slotless
    <3> QED BY <1>1, <2>1, <3>2, <3>3
  <2>2. CASE program[n].op \notin Slotless
    <3>1. Extended(t)[n] = t[n]
      BY <1>1, <1>2, ObeysTypes
    <3> QED BY <1>1, <1>3, <2>2, <3>1 DEF Agree
  <2> QED BY <2>1, <2>2
<1> QED BY <1>1, <1>2, <1>4

(***************************************************************************)
(* The types inference saves are the only ones the program can have.       *)
(***************************************************************************)
THEOREM StoredOnlyTyping == Spec => []StoredIsOnlyTyping
<1>1. Inv => StoredIsOnlyTyping
  <2> SUFFICES ASSUME Inv, phase = "stored" PROVE Typings = {Result}
    BY DEF StoredIsOnlyTyping
  <2> QED BY ResultTyping, ResultOnly
<1> QED BY <1>1, Invariant, PTL
=============================================================================
