------------------------- MODULE ModuleGraphProofs -------------------------
(***************************************************************************)
(* Proofs about ModuleGraph, for any number of modules and imports: the    *)
(* two orders are right, a reported cycle is one, and the assertion at the *)
(* end of a sweep cannot fail.                                             *)
(***************************************************************************)
EXTENDS ModuleGraph, SequenceTheorems, WellFoundedInduction, TLAPS

Phase == {"visit", "cyclic", "discover", "drain", "sweep", "done"}
Frame == [id : Module, next : Nat \ {0}]

TypeOK ==
    /\ imports \in [Module -> Seq(Module)]
    /\ phase \in Phase
    /\ visited \in [Module -> VisitState]
    /\ path \in Seq(Frame)
    /\ ordered \in Seq(Module)
    /\ cycle \in Seq(Module)
    /\ pending \in Seq(Module)
    /\ leaves \in Seq(Module)
    /\ branches \in Seq(Module)
    /\ at \in Nat \ {0}
    /\ progressed \in BOOLEAN
    /\ started \in Seq(Module)

Needs(m) == ToSet(imports[m])

\* Every module but the entry was discovered through an import of an earlier one.
Connected == \A m \in Module \ {Entry} : \E k \in 1 .. (m - 1) : m \in Needs(k)

\* The path holds what is being visited, once each.
OnPath ==
    /\ \A i, j \in 1 .. Len(path) : path[i].id = path[j].id => i = j
    /\ \A i \in 1 .. Len(path) : visited[path[i].id] = "visiting"
    /\ \A m \in Module :
          visited[m] = "visiting" => \E i \in 1 .. Len(path) : path[i].id = m

\* A frame has stepped past the import that led to the next frame.
Leads ==
    /\ \A i \in 1 .. Len(path) : path[i].next <= Len(imports[path[i].id]) + 1
    /\ \A i \in 1 .. (Len(path) - 1) :
          /\ path[i].next > 1
          /\ imports[path[i].id][path[i].next - 1] = path[i + 1].id

\* The imports a frame has stepped past were visited, but for that one.
Behind ==
    \A i \in 1 .. Len(path) : \A j \in 1 .. (path[i].next - 1) :
        \/ visited[imports[path[i].id][j]] = "visited"
        \/ i < Len(path) /\ j = path[i].next - 1

\* The list holds what was visited, in order.
Order ==
    /\ Topological(ordered)
    /\ phase # "cyclic" => \A m \in Module : visited[m] = "visited" <=> m \in ToSet(ordered)
    /\ phase \notin {"visit", "cyclic"} => \A m \in Module : visited[m] = "visited"

\* Before initialization_order runs nothing of it is there.
Fresh ==
    /\ phase \in {"visit", "cyclic"} => pending = << >> /\ leaves = << >> /\ branches = << >>
    /\ phase \in {"visit", "cyclic", "discover"} => started = << >>
    /\ phase \notin {"sweep", "done"} => at = 1 /\ ~ progressed

\* A module is found once, and the leaves are the modules without imports.
Split ==
    /\ IsInjective(leaves) /\ IsInjective(branches)
    /\ ToSet(leaves) \cap ToSet(branches) = {}
    /\ \A m \in ToSet(leaves) : Needs(m) = {}

\* The worklist holds what is imported and was not found yet.
Closed ==
    phase = "discover" =>
        /\ Entry \in Seen \cup ToSet(pending)
        /\ \A m \in Seen : Needs(m) \subseteq Seen \cup ToSet(pending)

\* Every module has its place; a leaf leaves the leaves when it starts, a branch stays.
Placed ==
    /\ phase \in {"drain", "sweep", "done"} => Initialized \cup Seen = Module
    /\ phase = "drain" => Initialized \cap Seen = {}
    /\ phase \in {"sweep", "done"} => leaves = << >>
    /\ Topological(started)
    /\ phase = "done" => Remaining = {}

\* A sweep that has not progressed has passed by no branch that was ready.
Passed ==
    phase = "sweep" /\ ~ progressed =>
        /\ \A i \in 1 .. Len(branches) :
              i < at => branches[i] \in Initialized \/ ~ Ready(branches[i])
        /\ at > 1 => Remaining # {}

IInv ==
    /\ TypeOK /\ Connected
    /\ OnPath /\ Leads /\ Behind /\ Order /\ CycleReal
    /\ Fresh /\ Split /\ Closed /\ Placed /\ Passed

(***************************************************************************)
(* initialization_order asserts after each sweep that it has initialized a *)
(* module (module_graph.jik): where the loop comes to the assertion, it    *)
(* holds.                                                                  *)
(***************************************************************************)
SweepProgresses ==
    phase = "sweep" /\ at > Len(branches) /\ branches # << >> => progressed

-----------------------------------------------------------------------------
(***************************************************************************)
(* Lists.                                                                  *)
(***************************************************************************)
Below == {pair \in Nat \X Nat : pair[1] < pair[2]}

\* A set of naturals that is not empty has a least one.
LEMMA LeastElement ==
    ASSUME NEW S \in SUBSET Nat, S # {}
    PROVE  \E x \in S : \A y \in S : x <= y
<1>1. IsWellFoundedOn(Below, Nat)
  BY NatLessThanWellFounded DEF OpToRel, Below
<1>2. PICK x \in S : \A y \in S : ~ (<<y, x>> \in Below)
  BY <1>1, WFMin
<1>3. ASSUME NEW y \in S PROVE x <= y
  <2>1. <<y, x>> \in Nat \X Nat /\ ~ (<<y, x>> \in Below)
    BY <1>2
  <2>2. ~ (<<y, x>>[1] < <<y, x>>[2])
    BY <2>1 DEF Below
  <2> QED BY <2>2
<1> QED BY <1>3

\* The members of a list, by their places
LEMMA Members ==
    ASSUME NEW S, NEW s \in Seq(S)
    PROVE  /\ ToSet(s) \subseteq S
           /\ \A x : x \in ToSet(s) <=> \E i \in 1 .. Len(s) : s[i] = x
           /\ Len(s) \in Nat
           /\ \A i \in 1 .. Len(s) : s[i] \in S
BY LenProperties DEF ToSet

\* Only the empty list has no members.
LEMMA NoMembers ==
    /\ ToSet(<< >>) = {}
    /\ IsInjective(<< >>)
    /\ \A S : \A s \in Seq(S) : ToSet(s) = {} => s = << >>
<1>1. DOMAIN << >> = {}
  OBVIOUS
<1>2. ASSUME NEW S, NEW s \in Seq(S), ToSet(s) = {} PROVE s = << >>
  <2>1. Len(s) \in Nat /\ \A i \in 1 .. Len(s) : s[i] \in ToSet(s)
    BY Members
  <2>2. Len(s) = 0
    BY <2>1, <1>2
  <2> QED BY <2>2, EmptySeq
<1> QED BY <1>1, <1>2 DEF ToSet, IsInjective

\* Without repetition, in terms of the places
LEMMA Distinct ==
    ASSUME NEW S, NEW s \in Seq(S)
    PROVE  IsInjective(s) <=> \A i, j \in 1 .. Len(s) : s[i] = s[j] => i = j
BY LenProperties DEF IsInjective

\* A list with one more at its end: its members, and when none is repeated
LEMMA OneMore ==
    ASSUME NEW S, NEW s \in Seq(S), NEW e \in S
    PROVE  /\ Append(s, e) \in Seq(S)
           /\ ToSet(Append(s, e)) = ToSet(s) \cup {e}
           /\ IsInjective(s) /\ e \notin ToSet(s) => IsInjective(Append(s, e))
<1> DEFINE t == Append(s, e)
<1>1. /\ t \in Seq(S) /\ Len(t) = Len(s) + 1 /\ t[Len(s) + 1] = e
      /\ \A i \in 1 .. Len(s) : t[i] = s[i]
  BY AppendProperties
<1>2. /\ Len(s) \in Nat
      /\ \A x : x \in ToSet(s) <=> \E i \in 1 .. Len(s) : s[i] = x
      /\ \A x : x \in ToSet(t) <=> \E i \in 1 .. Len(t) : t[i] = x
  BY <1>1, Members
<1> HIDE DEF t
<1>3. 1 .. Len(t) = 1 .. Len(s) \cup {Len(s) + 1}
  BY <1>1, <1>2
<1>4. ToSet(t) = ToSet(s) \cup {e}
  BY <1>1, <1>2, <1>3
<1>5. ASSUME IsInjective(s), e \notin ToSet(s) PROVE IsInjective(t)
  <2>1. \A i, j \in 1 .. Len(s) : s[i] = s[j] => i = j
    BY <1>5, Distinct
  <2>2. \A i \in 1 .. Len(s) : s[i] # e
    BY <1>2, <1>5
  <2>3. ASSUME NEW i \in 1 .. Len(t), NEW j \in 1 .. Len(t), t[i] = t[j] PROVE i = j
    BY <1>1, <1>2, <1>3, <2>1, <2>2, <2>3
  <2> QED BY <1>1, <2>3, Distinct
<1> QED BY <1>1, <1>4, <1>5 DEF t

\* The places of a list without its last one
LEMMA FrontPlaces ==
    ASSUME NEW S, NEW s \in Seq(S), s # << >>
    PROVE  /\ Len(s) \in Nat \ {0}
           /\ Front(s) \in Seq(S)
           /\ Len(Front(s)) = Len(s) - 1
           /\ \A i \in 1 .. (Len(s) - 1) : Front(s)[i] = s[i]
           /\ Last(s) = s[Len(s)] /\ Last(s) \in S
<1>1. Len(s) \in Nat \ {0} /\ \A i \in 1 .. Len(s) : s[i] \in S
  BY EmptySeq, Members
<1>2. 1 \in Int /\ Len(s) - 1 \in Int /\ \A i \in 1 .. (Len(s) - 1) : s[i] \in S
  BY <1>1
<1> DEFINE n == Len(s) - 1
<1>3. /\ SubSeq(s, 1, n) \in Seq(S)
      /\ Len(SubSeq(s, 1, n)) = IF 1 <= n THEN n - 1 + 1 ELSE 0
      /\ \A i \in 1 .. n - 1 + 1 : SubSeq(s, 1, n)[i] = s[1 + i - 1]
  <2> HIDE DEF n
  <2> QED BY <1>2, SubSeqProperties DEF n
<1>4. n \in Nat /\ n - 1 + 1 = n
  BY <1>1
<1>5. Front(s) = SubSeq(s, 1, n)
  BY DEF Front
<1>6. Len(SubSeq(s, 1, n)) = n /\ \A i \in 1 .. n : SubSeq(s, 1, n)[i] = s[i]
  <2> HIDE DEF n
  <2>1. ASSUME NEW i \in 1 .. n PROVE i \in 1 .. n - 1 + 1 /\ 1 + i - 1 = i
    BY <1>4
  <2> QED BY <1>3, <1>4, <2>1
<1>7. Last(s) = s[Len(s)] /\ s[Len(s)] \in S
  BY <1>1 DEF Last
<1> QED BY <1>1, <1>3, <1>5, <1>6, <1>7

\* The same for a list that loses its last one
LEMMA OneLess ==
    ASSUME NEW S, NEW s \in Seq(S), s # << >>
    PROVE  /\ Front(s) \in Seq(S) /\ Last(s) \in S
           /\ ToSet(s) = ToSet(Front(s)) \cup {Last(s)}
           /\ IsInjective(s) => IsInjective(Front(s)) /\ Last(s) \notin ToSet(Front(s))
<1> DEFINE t == Front(s)
<1> DEFINE e == Last(s)
<1>1. /\ Len(s) \in Nat \ {0} /\ t \in Seq(S) /\ Len(t) = Len(s) - 1
      /\ \A i \in 1 .. (Len(s) - 1) : t[i] = s[i]
      /\ e = s[Len(s)] /\ e \in S
  BY FrontPlaces
<1>2. /\ \A x : x \in ToSet(s) <=> \E i \in 1 .. Len(s) : s[i] = x
      /\ \A x : x \in ToSet(t) <=> \E i \in 1 .. Len(t) : t[i] = x
  BY <1>1, Members
<1> HIDE DEF t, e
<1>3. 1 .. Len(s) = 1 .. Len(t) \cup {Len(s)}
  BY <1>1
<1>4. ToSet(s) = ToSet(t) \cup {e}
  BY <1>1, <1>2, <1>3
<1>5. ASSUME IsInjective(s) PROVE IsInjective(t) /\ e \notin ToSet(t)
  <2>1. \A i, j \in 1 .. Len(s) : s[i] = s[j] => i = j
    BY <1>5, Distinct
  <2>2. \A i, j \in 1 .. Len(t) : t[i] = t[j] => i = j
    BY <1>1, <1>3, <2>1
  <2>3. \A i \in 1 .. Len(t) : t[i] # e
    BY <1>1, <1>3, <2>1
  <2> QED BY <1>1, <1>2, <2>2, <2>3, Distinct
<1> QED BY <1>1, <1>4, <1>5 DEF t, e

\* Two lists together hold the members of both.
LEMMA Together ==
    ASSUME NEW S, NEW s \in Seq(S), NEW t \in Seq(S)
    PROVE  s \o t \in Seq(S) /\ ToSet(s \o t) = ToSet(s) \cup ToSet(t)
<1> DEFINE u == s \o t
<1>1. /\ u \in Seq(S) /\ Len(u) = Len(s) + Len(t)
      /\ \A i \in 1 .. Len(s) + Len(t) : u[i] = IF i <= Len(s) THEN s[i] ELSE t[i - Len(s)]
  BY ConcatProperties
<1>2. /\ Len(s) \in Nat /\ Len(t) \in Nat
      /\ \A x : x \in ToSet(s) <=> \E i \in 1 .. Len(s) : s[i] = x
      /\ \A x : x \in ToSet(t) <=> \E i \in 1 .. Len(t) : t[i] = x
      /\ \A x : x \in ToSet(u) <=> \E i \in 1 .. Len(u) : u[i] = x
  BY <1>1, Members
<1> HIDE DEF u
<1>3. ASSUME NEW x \in ToSet(u) PROVE x \in ToSet(s) \cup ToSet(t)
  <2>1. PICK i \in 1 .. Len(u) : u[i] = x
    BY <1>2
  <2>2. CASE i <= Len(s)
    BY <1>1, <1>2, <2>1, <2>2
  <2>3. CASE i > Len(s)
    <3>1. i - Len(s) \in 1 .. Len(t) /\ t[i - Len(s)] = x
      BY <1>1, <1>2, <2>1, <2>3
    <3> QED BY <1>2, <3>1
  <2> QED BY <1>2, <2>2, <2>3
<1>4. ASSUME NEW x \in ToSet(s) PROVE x \in ToSet(u)
  BY <1>1, <1>2
<1>5. ASSUME NEW x \in ToSet(t) PROVE x \in ToSet(u)
  <2>1. PICK i \in 1 .. Len(t) : t[i] = x
    BY <1>2
  <2> DEFINE k == i + Len(s)
  <2>2. k \in 1 .. Len(s) + Len(t) /\ ~ (k <= Len(s)) /\ k - Len(s) = i
    BY <1>2
  <2>3. k \in 1 .. Len(u) /\ u[k] = x
    <3> HIDE DEF k
    <3> QED BY <1>1, <2>1, <2>2
  <2> QED BY <1>2, <2>3
<1> QED BY <1>1, <1>3, <1>4, <1>5 DEF u

\* What a list holds before one of its places
LEMMA Earlier ==
    ASSUME NEW S, NEW s \in Seq(S), NEW i \in 1 .. Len(s)
    PROVE  \A x : x \in ToSet(SubSeq(s, 1, i - 1)) <=> \E j \in 1 .. (i - 1) : s[j] = x
<1> DEFINE n == i - 1
<1> DEFINE t == SubSeq(s, 1, n)
<1>1. Len(s) \in Nat /\ n \in Nat /\ n < Len(s)
  BY Members
<1>2. 1 \in Int /\ n \in Int /\ \A k \in 1 .. n : s[k] \in S
  BY <1>1, Members
<1>3. /\ t \in Seq(S)
      /\ Len(t) = IF 1 <= n THEN n - 1 + 1 ELSE 0
      /\ \A k \in 1 .. n - 1 + 1 : t[k] = s[1 + k - 1]
  <2> HIDE DEF n
  <2> QED BY <1>2, SubSeqProperties
<1>4. Len(t) = n /\ \A k \in 1 .. n : t[k] = s[k]
  <2> HIDE DEF n, t
  <2> QED BY <1>1, <1>3
<1>5. \A x : x \in ToSet(t) <=> \E k \in 1 .. Len(t) : t[k] = x
  <2> HIDE DEF n, t
  <2> QED BY <1>3, Members
<1> QED BY <1>4, <1>5

\* The order, in terms of the places
LEMMA InOrder ==
    ASSUME TypeOK, NEW s \in Seq(Module)
    PROVE  Topological(s) <=>
             /\ IsInjective(s)
             /\ \A i \in 1 .. Len(s) : \A x \in Needs(s[i]) : \E j \in 1 .. (i - 1) : s[j] = x
BY Earlier DEF Topological, Needs

\* A module comes after all it imports.
LEMMA Topped ==
    ASSUME TypeOK, NEW s \in Seq(Module), Topological(s), NEW m \in Module,
           m \notin ToSet(s), Needs(m) \subseteq ToSet(s)
    PROVE  Topological(Append(s, m))
<1> DEFINE t == Append(s, m)
<1>1. /\ t \in Seq(Module) /\ Len(t) = Len(s) + 1 /\ t[Len(s) + 1] = m
      /\ \A i \in 1 .. Len(s) : t[i] = s[i]
  BY AppendProperties
<1>2. /\ IsInjective(s)
      /\ \A i \in 1 .. Len(s) : \A x \in Needs(s[i]) : \E j \in 1 .. (i - 1) : s[j] = x
  BY InOrder
<1>3. IsInjective(t)
  BY <1>2, OneMore
<1>4. Len(s) \in Nat /\ \A x : x \in ToSet(s) <=> \E i \in 1 .. Len(s) : s[i] = x
  BY Members
<1> HIDE DEF t
<1>5. ASSUME NEW i \in 1 .. Len(t), NEW x \in Needs(t[i]) PROVE \E j \in 1 .. (i - 1) : t[j] = x
  <2>1. CASE i \in 1 .. Len(s)
    <3>1. PICK j \in 1 .. (i - 1) : s[j] = x
      BY <1>1, <1>2, <1>5, <2>1
    <3>2. j \in 1 .. Len(s)
      BY <1>4, <2>1
    <3> QED BY <1>1, <3>1, <3>2
  <2>2. CASE i = Len(s) + 1
    <3>1. PICK j \in 1 .. Len(s) : s[j] = x
      BY <1>1, <1>4, <1>5, <2>2
    <3> QED BY <1>1, <1>4, <2>2, <3>1
  <2> QED BY <1>1, <1>4, <2>1, <2>2
<1> QED BY <1>1, <1>3, <1>5, InOrder DEF t

\* A list of nothing is in order.
LEMMA NothingOrdered == Topological(<< >>)
BY NoMembers DEF Topological

-----------------------------------------------------------------------------
(***************************************************************************)
(* The invariant holds at first.                                           *)
(***************************************************************************)
LEMMA InitInv == Init => IInv
<1> SUFFICES ASSUME Init PROVE IInv
  OBVIOUS
<1>1. imports \in [Module -> Seq(Module)] /\ Connected
  <2>1. ASSUME NEW m \in Module PROVE imports[m] \in Seq(Module)
    BY DEF Init, Programs, SeqOf
  <2>2. imports \in [Module -> {s \in SeqOf(Module, MaxImports) : IsInjective(s)}]
    BY DEF Init, Programs
  <2>3. imports \in [Module -> Seq(Module)]
    BY <2>1, <2>2
  <2> QED BY <2>3 DEF Init, Programs, Connected, Needs
<1>2. TypeOK
  <2>1. << >> \in Seq(Module) /\ << >> \in Seq(Frame)
    BY EmptySeq
  <2>2. visited \in [Module -> VisitState]
    BY DEF Init, VisitState
  <2>3. /\ path \in Seq(Frame) /\ ordered \in Seq(Module) /\ cycle \in Seq(Module)
        /\ pending \in Seq(Module) /\ leaves \in Seq(Module) /\ branches \in Seq(Module)
        /\ started \in Seq(Module)
    BY <2>1 DEF Init
  <2>4. phase \in Phase /\ at \in Nat \ {0}
    BY DEF Init, Phase
  <2>5. progressed \in BOOLEAN
    BY DEF Init
  <2> QED BY <1>1, <2>2, <2>3, <2>4, <2>5 DEF TypeOK
<1>3. OnPath /\ Leads /\ Behind
  BY DEF Init, OnPath, Leads, Behind
<1>4. Order /\ CycleReal
  BY NothingOrdered, NoMembers DEF Init, Order, CycleReal
<1>5. Fresh /\ Split /\ Closed /\ Placed /\ Passed
  BY NothingOrdered, NoMembers DEF Init, Fresh, Split, Closed, Placed, Passed
<1> QED BY <1>1, <1>2, <1>3, <1>4, <1>5 DEF IInv

-----------------------------------------------------------------------------
(***************************************************************************)
(* The search.  What is about the startup order stays with its variables.  *)
(***************************************************************************)
StartInv == Fresh /\ Split /\ Closed /\ Placed /\ Passed

\* The path in terms of its frames
LEMMA Frames ==
    ASSUME TypeOK
    PROVE  /\ Len(path) \in Nat
           /\ \A i \in 1 .. Len(path) : /\ path[i] \in Frame
                                        /\ path[i].id \in Module
                                        /\ path[i].next \in Nat \ {0}
           /\ path # << >> => Len(path) \in Nat \ {0} /\ Innermost = path[Len(path)]
<1>1. path \in Seq(Frame)
  BY DEF TypeOK
<1>2. Len(path) \in Nat /\ \A i \in 1 .. Len(path) : path[i] \in Frame
  BY <1>1, Members
<1>3. path # << >> => Len(path) \in Nat \ {0}
  BY <1>1, EmptySeq
<1> QED BY <1>2, <1>3 DEF Frame, Innermost

\* The startup order is not there yet while the search goes on.
LEMMA StartKept ==
    ASSUME StartInv, phase \in {"visit", "cyclic"}, phase' \in {"visit", "cyclic"},
           UNCHANGED imports, UNCHANGED startVars
    PROVE  StartInv'
BY DEF StartInv, Fresh, Split, Closed, Placed, Passed, startVars, Seen, Remaining,
       Initialized, Ready, Needs, Topological

\* A module no visit has reached: it starts a path of its own.
LEMMA RootInv == IInv /\ Root => IInv'
<1> SUFFICES ASSUME IInv, Root PROVE IInv'
  OBVIOUS
<1>1. PICK m \in Module : /\ visited[m] = "unvisited"
                          /\ visited' = [visited EXCEPT ![m] = "visiting"]
                          /\ path' = <<[id |-> m, next |-> 1]>>
  BY DEF Root
<1>2. /\ phase = "visit" /\ path = << >>
      /\ UNCHANGED <<imports, phase, ordered, cycle>> /\ UNCHANGED startVars
  BY DEF Root
<1>3. TypeOK /\ TypeOK'
  <2>1. TypeOK
    BY DEF IInv
  <2>2. [id |-> m, next |-> 1] \in Frame
    BY DEF Frame
  <2> QED BY <1>1, <1>2, <2>1, <2>2 DEF TypeOK, VisitState, startVars
<1>4. Len(path) = 0 /\ Len(path') = 1 /\ path'[1].id = m /\ path'[1].next = 1
  BY <1>1, <1>2
<1>5. /\ visited' \in [Module -> VisitState] /\ visited'[m] = "visiting"
      /\ \A x \in Module \ {m} : visited'[x] = visited[x]
      /\ \A x \in Module : visited[x] # "visiting"
  <2>1. \A x \in Module : visited[x] # "visiting"
    BY <1>4 DEF IInv, OnPath
  <2> QED BY <1>1, <1>3, <2>1 DEF TypeOK
<1>6. OnPath'
  BY <1>4, <1>5 DEF OnPath
<1>7. Leads' /\ Behind'
  <2>1. Len(imports[m]) \in Nat
    BY <1>3 DEF TypeOK
  <2> QED BY <1>2, <1>4, <2>1 DEF Leads, Behind
<1>8. Order'
  BY <1>1, <1>2, <1>5 DEF IInv, Order, Topological
<1>9. Connected' /\ CycleReal'
  BY <1>2 DEF IInv, Connected, CycleReal, Needs
<1>10. StartInv'
  BY <1>2, StartKept DEF IInv, StartInv
<1> QED BY <1>3, <1>6, <1>7, <1>8, <1>9, <1>10 DEF IInv, StartInv

\* The innermost visit and the import it looks at
LEMMA Looking ==
    ASSUME TypeOK, AtImport
    PROVE  /\ Len(path) \in Nat \ {0}
           /\ Innermost = path[Len(path)]
           /\ Innermost.id \in Module
           /\ Innermost.next \in 1 .. Len(imports[Innermost.id])
           /\ Len(imports[Innermost.id]) \in Nat
           /\ Imported \in Module
           /\ Imported \in Needs(Innermost.id)
<1>1. /\ Len(path) \in Nat \ {0} /\ Innermost = path[Len(path)]
      /\ Innermost.id \in Module /\ Innermost.next \in Nat \ {0}
  <2>1. path # << >>
    BY DEF AtImport
  <2> QED BY <2>1, Frames
<1>2. imports[Innermost.id] \in Seq(Module)
  BY <1>1 DEF TypeOK
<1>3. Len(imports[Innermost.id]) \in Nat
  BY <1>2
<1>4. Innermost.next \in 1 .. Len(imports[Innermost.id])
  BY <1>1, <1>3 DEF AtImport
<1> QED BY <1>1, <1>2, <1>3, <1>4, Members DEF Imported, Needs

\* A step past the import the innermost visit looks at
LEMMA Forward ==
    ASSUME TypeOK, AtImport
    PROVE  /\ Advanced(path) \in Seq(Frame)
           /\ Len(Advanced(path)) = Len(path)
           /\ \A i \in 1 .. Len(path) : Advanced(path)[i].id = path[i].id
           /\ \A i \in 1 .. (Len(path) - 1) : Advanced(path)[i].next = path[i].next
           /\ Advanced(path)[Len(path)].next = Innermost.next + 1
<1> DEFINE n == Len(path)
<1> DEFINE frame == [path[n] EXCEPT !.next = @ + 1]
<1>1. /\ n \in Nat \ {0} /\ n \in 1 .. n /\ Innermost = path[n]
      /\ \A i \in 1 .. n : path[i] \in Frame
  BY Looking, Frames
<1>2. frame \in Frame /\ frame.id = path[n].id /\ frame.next = path[n].next + 1
  BY <1>1 DEF Frame
<1>3. Advanced(path) = [path EXCEPT ![n] = frame]
  BY DEF Advanced
<1> HIDE DEF frame, n
<1>4. path \in Seq(Frame) /\ n = Len(path)
  BY DEF TypeOK, n
<1>5. /\ [path EXCEPT ![n] = frame] \in Seq(Frame)
      /\ Len([path EXCEPT ![n] = frame]) = Len(path)
      /\ \A j \in 1 .. Len(path) :
           [path EXCEPT ![n] = frame][j] = IF j = n THEN frame ELSE path[j]
  BY <1>1, <1>2, <1>4, ExceptSeq
<1> QED BY <1>1, <1>2, <1>3, <1>4, <1>5

\* The import was visited, so it may be stepped past.
LEMMA SkipInv == IInv /\ Skip => IInv'
<1> SUFFICES ASSUME IInv, Skip PROVE IInv'
  OBVIOUS
<1>1. /\ phase = "visit" /\ AtImport /\ visited[Imported] = "visited"
      /\ path' = Advanced(path)
      /\ UNCHANGED <<imports, phase, visited, ordered, cycle>> /\ UNCHANGED startVars
  BY DEF Skip
<1> DEFINE n == Len(path)
<1>2. TypeOK
  BY DEF IInv
<1>3. /\ n \in Nat \ {0} /\ Innermost = path[n] /\ path[n].id \in Module
      /\ path[n].next \in 1 .. Len(imports[path[n].id]) /\ Len(imports[path[n].id]) \in Nat
      /\ \A i \in 1 .. n : path[i].id \in Module /\ path[i].next \in Nat \ {0}
      /\ Imported = imports[path[n].id][path[n].next]
  BY <1>1, <1>2, Looking, Frames DEF Imported
<1>4. /\ path' \in Seq(Frame) /\ Len(path') = n
      /\ \A i \in 1 .. n : path'[i].id = path[i].id
      /\ \A i \in 1 .. (n - 1) : path'[i].next = path[i].next
      /\ path'[n].next = path[n].next + 1
  BY <1>1, <1>2, <1>3, Forward
<1>5. TypeOK'
  BY <1>1, <1>2, <1>4 DEF TypeOK, startVars
<1> HIDE DEF n
<1>6. OnPath'
  BY <1>1, <1>4 DEF IInv, OnPath, n
<1>7. Leads'
  <2>1. /\ \A i \in 1 .. n : path[i].next <= Len(imports[path[i].id]) + 1
        /\ \A i \in 1 .. (n - 1) : /\ path[i].next > 1
                                   /\ imports[path[i].id][path[i].next - 1] = path[i + 1].id
    BY DEF IInv, Leads, n
  <2>2. ASSUME NEW i \in 1 .. n
        PROVE  path'[i].next <= Len(imports[path'[i].id]) + 1
    <3>1. CASE i = n
      BY <1>3, <1>4, <3>1
    <3>2. CASE i # n
      <4>1. i \in 1 .. (n - 1)
        BY <1>3, <3>2
      <4> QED BY <1>4, <2>1, <4>1
    <3> QED BY <3>1, <3>2
  <2>3. ASSUME NEW i \in 1 .. (n - 1)
        PROVE  /\ path'[i].next > 1
               /\ imports[path'[i].id][path'[i].next - 1] = path'[i + 1].id
    <3>1. i \in 1 .. n /\ i + 1 \in 1 .. n
      BY <1>3
    <3> QED BY <1>4, <2>1, <3>1
  <2> QED BY <1>1, <1>4, <2>2, <2>3 DEF Leads
<1>8. Behind'
  <2>1. \A i \in 1 .. n : \A j \in 1 .. (path[i].next - 1) :
          \/ visited[imports[path[i].id][j]] = "visited"
          \/ i < n /\ j = path[i].next - 1
    BY DEF IInv, Behind, n
  <2>2. ASSUME NEW i \in 1 .. n, NEW j \in 1 .. (path'[i].next - 1)
        PROVE  \/ visited[imports[path'[i].id][j]] = "visited"
               \/ i < n /\ j = path'[i].next - 1
    <3>1. CASE i = n
      <4>1. j \in 1 .. (path[n].next - 1) \/ j = path[n].next
        BY <1>3, <1>4, <3>1
      <4>2. path'[i].id = path[n].id /\ n \in 1 .. n
        BY <1>3, <1>4, <3>1
      <4>3. CASE j = path[n].next
        BY <1>1, <1>3, <3>1, <4>2, <4>3
      <4>4. CASE j \in 1 .. (path[n].next - 1)
        <5>1. visited[imports[path[n].id][j]] = "visited" \/ n < n
          BY <2>1, <4>2, <4>4
        <5> QED BY <1>3, <4>2, <5>1
      <4> QED BY <4>1, <4>3, <4>4
    <3>2. CASE i # n
      BY <1>3, <1>4, <2>1, <3>2
    <3> QED BY <3>1, <3>2
  <2> QED BY <1>1, <1>4, <2>2 DEF Behind
<1>9. Connected' /\ CycleReal' /\ Order'
  BY <1>1 DEF IInv, Connected, CycleReal, Needs, Order, Topological
<1>10. StartInv'
  BY <1>1, StartKept DEF IInv, StartInv
<1> QED BY <1>5, <1>6, <1>7, <1>8, <1>9, <1>10 DEF IInv, StartInv

\* The import was not visited, so it is not on the path and may be put there.
LEMMA DescendInv == IInv /\ Descend => IInv'
<1> SUFFICES ASSUME IInv, Descend PROVE IInv'
  OBVIOUS
<1> DEFINE n == Len(path)
<1> DEFINE t == Imported
<1>1. /\ phase = "visit" /\ AtImport /\ visited[t] = "unvisited"
      /\ visited' = [visited EXCEPT ![t] = "visiting"]
      /\ path' = Append(Advanced(path), [id |-> t, next |-> 1])
      /\ UNCHANGED <<imports, phase, ordered, cycle>> /\ UNCHANGED startVars
  BY DEF Descend
<1>2. TypeOK
  BY DEF IInv
<1>3. /\ n \in Nat \ {0} /\ Innermost = path[n] /\ path[n].id \in Module
      /\ path[n].next \in 1 .. Len(imports[path[n].id]) /\ Len(imports[path[n].id]) \in Nat
      /\ \A i \in 1 .. n : path[i].id \in Module /\ path[i].next \in Nat \ {0}
      /\ t = imports[path[n].id][path[n].next] /\ t \in Module
  BY <1>1, <1>2, Looking, Frames DEF Imported
<1>4. /\ path' \in Seq(Frame) /\ Len(path') = n + 1
      /\ \A i \in 1 .. n : path'[i].id = path[i].id
      /\ \A i \in 1 .. (n - 1) : path'[i].next = path[i].next
      /\ path'[n].next = path[n].next + 1
      /\ path'[n + 1].id = t /\ path'[n + 1].next = 1
  <2> DEFINE steps == Advanced(path)
  <2> DEFINE frame == [id |-> t, next |-> 1]
  <2>1. /\ steps \in Seq(Frame) /\ Len(steps) = n
        /\ \A i \in 1 .. n : steps[i].id = path[i].id
        /\ \A i \in 1 .. (n - 1) : steps[i].next = path[i].next
        /\ steps[n].next = path[n].next + 1
    BY <1>1, <1>2, <1>3, Forward
  <2>2. frame \in Frame /\ frame.id = t /\ frame.next = 1
    BY <1>3 DEF Frame
  <2>3. path' = Append(steps, frame)
    BY <1>1
  <2> HIDE DEF steps, frame, n, t
  <2>4. /\ path' \in Seq(Frame) /\ Len(path') = n + 1 /\ path'[n + 1] = frame
        /\ \A i \in 1 .. n : path'[i] = steps[i]
    BY <2>1, <2>2, <2>3, AppendProperties
  <2>5. n \in 1 .. n /\ 1 .. (n - 1) \subseteq 1 .. n
    BY <1>3
  <2> QED BY <2>1, <2>2, <2>4, <2>5
<1> HIDE DEF n, t
<1>5. /\ visited' \in [Module -> VisitState] /\ visited'[t] = "visiting"
      /\ \A m \in Module \ {t} : visited'[m] = visited[m]
  BY <1>1, <1>2, <1>3 DEF TypeOK, VisitState
<1>6. TypeOK'
  BY <1>1, <1>2, <1>4, <1>5 DEF TypeOK, startVars
<1>7. OnPath'
  <2>1. /\ \A i, j \in 1 .. n : path[i].id = path[j].id => i = j
        /\ \A i \in 1 .. n : visited[path[i].id] = "visiting"
        /\ \A m \in Module : visited[m] = "visiting" => \E i \in 1 .. n : path[i].id = m
    BY DEF IInv, OnPath, n
  <2>2. 1 .. (n + 1) = 1 .. n \cup {n + 1} /\ n + 1 \notin 1 .. n
    BY <1>3
  <2>3. \A i \in 1 .. n : path'[i].id # t
    <3>1. visited[t] # "visiting"
      BY <1>1
    <3> QED BY <1>4, <2>1, <3>1
  <2>4. ASSUME NEW i \in 1 .. (n + 1), NEW j \in 1 .. (n + 1), path'[i].id = path'[j].id
        PROVE  i = j
    BY <1>4, <2>1, <2>2, <2>3, <2>4
  <2>5. ASSUME NEW i \in 1 .. (n + 1) PROVE visited'[path'[i].id] = "visiting"
    <3>1. CASE i = n + 1
      BY <1>4, <1>5, <3>1
    <3>2. CASE i \in 1 .. n
      <4>1. path'[i].id = path[i].id /\ path[i].id \in Module \ {t}
        BY <1>3, <1>4, <2>3, <3>2
      <4>2. visited'[path[i].id] = visited[path[i].id]
        BY <1>5, <4>1
      <4> QED BY <2>1, <3>2, <4>1, <4>2
    <3> QED BY <2>2, <3>1, <3>2
  <2>6. ASSUME NEW m \in Module, visited'[m] = "visiting"
        PROVE  \E i \in 1 .. (n + 1) : path'[i].id = m
    BY <1>4, <1>5, <2>1, <2>2, <2>6
  <2> QED BY <1>4, <2>4, <2>5, <2>6 DEF OnPath
<1>8. Leads'
  <2>1. /\ \A i \in 1 .. n : path[i].next <= Len(imports[path[i].id]) + 1
        /\ \A i \in 1 .. (n - 1) : /\ path[i].next > 1
                                   /\ imports[path[i].id][path[i].next - 1] = path[i + 1].id
    BY DEF IInv, Leads, n
  <2>2. Len(imports[t]) \in Nat
    <3>1. imports[t] \in Seq(Module)
      BY <1>2, <1>3 DEF TypeOK
    <3> QED BY <3>1
  <2>3. ASSUME NEW i \in 1 .. (n + 1)
        PROVE  path'[i].next <= Len(imports[path'[i].id]) + 1
    <3>1. CASE i = n + 1
      BY <1>4, <2>2, <3>1
    <3>2. CASE i = n
      BY <1>3, <1>4, <3>2
    <3>3. CASE i # n /\ i # n + 1
      <4>1. i \in 1 .. (n - 1) /\ i \in 1 .. n
        BY <1>3, <3>3
      <4> QED BY <1>4, <2>1, <4>1
    <3> QED BY <3>1, <3>2, <3>3
  <2>4. ASSUME NEW i \in 1 .. n
        PROVE  /\ path'[i].next > 1
               /\ imports[path'[i].id][path'[i].next - 1] = path'[i + 1].id
    <3>1. CASE i = n
      <4>1. path'[n].next - 1 = path[n].next /\ path'[n].next > 1
        BY <1>3, <1>4
      <4> QED BY <1>3, <1>4, <3>1, <4>1
    <3>2. CASE i # n
      <4>1. i \in 1 .. (n - 1) /\ i + 1 \in 1 .. n
        BY <1>3, <3>2
      <4> QED BY <1>4, <2>1, <4>1
    <3> QED BY <3>1, <3>2
  <2>5. (n + 1) - 1 = n
    BY <1>3
  <2> QED BY <1>1, <1>4, <2>3, <2>4, <2>5 DEF Leads
<1>9. Behind'
  <2>1. \A i \in 1 .. n : \A j \in 1 .. (path[i].next - 1) :
          \/ visited[imports[path[i].id][j]] = "visited"
          \/ i < n /\ j = path[i].next - 1
    BY DEF IInv, Behind, n
  <2>2. ASSUME NEW x, visited[x] = "visited" PROVE visited'[x] = "visited"
    <3>1. x # t
      BY <1>1, <2>2
    <3> QED BY <1>1, <1>2, <2>2, <3>1 DEF TypeOK
  <2>3. ASSUME NEW i \in 1 .. (n + 1), NEW j \in 1 .. (path'[i].next - 1)
        PROVE  \/ visited'[imports[path'[i].id][j]] = "visited"
               \/ i < n + 1 /\ j = path'[i].next - 1
    <3>1. CASE i = n + 1
      BY <1>4, <3>1
    <3>2. CASE i = n
      <4>1. path'[n].next - 1 = path[n].next
        BY <1>3, <1>4
      <4>2. CASE j = path[n].next
        BY <1>3, <3>2, <4>1, <4>2
      <4>3. CASE j # path[n].next
        <5>1. j \in 1 .. (path[n].next - 1) /\ n \in 1 .. n /\ ~ (n < n)
          BY <1>3, <3>2, <4>1, <4>3
        <5> QED BY <1>4, <2>1, <2>2, <3>2, <5>1
      <4> QED BY <4>2, <4>3
    <3>3. CASE i # n /\ i # n + 1
      <4>1. i \in 1 .. (n - 1) /\ i \in 1 .. n /\ i < n + 1
        BY <1>3, <3>3
      <4> QED BY <1>4, <2>1, <2>2, <4>1
    <3> QED BY <3>1, <3>2, <3>3
  <2> QED BY <1>1, <1>4, <2>3 DEF Behind
<1>10. Order'
  <2>1. \A m \in Module : visited[m] = "visited" <=> m \in ToSet(ordered)
    BY <1>1 DEF IInv, Order
  <2>2. \A m \in Module : visited'[m] = "visited" <=> visited[m] = "visited"
    BY <1>1, <1>5
  <2> QED BY <1>1, <2>1, <2>2 DEF IInv, Order, Topological
<1>11. Connected' /\ CycleReal'
  BY <1>1 DEF IInv, Connected, CycleReal, Needs
<1>12. StartInv'
  BY <1>1, StartKept DEF IInv, StartInv
<1> QED BY <1>6, <1>7, <1>8, <1>9, <1>10, <1>11, <1>12 DEF IInv, StartInv

\* All imports of the innermost module were visited, so they are in the list before it.
LEMMA LeaveInv == IInv /\ Leave => IInv'
<1> SUFFICES ASSUME IInv, Leave PROVE IInv'
  OBVIOUS
<1> DEFINE n == Len(path)
<1> DEFINE m == Innermost.id
<1>1. /\ phase = "visit" /\ path # << >> /\ ~ AtImport
      /\ path' = Front(path)
      /\ visited' = [visited EXCEPT ![m] = "visited"]
      /\ ordered' = Append(ordered, m)
      /\ UNCHANGED <<imports, phase, cycle>> /\ UNCHANGED startVars
  BY DEF Leave
<1>2. TypeOK
  BY DEF IInv
<1>3. /\ n \in Nat \ {0} /\ m = path[n].id /\ m \in Module
      /\ \A i \in 1 .. n : path[i].id \in Module /\ path[i].next \in Nat \ {0}
      /\ ~ (path[n].next <= Len(imports[m]))
      /\ imports[m] \in Seq(Module) /\ Len(imports[m]) \in Nat
      /\ n \in 1 .. n
  <2>1. n \in Nat \ {0} /\ Innermost = path[n] /\ path[n].id \in Module
    BY <1>1, <1>2, Frames
  <2>2. imports[m] \in Seq(Module)
    BY <1>2, <2>1 DEF TypeOK
  <2> QED BY <1>1, <1>2, <2>1, <2>2, Frames DEF AtImport
<1>4. /\ path' \in Seq(Frame) /\ Len(path') = n - 1
      /\ \A i \in 1 .. (n - 1) : path'[i] = path[i]
  <2>1. path \in Seq(Frame)
    BY <1>2 DEF TypeOK
  <2> QED BY <1>1, <2>1, FrontPlaces
<1> HIDE DEF n, m
<1>5. /\ visited' \in [Module -> VisitState] /\ visited'[m] = "visited"
      /\ \A x \in Module \ {m} : visited'[x] = visited[x]
  BY <1>1, <1>2, <1>3 DEF TypeOK, VisitState
<1>6. ordered \in Seq(Module) /\ ordered' \in Seq(Module) /\ ToSet(ordered') = ToSet(ordered) \cup {m}
  <2>1. ordered \in Seq(Module)
    BY <1>2 DEF TypeOK
  <2> QED BY <1>1, <1>3, <2>1, OneMore
<1>7. TypeOK'
  BY <1>1, <1>2, <1>4, <1>5, <1>6 DEF TypeOK, startVars
<1>8. 1 .. n = 1 .. (n - 1) \cup {n} /\ n \notin 1 .. (n - 1)
  BY <1>3
<1>9. /\ \A i, j \in 1 .. n : path[i].id = path[j].id => i = j
      /\ \A i \in 1 .. n : visited[path[i].id] = "visiting"
      /\ \A x \in Module : visited[x] = "visiting" => \E i \in 1 .. n : path[i].id = x
  BY DEF IInv, OnPath, n
<1>10. \A i \in 1 .. (n - 1) : path'[i].id \in Module \ {m}
  BY <1>3, <1>4, <1>8, <1>9
<1>11. OnPath'
  <2>1. ASSUME NEW i \in 1 .. (n - 1), NEW j \in 1 .. (n - 1), path'[i].id = path'[j].id
        PROVE  i = j
    BY <1>4, <1>8, <1>9, <2>1
  <2>2. ASSUME NEW i \in 1 .. (n - 1) PROVE visited'[path'[i].id] = "visiting"
    BY <1>4, <1>5, <1>8, <1>9, <1>10
  <2>3. ASSUME NEW x \in Module, visited'[x] = "visiting"
        PROVE  \E i \in 1 .. (n - 1) : path'[i].id = x
    <3>1. x # m /\ visited[x] = "visiting"
      BY <1>5, <2>3
    <3>2. PICK i \in 1 .. n : path[i].id = x
      BY <1>9, <3>1
    <3>3. i \in 1 .. (n - 1)
      BY <1>3, <1>8, <3>1, <3>2
    <3> QED BY <1>4, <3>2, <3>3
  <2> QED BY <1>4, <2>1, <2>2, <2>3 DEF OnPath
<1>12. /\ \A i \in 1 .. n : path[i].next <= Len(imports[path[i].id]) + 1
       /\ \A i \in 1 .. (n - 1) : /\ path[i].next > 1
                                  /\ imports[path[i].id][path[i].next - 1] = path[i + 1].id
  BY DEF IInv, Leads, n
<1>13. Leads'
  <2>1. \A i \in 1 .. ((n - 1) - 1) : i \in 1 .. (n - 1) /\ i + 1 \in 1 .. (n - 1)
    BY <1>3
  <2> QED BY <1>1, <1>4, <1>8, <1>12, <2>1 DEF Leads
<1>14. \A i \in 1 .. n : \A j \in 1 .. (path[i].next - 1) :
          \/ visited[imports[path[i].id][j]] = "visited"
          \/ i < n /\ j = path[i].next - 1
  BY DEF IInv, Behind, n
<1>15. \A x : visited[x] = "visited" => visited'[x] = "visited"
  BY <1>1, <1>2, <1>5 DEF TypeOK
<1>16. Behind'
  <2>1. ASSUME NEW i \in 1 .. (n - 1), NEW j \in 1 .. (path'[i].next - 1)
        PROVE  \/ visited'[imports[path'[i].id][j]] = "visited"
               \/ i < n - 1 /\ j = path'[i].next - 1
    <3>1. CASE visited[imports[path[i].id][j]] = "visited"
      BY <1>4, <1>15, <3>1
    <3>2. CASE j = path[i].next - 1 /\ i < n - 1
      BY <1>4, <3>2
    <3>3. CASE j = path[i].next - 1 /\ i = n - 1
      <4>1. imports[path[i].id][j] = m
        <5>1. i + 1 = n
          BY <1>3, <3>3
        <5> QED BY <1>3, <1>12, <3>3, <5>1
      <4> QED BY <1>4, <1>5, <4>1
    <3>4. i < n - 1 \/ i = n - 1
      BY <1>3
    <3> QED BY <1>4, <1>8, <1>14, <3>1, <3>2, <3>3, <3>4
  <2> QED BY <1>1, <1>4, <2>1 DEF Behind
<1>17. Order'
  <2>1. /\ Topological(ordered)
        /\ \A x \in Module : visited[x] = "visited" <=> x \in ToSet(ordered)
    BY <1>1 DEF IInv, Order
  <2>2. m \notin ToSet(ordered)
    BY <1>3, <1>9, <2>1
  <2>3. Needs(m) \subseteq ToSet(ordered)
    <3>1. path[n].next - 1 = Len(imports[m])
      <4>1. path[n].next <= Len(imports[m]) + 1 /\ path[n].next \in Nat \ {0}
        BY <1>3, <1>12
      <4>2. ~ (path[n].next <= Len(imports[m])) /\ Len(imports[m]) \in Nat
        BY <1>3
      <4> QED BY <4>1, <4>2
    <3>2. ASSUME NEW x \in Needs(m) PROVE x \in ToSet(ordered)
      <4>1. PICK j \in 1 .. Len(imports[m]) : imports[m][j] = x
        BY <1>3, <3>2, Members DEF Needs
      <4>2. x \in Module
        BY <1>3, <4>1, Members
      <4>3. visited[x] = "visited"
        BY <1>3, <1>14, <3>1, <4>1
      <4> QED BY <2>1, <4>2, <4>3
    <3> QED BY <3>2
  <2>4. Topological(Append(ordered, m))
    BY <1>2, <1>3, <1>6, <2>1, <2>2, <2>3, Topped
  <2>5. Topological(ordered)'
    BY <1>1, <2>4 DEF Topological
  <2>6. \A x \in Module : visited'[x] = "visited" <=> x \in ToSet(ordered')
    BY <1>5, <1>6, <2>1
  <2> QED BY <1>1, <2>5, <2>6 DEF Order
<1>18. Connected' /\ CycleReal'
  BY <1>1 DEF IInv, Connected, CycleReal, Needs
<1>19. StartInv'
  BY <1>1, StartKept DEF IInv, StartInv
<1> QED BY <1>7, <1>11, <1>13, <1>16, <1>17, <1>18, <1>19 DEF IInv, StartInv

(***************************************************************************)
(* The path from the target of the import on is a cycle: each frame leads  *)
(* to the next, and the innermost visit looks at the target.               *)
(***************************************************************************)
LEMMA FindCycleInv == IInv /\ FindCycle => IInv'
<1> SUFFICES ASSUME IInv, FindCycle PROVE IInv'
  OBVIOUS
<1> DEFINE n == Len(path)
<1> DEFINE t == Imported
<1> DEFINE ids == Ids(path)
<1> DEFINE first == CHOOSE i \in 1 .. Len(ids) : ids[i] = t
<1>1. /\ phase = "visit" /\ AtImport /\ visited[t] = "visiting"
      /\ cycle' = SubSeq(ids, first, Len(ids))
      /\ ordered' = << >> /\ phase' = "cyclic"
      /\ UNCHANGED <<imports, visited, path>> /\ UNCHANGED startVars
  BY DEF FindCycle, FromTarget
<1>2. TypeOK
  BY DEF IInv
<1>3. /\ n \in Nat \ {0} /\ path[n].id \in Module
      /\ path[n].next \in 1 .. Len(imports[path[n].id]) /\ Len(imports[path[n].id]) \in Nat
      /\ \A i \in 1 .. n : path[i].id \in Module /\ path[i].next \in Nat \ {0}
      /\ t = imports[path[n].id][path[n].next] /\ t \in Module
      /\ imports \in [Module -> Seq(Module)]
  BY <1>1, <1>2, Looking, Frames DEF Imported, TypeOK
<1>4. Len(ids) = n /\ \A i \in 1 .. n : ids[i] = path[i].id /\ ids[i] \in Module
  BY <1>3 DEF Ids
<1>5. \E i \in 1 .. Len(ids) : ids[i] = t
  <2>1. PICK i \in 1 .. n : path[i].id = t
    BY <1>1, <1>3 DEF IInv, OnPath
  <2> HIDE DEF ids
  <2> QED BY <1>4, <2>1
<1>6. first \in 1 .. n /\ path[first].id = t
  <2>1. first \in 1 .. Len(ids) /\ ids[first] = t
    BY <1>5
  <2> HIDE DEF ids, first
  <2> QED BY <1>4, <2>1
<1> HIDE DEF n, t, ids, first
<1> DEFINE len == n - first + 1
<1> DEFINE place(k) == first + k - 1
<1>7. \A k \in 1 .. len : place(k) \in 1 .. n
  BY <1>3, <1>6
<1>8. /\ cycle' \in Seq(Module) /\ Len(cycle') = len
      /\ \A k \in 1 .. len : cycle'[k] = path[place(k)].id
  <2>1. first \in Int /\ n \in Int /\ \A i \in first .. n : ids[i] \in Module
    BY <1>3, <1>4, <1>6
  <2>2. /\ SubSeq(ids, first, n) \in Seq(Module)
        /\ Len(SubSeq(ids, first, n)) = IF first <= n THEN n - first + 1 ELSE 0
        /\ \A k \in 1 .. n - first + 1 : SubSeq(ids, first, n)[k] = ids[first + k - 1]
    BY <2>1, SubSeqProperties
  <2>3. cycle' = SubSeq(ids, first, n)
    BY <1>1, <1>4
  <2>4. Len(cycle') = len
    BY <1>3, <1>6, <2>2, <2>3
  <2>5. \A k \in 1 .. len : cycle'[k] = ids[place(k)]
    BY <2>2, <2>3
  <2> HIDE DEF len, place
  <2> QED BY <1>4, <1>7, <2>2, <2>3, <2>4, <2>5
<1>9. len \in Nat \ {0}
  BY <1>3, <1>6
<1>10. TypeOK'
  BY <1>1, <1>2, <1>8, NothingOrdered, EmptySeq DEF TypeOK, Phase, startVars
<1>11. OnPath' /\ Leads' /\ Behind'
  BY <1>1 DEF IInv, OnPath, Leads, Behind
<1>12. Order'
  BY <1>1, NoMembers DEF Order, Topological
<1>13. CycleReal'
  <2>1. /\ \A i, j \in 1 .. n : path[i].id = path[j].id => i = j
        /\ \A i \in 1 .. (n - 1) : /\ path[i].next > 1
                                   /\ imports[path[i].id][path[i].next - 1] = path[i + 1].id
        /\ \A i \in 1 .. n : path[i].next <= Len(imports[path[i].id]) + 1
    BY DEF IInv, OnPath, Leads, n
  <2>2. cycle' # << >>
    BY <1>8, <1>9
  <2>3. IsInjective(cycle')
    <3>1. ASSUME NEW i \in 1 .. len, NEW j \in 1 .. len, cycle'[i] = cycle'[j]
          PROVE  i = j
      <4>1. place(i) = place(j)
        <5> HIDE DEF len, place
        <5> QED BY <1>8, <1>7, <2>1, <3>1
      <4>2. first \in Nat /\ i \in Nat /\ j \in Nat
        BY <1>6, <1>9
      <4> QED BY <4>1, <4>2
    <3> QED BY <1>8, <3>1, Distinct
  <2>4. ASSUME NEW i \in 1 .. len
        PROVE  cycle'[(i % len) + 1] \in Needs(cycle'[i])
    <3> DEFINE k == place(i)
    <3>1. k \in 1 .. n /\ cycle'[i] = path[k].id
      <4> HIDE DEF len, place
      <4> QED BY <1>8, <1>7
    <3>2. path[k].id \in Module /\ imports[path[k].id] \in Seq(Module)
      BY <1>3, <3>1
    <3>3. CASE i = len
      <4>1. k = n
        BY <1>3, <1>6, <3>3
      <4>2. (i % len) + 1 = 1
        BY <1>9, <3>3
      <4>3. cycle'[1] = t
        <5>1. 1 \in 1 .. len /\ place(1) = first
          BY <1>6, <1>9
        <5> QED BY <1>6, <1>8, <5>1
      <4>4. t \in Needs(path[n].id)
        BY <1>3, Members DEF Needs
      <4> QED BY <3>1, <4>1, <4>2, <4>3, <4>4
    <3>4. CASE i # len
      <4>1. (i % len) + 1 = i + 1 /\ i + 1 \in 1 .. len
        <5> HIDE DEF len
        <5>1. i \in Nat /\ i < len
          BY <1>9, <3>4
        <5>2. i % len = i
          BY <1>9, <5>1
        <5> QED BY <1>9, <5>1, <5>2
      <4>2. place(i + 1) = k + 1 /\ k \in 1 .. (n - 1)
        <5>1. place(i + 1) = k + 1
          BY <1>3, <1>6, <1>9
        <5>2. place(i + 1) \in 1 .. n
          <6> HIDE DEF place, len
          <6> QED BY <1>7, <4>1
        <5> HIDE DEF k, place
        <5> QED BY <1>3, <3>1, <5>1, <5>2
      <4>3. cycle'[i + 1] = path[k + 1].id
        BY <1>8, <4>1, <4>2
      <4>4. path[k].next - 1 \in 1 .. Len(imports[path[k].id])
        <5>1. path[k].next > 1 /\ path[k].next <= Len(imports[path[k].id]) + 1
              /\ path[k].next \in Nat /\ Len(imports[path[k].id]) \in Nat
          <6> HIDE DEF k, place
          <6>1. path[k].next > 1 /\ path[k].next <= Len(imports[path[k].id]) + 1
            BY <2>1, <3>1, <4>2
          <6>2. path[k].next \in Nat
            BY <1>3, <3>1
          <6>3. Len(imports[path[k].id]) \in Nat
            BY <3>2, LenProperties
          <6> QED BY <6>1, <6>2, <6>3
        <5> QED BY <5>1
      <4>5. path[k + 1].id \in Needs(path[k].id)
        <5>1. imports[path[k].id][path[k].next - 1] = path[k + 1].id
          <6> HIDE DEF k
          <6> QED BY <2>1, <4>2
        <5> HIDE DEF k
        <5> QED BY <3>2, <4>4, <5>1, Members DEF Needs
      <4> HIDE DEF k, len
      <4> QED BY <3>1, <4>1, <4>3, <4>5
    <3> QED BY <3>3, <3>4
  <2> QED BY <1>1, <1>8, <2>2, <2>3, <2>4 DEF CycleReal, Needs
<1>14. Connected'
  BY <1>1 DEF IInv, Connected, Needs
<1>15. StartInv'
  BY <1>1, StartKept DEF IInv, StartInv
<1> QED BY <1>10, <1>11, <1>12, <1>13, <1>14, <1>15 DEF IInv, StartInv

-----------------------------------------------------------------------------
(***************************************************************************)
(* The startup order.  What is about the search stays with its variables.  *)
(***************************************************************************)
GraphInv == Connected /\ OnPath /\ Leads /\ Behind /\ Order /\ CycleReal

Later == {"discover", "drain", "sweep", "done"}

\* The search is over and what it found stays.
LEMMA GraphKept ==
    ASSUME GraphInv, phase \in Later, phase' \in Later, UNCHANGED graphVars
    PROVE  GraphInv'
BY DEF GraphInv, Later, Connected, OnPath, Leads, Behind, Order, CycleReal, graphVars,
       Topological, Needs

\* What the startup invariants say, member by member
LEMMA Places ==
    ASSUME IInv
    PROVE  /\ \A m \in Module : Needs(m) \subseteq Module /\ imports[m] \in Seq(Module)
           /\ ToSet(pending) \subseteq Module /\ Seen \subseteq Module
           /\ Initialized \subseteq Module
<1>1. TypeOK
  BY DEF IInv
<1>2. \A m \in Module : imports[m] \in Seq(Module)
  BY <1>1 DEF TypeOK
<1>3. /\ ToSet(pending) \subseteq Module /\ ToSet(leaves) \subseteq Module
      /\ ToSet(branches) \subseteq Module /\ ToSet(started) \subseteq Module
  BY <1>1, Members DEF TypeOK
<1> QED BY <1>2, <1>3, Members DEF Needs, Seen, Initialized

\* No module is left unvisited and none is on the path: all were visited.
LEMMA OrderedInv == IInv /\ Ordered => IInv'
<1> SUFFICES ASSUME IInv, Ordered PROVE IInv'
  OBVIOUS
<1>1. /\ phase = "visit" /\ path = << >> /\ \A m \in Module : visited[m] # "unvisited"
      /\ phase' = "discover" /\ pending' = <<Entry>>
      /\ UNCHANGED <<imports, visited, path, ordered, cycle>>
      /\ UNCHANGED <<leaves, branches, at, progressed, started>>
  BY DEF Ordered, graphVars
<1>2. TypeOK
  BY DEF IInv
<1>3. Entry \in Module /\ pending' \in Seq(Module) /\ Entry \in ToSet(pending')
  <2>1. Entry \in Module
    BY GraphAssumption DEF Entry, Module
  <2>2. pending' \in Seq(Module) /\ Len(pending') = 1 /\ pending'[1] = Entry
    BY <1>1, <2>1
  <2> QED BY <2>1, <2>2, Members
<1>4. TypeOK'
  BY <1>1, <1>2, <1>3 DEF TypeOK, Phase
<1>5. Connected' /\ OnPath' /\ Leads' /\ Behind' /\ CycleReal'
  BY <1>1 DEF IInv, Connected, OnPath, Leads, Behind, CycleReal, Needs
<1>6. Order'
  <2>1. \A m \in Module : visited[m] # "visiting"
    BY <1>1 DEF IInv, OnPath
  <2>2. \A m \in Module : visited[m] \in VisitState
    BY <1>2 DEF TypeOK
  <2>3. \A m \in Module : visited[m] = "visited"
    BY <1>1, <2>1, <2>2 DEF VisitState
  <2> QED BY <1>1, <2>3 DEF IInv, Order, Topological
<1>7. /\ leaves = << >> /\ branches = << >> /\ started = << >> /\ at = 1 /\ ~ progressed
      /\ Seen = {} /\ Seen' = {}
  <2>1. leaves = << >> /\ branches = << >> /\ started = << >> /\ at = 1 /\ ~ progressed
    BY <1>1 DEF IInv, Fresh
  <2> QED BY <1>1, <2>1, NoMembers DEF Seen
<1>8. Fresh' /\ Split'
  BY <1>1, <1>7, NoMembers DEF Fresh, Split
<1>9. Closed' /\ Placed' /\ Passed'
  BY <1>1, <1>3, <1>7, NothingOrdered, NoMembers DEF Closed, Placed, Passed, Topological
<1> QED BY <1>4, <1>5, <1>6, <1>8, <1>9 DEF IInv

\* A module found takes its imports into the worklist; one seen before has them there or found.
LEMMA DiscoverInv == IInv /\ Discover => IInv'
<1> SUFFICES ASSUME IInv, Discover PROVE IInv'
  OBVIOUS
<1> DEFINE m == Last(pending)
<1>1. /\ phase = "discover" /\ pending # << >>
      /\ UNCHANGED graphVars /\ UNCHANGED <<phase, at, progressed, started>>
  BY DEF Discover
<1>2. TypeOK
  BY DEF IInv
<1>3. /\ Front(pending) \in Seq(Module) /\ m \in Module
      /\ ToSet(pending) = ToSet(Front(pending)) \cup {m}
      /\ imports[m] \in Seq(Module) /\ imports' = imports
  BY <1>1, <1>2, OneLess DEF TypeOK, graphVars
<1>4. GraphInv'
  BY <1>1, GraphKept DEF IInv, GraphInv, Later
<1>5. /\ Entry \in Seen \cup ToSet(pending)
      /\ \A x \in Seen : Needs(x) \subseteq Seen \cup ToSet(pending)
      /\ IsInjective(leaves) /\ IsInjective(branches)
      /\ ToSet(leaves) \cap ToSet(branches) = {}
      /\ \A x \in ToSet(leaves) : Needs(x) = {}
  BY <1>1 DEF IInv, Closed, Split
<1>6. \A x : Needs(x)' = Needs(x)
  BY <1>3 DEF Needs
<1> HIDE DEF m
<1>7. CASE m \in Seen
  <2>1. pending' = Front(pending) /\ UNCHANGED <<leaves, branches>>
    BY <1>7 DEF Discover, m
  <2>2. TypeOK'
    BY <1>1, <1>2, <1>3, <2>1 DEF TypeOK, graphVars
  <2>3. Seen' = Seen
    BY <2>1 DEF Seen
  <2>4. Closed'
    BY <1>1, <1>3, <1>5, <1>6, <1>7, <2>1, <2>3 DEF Closed
  <2>5. Fresh' /\ Split' /\ Placed' /\ Passed'
    BY <1>1, <1>3, <1>6, <2>1 DEF IInv, Fresh, Split, Placed, Passed, Topological
  <2> QED BY <1>4, <2>2, <2>4, <2>5 DEF IInv, GraphInv
<1>8. CASE m \notin Seen
  <2>1. /\ pending' = Front(pending) \o imports[m]
        /\ IF imports[m] = << >>
           THEN leaves' = Append(leaves, m) /\ UNCHANGED branches
           ELSE branches' = Append(branches, m) /\ UNCHANGED leaves
    BY <1>8 DEF Discover, m
  <2>2. pending' \in Seq(Module) /\ ToSet(pending') = ToSet(Front(pending)) \cup Needs(m)
    BY <1>3, <2>1, Together DEF Needs
  <2>3. leaves \in Seq(Module) /\ branches \in Seq(Module)
    BY <1>2 DEF TypeOK
  <2>4. m \notin ToSet(leaves) /\ m \notin ToSet(branches)
    BY <1>8 DEF Seen
  <2>5. /\ leaves' \in Seq(Module) /\ branches' \in Seq(Module)
        /\ Seen' = Seen \cup {m} /\ Split'
    <3>1. CASE imports[m] = << >>
      <4>1. /\ leaves' \in Seq(Module) /\ ToSet(leaves') = ToSet(leaves) \cup {m}
            /\ IsInjective(leaves') /\ branches' = branches
        <5>1. leaves' = Append(leaves, m) /\ branches' = branches
          BY <2>1, <3>1
        <5> QED BY <1>3, <1>5, <2>3, <2>4, <5>1, OneMore
      <4>2. Needs(m) = {}
        BY <3>1, NoMembers DEF Needs
      <4>3. Seen' = Seen \cup {m}
        BY <4>1 DEF Seen
      <4>4. Split'
        BY <1>5, <1>6, <2>4, <4>1, <4>2 DEF Split
      <4> QED BY <2>3, <4>1, <4>3, <4>4
    <3>2. CASE imports[m] # << >>
      <4>1. /\ branches' \in Seq(Module) /\ ToSet(branches') = ToSet(branches) \cup {m}
            /\ IsInjective(branches') /\ leaves' = leaves
        <5>1. branches' = Append(branches, m) /\ leaves' = leaves
          BY <2>1, <3>2
        <5> QED BY <1>3, <1>5, <2>3, <2>4, <5>1, OneMore
      <4>2. Seen' = Seen \cup {m}
        BY <4>1 DEF Seen
      <4>3. Split'
        BY <1>5, <1>6, <2>4, <4>1 DEF Split
      <4> QED BY <2>3, <4>1, <4>2, <4>3
    <3> QED BY <3>1, <3>2
  <2>6. TypeOK'
    BY <1>1, <1>2, <2>2, <2>5 DEF TypeOK, graphVars
  <2>7. Closed'
    <3>1. Entry \in Seen' \cup ToSet(pending')
      BY <1>3, <1>5, <2>2, <2>5
    <3>2. ASSUME NEW x \in Seen' PROVE Needs(x) \subseteq Seen' \cup ToSet(pending')
      BY <1>3, <1>5, <2>2, <2>5
    <3> QED BY <1>6, <3>1, <3>2 DEF Closed
  <2>8. Fresh' /\ Placed' /\ Passed'
    BY <1>1, <1>3 DEF IInv, Fresh, Placed, Passed, Topological
  <2> QED BY <1>4, <2>5, <2>6, <2>7, <2>8 DEF IInv, GraphInv
<1> QED BY <1>7, <1>8

(***************************************************************************)
(* With an empty worklist all modules were found: the least one that was   *)
(* not would be imported by one that was.                                  *)
(***************************************************************************)
LEMMA AllFound ==
    ASSUME IInv, phase = "discover", pending = << >>
    PROVE  Seen = Module
<1>1. /\ Entry \in Seen /\ \A x \in Seen : Needs(x) \subseteq Seen
      /\ Seen \subseteq Module
  BY Places, NoMembers DEF IInv, Closed
<1>2. SUFFICES ASSUME Module \ Seen # {} PROVE FALSE
  BY <1>1
<1>3. Module \ Seen \in SUBSET Nat
  BY GraphAssumption DEF Module
<1>4. PICK m \in Module \ Seen : \A x \in Module \ Seen : m <= x
  BY <1>2, <1>3, LeastElement
<1>5. PICK k \in 1 .. (m - 1) : m \in Needs(k)
  BY <1>1, <1>4 DEF IInv, Connected
<1>6. k \in Module /\ ~ (m <= k)
  BY <1>4, GraphAssumption DEF Module
<1>7. k \in Seen
  BY <1>4, <1>6
<1> QED BY <1>1, <1>4, <1>5, <1>7

\* The worklist is empty: every module is a leaf or a branch.
LEMMA DiscoveredInv == IInv /\ Discovered => IInv'
<1> SUFFICES ASSUME IInv, Discovered PROVE IInv'
  OBVIOUS
<1>1. /\ phase = "discover" /\ pending = << >> /\ phase' = "drain"
      /\ UNCHANGED graphVars
      /\ UNCHANGED <<pending, leaves, branches, at, progressed, started>>
  BY DEF Discovered
<1>2. TypeOK'
  BY <1>1 DEF IInv, TypeOK, Phase, graphVars
<1>3. GraphInv'
  BY <1>1, GraphKept DEF IInv, GraphInv, Later
<1>4. Fresh' /\ Split' /\ Closed' /\ Passed'
  BY <1>1 DEF IInv, Fresh, Split, Closed, Passed, Needs, graphVars
<1>5. Placed'
  <2>1. Seen' = Module
    BY <1>1, AllFound DEF Seen
  <2>2. started = << >> /\ started' = << >> /\ Initialized' = {}
    BY <1>1, NoMembers DEF IInv, Fresh, Initialized
  <2>3. Topological(started)'
    BY <2>2, NoMembers DEF Topological
  <2> QED BY <1>1, <2>1, <2>2, <2>3 DEF Placed
<1> QED BY <1>2, <1>3, <1>4, <1>5 DEF IInv, GraphInv

\* A leaf imports nothing, so it may start.
LEMMA DrainInv == IInv /\ Drain => IInv'
<1> SUFFICES ASSUME IInv, Drain PROVE IInv'
  OBVIOUS
<1> DEFINE m == Last(leaves)
<1>1. /\ phase = "drain" /\ leaves # << >>
      /\ started' = Append(started, m) /\ leaves' = Front(leaves)
      /\ UNCHANGED graphVars /\ UNCHANGED <<phase, pending, branches, at, progressed>>
  BY DEF Drain
<1>2. TypeOK
  BY DEF IInv
<1>3. imports' = imports /\ \A x : Needs(x)' = Needs(x)
  BY <1>1 DEF graphVars, Needs
<1>4. /\ IsInjective(leaves) /\ IsInjective(branches)
      /\ ToSet(leaves) \cap ToSet(branches) = {}
      /\ \A x \in ToSet(leaves) : Needs(x) = {}
      /\ Initialized \cup Seen = Module /\ Initialized \cap Seen = {}
      /\ Topological(started)
  BY <1>1 DEF IInv, Split, Placed
<1>5. /\ leaves' \in Seq(Module) /\ m \in Module
      /\ ToSet(leaves) = ToSet(leaves') \cup {m}
      /\ IsInjective(leaves') /\ m \notin ToSet(leaves')
  BY <1>1, <1>2, <1>4, OneLess DEF TypeOK
<1> HIDE DEF m
<1>6. started' \in Seq(Module) /\ Initialized' = Initialized \cup {m}
  BY <1>1, <1>2, <1>5, OneMore DEF TypeOK, Initialized
<1>7. TypeOK'
  BY <1>1, <1>2, <1>5, <1>6 DEF TypeOK, graphVars
<1>8. GraphInv'
  BY <1>1, GraphKept DEF IInv, GraphInv, Later
<1>9. Fresh' /\ Closed' /\ Passed'
  BY <1>1 DEF IInv, Fresh, Closed, Passed
<1>10. Split'
  BY <1>1, <1>3, <1>4, <1>5 DEF Split
<1>11. Placed'
  <2>1. Seen = Seen' \cup {m} /\ m \notin Seen'
    BY <1>1, <1>4, <1>5 DEF Seen
  <2>2. started \in Seq(Module)
    BY <1>2 DEF TypeOK
  <2>3. m \notin ToSet(started) /\ Needs(m) \subseteq ToSet(started)
    BY <1>4, <1>5, <2>1 DEF Initialized
  <2>4. Topological(Append(started, m))
    BY <1>2, <1>4, <1>5, <2>2, <2>3, Topped
  <2>5. Topological(started)'
    BY <1>1, <1>3, <2>4 DEF Topological
  <2> QED BY <1>1, <1>4, <1>6, <2>1, <2>5 DEF Placed
<1> QED BY <1>7, <1>8, <1>9, <1>10, <1>11 DEF IInv, GraphInv

\* Only the branches are left, and the sweep begins at the first.
LEMMA DrainedInv == IInv /\ Drained => IInv'
<1> SUFFICES ASSUME IInv, Drained PROVE IInv'
  OBVIOUS
<1>1. /\ phase = "drain" /\ leaves = << >> /\ phase' = "sweep"
      /\ UNCHANGED graphVars
      /\ UNCHANGED <<pending, leaves, branches, at, progressed, started>>
  BY DEF Drained
<1>2. TypeOK'
  BY <1>1 DEF IInv, TypeOK, Phase, graphVars
<1>3. GraphInv'
  BY <1>1, GraphKept DEF IInv, GraphInv, Later
<1>4. Fresh' /\ Split' /\ Closed' /\ Placed'
  BY <1>1 DEF IInv, Fresh, Split, Closed, Placed, Needs, Seen, Initialized, Topological, graphVars
<1>5. Passed'
  BY <1>1 DEF IInv, Fresh, Passed
<1> QED BY <1>2, <1>3, <1>4, <1>5 DEF IInv, GraphInv

\* A branch starts after all it imports, or the sweep passes it by as not ready.
LEMMA SweepInv == IInv /\ Sweep => IInv'
<1> SUFFICES ASSUME IInv, Sweep PROVE IInv'
  OBVIOUS
<1> DEFINE m == branches[at]
<1>1. /\ phase = "sweep" /\ at <= Len(branches) /\ (at = 1 => Remaining # {})
      /\ at' = at + 1
      /\ UNCHANGED graphVars /\ UNCHANGED <<phase, pending, leaves, branches>>
  BY DEF Sweep
<1>2. TypeOK
  BY DEF IInv
<1>3. imports' = imports /\ \A x : Needs(x)' = Needs(x)
  BY <1>1 DEF graphVars, Needs
<1>4. /\ at \in Nat \ {0} /\ branches \in Seq(Module) /\ started \in Seq(Module)
      /\ Len(branches) \in Nat /\ at \in 1 .. Len(branches)
      /\ m \in Module /\ m \in ToSet(branches)
  <2>1. at \in Nat \ {0} /\ branches \in Seq(Module) /\ started \in Seq(Module)
    BY <1>2 DEF TypeOK
  <2>2. Len(branches) \in Nat
    BY <2>1
  <2>3. at \in 1 .. Len(branches)
    BY <1>1, <2>1, <2>2
  <2> QED BY <2>1, <2>2, <2>3, Members
<1>5. /\ Initialized \cup Seen = Module /\ leaves = << >> /\ Topological(started)
  BY <1>1 DEF IInv, Placed
<1> HIDE DEF m
<1>6. GraphInv'
  BY <1>1, GraphKept DEF IInv, GraphInv, Later
<1>7. Split'
  BY <1>1, <1>3 DEF IInv, Split
<1>8. Seen' = Seen
  BY <1>1 DEF Seen
<1>9. CASE m \notin Initialized /\ Ready(m)
  <2>1. started' = Append(started, m) /\ progressed' = TRUE
    BY <1>9 DEF Sweep, m
  <2>2. started' \in Seq(Module) /\ Initialized' = Initialized \cup {m}
    BY <1>4, <2>1, OneMore DEF Initialized
  <2>3. TypeOK'
    BY <1>1, <1>2, <1>4, <2>1, <2>2 DEF TypeOK, graphVars
  <2>4. m \notin ToSet(started) /\ Needs(m) \subseteq ToSet(started)
    BY <1>9 DEF Initialized, Ready, Needs
  <2>5. Topological(Append(started, m))
    BY <1>2, <1>4, <1>5, <2>4, Topped
  <2>6. Topological(started)'
    BY <1>3, <2>1, <2>5 DEF Topological
  <2>7. Placed'
    BY <1>1, <1>4, <1>5, <1>8, <2>2, <2>6 DEF Placed
  <2>8. Fresh' /\ Closed' /\ Passed'
    BY <1>1, <2>1 DEF Fresh, Closed, Passed
  <2> QED BY <1>6, <1>7, <2>3, <2>7, <2>8 DEF IInv, GraphInv
<1>10. CASE ~ (m \notin Initialized /\ Ready(m))
  <2>1. UNCHANGED <<started, progressed>>
    BY <1>10 DEF Sweep, m
  <2>2. /\ Initialized' = Initialized /\ Remaining' = Remaining
        /\ \A x : Ready(x)' <=> Ready(x)
    BY <1>1, <1>3, <2>1 DEF Initialized, Remaining, Ready
  <2>3. TypeOK'
    BY <1>1, <1>2, <1>4, <2>1 DEF TypeOK, graphVars
  <2>4. Fresh' /\ Closed'
    BY <1>1 DEF Fresh, Closed
  <2>5. Placed'
    BY <1>1, <1>3, <1>5, <1>8, <2>1, <2>2 DEF Placed, Topological
  <2>6. ASSUME ~ progressed
        PROVE  /\ \A i \in 1 .. Len(branches) :
                    i < at + 1 => branches[i] \in Initialized \/ ~ Ready(branches[i])
               /\ Remaining # {}
    <3>1. /\ \A i \in 1 .. Len(branches) :
               i < at => branches[i] \in Initialized \/ ~ Ready(branches[i])
          /\ at > 1 => Remaining # {}
      BY <1>1, <2>6 DEF IInv, Passed
    <3>2. Remaining # {}
      BY <1>1, <1>4, <3>1
    <3>3. ASSUME NEW i \in 1 .. Len(branches), i < at + 1
          PROVE  branches[i] \in Initialized \/ ~ Ready(branches[i])
      <4>1. CASE i = at
        BY <1>10, <4>1 DEF m
      <4>2. CASE i # at
        <5>1. i < at
          BY <1>4, <3>3, <4>2
        <5> QED BY <3>1, <5>1
      <4> QED BY <4>1, <4>2
    <3> QED BY <3>2, <3>3
  <2>7. Passed'
    BY <1>1, <2>1, <2>2, <2>6 DEF Passed
  <2> QED BY <1>6, <1>7, <2>3, <2>4, <2>5, <2>7 DEF IInv, GraphInv
<1> QED BY <1>9, <1>10

\* The next sweep has passed by nothing yet.
LEMMA NextSweepInv == IInv /\ NextSweep => IInv'
<1> SUFFICES ASSUME IInv, NextSweep PROVE IInv'
  OBVIOUS
<1>1. /\ phase = "sweep" /\ at' = 1 /\ progressed' = FALSE
      /\ UNCHANGED graphVars /\ UNCHANGED <<phase, pending, leaves, branches, started>>
  BY DEF NextSweep
<1>2. TypeOK'
  <2>1. progressed' \in BOOLEAN
    BY <1>1
  <2> QED BY <1>1, <2>1 DEF IInv, TypeOK, graphVars
<1>3. GraphInv'
  BY <1>1, GraphKept DEF IInv, GraphInv, Later
<1>4. Split' /\ Closed' /\ Placed'
  BY <1>1 DEF IInv, Split, Closed, Placed, Needs, Seen, Initialized, Topological, graphVars
<1>5. Fresh' /\ Passed'
  BY <1>1 DEF Fresh, Passed
<1> QED BY <1>2, <1>3, <1>4, <1>5 DEF IInv, GraphInv

\* No branch remains, so all modules were started.
LEMMA StartedInv == IInv /\ Started => IInv'
<1> SUFFICES ASSUME IInv, Started PROVE IInv'
  OBVIOUS
<1>1. /\ phase = "sweep" /\ Remaining = {} /\ phase' = "done"
      /\ UNCHANGED graphVars
      /\ UNCHANGED <<pending, leaves, branches, at, progressed, started>>
  BY DEF Started
<1>2. TypeOK'
  BY <1>1 DEF IInv, TypeOK, Phase, graphVars
<1>3. GraphInv'
  BY <1>1, GraphKept DEF IInv, GraphInv, Later
<1>4. Fresh' /\ Split' /\ Closed' /\ Passed'
  BY <1>1 DEF IInv, Fresh, Split, Closed, Passed, Needs, graphVars
<1>5. Placed'
  BY <1>1 DEF IInv, Placed, Seen, Initialized, Remaining, Topological, graphVars
<1> QED BY <1>2, <1>3, <1>4, <1>5 DEF IInv, GraphInv

-----------------------------------------------------------------------------
(***************************************************************************)
(* The theorems.                                                           *)
(***************************************************************************)
\* The invariant holds of every step of both algorithms.
LEMMA InvariantHolds == Spec => []IInv
<1>1. ASSUME IInv, [Next]_vars PROVE IInv'
  <2>1. CASE Next
    BY <1>1, <2>1, RootInv, DescendInv, SkipInv, FindCycleInv, LeaveInv, OrderedInv,
       DiscoverInv, DiscoveredInv, DrainInv, DrainedInv, SweepInv, NextSweepInv,
       StartedInv DEF Next
  <2>2. CASE UNCHANGED vars
    <3>1. TypeOK' /\ Connected'
      BY <1>1, <2>2 DEF IInv, vars, TypeOK, Connected, Needs
    <3>2. OnPath' /\ Leads' /\ Behind'
      BY <1>1, <2>2 DEF IInv, vars, OnPath, Leads, Behind
    <3>3. Order' /\ CycleReal'
      BY <1>1, <2>2 DEF IInv, vars, Order, CycleReal, Topological
    <3>4. Fresh' /\ Split' /\ Closed'
      BY <1>1, <2>2 DEF IInv, vars, Fresh, Split, Closed, Needs, Seen
    <3>5. Placed' /\ Passed'
      BY <1>1, <2>2
         DEF IInv, vars, Placed, Passed, Needs, Seen, Initialized, Remaining, Ready, Topological
    <3> QED BY <3>1, <3>2, <3>3, <3>4, <3>5 DEF IInv
  <2> QED BY <1>1, <2>1, <2>2
<1> QED BY <1>1, InitInv, PTL DEF Spec

\* Every value stays within its type; the lists hold modules of the program.
THEOREM TypeCorrect == Spec => []TypeOK
<1>1. IInv => TypeOK
  BY DEF IInv
<1> QED BY <1>1, InvariantHolds, PTL

(***************************************************************************)
(* dependency_order (modules/module_graph.jik) puts every module after all *)
(* it imports and leaves none out unless it reports a cycle.               *)
(***************************************************************************)
THEOREM OrderSound == Spec => []DependenciesFirst
<1>1. IInv => DependenciesFirst
  <2> SUFFICES ASSUME IInv PROVE DependenciesFirst
    OBVIOUS
  <2>1. Topological(ordered)
    BY DEF IInv, Order
  <2>2. ASSUME phase \notin {"visit", "cyclic"} PROVE ToSet(ordered) = Module
    <3>1. ordered \in Seq(Module)
      BY DEF IInv, TypeOK
    <3>2. ToSet(ordered) \subseteq Module
      BY <3>1, Members
    <3> QED BY <2>2, <3>2 DEF IInv, Order
  <2> QED BY <2>1, <2>2 DEF DependenciesFirst
<1> QED BY <1>1, InvariantHolds, PTL

(***************************************************************************)
(* What report_cycle prints is a cycle of imports: each module imports the *)
(* next, the last one the first, and none is listed twice.                 *)
(***************************************************************************)
THEOREM CyclesAreReal == Spec => []CycleReal
<1>1. IInv => CycleReal
  BY DEF IInv
<1> QED BY <1>1, InvariantHolds, PTL

(***************************************************************************)
(* initialization_order starts every module after all it imports, once,    *)
(* and has started all of them when it returns.                            *)
(***************************************************************************)
THEOREM StartsInOrder == Spec => []StartupSound
<1>1. IInv => StartupSound
  <2> SUFFICES ASSUME IInv PROVE StartupSound
    OBVIOUS
  <2>1. Topological(started)
    BY DEF IInv, Placed
  <2>2. ASSUME phase = "done" PROVE ToSet(started) = Module
    <3>1. Initialized \cup Seen = Module /\ leaves = << >> /\ Remaining = {}
      BY <2>2 DEF IInv, Placed
    <3> QED BY <3>1, NoMembers DEF Seen, Remaining, Initialized
  <2> QED BY <2>1, <2>2 DEF StartupSound
<1> QED BY <1>1, InvariantHolds, PTL

(***************************************************************************)
(* The assertion at the end of a sweep of initialization_order never       *)
(* fails.  Of the branches that wait, take the first in dependency order:  *)
(* all it imports was initialized, so the sweep did not pass it by.        *)
(***************************************************************************)
THEOREM SweepsProgress == Spec => []SweepProgresses
<1>1. IInv => SweepProgresses
  <2> SUFFICES ASSUME IInv, phase = "sweep", at > Len(branches), branches # << >>,
                      ~ progressed
               PROVE  FALSE
    BY DEF SweepProgresses
  <2>1. /\ TypeOK /\ branches \in Seq(Module) /\ ordered \in Seq(Module) /\ at \in Nat
        /\ Len(branches) \in Nat \ {0} /\ Len(ordered) \in Nat
    <3>1. TypeOK
      BY DEF IInv
    <3>2. branches \in Seq(Module) /\ ordered \in Seq(Module) /\ at \in Nat
      BY <3>1 DEF TypeOK
    <3> QED BY <3>1, <3>2, EmptySeq
  <2>2. /\ \A i \in 1 .. Len(branches) : branches[i] \in Initialized \/ ~ Ready(branches[i])
        /\ Remaining # {}
    <3>1. at > 1 /\ \A i \in 1 .. Len(branches) : i < at
      BY <2>1
    <3> QED BY <3>1 DEF IInv, Passed
  <2>3. \A m \in Remaining : ~ Ready(m)
    BY <2>1, <2>2, Members DEF Remaining
  <2>4. /\ Topological(ordered)
        /\ \A m \in Module : \E i \in 1 .. Len(ordered) : ordered[i] = m
    BY <2>1, Members DEF IInv, Order
  <2>5. \A i \in 1 .. Len(ordered) :
           \A x \in Needs(ordered[i]) : \E j \in 1 .. (i - 1) : ordered[j] = x
    BY <2>1, <2>4, InOrder
  <2>6. /\ Initialized \cup ToSet(branches) = Module
        /\ \A m \in Module : Needs(m) \subseteq Module
    <3>1. Initialized \cup Seen = Module /\ leaves = << >>
      BY DEF IInv, Placed
    <3> QED BY <3>1, NoMembers, Places DEF Seen
  <2> DEFINE waiting == {i \in 1 .. Len(ordered) : ordered[i] \in Remaining}
  <2>7. waiting \in SUBSET Nat /\ waiting # {}
    <3>1. PICK m \in Remaining : TRUE
      BY <2>2
    <3>2. m \in Module
      BY <2>6, <3>1 DEF Remaining
    <3> QED BY <2>4, <3>1, <3>2
  <2>8. PICK i \in waiting : \A j \in waiting : i <= j
    <3> HIDE DEF waiting
    <3> QED BY <2>7, LeastElement
  <2>9. ASSUME NEW x \in Needs(ordered[i]) PROVE x \in Initialized
    <3>1. PICK j \in 1 .. (i - 1) : ordered[j] = x
      BY <2>5, <2>8, <2>9
    <3>2. j \in 1 .. Len(ordered) /\ ~ (i <= j)
      BY <2>1, <2>8
    <3>3. x \notin Remaining
      BY <2>8, <3>1, <3>2
    <3>4. x \in Module
      BY <2>1, <3>1, <3>2, Members
    <3> QED BY <2>6, <3>3, <3>4 DEF Remaining
  <2>10. Ready(ordered[i])
    BY <2>9 DEF Ready, Needs
  <2> QED BY <2>3, <2>8, <2>10
<1> QED BY <1>1, InvariantHolds, PTL
=============================================================================
