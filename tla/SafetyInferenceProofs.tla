------------------------ MODULE SafetyInferenceProofs ------------------------
(***************************************************************************)
(* Proofs about SafetyInference, for programs of any size.                 *)
(***************************************************************************)
EXTENDS SafetyInference, TLAPS

\* What the current sweep has established: as long as it took nothing away, the functions
\* behind it are fine with the marks as they are.
SweepSound == ~ changed => \A f \in Function : f < at /\ safe[f] => ~ UnsafeBody(f)

Marked == \A f \in Function : safe[f] => program.candidate[f]

Ended == done => at = N + 1 /\ ~ changed

IInv == TypeOK /\ NeverTooStrict /\ SweepSound /\ Marked /\ Ended

\* Init establishes the invariant.
LEMMA InitInvariant == Init => IInv
<1> SUFFICES ASSUME Init PROVE IInv
  OBVIOUS
<1> USE NAssumption DEF Init, Candidate
<1>1. TypeOK
  <2>1. program \in Program /\ at \in 1 .. (N + 1)
    OBVIOUS
  <2>4. changed \in BOOLEAN /\ done \in BOOLEAN
    BY Zenon
  <2>2. program.candidate \in [Function -> BOOLEAN]
    BY DEF Program
  <2>3. safe \in [Function -> BOOLEAN]
    BY <2>2
  <2> QED
    BY <2>1, <2>3, <2>4 DEF TypeOK
<1>2. NeverTooStrict
  BY DEF NeverTooStrict, Consistent, Safe, Function
<1>3. SweepSound
  BY DEF SweepSound, Function
<1>4. Marked /\ Ended
  BY DEF Marked, Ended
<1> QED
  BY <1>1, <1>2, <1>3, <1>4 DEF IInv

\* One function examined.
LEMMA ExamineInvariant == IInv /\ Examine => IInv'
<1> SUFFICES ASSUME IInv, Examine PROVE IInv'
  OBVIOUS
<1> USE NAssumption DEF IInv, Examine
<1>1. TypeOK'
  <2>1. safe' \in [Function -> BOOLEAN]
    <3>1. CASE safe[at] /\ UnsafeBody(at)
      BY <3>1 DEF TypeOK
    <3>2. CASE ~ (safe[at] /\ UnsafeBody(at))
      BY <3>2 DEF TypeOK
    <3> QED
      BY <3>1, <3>2
  <2>2. changed' \in BOOLEAN
    BY DEF TypeOK
  <2>3. at' \in 1 .. (N + 1)
    BY DEF Function
  <2> QED
    BY <2>1, <2>2, <2>3 DEF TypeOK
<1>2. program' = program
  OBVIOUS
<1>3. \A f \in Function : safe'[f] => safe[f]
  BY DEF TypeOK
<1>4. NeverTooStrict'
  <2> SUFFICES ASSUME NEW S \in SUBSET Function, Consistent(S) PROVE S \subseteq Safe'
    BY <1>2 DEF NeverTooStrict, Consistent
  <2>1. S \subseteq Safe
    BY DEF NeverTooStrict
  <2>2. at \in S => ~ UnsafeBody(at)
    BY <2>1 DEF Consistent, UnsafeBody, Safe
  <2> QED
    BY <2>1, <2>2 DEF Safe, TypeOK
<1>5. SweepSound'
  <2>1. CASE safe[at] /\ UnsafeBody(at)
    BY <2>1 DEF SweepSound
  <2>2. CASE ~ (safe[at] /\ UnsafeBody(at))
    <3>1. safe' = safe /\ changed' = changed
      BY <2>2
    <3>2. SUFFICES ASSUME ~ changed, NEW f \in Function, f < at + 1, safe[f]
                   PROVE ~ UnsafeBody(f)
      BY <1>2, <3>1 DEF SweepSound, UnsafeBody
    <3>3. f < at \/ f = at
      BY <3>2 DEF Function, TypeOK
    <3> QED
      BY <2>2, <3>2, <3>3 DEF SweepSound
  <2> QED
    BY <2>1, <2>2
<1>6. Marked' /\ Ended'
  BY <1>2, <1>3 DEF Marked, Ended
<1> QED
  BY <1>1, <1>4, <1>5, <1>6

\* The invariant is inductive.
LEMMA StepInvariant == IInv /\ [Next]_vars => IInv'
<1> SUFFICES ASSUME IInv, [Next]_vars PROVE IInv'
  OBVIOUS
<1>1. CASE Examine
  BY <1>1, ExamineInvariant
<1>2. CASE NextSweep
  <2>1. UNCHANGED <<program, safe, done>> /\ ~ done /\ changed' = FALSE /\ at' = 1
    BY <1>2 DEF NextSweep
  <2>2. TypeOK'
    <3>1. at' \in 1 .. (N + 1)
      BY <2>1, NAssumption
    <3>2. changed' \in BOOLEAN
      BY <2>1, Zenon
    <3> QED
      BY <2>1, <3>1, <3>2 DEF IInv, TypeOK
  <2>3. NeverTooStrict' /\ Marked' /\ Ended'
    BY <2>1 DEF IInv, NeverTooStrict, Consistent, Safe, Marked, Ended
  <2>4. SweepSound'
    BY <2>1, NAssumption DEF SweepSound, Function
  <2> QED
    BY <2>2, <2>3, <2>4 DEF IInv
<1>3. CASE Finish
  BY <1>3, NAssumption DEF IInv, Finish, TypeOK, NeverTooStrict, Consistent, Safe,
                           SweepSound, UnsafeBody, Marked, Ended, Function
<1>4. CASE UNCHANGED vars
  BY <1>4 DEF IInv, vars, TypeOK, NeverTooStrict, Consistent, Safe,
              SweepSound, UnsafeBody, Marked, Ended
<1> QED
  BY <1>1, <1>2, <1>3, <1>4 DEF Next

\* When the loop is left, the marks are consistent.
LEMMA MarksConsistent == IInv /\ done => Consistent(Safe)
<1> SUFFICES ASSUME IInv, done, NEW f \in Safe
             PROVE program.candidate[f] /\ ~ program.stores[f] /\ program.calls[f] \subseteq Safe
  BY DEF Consistent
<1>1. f \in Function /\ safe[f]
  BY DEF Safe
<1>2. ~ UnsafeBody(f)
  BY <1>1, NAssumption DEF IInv, Ended, SweepSound, Function
<1>3. program.calls[f] \subseteq Function
  BY <1>1 DEF IInv, TypeOK, Program
<1> QED
  BY <1>1, <1>2, <1>3 DEF IInv, Marked, UnsafeBody, Safe

\* The type invariant of the inference.
THEOREM TypeCorrect == Spec => []TypeOK
<1>1. IInv => TypeOK
  BY DEF IInv
<1> QED
  BY <1>1, InitInvariant, StepInvariant, PTL DEF Spec

\* The marks of a finished inference are the greatest consistent marking, for every program:
\* infer_function_safety computes what the region analysis relies on.
THEOREM InferenceCorrect == Spec => [](GreatestMarking /\ NeverTooStrict)
<1>1. IInv => GreatestMarking /\ NeverTooStrict
  <2> SUFFICES ASSUME IInv, done
               PROVE Safe = UNION {S \in SUBSET Function : Consistent(S)}
    BY DEF IInv, GreatestMarking
  <2>1. Safe \in {S \in SUBSET Function : Consistent(S)}
    BY MarksConsistent DEF Safe
  <2>2. \A S \in SUBSET Function : Consistent(S) => S \subseteq Safe
    BY DEF IInv, NeverTooStrict
  <2> QED
    BY <2>1, <2>2
<1> QED
  BY <1>1, InitInvariant, StepInvariant, PTL DEF Spec
=============================================================================
