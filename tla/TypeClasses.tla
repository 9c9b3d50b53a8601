----------------------------- MODULE TypeClasses -----------------------------
(***************************************************************************)
(* What the type solver promises (semantic/typing/solver.jik), without its *)
(* slots, ranks and paths: nodes known to have the same type form a class, *)
(* a class has at most one type, and the first contradiction ends it all.  *)
(*                                                                         *)
(* TypeSolver implements this module; Inference is built on it.            *)
(***************************************************************************)
CONSTANTS
    Node,       \* the nodes whose types are inferred
    Type,       \* their possible types
    NoType      \* not a type: nothing is known yet

VARIABLE classes

(***************************************************************************)
(* classes.class[n]  the nodes known to have the type of n                 *)
(* classes.type[n]   their type, or NoType                                 *)
(* classes.changed   something was learned since the flag was last reset   *)
(* classes.failed    an error was reported                                 *)
(***************************************************************************)
Nothing == [class |-> [n \in Node |-> {n}],
            type |-> [n \in Node |-> NoType],
            changed |-> FALSE,
            failed |-> FALSE]

\* Only the first report counts, and after it nothing is learned.
Failed(k) == [class |-> k.class, type |-> k.type, changed |-> k.changed, failed |-> TRUE]

\* n has type t.
Typed(k, n, t) ==
    CASE k.failed \/ k.type[n] = t -> k
      [] ~ k.failed /\ k.type[n] = NoType ->
           [class |-> k.class,
            type |-> [m \in Node |-> IF m \in k.class[n] THEN t ELSE k.type[m]],
            changed |-> TRUE,
            failed |-> FALSE]
      [] OTHER -> Failed(k)

\* m and n have the same type.
Joined(k, m, n) ==
    LET both == k.class[m] \cup k.class[n]
        known == {k.type[m], k.type[n]} \ {NoType}
    IN CASE k.failed \/ m \in k.class[n] -> k
         [] ~ k.failed /\ m \notin k.class[n] /\ \A s, t \in known : s = t ->
              [class |-> [i \in Node |-> IF i \in both THEN both ELSE k.class[i]],
               type |-> [i \in Node |-> IF i \in both /\ known # {}
                                        THEN CHOOSE t \in known : TRUE
                                        ELSE k.type[i]],
               changed |-> TRUE,
               failed |-> FALSE]
         [] OTHER -> Failed(k)

\* A new round of deductions begins.
Quiet(k) == [class |-> k.class, type |-> k.type, changed |-> FALSE, failed |-> k.failed]

-----------------------------------------------------------------------------
Init == classes = Nothing

Next ==
    \/ \E n \in Node, t \in Type : classes' = Typed(classes, n, t)
    \/ \E m, n \in Node : classes' = Joined(classes, m, n)
    \/ classes' = Failed(classes)
    \/ classes' = Quiet(classes)

Spec == Init /\ [][Next]_classes
=============================================================================
