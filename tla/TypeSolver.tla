----------------------------- MODULE TypeSolver -----------------------------
(***************************************************************************)
(* The type solver (semantic/typing/solver.jik): union by rank with path   *)
(* compression over slots, a slot per node that needs a type, a type bound *)
(* to the root of each tree.  Slots count from 1.                          *)
(*                                                                         *)
(* Collection and solving call it in an order this module leaves open; the *)
(* types are opaque, since the solver only compares them.                  *)
(***************************************************************************)
EXTENDS Naturals, Sequences, FiniteSets

CONSTANTS Node, Type, NoType

ASSUME NoTypeAssumption == NoType \notin Type

VARIABLES
    slots,      \* Solver.slots
    slotOf,     \* inference_slot of each node; 0 when it has none (-1 in the code)
    changed,    \* Solver.changed
    failed      \* Solver.failed

vars == <<slots, slotOf, changed, failed>>

Slot == DOMAIN slots
HasSlot == {n \in Node : slotOf[n] # 0}

(***************************************************************************)
(* The loop of find_representative: what it visits on its way up from slot *)
(* i is the least set that has i and the parent of each of its members,    *)
(* and it stops at the member that is its own parent.                      *)
(***************************************************************************)
Above(tree, i) ==
    {r \in DOMAIN tree : \A S \in SUBSET DOMAIN tree :
        (i \in S /\ \A x \in S : tree[x].parent \in S) => r \in S}

IsRoot(tree, r) == tree[r].parent = r
Representative(tree, i) == CHOOSE r \in Above(tree, i) : IsRoot(tree, r)

\* The second loop: every slot on the way up from the slots I is moved below
\* its representative.
Compressed(tree, I) ==
    [x \in DOMAIN tree |->
        [tree[x] EXCEPT !.parent = IF \E i \in I : x \in Above(tree, i)
                                   THEN Representative(tree, x) ELSE @]]

Root(n) == Representative(slots, slotOf[n])
BoundType(n) == slots[Root(n)].bound

-----------------------------------------------------------------------------
Init ==
    /\ slots = <<>>
    /\ slotOf = [n \in Node |-> 0]
    /\ changed = FALSE
    /\ failed = FALSE

\* ensure_inference_slot, for a node without a slot
EnsureInferenceSlot(n) ==
    /\ slotOf[n] = 0
    /\ slots' = Append(slots, [parent |-> Len(slots) + 1, rank |-> 0, bound |-> NoType])
    /\ slotOf' = [slotOf EXCEPT ![n] = Len(slots) + 1]
    /\ UNCHANGED <<changed, failed>>

\* bound_type, the caller's view of a node: what it changes is the paths.
Look(n) ==
    /\ n \in HasSlot
    /\ slots' = Compressed(slots, {slotOf[n]})
    /\ UNCHANGED <<slotOf, changed, failed>>

\* The root r has the type t.
Bound(tree, r, t) ==
    [x \in DOMAIN tree |-> IF x = r THEN [tree[x] EXCEPT !.bound = t] ELSE tree[x]]

\* bind_type that learns something
Bind(n, t) ==
    /\ ~ failed /\ n \in HasSlot
    /\ BoundType(n) = NoType
    /\ slots' = Bound(Compressed(slots, {slotOf[n]}), Root(n), t)
    /\ changed' = TRUE
    /\ UNCHANGED <<slotOf, failed>>

\* bind_type that meets another type
BindConflict(n, t) ==
    /\ ~ failed /\ n \in HasSlot
    /\ BoundType(n) \notin {NoType, t}
    /\ slots' = Compressed(slots, {slotOf[n]})
    /\ failed' = TRUE
    /\ UNCHANGED <<slotOf, changed>>

\* Mutant of Linked: the bound of the root that goes under is forgotten.
LinkedForgetting(tree, i, j) ==
    LET under == IF tree[i].rank < tree[j].rank THEN i ELSE j
        over == IF tree[i].rank < tree[j].rank THEN j ELSE i
    IN [x \in DOMAIN tree |->
         CASE x = under -> [tree[x] EXCEPT !.parent = over]
           [] x = over -> [tree[x] EXCEPT !.rank = IF @ = tree[under].rank THEN @ + 1 ELSE @]
           [] OTHER -> tree[x]]

\* The trees with the roots i and j as one: the lower goes under the other,
\* which keeps what either knew and rises when both were equally high.
Linked(tree, i, j) ==
    LET under == IF tree[i].rank < tree[j].rank THEN i ELSE j
        over == IF tree[i].rank < tree[j].rank THEN j ELSE i
    IN [x \in DOMAIN tree |->
         CASE x = under -> [tree[x] EXCEPT !.parent = over]
           [] x = over -> [tree[x] EXCEPT !.bound = IF @ = NoType THEN tree[under].bound ELSE @,
                                          !.rank = IF @ = tree[under].rank THEN @ + 1 ELSE @]
           [] OTHER -> tree[x]]

Agree(m, n) == BoundType(m) = BoundType(n) \/ NoType \in {BoundType(m), BoundType(n)}

\* unify_slots of two classes that can be one
Unify(m, n) ==
    /\ ~ failed /\ {m, n} \subseteq HasSlot
    /\ Root(m) # Root(n) /\ Agree(m, n)
    /\ slots' = Linked(Compressed(slots, {slotOf[m], slotOf[n]}), Root(m), Root(n))
    /\ changed' = TRUE
    /\ UNCHANGED <<slotOf, failed>>

\* unify_slots of two classes with different types: nothing is merged.
UnifyConflict(m, n) ==
    /\ ~ failed /\ {m, n} \subseteq HasSlot
    /\ ~ Agree(m, n)
    /\ slots' = Compressed(slots, {slotOf[m], slotOf[n]})
    /\ failed' = TRUE
    /\ UNCHANGED <<slotOf, changed>>

\* report, by a rule outside the solver
Report ==
    /\ ~ failed
    /\ failed' = TRUE
    /\ UNCHANGED <<slots, slotOf, changed>>

\* The head of the loop of solve (inference.jik)
BeginSweep ==
    /\ changed /\ ~ failed
    /\ changed' = FALSE
    /\ UNCHANGED <<slots, slotOf, failed>>

Next ==
    \/ \E n \in Node : EnsureInferenceSlot(n) \/ Look(n)
    \/ \E n \in Node, t \in Type : Bind(n, t) \/ BindConflict(n, t)
    \/ \E m, n \in Node : Unify(m, n) \/ UnifyConflict(m, n)
    \/ Report
    \/ BeginSweep

Spec == Init /\ [][Next]_vars

-----------------------------------------------------------------------------
SlotRecord == [parent : Slot, rank : Nat, bound : Type \cup {NoType}]

(***************************************************************************)
(* The state is well typed: parents are slots, no two nodes share a slot,  *)
(* and there is none without a node.                                       *)
(***************************************************************************)
TypeOK ==
    /\ slots \in Seq(SlotRecord)
    /\ slotOf \in [Node -> 0 .. Len(slots)]
    /\ \A m, n \in HasSlot : slotOf[m] = slotOf[n] => m = n
    /\ \A x \in Slot : \E n \in HasSlot : slotOf[n] = x
    /\ changed \in BOOLEAN
    /\ failed \in BOOLEAN

-----------------------------------------------------------------------------
ClassOf(n) == {m \in HasSlot : Root(m) = Root(n)}

\* What the slots say of the nodes
Known == [class |-> [n \in Node |-> IF n \in HasSlot THEN ClassOf(n) ELSE {n}],
          type |-> [n \in Node |-> IF n \in HasSlot THEN BoundType(n) ELSE NoType],
          changed |-> changed,
          failed |-> failed]

TC == INSTANCE TypeClasses WITH classes <- Known

(***************************************************************************)
(* Whatever the order of the calls and the shape the trees take from them, *)
(* the solver is TypeClasses: compression and ranks never change a class   *)
(* or its type, a merge keeps the type either side had, a conflict merges  *)
(* nothing, and changed is set by the calls that learn something and no    *)
(* others (the sweeps of solve rely on it).                                *)
(***************************************************************************)
Classes == TC!Spec
=============================================================================
