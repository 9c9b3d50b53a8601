--------------------------- MODULE SafetyInference ---------------------------
(***************************************************************************)
(* infer_function_safety (semantic/regions/region_safety.jik): which       *)
(* functions of a program may be called with arguments from different      *)
(* regions.  Every function that could be region-safe is assumed to be;    *)
(* sweeps over all functions then take the mark away from those whose body *)
(* stores across regions or calls a function without the mark, until a     *)
(* sweep takes nothing away.                                               *)
(*                                                                         *)
(* Functions are numbered in the order of the sweep: modules in dependency *)
(* order, the declarations of a module in source order.  What Regions.tla  *)
(* says of one body, UnsafeExpression and SafeStore, is here one bit.      *)
(***************************************************************************)
EXTENDS Naturals

CONSTANT N      \* how many functions the program declares

ASSUME NAssumption == N \in Nat

Function == 1 .. N

VARIABLES
    program,    \* what the sweeps read: the declarations and their bodies
    safe,       \* is_region_safe
    changed,    \* the current sweep took a mark away
    at,         \* the function the sweep examines next; N + 1 at its end
    done        \* the loop was left

vars == <<program, safe, changed, at, done>>

(***************************************************************************)
(* candidate: not external and without a composite result; stores: some    *)
(* statement of the body is unsafe whatever the functions it calls; calls: *)
(* the functions that are called somewhere in the body.                    *)
(***************************************************************************)
Program == [candidate : [Function -> BOOLEAN],
            stores : [Function -> BOOLEAN],
            calls : [Function -> SUBSET Function]]

Candidate(f) == program.candidate[f]

UnsafeBody(f) == program.stores[f] \/ \E g \in program.calls[f] : ~ safe[g]

Init ==
    /\ program \in Program
    /\ safe = [f \in Function |-> Candidate(f)]
    /\ changed = FALSE
    /\ at = 1
    /\ done = FALSE

\* Mutant of Examine: the mark goes and nobody is told.
ExamineSilently ==
    /\ ~ done /\ at \in Function
    /\ safe' = [safe EXCEPT ![at] = @ /\ ~ UnsafeBody(at)]
    /\ at' = at + 1
    /\ UNCHANGED <<program, changed, done>>

\* One function of the sweep
Examine ==
    /\ ~ done /\ at \in Function
    /\ IF safe[at] /\ UnsafeBody(at)
       THEN safe' = [safe EXCEPT ![at] = FALSE] /\ changed' = TRUE
       ELSE UNCHANGED <<safe, changed>>
    /\ at' = at + 1
    /\ UNCHANGED <<program, done>>

\* Mutant of NextSweep: the flag is not reset before the sweep.
NextSweepStale ==
    /\ ~ done /\ at = N + 1 /\ changed
    /\ at' = 1
    /\ UNCHANGED <<program, safe, changed, done>>

NextSweep ==
    /\ ~ done /\ at = N + 1 /\ changed
    /\ changed' = FALSE
    /\ at' = 1
    /\ UNCHANGED <<program, safe, done>>

Finish ==
    /\ ~ done /\ at = N + 1 /\ ~ changed
    /\ done' = TRUE
    /\ UNCHANGED <<program, safe, changed, at>>

Next == Examine \/ NextSweep \/ Finish

Spec == Init /\ [][Next]_vars

FairSpec == Spec /\ WF_vars(Next)
------------------------------------------------------------------------------
TypeOK ==
    /\ program \in Program
    /\ safe \in [Function -> BOOLEAN]
    /\ changed \in BOOLEAN
    /\ at \in 1 .. (N + 1)
    /\ done \in BOOLEAN

Safe == {f \in Function : safe[f]}

\* A set of functions that can be region-safe together.
Consistent(S) ==
    \A f \in S : program.candidate[f] /\ ~ program.stores[f] /\ program.calls[f] \subseteq S

(***************************************************************************)
(* The marks that are left are the most generous ones that are consistent: *)
(* a marked function calls marked functions only, which is what the region *)
(* analysis takes for granted at every call, and mutually recursive        *)
(* functions keep their marks unless something in the cycle is unsafe.     *)
(* So the result does not depend on the order of the sweep.                *)
(***************************************************************************)
GreatestMarking ==
    done => Safe = UNION {S \in SUBSET Function : Consistent(S)}

(***************************************************************************)
(* At no time does a function of a consistent set lose its mark, even      *)
(* while the marks of its callees are still being decided.                 *)
(***************************************************************************)
NeverTooStrict == \A S \in SUBSET Function : Consistent(S) => S \subseteq Safe

\* The loop ends for every program, however its functions call each other.
Terminates == <>done
=============================================================================
