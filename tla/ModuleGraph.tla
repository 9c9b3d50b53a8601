----------------------------- MODULE ModuleGraph -----------------------------
(***************************************************************************)
(* dependency_order and initialization_order (modules/module_graph.jik):   *)
(* the two orders of the modules of a loaded program.  The first comes out *)
(* of a depth-first search that also finds import cycles, the second out   *)
(* of a worklist and repeated sweeps; both are single steps of a machine   *)
(* here, so that their loops can be seen to end.                           *)
(*                                                                         *)
(* A program is what ModuleLoader delivers: the modules are numbered in    *)
(* discovery order, the entry is 1, no module imports another twice, and   *)
(* every other module is imported by one discovered before it.             *)
(***************************************************************************)
EXTENDS Naturals, Sequences, SequencesExt

CONSTANTS
    N,              \* how many modules the program has
    MaxImports      \* bound on the imports of one module

ASSUME GraphAssumption == N \in Nat \ {0} /\ MaxImports \in Nat

Module == 1 .. N
Entry == 1

VARIABLES
    imports,    \* the modules each module imports, in source order
    phase,      \* visit, cyclic (the end of a cycle), discover, drain, sweep or done
    visited,    \* the VisitState of every module
    path,       \* the modules being visited, outermost first, and the import each is at
    ordered,    \* dependency_order
    cycle,      \* the modules report_cycle lists, without the repeated last one
    pending,    \* initialization_order: the worklist
    leaves,     \* its modules without imports
    branches,   \* the others, in discovery order
    at,         \* the branch the sweep looks at next
    progressed, \* whether this sweep initialized something
    started     \* the startup order as far as it is known

vars == <<imports, phase, visited, path, ordered, cycle,
          pending, leaves, branches, at, progressed, started>>
graphVars == <<imports, visited, path, ordered, cycle>>
startVars == <<pending, leaves, branches, at, progressed, started>>

VisitState == {"unvisited", "visiting", "visited"}
Innermost == path[Len(path)]
Ids(frames) == [i \in 1 .. Len(frames) |-> frames[i].id]

Programs ==
    {g \in [Module -> {s \in SeqOf(Module, MaxImports) : IsInjective(s)}] :
        \A m \in Module \ {Entry} : \E k \in 1 .. (m - 1) : m \in ToSet(g[k])}

Init ==
    /\ imports \in Programs
    /\ phase = "visit"
    /\ visited = [m \in Module |-> "unvisited"]
    /\ path = << >>
    /\ ordered = << >>
    /\ cycle = << >>
    /\ pending = << >>
    /\ leaves = << >>
    /\ branches = << >>
    /\ at = 1
    /\ progressed = FALSE
    /\ started = << >>
------------------------------------------------------------------------------
\* The loop of dependency_order: the first module that was not reached from an earlier one
Root ==
    /\ phase = "visit" /\ path = << >>
    /\ \E m \in Module :
          /\ visited[m] = "unvisited"
          /\ \A k \in 1 .. (m - 1) : visited[k] # "unvisited"
          /\ visited' = [visited EXCEPT ![m] = "visiting"]
          /\ path' = <<[id |-> m, next |-> 1]>>
    /\ UNCHANGED <<imports, phase, ordered, cycle>> /\ UNCHANGED startVars

\* The import the innermost visit looks at
AtImport == path # << >> /\ Innermost.next <= Len(imports[Innermost.id])
Imported == imports[Innermost.id][Innermost.next]

Advanced(frames) == [frames EXCEPT ![Len(frames)].next = @ + 1]

\* visit calls itself for an import that was not visited
Descend ==
    /\ phase = "visit" /\ AtImport
    /\ visited[Imported] = "unvisited"
    /\ visited' = [visited EXCEPT ![Imported] = "visiting"]
    /\ path' = Append(Advanced(path), [id |-> Imported, next |-> 1])
    /\ UNCHANGED <<imports, phase, ordered, cycle>> /\ UNCHANGED startVars

\* Mutant of Skip: a module that is being visited counts as done.
SkipVisiting ==
    /\ phase = "visit" /\ AtImport
    /\ visited[Imported] # "unvisited"
    /\ path' = Advanced(path)
    /\ UNCHANGED <<imports, phase, visited, ordered, cycle>> /\ UNCHANGED startVars

Skip ==
    /\ phase = "visit" /\ AtImport
    /\ visited[Imported] = "visited"
    /\ path' = Advanced(path)
    /\ UNCHANGED <<imports, phase, visited, ordered, cycle>> /\ UNCHANGED startVars

\* Mutant of FromTarget: the whole path is listed, its lead-in included.
WholePath(ids, target) == ids

\* report_cycle: the active path from the import's target on
FromTarget(ids, target) ==
    SubSeq(ids, CHOOSE i \in 1 .. Len(ids) : ids[i] = target, Len(ids))

\* An import that leads back into the active path: the whole search is given up.
FindCycle ==
    /\ phase = "visit" /\ AtImport
    /\ visited[Imported] = "visiting"
    /\ cycle' = FromTarget(Ids(path), Imported)
    /\ ordered' = << >>
    /\ phase' = "cyclic"
    /\ UNCHANGED <<imports, visited, path>> /\ UNCHANGED startVars

\* All imports of the innermost module were visited.
Leave ==
    /\ phase = "visit" /\ path # << >> /\ ~ AtImport
    /\ path' = Front(path)
    /\ visited' = [visited EXCEPT ![Innermost.id] = "visited"]
    /\ ordered' = Append(ordered, Innermost.id)
    /\ UNCHANGED <<imports, phase, cycle>> /\ UNCHANGED startVars

\* dependency_order returns; the compiler asks for the startup order.
Ordered ==
    /\ phase = "visit" /\ path = << >>
    /\ \A m \in Module : visited[m] # "unvisited"
    /\ phase' = "discover"
    /\ pending' = <<Entry>>
    /\ UNCHANGED graphVars /\ UNCHANGED <<leaves, branches, at, progressed, started>>
------------------------------------------------------------------------------
Seen == ToSet(leaves) \cup ToSet(branches)

\* The last pending module; its imports go on top of the worklist, seen or not.
Discover ==
    /\ phase = "discover" /\ pending # << >>
    /\ LET m == Last(pending) IN
       IF m \in Seen
       THEN pending' = Front(pending) /\ UNCHANGED <<leaves, branches>>
       ELSE /\ pending' = Front(pending) \o imports[m]
            /\ IF imports[m] = << >>
               THEN leaves' = Append(leaves, m) /\ UNCHANGED branches
               ELSE branches' = Append(branches, m) /\ UNCHANGED leaves
    /\ UNCHANGED graphVars /\ UNCHANGED <<phase, at, progressed, started>>

Discovered ==
    /\ phase = "discover" /\ pending = << >>
    /\ phase' = "drain"
    /\ UNCHANGED graphVars
    /\ UNCHANGED <<pending, leaves, branches, at, progressed, started>>

\* The leaves start first, the one found last before the others.
Drain ==
    /\ phase = "drain" /\ leaves # << >>
    /\ started' = Append(started, Last(leaves))
    /\ leaves' = Front(leaves)
    /\ UNCHANGED graphVars /\ UNCHANGED <<phase, pending, branches, at, progressed>>

Drained ==
    /\ phase = "drain" /\ leaves = << >>
    /\ phase' = "sweep"
    /\ UNCHANGED graphVars
    /\ UNCHANGED <<pending, leaves, branches, at, progressed, started>>

Initialized == ToSet(started)

\* Mutant of Ready: one import is enough.
ReadyForOne(m) == \E k \in 1 .. Len(imports[m]) : imports[m][k] \in Initialized

Ready(m) == ToSet(imports[m]) \subseteq Initialized

Remaining == ToSet(branches) \ Initialized

\* Mutant of Sweep: the flag the assertion reads is not set.
SweepSilently ==
    /\ phase = "sweep" /\ at <= Len(branches)
    /\ at = 1 => Remaining # {}
    /\ LET m == branches[at] IN
       IF m \notin Initialized /\ Ready(m)
       THEN started' = Append(started, m)
       ELSE UNCHANGED started
    /\ at' = at + 1
    /\ UNCHANGED graphVars /\ UNCHANGED <<phase, pending, leaves, branches, progressed>>

\* One branch of a sweep; a branch started in this sweep makes later ones ready.
Sweep ==
    /\ phase = "sweep" /\ at <= Len(branches)
    /\ at = 1 => Remaining # {}
    /\ LET m == branches[at] IN
       IF m \notin Initialized /\ Ready(m)
       THEN started' = Append(started, m) /\ progressed' = TRUE
       ELSE UNCHANGED <<started, progressed>>
    /\ at' = at + 1
    /\ UNCHANGED graphVars /\ UNCHANGED <<phase, pending, leaves, branches>>

\* The end of a sweep asserts that it progressed.
NextSweep ==
    /\ phase = "sweep" /\ at > Len(branches) /\ branches # << >>
    /\ progressed
    /\ at' = 1
    /\ progressed' = FALSE
    /\ UNCHANGED graphVars /\ UNCHANGED <<phase, pending, leaves, branches, started>>

Started ==
    /\ phase = "sweep" /\ at = 1
    /\ Remaining = {}
    /\ phase' = "done"
    /\ UNCHANGED graphVars
    /\ UNCHANGED <<pending, leaves, branches, at, progressed, started>>

Next ==
    \/ Root \/ Descend \/ Skip \/ FindCycle \/ Leave \/ Ordered
    \/ Discover \/ Discovered \/ Drain \/ Drained \/ Sweep \/ NextSweep \/ Started

Spec == Init /\ [][Next]_vars

\* Both algorithms are loops of one thread that nothing else can hold up.
FairSpec == Spec /\ WF_vars(Next)
------------------------------------------------------------------------------
\* Every module of the list comes once and after everything it imports.
Topological(list) ==
    /\ IsInjective(list)
    /\ \A i \in 1 .. Len(list) :
          ToSet(imports[list[i]]) \subseteq ToSet(SubSeq(list, 1, i - 1))

(***************************************************************************)
(* What the semantic passes rely on when they walk the modules in          *)
(* dependency order: everything a module imports was walked before it, and *)
(* no module is left out unless an import cycle stops the compilation.     *)
(***************************************************************************)
DependenciesFirst ==
    /\ Topological(ordered)
    /\ phase \notin {"visit", "cyclic"} => ToSet(ordered) = Module

(***************************************************************************)
(* What the diagnostic prints is a cycle: each listed module imports the   *)
(* next and the last one the first, with no lead-in and no repetition.     *)
(***************************************************************************)
CycleReal ==
    phase = "cyclic" =>
        /\ cycle # << >> /\ ordered = << >>
        /\ IsInjective(cycle)
        /\ \A i \in 1 .. Len(cycle) :
              cycle[(i % Len(cycle)) + 1] \in ToSet(imports[cycle[i]])

(***************************************************************************)
(* Global initializers run in the startup order, and may call into any     *)
(* module their own imports: its globals are initialized by then, and all  *)
(* modules are, once each, before main runs.                               *)
(***************************************************************************)
StartupSound ==
    /\ Topological(started)
    /\ phase = "done" => ToSet(started) = Module

\* Every program gets its orders or its diagnostic.
Terminates == <>(phase \in {"cyclic", "done"})
=============================================================================
