---------------------------- MODULE ModuleLoader ----------------------------
(***************************************************************************)
(* load_modules (modules/module_loader.jik) with add_source (source.jik)   *)
(* and resolve_path (modules/import_path.jik): sources are discovered from *)
(* the entry file on, each is tokenized and parsed once, and its imports   *)
(* are resolved to source ids in the order they are written.               *)
(*                                                                         *)
(* What the files contain is not fixed beforehand: reading a file picks    *)
(* its imports one by one, which is any program since a file is read once. *)
(* A path is a model value; a file lies under at most one import root (the *)
(* library directory or the src directory of a package).                   *)
(***************************************************************************)
EXTENDS Naturals, Sequences

CONSTANTS
    File,           \* normalized paths
    Entry,          \* the path given on the command line
    Root,           \* the roots of jik/ and pkg/ imports
    Local,          \* the origin of everything else
    Home,           \* the root a file lies under, or Local
    MaxImports      \* bound on the use declarations of one file

ASSUME LoaderAssumption ==
    /\ Entry \in File
    /\ Local \notin Root
    /\ Home \in [File -> Root \cup {Local}]
    /\ MaxImports \in Nat

(***************************************************************************)
(* A use declaration: "rooted" is jik/.. or pkg/.., "relative" and         *)
(* "absolute" are paths.  named: its alias is a usable and unused name.    *)
(***************************************************************************)
Use == [kind : {"relative", "absolute"}, file : File, named : BOOLEAN]
  \cup [kind : {"rooted"}, file : {f \in File : Home[f] # Local}, named : BOOLEAN]

VARIABLES
    readable,   \* the files that exist
    sources,    \* SourceManager.sources: path and origin by source id
    modules,    \* the resolved imports of every module taken so far, by source id
    seen,       \* the paths the current module has imported
    errors,     \* whether a diagnostic was recorded
    status      \* what it does next: start, taking, importing, or how it ended: loaded, failed

vars == <<readable, sources, modules, seen, errors, status>>

\* The ids of the loaded sources, of the modules, and the one being worked on.
Ids == 1 .. Len(sources)
Current == Len(modules)

\* add_source: the id of a path, and the sources once it is loaded.
IdOf(path, list) == CHOOSE i \in 1 .. Len(list) : list[i].path = path
Known(path, list) == \E i \in 1 .. Len(list) : list[i].path = path

\* Mutant of Added: every import loads its file again.
AddedAgain(path) == Append(sources, [path |-> path, origin |-> Local])

Added(path) ==
    IF Known(path, sources) THEN sources
    ELSE Append(sources, [path |-> path, origin |-> Local])

\* The origin resolve_path finds for a use declaration of a source.
ResolvedOrigin(source, use) ==
    CASE use.kind = "rooted" -> Home[use.file]
      [] use.kind = "relative" -> source.origin
      [] use.kind = "absolute" -> Local

\* Mutant of Resolves: nobody checks where a relative path of a library file leads.
ResolvesAnywhere(source, use) == TRUE

\* require_within: a relative import stays under the root of its file.
Resolves(source, use) ==
    use.kind = "relative" /\ source.origin # Local => Home[use.file] = source.origin

\* Mutant of Reclassified: the last import decides.
ReclassifiedAlways(old, new) == new

\* A source keeps the origin of a root once it has one.
Reclassified(old, new) == IF old = Local \/ new # Local THEN new ELSE old

Init ==
    /\ readable \in SUBSET File
    /\ sources = << >>
    /\ modules = << >>
    /\ seen = {}
    /\ errors = FALSE
    /\ status = "start"

\* The entry file; an unreadable one is thrown to the caller.
Start ==
    /\ status = "start"
    /\ IF Entry \in readable
       THEN sources' = Added(Entry) /\ status' = "taking"
       ELSE status' = "failed" /\ UNCHANGED sources
    /\ UNCHANGED <<readable, modules, seen, errors>>

\* The next source is tokenized and parsed.
Take ==
    /\ status = "taking" /\ Current < Len(sources)
    /\ modules' = Append(modules, << >>)
    /\ seen' = {}
    /\ status' = "importing"
    /\ UNCHANGED <<readable, sources, errors>>

\* A lexical or syntax error ends the compilation before the module exists.
Reject ==
    /\ status = "taking" /\ Current < Len(sources)
    /\ errors' = TRUE
    /\ status' = "failed"
    /\ UNCHANGED <<readable, sources, modules, seen>>

\* The path cannot be resolved, or the module imported it already.
Refuse(use) ==
    /\ status = "importing"
    /\ ~ Resolves(sources[Current], use) \/ use.file \in seen
    /\ errors' = TRUE
    /\ UNCHANGED <<readable, sources, modules, seen, status>>

\* The import is resolved, but its file cannot be read.
Miss(use) ==
    /\ status = "importing"
    /\ Resolves(sources[Current], use) /\ use.file \notin seen
    /\ use.file \notin readable
    /\ seen' = seen \cup {use.file}
    /\ errors' = TRUE
    /\ UNCHANGED <<readable, sources, modules, status>>

\* The import gets its source id; a bad alias is recorded and the import kept.
Connect(use) ==
    /\ status = "importing" /\ Len(modules[Current]) < MaxImports
    /\ Resolves(sources[Current], use) /\ use.file \notin seen
    /\ use.file \in readable
    /\ LET list == Added(use.file)
           id == IdOf(use.file, list)
           origin == ResolvedOrigin(sources[Current], use)
       IN /\ sources' = [list EXCEPT ![id].origin = Reclassified(@, origin)]
          /\ modules' = [modules EXCEPT ![Current] =
                            Append(@, [target |-> id, kind |-> use.kind, file |-> use.file])]
    /\ seen' = seen \cup {use.file}
    /\ errors' = (errors \/ ~ use.named)
    /\ UNCHANGED <<readable, status>>

\* Mutant of EndOfImports: the errors of the last module are forgotten.
EndUnchecked ==
    /\ status = "importing"
    /\ status' = IF Current < Len(sources) /\ errors THEN "failed"
                 ELSE IF Current < Len(sources) THEN "taking" ELSE "loaded"
    /\ UNCHANGED <<readable, sources, modules, seen, errors>>

\* Mutant of EndOfImports: off by one, the loader waits for a source after the last.
EndPastLast ==
    /\ status = "importing"
    /\ status' = IF errors THEN "failed"
                 ELSE IF Current <= Len(sources) THEN "taking" ELSE "loaded"
    /\ UNCHANGED <<readable, sources, modules, seen, errors>>

\* No more use declarations: go on with the next source, if there is one.
EndOfImports ==
    /\ status = "importing"
    /\ status' = IF errors THEN "failed"
                 ELSE IF Current < Len(sources) THEN "taking" ELSE "loaded"
    /\ UNCHANGED <<readable, sources, modules, seen, errors>>

Next ==
    \/ Start
    \/ Take
    \/ Reject
    \/ \E use \in Use : Refuse(use) \/ Miss(use) \/ Connect(use)
    \/ EndOfImports

Spec == Init /\ [][Next]_vars

\* A file is finite and the loop over its declarations goes on until its end.
FairSpec == Spec /\ WF_vars(Next)
------------------------------------------------------------------------------
\* P holds of every resolved import; its arguments are the importer and the edge.
ForEachEdge(P(_, _)) ==
    \A m \in 1 .. Len(modules) : \A k \in 1 .. Len(modules[m]) : P(m, modules[m][k])

(***************************************************************************)
(* Every path has one source id and keeps it, so an edge resolved early    *)
(* still names the file that was written when all sources are known: what  *)
(* every later pass indexes its tables by.                                 *)
(***************************************************************************)
EdgesFaithful ==
    ForEachEdge(LAMBDA m, edge :
        /\ edge.target \in Ids
        /\ \A i \in Ids : sources[i].path = edge.file <=> i = edge.target)

(***************************************************************************)
(* The assertions dependency_order starts with: every source has a module  *)
(* at its id and every edge names one of them.  Nothing was dropped on the *)
(* way: the entry is first, and every other source is the first import of  *)
(* it by an earlier module.                                                *)
(***************************************************************************)
LoadedComplete ==
    status = "loaded" =>
        /\ ~ errors
        /\ Len(modules) = Len(sources)
        /\ ForEachEdge(LAMBDA m, edge : edge.target \in 1 .. Len(modules))
        /\ sources[1].path = Entry
        /\ \A i \in Ids \ {1} :
              \E m \in 1 .. (i - 1) : \E k \in 1 .. Len(modules[m]) : modules[m][k].target = i

(***************************************************************************)
(* The origin of a source "constrains relative imports from this file"     *)
(* (source.jik): in a loaded program the relative imports of a library or  *)
(* package file stay under its root.                                       *)
(***************************************************************************)
Confined ==
    status = "loaded" =>
        ForEachEdge(LAMBDA m, edge :
            edge.kind = "relative" /\ sources[m].origin # Local
                => Home[edge.file] = sources[m].origin)

\* No file under a root is named by its path from a file outside that root.
RootsRespected ==
    /\ Home[Entry] = Local
    /\ ForEachEdge(LAMBDA m, edge :
          Home[edge.file] # Local =>
              /\ edge.kind # "absolute"
              /\ edge.kind = "relative" => Home[sources[m].path] = Home[edge.file])

(***************************************************************************)
(* In a program that respects the roots, whatever the order in which its   *)
(* files were discovered, every file has the origin of the place it is in  *)
(* by the time its imports are resolved, so library and package files are  *)
(* confined to their roots.                                                *)
(***************************************************************************)
ConfinedIfRespected ==
    RootsRespected =>
        /\ \A i \in Ids : sources[i].origin = Home[sources[i].path]
        /\ Confined

(***************************************************************************)
(* A source that was recognized as a library or package file stays one:    *)
(* a later import by path neither frees its imports from their root nor    *)
(* moves it to another root.                                               *)
(***************************************************************************)
OriginKept ==
    [][\A i \in Ids : sources[i].origin # Local => sources'[i].origin = sources[i].origin]_vars

\* Loading ends, also for programs that import each other in circles.
Terminates == <>(status \in {"loaded", "failed"})
=============================================================================
