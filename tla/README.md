# A formal model of the Jik compiler

Jik is a small statically typed language that is compiled to C. Its composite
values live in *regions*: every function call has a local region that is
destroyed when the call ends, globals live in a global region, and a function
may allocate in a region of its caller. The compiler, written in Jik itself
(`src/src/jik`), infers types, decides for every allocation which region it goes
to, rejects programs whose references could outlive a region, and emits C that
uses the run-time core in `src/support/include/core.h`. It is compiled first by
the *seed* (`src/src/seed`), a compiler of the same language in C, with its own
scanner, parser and region check.

This directory holds TLA+ modules of the parts of that system where a mistake
would be hard to find by testing, the TLC configurations that check them, and
proofs for TLAPS. Paths are relative to the repository (`src/`).

## 1. Inventory

The pipeline of a compilation is

    load modules -> order them -> resolve names -> check main -> infer types
      -> check types -> check regions -> emit C -> run the C compiler

one pass after the other, in one thread. A pass records diagnostics and the
next one starts only if there are none. The passes communicate through the
program record (`program.jik`): sources and modules indexed by *source id*, the
two module orders, the syntax trees whose nodes the passes annotate, the shared
type store.

| component | state | operations | what is hard | what makes it correct |
|---|---|---|---|---|
| module loader (`modules/module_loader`, `source`, `modules/import_path`) | source list, path to id, origins, modules with edges | `add_source`, `resolve_path`, `resolve_imports`, `load_modules` | the list grows while it is walked; ids and origins are read before all files are known; partial failure | ids stable and unique, edges name the file written, complete or failed, imports confined to their root |
| module graph (`modules/module_graph`) | visit states, active path, order; worklist, leaves, branches | `dependency_order`, `initialization_order` | giving up in the middle of a search; a loop that must progress because of another traversal | topological orders, true cycles, progress |
| name resolution (`semantic/resolution`) | scopes, bindings, symbol tables | declare, look up, resolve calls and types | shadowing, forward references across modules | every name bound to one visible declaration |
| type solver and inference (`semantic/typing/solver`, `constraints`, `inference`, `rules`) | slots with parent, rank and bound, `changed`, `failed`; deferred nodes | bind, unify, solve sweep, validate, store | results depend on the order of deferred nodes; nodes are appended during a sweep; results stored only on success | a typing that satisfies all constraints, if one exists; termination |
| type checker (`semantic/typing/typecheck`) | none of its own | one walk | breadth only | agreement with the inferred types |
| region safety inference (`semantic/regions/region_safety`) | one mark per function | sweep until nothing changes | recursion, order of the sweep | the greatest consistent marking |
| region analysis (`semantic/regions/regions`, `literal_rules`, `tables`) | a region source per node, an allocation target per literal, `foreign_argument_literal` | declare, assign, store, call, return, retarget | facts written down at one statement are used when others run; classes stand for regions; exemptions | no reference outlives its region |
| C emission (`codegen/*`) | output, body context | one emitter per construct | when a region is created and destroyed, evaluation order, error paths | emitted code does what the analysis assumed |
| run-time core (`support/include/core.h`) | regions with blocks, statistics, lifetime tree; strings, buffers, vectors, dictionaries | allocate, free, push, extend, slice, set, rehash, clear | growth, sizes at the limit of `size_t`, rehash during iteration, words of different owners in one block | containers implement their abstract data types, pieces never overlap, the books balance |
| lexer, parser (`lexer`, `parser`) | a cursor | scan, parse | none beyond breadth | |
| initialization checks, types and builtins | tables | walks, interning | | |
| semantic driver, compiler, command line, native build, test runner | phases, temporary workspaces, child processes | commands | cleanup on every way out, files checked and then written | |
| process library (`jiklib/process.jik`) | three pipes, a child process, two reader threads on Windows | `run`, `capture`: spawn, drain, wait | processes and threads around bounded pipes; every system call may fail with the rest half done | no deadlock, all output and the exit status, a failed start told from a failed program, nothing left open |
| other libraries (`jiklib`) | | C wrappers | | |
| seed scanner (`seed/lexer.c`) | position, line and column, tokens | one token at a time | where a token ends, what is refused, lines across strings and embedded C | longest lexeme of the grammar, right lines |
| seed parser (`seed/parser.c`) | token cursor, platform and profile in force, program | one top-level item at a time | line ends inside and outside brackets, precedence, the reach of directives | the tree that was written down |
| seed region check (`seed/regcheck.c`, nodes in `ast.c`) | specification per node, name table per function, safe marks | walks repeated until nothing is learnt, sweeps, a second walk for local regions | guesses revised after they were relied on; recursion | what is accepted leaves no dangling reference |
| seed containers (`alloc.c`, `vec.h`, `htab.h`, `charbuf.c`) | arena chunks, vectors, tables | as in the run-time core | the same, with other growth rules | the same |
| seed C emission (`codegen.c`) | output | one emitter per node | regions are opened by one rule and named by another | every region named is there |
| seed type checker, semantics, driver | types, scopes, files | walks and sweeps, commands | breadth | |

The hazards of this code, each at its line and with the properties that cover
it, are the `hazards` of `PROJECT.json`; those without a property say why.

## 2. The modules and how they fit

| module | what it is |
|---|---|
| `ModuleLoader`, `MCModuleLoader` | the loader as a machine that takes one source after the other and resolves one import at a time |
| `ModuleLoaderProofs` | proofs that ids, edges and origins are right and nothing is left out |
| `ModuleGraph` | both orders as step machines over every possible import graph |
| `ModuleGraphProofs` | proofs of the orders, of the cycles, and of the code's own assertion |
| `TypeClasses` | what the type solver promises: classes of nodes with at most one type |
| `TypeSolver`, `MCTypeSolver` | the solver's trees of slots, which implement `TypeClasses` |
| `TypeSolverProofs` | the proof that they do |
| `Inference`, `MCInference` | collection, sweeps and saving of types, on `TypeClasses` |
| `InferenceProofs` | proofs that what is saved is the only typing, and what is refused has none |
| `SafetyInference` | the sweeps that decide which functions are region-safe |
| `SafetyInferenceProofs` | its proofs |
| `Regions`, `MCRegions` | region analysis and running program in lock step |
| `RegionsSoundness` | type correctness of `Regions`, its inductive invariant and the soundness theorems |
| `ChildProcess` | pipes, the child from fork to exec, and the programs that write |
| `Capture` | `run` and `capture` beside them, on both hosts |
| `CaptureProofs` | proofs of what a call returns, and of what it leaves behind |
| `RegionHeap` | regions, blocks, statistics and lifetime tree of the run-time core, and the seed's arena, word by word |
| `Containers` | strings, buffers, vectors and dictionaries of both laid out in that memory |
| `Collections` | what they promise: objects with contents that live as long as their region |
| `RunTime`, `MCRunTime` | a program calling all of it, with a `foreach` whose body does the same; implements `Collections` |
| `RunTimeProofs` | proofs that blocks, statistics and lifetime tree agree, that the pieces of live objects stay apart, that what they hold is what `Collections` promises, and that a `foreach` sees it all |
| `Lexer`, `Parser` | the seed's scanner, one token an action, and parser, one item an action |
| `Frontend`, `MCFrontend` | both in a row against the grammar: lexemes, and how a tree is written down |
| `SeedTree` | the nodes the region check reads, and the specifications they start with |
| `SeedRegions` | the region check of the seed, one visited node or one pass an action |
| `SeedRun`, `MCSeedRun` | the programs it accepts, executed as `codegen.c` emits them |

The modules compose by what one guarantees and the next assumes:

* `ModuleLoader` ends with `LoadedComplete` and `EdgesFaithful`: a module per
  source id, the entry first, every other one imported by an earlier one, every
  edge in range, no path imported twice by one module. That is the set
  `Programs` in which `ModuleGraph` starts.
* `ModuleGraph` delivers a dependency order (`DependenciesFirst`), which is the
  order in which `SafetyInference` numbers its functions. `SafetyInference`
  proves its result independent of that order.
* `TypeSolver` implements `TypeClasses` (the property `Classes`, by the refinement
  mapping `Known`, which forgets the trees), and `Inference` calls the operators of
  `TypeClasses` where the code calls the solver.
* `SafetyInference` ends with `GreatestMarking`, so marked functions call marked
  functions only and their bodies contain no unsafe statement. That is the
  guard `f.safe => c.safe` of `AcceptsCall`, and `UnsafeExpression` and
  `SafeStore` in the guards of `Regions`.
* `Regions` takes a region for granted that gives out objects and frees them all
  at once. `RegionHeap` is that region as it is made, and `RunTime` shows that
  what was put in is there until the region is freed.
* `RunTime` in turn holds only objects whose region is alive, which is what the
  region analysis is for.
* `Parser` reads the tokens `Lexer` leaves in `tokens`; `Frontend` composes them.
  `SeedRun` starts from `SeedRegions` having accepted. The trees of `SeedTree` are
  not those of `Parser`: they have been through the type checker, which is not
  modelled, and keep only what the region check reads.

### Regions

The static analysis and the program it accepts are one machine. An action is a
statement; its guard is everything the analysis asks of that statement, its
effect what the emitted C does. The static facts about a name (`src`, `local`)
depend on its declaration only, so a frame carries them along with the run-time
object. A behaviour is a path through some accepted program, and since the
function called, its signature and its statements are chosen as they are needed,
all of them are there.

| model | code |
|---|---|
| `heap[o].region`, `Released`, `Free` | the region an object was allocated in; `jik_region_free` |
| `heap[o].ref` | the one reference an object holds: element, field, payload or dictionary value |
| `heap[o].mixed` | ghost: built as a literal with entries the analysis did not compare (`foreign_argument_literal`) |
| `frame[d].env[n].src` | `node.region_source` of the declaration of `n` |
| `frame[d].env[n].local` | `local_value` of `region_safety.jik` |
| `frame[d].safe` | `is_region_safe` of the function running in frame `d` |
| `frame[d].result`, `resultSrc` | the binding that takes the call's result and the source `check_shared_call` wrote for the call |
| `Declare`, `Assign`, `Store` | `LOCAL_DECL`, `ASSIGN` to a name; `ASSIGN` to a field or element and `push` |
| `Enter` with `AcceptsCall`, `SharedCall`, `LiteralContext` | a call: `check_shared_call`, retargeting of its literal arguments, the parameters' sources (`analyze_function_regions`) |
| `Return`, `Leave` | `return e` (value, then cleanup, then binding), and every exit without a value, `fail` and propagation included |
| `Accepts`, `SameRegion`, `Retargeted`, `Target` | `analyze_expression_regions` with `check_literal_regions`, `same_region`, `retarget`, `write_allocation_target` |

Abstractions: an object holds at most one reference, so several fields are
several objects' worth of behaviours; literals have at most one entry, which is
a name (a nested literal is retargeted with its container and is a later store
in the model); a call passes at most one literal; loops and branches are the
free choice of the next statement; patterns and `foreach` bind a name like the
declaration of a field read; a copy is deep, so its root stands for it. Every
frame has a local region, which `block_needs_local_region` elides in the code
when nothing allocates there. The argument vector of `main`, which has a region
of its own and class CALLER, is left out.

`Dialect` restricts programs to constructs the analysis accepts and the model
shows unsound in some combination (see section 5). It is a parameter and not a
change of the analysis: with all constructs the guards are those of the code.

### ModuleLoader

The source list is `sources`, a module's resolved edges are `modules[i]`, and
`seen` is `seen_paths`. What is in a file is chosen when it is read, one `use`
declaration at a time, with the outcomes the code has: refused (unresolvable
path or repeated import, `Refuse`), unreadable (`Miss`), connected (`Connect`,
with a bad alias recorded as an error and the edge kept). `Reject` is a lexical
or syntax error. A path is a model value: its normalized spelling. `Home` is the
root a file lies under. The source ids count from 1.

### ModuleGraph

The recursion of `visit` is the explicit stack `path`, with the index of the
import each frame is at. `Descend`, `Skip`, `FindCycle` and `Leave` are the
branches of its loop. `Discover` to `Started` are the three loops of
`initialization_order`, with its two vectors and the progress flag the code
asserts. All import graphs of the loader's shape are initial states.

### TypeSolver and TypeClasses

`slots`, `slotOf`, `changed` and `failed` are the fields of `Solver` and the
`inference_slot` of the nodes, slots counting from 1. `Representative` is the
first loop of `find_representative`, as the end of the least set closed under
parents, and `Compressed` the second. `bind_type` and `unify_slots` are an
action for each of their ways out that changes something; what returns early
only compresses, which is `Look`. Who calls them in which order is open.
`TypeClasses` has the classes themselves, and its `Typed` and `Joined` say in a
line each what `bind_type` and `unify_slots` do for their callers.

### Inference

| model | code |
|---|---|
| `program`, `nodes` | the syntax tree as parsed, and with receiver calls resolved and region operands appended |
| `classes` | the solver |
| `Collect` with `Collected(n)` | what `initialize` and `collect_constraints` record for node `n` |
| `Deduce` with `Deduced(n)` | a visit of `solve`: one `Deduce...` operator for each `solve_...` function |
| `Resolve`, `RefuseReceiver` | `resolve_receiver` during a sweep, its constraints and the builtin's rule included |
| `NextSweep`, `StopSolving` | the loop of `solve` |
| `Validate` | `validate_results` and `store_inferred_types` |

A node's `op` stands for every construct with the same constraints: `leaf` for
literals, parameters and declarations, `join` for what has its operand's type,
`assign` for assignments and returns. One record type with a field and one
variant type with a tag stand for the declared types, since rules only ask
which kind a type is and what a member's type is. Nodes are visited in one
order; in the code collection follows the statements and sweeps the node ids,
module by module, which no property depends on. `requires_success`, literals'
destinations, tables, slices' bounds and the other builtins bind constants to
operands and add no rule. `Judgement` and `Typings` are the reference: all types
a program can have under the rules of the language, found by trying types for
the nodes nothing determines.

### SafetyInference

`Examine` is one function of a sweep and sees the marks as they are at that
moment, those taken away earlier in the sweep included. A program is given by
what the sweep reads of it: which functions are candidates, whose bodies store
unsafely whatever they call, who calls whom.

### Capture and ChildProcess

`ChildProcess` is the environment: pipes of bounded capacity, who holds their
write ends, and processes that write a unit at a time to a stream of their
choice, wait while its pipe is full, close streams, leave a descendant that
inherits the streams, end, or are killed. Of it only the branch after `fork`
(`StartFails`, `ReportErrno`, `GiveUp`, `Exec`) is code of this repository; the
rest is modelled from what the callers rely on. `Capture` adds the caller.

| model | code |
|---|---|
| `host`, `call` | which half of the `#ifdef` is compiled; `run` or `capture_raw` |
| `reader`, `writers[p]` with `"parent"` | the descriptors or handles the caller has open |
| `pc` | where the caller is: `start`, `forked`, `drain` (in `drain_pipes`), `errno` (reading `exec_err_pipe`), `threads`, `abort` (a thread was not created), `wait`, `join`, `finish`, `done` |
| `Refuse`, `OpenPipe`, `PipeFails`, `Fork`, `ForkFails`, `CloseWriteEnds` | up to the closing of the write ends |
| `Select`, `Read`, `DrainFails` | the loop of `drain_pipes`; `ready` are the set bits of `rfds` not yet looked at |
| `ReadErrno`, `ErrnoFails` | the read of `child_exec_errno`, which waits for the child to exec or to report |
| `StartThreads`, `Abort`, `ThreadReads`, `ThreadFails`, `Join` | the Windows half |
| `Wait`, `WaitFails`, `Complaint`, `Finish` | `waitpid` or `WaitForSingleObject` with `GetExitCodeProcess`; the checks after it in their order |

A system call that is interrupted is repeated at once and is no step. Bytes are
counted, not carried: a stream is a number of units, and since a pipe keeps
their order, equal numbers mean the same bytes. The program of a POSIX caller
that is told of a broken pipe lives on, which is the harder case; that it never
comes to that is `NeverBroken`. `ran` and `killed` are ghosts.

### RegionHeap, Containers and RunTime

Memory is counted in words and every word of a block is kept in
`heap.blocks[b].words`, so a piece that is too small or not aligned shows in what
somebody else reads. A pointer is a block and an offset. Operators take the heap
and return it, with the C function's result in `heap.ptr`; `heap.died` stands for
`jik_die`. A checked sum or product that wraps is `TooBig`.

| model | code |
|---|---|
| `RegionNew`, `RegionAlloc`, `RegionRealloc`, `RegionFree`, `AlignUp` | `jik_region_new`, `_alloc`, `_realloc`, `_free`, `jik_region_align_up` |
| `heap.stats`, `heap.tree` | `JikRegionStats` and the lifetime tree, which stops at `TreeMax` entries |
| `NewChunk`, `ArenaAlloc`, `ArenaRealloc` | `alloc.c` |
| object kinds `string`, `buffer`, `vector`, `dict` | the structures of `core.h` |
| kinds `text`, `list`, `merged`, `table` | `JikCharBuffer`, a vector of `vec.h`, one that is only ever extended, and `htab.h` of the seed |
| `EnterRegion`, `LeaveRegion` | what an emitted function does first and last |
| `StartLoop`, `VisitNext`, `loop` | the emitted `foreach` and the seed's iterators: the position in `loop.at` is compared with the container as it is now |
| `asked`, `answer` | ghosts: the call made and what it returned, for `Collections` |

Every kind of object is made, grown, sliced, cleared, read and written by the
actions that have its name in `core.h`; one action is one call. A call with an
index or a size out of range ends the program, and `Collections` says when it may.
Options are values and are in `Containers` for the lookups that return them. `NullAssumption` says that `NULL`
is no place in a block, and `ProgramsAssumption` that texts and vectors are sequences and the limits are numbers.
`extend` of the seed's vectors leaves the capacity as it was, so a vector that is
extended must never be pushed to; `compiler.c` (621, 634) does so with one kind of
vector, which is `merged`.

### Lexer, Parser and Frontend

A text is a sequence of atoms: characters, one or two of each group the scanner
tells apart, and the words it compares as wholes. `pos`, `lineno` and `colno` are
the fields of `JikLexer`; a string's end, a comment's end or the end of embedded C
is found by search, as there. `Failed` is every way to a syntax error, and the
scanner that has left the text is `"overrun"`. In `Parser` an operator stands for
each `jik_parser_parse_...` function; it takes the token position and the depth
of containers and gives the node and the next position, or `Fail`, since each
error ends the compiler. A node is a record whose `k` names its type; `build` holds
the directives in force.

`Frontend` is the reference. `ScannedAsTheGrammarSays` states lexemes with sets of
texts (`IsLexeme`), `Text` writes a tree down with parentheses, suffixes and the
places where a line may be broken, in two layouts: with no blank that is not
needed, and with comments and blanks everywhere. A program is given by its items
or as a text alone.

### SeedTree, SeedRegions and SeedRun

| model | code |
|---|---|
| `fns[k].nodes`, in the order of `Collected` | the nodes of a function as `jik_collect_nodes` lists them |
| `specs[k][i]`, `tab[k]` | `JikAllocSpec` of a node; `spec_tab` of a function |
| `ResolveImplicit`, `MarkGlobals`, `CheckOrphans`, `CheckSemantics` | the passes before the walk |
| `Visit...` | one branch of `jik_check_region_integrity` at one node |
| `FirstWalkOver`, `Examine`, `SweepAgain`, `CheckImplicit` | `jik_classify_region_safe_functions` between the first walk and the others |
| `WalkAgain`, `PostCheck`, `Classify` | the loop on `jik_collect_unknown_allocs`, the last check, `jik_classify_functions` |
| `Execute`, `Evaluate`, `Invoke` | `jik_codegen_emit_statement`, `_emit_expression`, calls: where each literal goes (`Destination` is `get_alloc_dest`), which frames open a region |

A node the walk does nothing at is passed over in the step of the next one at
which it does. Operands of plain type without a call or a literal are left out.
The execution is an operator that gives all worlds a function may end in, with
branches, elements and the number of turns left open.

## 3. Runs

| run | question | states |
|---|---|---|
| `regions_nested` | Does anything outlive its region when calls nest three deep and mixed literals are built for foreign parameters? No. | 143,782 |
| `regions_two_inputs` | Are classes of sources enough when a function has two parameters, also foreign ones handed on? Yes. | 18,347 |
| `regions_alias` | Is it still so with a name that stands for two parameters, which the other runs exclude? No, see section 5. | |
| `safety_inference` | Is the result of the sweeps the greatest consistent marking, for every program of three functions? Yes. | 277,248 |
| `loading` | Ids, edges, origins and the end of loading, for every program of three files of which two are a package. | 320,242 |
| `type_solver` | Do the trees implement the classes, for every order of calls over four nodes and two types? Yes. | 4,118 up to symmetry |
| `inference` | Are saved types the only possible ones, and refused programs untypable? Yes, for 5,991 programs. | 66,326 |
| `module_graph` | Orders, cycles, the end for every graph of four modules with up to two imports. | 68,681 |
| `process` | Are captured results complete, failures told apart, and does every call end, whatever the program does with its streams? Yes, but for a read that fails while the child waits for room (section 5). | 466,283 |
| `frontend` | Does the seed's parser give back the tree that was written down, and its scanner the lexemes of the grammar, on the right lines? Yes. | 304,529 |
| `runtime` | Do containers in blocks of a few words behave like collections, also inside `foreach`, and do the books balance? Yes. | 55,581 |
| `seed_regions` | Can a program the seed's region check accepts reach something freed, or name a region that is not there? Not these; see section 5 for wider ones. | 21,517 |

Bounds, and why they are enough to meet the cases that matter:

* `Regions`. Two objects (one of them the global one; three in `regions_alias`)
  are enough to form a reference, and one reference across regions is what the
  invariants forbid. Three frames are needed for a value to be handed on twice,
  two parameters for two inputs to disagree. One local, since names are
  compared in pairs only with parameters. Freed objects are reused, so no
  bound on how much a program allocates. Deeper and wider programs are the
  proofs' business.
* `ModuleLoader`. Three files are the least with a file, a file it imports and
  a third that both can name; two imports per module let an origin change
  between them. Files may be missing or rejected at every point.
* `ModuleGraph`. Four modules hold a lead-in to a cycle of three, diamonds, and
  two branches of which the later-discovered one must start first. Two
  imports per module include self-imports.
* `TypeSolver`. Four nodes are the least that give a tree of rank two, whose
  paths are long enough to be compressed; two types are enough to disagree.
  Nodes and types are symmetric.
* `Inference`. Three nodes hold every pair of rules that feed each other through
  a shared operand, a fourth an assignment that brings a type from elsewhere,
  backwards in node order, so that a second sweep is needed. The families add
  conditionals, all operators, dictionaries, patterns, and receivers whose
  type comes from a receiver call later in the text. `Guess` are the types
  tried for undetermined nodes; types that occur in the program or its result
  are tried as well. `MaxNodes` is what the largest program grows to.
* `Capture`. Pipes of two units and three units a stream, so that a writer can be
  held up in either stream, a read can take less than there is, and a stream can
  be longer than its pipe. One descendant, which can hold any of the streams
  after the child has gone.
* `SafetyInference`. Three functions: a cycle of two and a function that
  decides its fate, in every order of the sweep.

* `RunTime`. Sizes are scaled down: a block holds ten words, a vector's element
  two, an address has to be even and `SIZE_MAX` is 95, so that each limit is
  reached in a few calls: a block that is full, one that a request just fits, a
  request larger than a block, a size that wraps, a table that grows, a lifetime
  tree that is full. Four keys of which three collide at the last place of the
  table make probing go round. `Starts` are six families of programs, each on one
  or two kinds of objects, with three to six calls.
* `Frontend`. Expressions of depth two hold every pair of an operator and an
  operator in one of its places; statements two deep every pair of blocks; pairs of
  files with pairs of directives every reach of a directive. Texts of three atoms
  over all groups of characters, and of four over those that begin something, hold
  every token of up to two characters next to any other.
* `SeedRegions`. A function of two or three statements: each of sixteen expressions
  bound to a name and then used in each of eighteen statements, with a second
  use after it where the first may move a literal. Helpers store, read, allocate
  and are foreign. Runs are followed four frames deep, and loops for two turns.

Deadlock is checked in the runs of `Regions`, where some statement can always
run. It is in that of `TypeSolver`, where a caller
may always look at a node, and in that of `SeedRun`, where a check that is done stays done. It is not in the others, whose last state is a finished load, ordering,
inference or call; `Terminates` and `Finishes` say that they stop nowhere else.

Fairness. `ModuleLoader`, `ModuleGraph`, `Inference` and `SafetyInference` are loops of one
thread that nothing else can hold up, so weak fairness of `Next` is what the
hardware gives. In the loader it also says that a file has an end: the number
of `use` declarations is bounded by `MaxImports`, and a refused one is not
repeated for ever. In `Capture` the caller, each reader thread and the child
before exec go on when they can (weak fairness of each, since the host schedules
every thread). Programs are assumed to end or at least to go on as long as they
are not waiting for room in a pipe, without which no call could end; written units are bounded by
`MaxOutput`. The region check of the seed is a call as well; its fairness is
spelt out as steps without end or `stage = "done"`, which is weak fairness of `Next`
where a step is enabled until then, as the check of deadlocks shows. Nothing has to fail, except a read on a handle that was closed under its
thread, and no signal has to come. `Regions`, `TypeSolver`, `RunTime` and
`Frontend` have no liveness property and no fairness: a Jik program need not
end, the solver does what it is asked, and scanner and parser are bounded by
their text.

Every property has a mutant in `PROJECT.json`: a plausible mistake in the code
(a dropped guard, an off-by-one, a missing reset) under which TLC finds it
violated. The mutants are the operators marked as such in the modules; no
specification uses them.

## 4. Proofs

| theorem | statement | assumes |
|---|---|---|
| `RegionsSoundness!TypeCorrect` | `Spec => []TypeOK` | `ConstantsAssumption` |
| `RegionsSoundness!RegionSafety` | `Spec => []NoDangling` | and `SoundDialect` |
| `RegionsSoundness!OwnRegion` | `Spec => []EntriesOutlive` | and `SoundDialect` |
| `RegionsSoundness!SourcesCorrect` | `Spec => [](SourcesSound /\ ResultsFit)` | and `SoundDialect` |
| `RegionsSoundness!ResultsInPlace` | `Spec => []ResultsFit` | and `SoundDialect` |
| `RegionsSoundness!OneRegionPerCall` | `Spec => []OneCallerRegion` | and `SoundDialect` |
| `RegionsSoundness!MixedLiteralsStayForeign` | `Spec => []MixedStaysForeign` | and `SoundDialect` |
| `TypeSolverProofs!TypeCorrect` | `Spec => []TypeOK` | `NoTypeAssumption` |
| `TypeSolverProofs!ImplementsClasses` | `Spec => Classes` | `NoTypeAssumption` |
| `InferenceProofs!StoredOnlyTyping` | `Spec => []StoredIsOnlyTyping` | `ProgramsAssumption`, `GuessAssumption` |
| `InferenceProofs!RefusedUntypable` | `Spec => []RefusedIsUntypable` | `ProgramsAssumption`, `GuessAssumption` |
| `SafetyInferenceProofs!TypeCorrect` | `Spec => []TypeOK` | `NAssumption` |
| `SafetyInferenceProofs!InferenceCorrect` | `Spec => [](GreatestMarking /\ NeverTooStrict)` | `NAssumption` |
| `ModuleLoaderProofs!TypeCorrect` | `Spec => []TypeOK` | `LoaderAssumption` |
| `ModuleLoaderProofs!EdgesStayFaithful` | `Spec => []EdgesFaithful` | `LoaderAssumption` |
| `ModuleLoaderProofs!LoadsEverything` | `Spec => []LoadedComplete` | `LoaderAssumption` |
| `ModuleLoaderProofs!RootsConfine` | `Spec => []ConfinedIfRespected` | `LoaderAssumption` |
| `ModuleLoaderProofs!OriginsStay` | `Spec => OriginKept` | `LoaderAssumption` |
| `ModuleGraphProofs!TypeCorrect` | `Spec => []TypeOK` | `GraphAssumption` |
| `ModuleGraphProofs!OrderSound` | `Spec => []DependenciesFirst` | `GraphAssumption` |
| `ModuleGraphProofs!CyclesAreReal` | `Spec => []CycleReal` | `GraphAssumption` |
| `ModuleGraphProofs!StartsInOrder` | `Spec => []StartupSound` | `GraphAssumption` |
| `ModuleGraphProofs!SweepsProgress` | `Spec => []SweepProgresses` | `GraphAssumption` |
| `CaptureProofs!TypeCorrect` | `Spec => [](TypeOK /\ Bounded)` | `PipeAssumption` |
| `CaptureProofs!ResultsComplete` | `Spec => []Complete` | `PipeAssumption` |
| `CaptureProofs!StartsReported` | `Spec => []StartReported` | `PipeAssumption` |
| `CaptureProofs!LeavesNothing` | `Spec => []NothingLeft` | `PipeAssumption` |
| `CaptureProofs!PipesNeverBroken` | `Spec => []NeverBroken` | `PipeAssumption` |
| `RunTimeProofs!InvariantHolds` | `Spec /\ budget.kinds \subseteq FlatKinds => []PlacedInv` | `SizesAssumption`, `NullAssumption`, `ProgramsAssumption` |
| `RunTimeProofs!MemoryAccounted` | `Spec /\ budget.kinds \subseteq FlatKinds => []Accounted` | the same |
| `RunTimeProofs!MemoryApart` | `Spec /\ budget.kinds \subseteq FlatKinds => []PiecesApart` | the same |
| `RunTimeProofs!PromiseKept` | `Spec /\ Alive /\ budget.kinds \subseteq FlatKinds => KeepsPromise` | the same |
| `RunTimeProofs!LoopsComplete` | `Spec /\ budget.kinds \subseteq FlatKinds => ForeachComplete` | the same |

They hold for any number of objects, parameters, locals, functions, nodes,
types, programs, files and modules, any depth of calls, any size of the pipes and any amount of output; those of `RunTimeProofs`
for any alignment, size of blocks and arena chunks, `SIZE_MAX`, size of the lifetime tree,
literals, hash function and programs. `SoundDialect` excludes the constructs of section 5: no aliasing of
parameters in a region-safe function, no foreign Region parameter, and not both
mixed literals and forwarded foreign values.

*Regions.* None of the invariants is inductive alone: that a store keeps
references within a region needs the sources to be right, which after a call
needs the results to fit, which needs the caller values of the callee to share
one region, which is where its callers' shared-argument checks come in; and all
of them need mixed literals to stay out of reach. The inductive invariant `Inv`
is type correctness, `HeapGood` (the heap's references, for an innermost frame
`d`) and `FrameGood(d)` for every active frame: what the analysis claims of the
names of `d`, and what it promised the frame below about the result. The step
lemmas follow the code: expressions first (`EvaluationSound`: what an accepted
expression yields is in a region its source allows), then one lemma per action.
`EnterSound` is the heart: it turns the caller's checks into the callee's
assumptions. `FramePreserved` and `ReleaseSound` say why other frames do not
notice: a frame's names only refer to regions of lower depth, so freeing the
innermost region cannot reach them.

*SafetyInference.* `IInv` adds to `NeverTooStrict` that the functions behind the
sweep are fine as long as the sweep changed nothing (`SweepSound`). At the end
of a sweep without change the marks are consistent, and no consistent set lost
a mark, so they are the greatest.

*TypeSolver.* The invariant `Inv` adds to `TypeOK` that the slots are a `Forest`:
ranks rise from child to parent and have a bound. Without that a root need not
exist, nor be the only one above a slot, and `Representative` would say
nothing. On a forest it is characterised by `RepresentativeIs`: any function
that is constant from child to parent and fixed at the roots is the
representative. That is how each change of the trees is understood
(`CompressedTree`, `BoundTree`, `LinkedTree`, `AppendedTree`): the lemma names
the function and checks it on one edge at a time, instead of following paths.
`Above` is defined as a least set so that its induction is an instance of the
definition. `Compressing`, `Binding`, `Merging` and `Allotting` say what each
kind of step does to the roots and types of nodes, and from them follow both
that `Inv` is inductive and that every step is one of `TypeClasses` under the
mapping `Known` (`NextKnown`).

*Inference.* A typing gives every node a type, that of the rules for a node that
follows from others. `Truthful` says that the solver knows
nothing that is not so in every typing, and that a program with a typing is not
refused: each `Deduce...` operator has a lemma that its steps hold in every typing
in which what it read holds. That alone gives `RefusedIsUntypable`. For the other direction
`Constrained` says that what was collected is so in the solver
unless it failed, `ReceiversKnown` that a call was resolved for a record
that has the function, and `Swept` that at the nodes a sweep without change has passed
nothing can be learned: they were looked at with the solver as it is now, since the
steps only ever add (`Grows`). So when the last sweep is over
every rule is at rest, and by `Validate` every node with a slot has a type; a rule at rest between types that are known is
one that holds, so the result is a typing (`ResultTyping`), the one `Completed` makes
of its free nodes. That there is no other is `Truthful` again
(`ResultOnly`). `NodesKept` says how far the nodes of a sweep may differ from
the program: a receiver call that has been resolved, a region appended for it.
`ProgramsAssumption` says what parser and name resolution guarantee (operands
are earlier nodes that have types, calls have functions) and that `MaxNodes` leaves room for
what is appended; `GuessAssumption` that the types tried are types.

*ModuleLoader.* An edge is a source id, resolved when the list of sources is
still growing. `IInv` says why it stays right: no two sources have one path
(`PathsDistinct`), an edge names the source of its file (`TargetsNamed`), every
source but the entry is the target of an edge of an earlier module
(`Discovered`), and the module at work is one of the list (`Worked`). `OriginsReal` and `Respected` follow an origin from the import that
gave it to the imports it decides. `OriginKept` is a step property and needs
only that `add_source` never overwrites.

*ModuleGraph.* The search is understood by its path: what is being visited is on it,
once (`OnPath`), each frame has stepped past the import that leads to the next
(`Leads`), and what it has stepped past otherwise was visited (`Behind`). So a
module left behind has its imports in the list (`LeaveInv`), and the path from
the target of a closing import on is a cycle (`FindCycleInv`). In
`initialization_order` the worklist holds what is missing (`Closed`); when it is
empty, the least module not found would be imported by one that was
(`AllFound`). `Passed` says what a sweep without progress has seen, and
`SweepsProgress` meets it with the other traversal: the branch that is first in
dependency order among those that wait was ready. That theorem is about the assertion in
the code, which `NextSweep` has as its guard; no run checks it by name, and
`Terminates` needs it.

*Capture.* `IInv` follows the control of the caller on both hosts (`Route`), the
reader threads (`Threads`, `Alone`), who holds which end of which pipe at every
point (`ReadEnds`, `WriteEnds`, `ExecPipe`), and the units: what a program has
written to a stream is what was read and what is still in the pipe (`Streams`,
`Balance`). `Ended` and `Results` tie the ways a call ends to the failures seen. With
them `Complete` says that at the end of a stream nobody can write to it any more and
the pipe is empty.

*RunTime.* That no piece overlaps another depends on what the words in memory say: a vector
is grown by the capacity in its head, so one head that is wrong sends the next call into
another object. `PlacedInv` therefore has two halves. `Sound` is about the heap alone: blocks
are well-formed and used up to an aligned place, and the books agree (`BlocksOwned`,
`StatsRight`, `TreeRight`, whose conjunction is `Accounted`); it holds also of a program that
has died. `WellPlaced` is about the objects of a live one: each has a live region, the words
of its head and data lie in the used part of blocks of that region, aligned and with the size its
head says (`FlatLies`), and what one object occupies (`FlatFoot`) no other does. The lemmas follow
the layers of `core.h`. `RegionAlloc` returns a place nobody used, of a block of the
region it was asked for, and `Store` into it changes nothing else
(`Extends`, which names the words that a step may change). On them rests
one lemma for each operation of `Containers`, of one of three forms: it creates an object
(`FlatCreates`), changes one within its own words and new ones (`FlatChanges`), or reads.
The first two also say what the object holds afterwards (`Creates`, `Changes`), as an operation on
the sequence it held (`Value`). The lemmas for the actions of `RunTime` need no more than the form. A region freed takes its blocks with
it, which no object of another region lies in. Sums that wrap are where the bounds come from:
an object that lies in a block has a size below `SIZE_MAX`, or the call had died.
`Doubling` of a capacity and of a chunk are recursive functions, whose values are shown to
exist by the least counterexample.

`PromiseKept` is the refinement: `Holding`, `Homes` and `Depth` are what the refinement mapping reads
out of memory, and `PlacedStep` shows for each action that it maps to the step of `Collections`
that has its name, or to `Exhausted`. Two facts carry it. An object's own call writes the words that its new value
is read from, which is arithmetic on elements of `ElemSize` words (`Nth`, `CellsPut`); and all other objects
read as before, since what they occupy is apart from what is written (`HoldsOn`,
`HoldsOnward`, `HoldsStay`). A program that could not be given its first objects has ended before it
called anything, while `Collections` begins alive; the theorem leaves that out by `Alive`, which is about the first
state. `LoopInv` says that what a loop has seen is what its object begins with, as long as
its body only added at the end (`loop.calm`), and `LoopsComplete` that it is everything when the loop ends.

The theorems cover programs on strings, buffers and vectors (`FlatKinds`). `budget.kinds` is
chosen at the start and names the kinds a program uses. Dictionaries, whose keys are pieces
of their own that a rehash moves between tables, and the containers of the seed, which are
not checked against `SIZE_MAX`, stay with TLC.

Model-checked only: liveness (`Terminates`, `Finishes`) everywhere, the other kinds of objects of
`RunTime`, and `Frontend` and `SeedRun` altogether.
The trees of `Parser` and `SeedRegions`
are recursive over data, out of reach of TLAPS, and so are the properties of `Frontend`
and `SeedRun`.

## 5. Where the code and its documents disagree

Shown by a run:

* `regions_alias`. A region-safe function may bind a local to one parameter,
  assign another parameter to it, and push a literal through the name:
  `unsafe_block` looks only at assignments to fields and elements, and
  `same_region` compares classes. The literal goes to the region of the
  parameter the name was declared from, the store to the other one, and the
  function is called with arguments of two regions. A program of this shape is
  accepted by the compiler built from this source and reads freed memory.

Stated in the models, without a run of their own:

* A vector or dictionary literal built directly for a foreign parameter may mix
  regions. The callee may pass that parameter on, and if it is the only shared
  argument, a callee that retains it is accepted (`regions.jik:315`). With
  `Dialect = {"mixed", "forward"}` and three frames `EntriesOutlive` fails.
* The same comes of a foreign parameter of type `Region`: `shared_argument`
  exempts foreign parameters of every type, but in the callee a foreign `Region`
  still has class CALLER and is a place to allocate in (`regions.jik:308` and
  809-811, against "all `Region` arguments in one call must be in the same
  region" in the memory management chapter). `Dialect` names the construct
  `foreignregion` and every passing run leaves it out.
* A package file that is first imported by its path, and by its package name
  afterwards, has its own imports resolved as those of a project file and is
  called a package file in the end (`module_loader.jik:50`, against the comment at
  `source.jik:15`). `ConfinedIfRespected` therefore assumes `RootsRespected`.
* When `drain_pipes` fails (in `read`, `select` or for want of memory) the caller
  first waits for the child and then reports (`process.jik:785`). The read ends are
  still open, so a child that waits for room in its pipe gets no error and
  waits for ever, and so does the caller. On Windows a reader thread that fails
  leaves its handle open until the wait for the process is over, with the same
  effect. `Finishes` names this as the only way not to end (`Abandoned`). Without a full pipe
  the failure is reported, but on POSIX the read ends are forgotten and stay open,
  which `NothingLeft` exempts (`readOk`).

In the seed, which is frozen:

* Three kinds of programs pass its region check and leave a dangling reference: a
  parameter is stored into a composite global, or given in one call with it (against
  the same-region rule, chapter 8 of the overview, line 153); a parameter is assigned
  to a name that stands for another one, as above; and a name is used again in a
  sibling block, since `spec_tab` has one entry a name and function. `MCSeedRun`
  leaves these out.
* A literal as first argument with a destination of its own is not compared with
  the others (`regcheck.c`, the loop of `jik_post_check_region_integrity` starts at
  the second, and takes what is asked of them from the first that is no literal). A function that returns only the result of a call of itself is refused
  ("could not infer region"). A composite in parentheses has no rule and is an
  internal error where one is asked for.
* `V.a{}` of a variant whose payload has a default shares one payload node between
  all its uses (`semantic.c` 1325-1355), so that two uses in different regions are
  refused.
* A comma after the last entry of a dictionary is refused (`parser.c` 231-249,
  against `docs/grammar.md:552-554`), and so is one after the last field of a struct
  literal when a line ends there. `Text` writes neither.
* `try x := try f():` is parsed as a call that both propagates and must succeed.
* The scanner reads past the terminator when `'` is the last character, leaves the column at 0
  after embedded C, so that `token.c:253` computes with -1, does not count a newline
  between the quotes of a character literal, locates `::`, `->`, `==` and `!=` after themselves, and fails on a text without a newline. The parser follows a
  null token at the end of the text inside a construct; the model has `Fail` there.
* A file is not closed off from the next: an item whose end is missing goes on in it.

In the run-time core, a `foreach` over a dictionary to which its body adds a key may
skip entries or give them twice, since a rehash moves them; `ForeachComplete` holds
for loops whose body lets it be (`loop.calm`). `htab_set` of the seed grows the table also for a key that is
there.

## 6. Not modelled, and the plan

* `Emission` of the compiler: error flow of `try`, `must` and propagation, cleanup on every
  exit, evaluation order, and `block_needs_local_region` against the places the
  emitter allocates locally, as `SeedRun` does for the seed.
* `Driver`: phases and the error gate, build workspaces and their removal on every way out
  (`run.jik:74`), the test runner's destination, which is checked first and written
  later (`test.jik:88`).
* Name resolution, initialization checks and the type checkers of both compilers:
  walks over a tree with one answer a node. The scanner and parser of the compiler
  read the same grammar as the seed's, which are modelled.
* Printing, help, diagnostics' text and the C library wrappers have no state worth a model.
* Proofs next: of dictionaries and of the seed's containers in `RunTime`.
