------------------------------- MODULE SeedTree -------------------------------
(***************************************************************************)
(* The part of the seed compiler's syntax tree that the region check       *)
(* reads (ast.c), and the region specifications its nodes carry.  A tree   *)
(* is the sequence of its nodes in the order jik_collect_nodes visits      *)
(* them, so a node is named by its place, and its children by how far      *)
(* after it they start.                                                    *)
(*                                                                         *)
(* Types are kept only as far as the check asks: "composite" is a type     *)
(* jik_type_is_allocated holds of, "region" is Region, "plain" the rest.   *)
(* Operands of plain type that hold no call and no literal are left out.   *)
(***************************************************************************)
EXTENDS Integers, Sequences, SequencesExt

\* Where a value is allocated: how the destination is named (kind), whose region it
\* is (src), and the name of the parameter or variable that names it.
Unknown == [kind |-> "unknown", src |-> "unknown", region |-> ""]
Local == [kind |-> "local", src |-> "local", region |-> ""]
Global == [kind |-> "global", src |-> "foreign", region |-> ""]

\* The suffixes of a literal: none, [r], [.p] and @.
Plain == Local
InRegion(r) == [kind |-> "named", src |-> "unknown", region |-> r]
BesideOf(p) == [kind |-> "container", src |-> "unknown", region |-> p]
Implicit == [kind |-> "implicit", src |-> "unknown", region |-> ""]

KindKnown(s) == s.kind # "unknown"
SourceKnown(s) == s.src # "unknown"
Complete(s) == KindKnown(s) /\ SourceKnown(s)

------------------------------------------------------------------------------
(***************************************************************************)
(* Trees                                                                   *)
(***************************************************************************)

\* The nodes of a tree, its root first and then its children one after the other.
Collected(root, children) ==
  <<[root EXCEPT !.kids = [k \in DOMAIN children |->
       1 + Len(FlattenSeq(SubSeq(children, 1, k - 1)))]]>> \o FlattenSeq(children)

Node(op, ty, name) ==
  [op |-> op, ty |-> ty, name |-> name, spec |-> Unknown, auto |-> FALSE, binds |-> <<>>,
   kids |-> <<>>]

Written(op, at, children) ==
  Collected([Node(op, "composite", "") EXCEPT !.spec = at], children)
VectorNew(elements, at) == Written("vector", at, elements)
DictNew(keys, values, at) == Written("dict", at, keys \o values)
StructNew(values, at) == Written("struct", at, values)
VariantNew(payload, at) == Written("variant", at, <<payload>>)
SomeNew(value, at) == Written("some", at, <<value>>)
NoneNew(at) == Written("none", at, <<>>)
StringNew(at) == Written("string", at, <<>>)

Id(x, ty) == <<Node("id", ty, x)>>
Number == <<Node("plain", "plain", "")>>
LocalRegion == <<Node("here", "region", "")>>
RegionOf(p) == <<Node("regionof", "region", p)>>
TableLookup == <<Node("lookup", "composite", "")>>
Call(f, args, ty) == Collected(Node("call", ty, f), args)
Must(call) == Collected(Node("must", call[1].ty, ""), <<call>>)
Unwrap(e) == Collected(Node("unwrap", "composite", ""), <<e>>)
SubscriptGet(e) == Collected(Node("subscript", "composite", ""), <<e>>)
MemberAccess(e) == Collected(Node("member", "composite", ""), <<e>>)
Slice(e) == Collected(Node("slice", "composite", ""), <<e>>)
Ternary(e1, e2) == Collected(Node("ternary", e1[1].ty, ""), <<e1, e2>>)
Grouping(e) == Collected(Node("grouping", e[1].ty, ""), <<e>>)

Binding(op, binds, children) ==
  Collected([Node(op, "plain", "") EXCEPT !.binds = binds], children)
Block(statements) == Collected(Node("block", "plain", ""), statements)
Declare(x, e) == Binding("declare", <<<<x, e[1].ty>>>>, <<e, Id(x, e[1].ty)>>)
Assign(x, e) == Collected(Node("assign", "plain", x), <<e, Id(x, e[1].ty)>>)
SubscriptSet(c, e) == Collected(Node("subscript_set", "plain", ""), <<c, e>>)
MemberSet(c, e) == Collected(Node("member_set", "plain", ""), <<c, e>>)
Return(e) == Collected(Node("return", "plain", ""), <<e>>)
If(body) == Collected(Node("if", "plain", ""), <<body>>)
While(body) == Collected(Node("while", "plain", ""), <<body>>)
ForIn(x, ty, c, body) == Binding("for_in", <<<<x, ty>>>>, <<c, body>>)
ForInPair(x, y, ty, c, body) == Binding("for_pair", <<<<x, "composite">>, <<y, ty>>>>, <<c, body>>)
Case(x, ty, body) == Binding("case", <<<<x, ty>>>>, <<body>>)
Match(e, cases) == Collected(Node("match", "plain", ""), <<e>> \o cases)
Catch(stmnt, failed, passed) == Collected(Node("catch", "plain", ""), <<stmnt, failed, passed>>)

Param(x, ty, foreign) == [name |-> x, ty |-> ty, foreign |-> foreign]
Function(name, params, ret, statements) ==
  [name |-> name, params |-> params, ret |-> ret, extern |-> FALSE, nodes |-> Block(statements)]
ExternFunction(name, params, ret) ==
  [name |-> name, params |-> params, ret |-> ret, extern |-> TRUE, nodes |-> <<>>]

------------------------------------------------------------------------------
(***************************************************************************)
(* Reading a tree                                                          *)
(***************************************************************************)

Kid(ns, i, k) == i + ns[i].kids[k]
Kids(ns, i) == [k \in DOMAIN ns[i].kids |-> Kid(ns, i, k)]

IsAllocatedLiteral(n) ==
  n.op \in {"struct", "vector", "dict", "variant", "string", "some", "none"}

\* The values a literal is built from: of a dictionary, not the keys.
Values(ns, i) ==
  LET kids == Kids(ns, i) IN
  IF ns[i].op = "dict" THEN SubSeq(kids, Len(kids) \div 2 + 1, Len(kids)) ELSE kids

\* The builtins, those the region-safety check trusts, and those that take a region last.
Builtins == {"push", "pop", "copy", "concat", "error_msg", "print", "len"}
SafeBuiltins == Builtins \ {"push"}
TakesRegion(f, n, lastTy) ==
  CASE f = "concat" -> n > 0 /\ lastTy # "region"
    [] f = "copy" -> n = 1
    [] f = "error_msg" -> n = 0
    [] OTHER -> FALSE

FunctionNamed(fns, f) == CHOOSE k \in DOMAIN fns : fns[k].name = f

\* A call that leaves out the Region its callee takes last is given one.
NeedsRegion(fns, ns, i) ==
  LET n == Len(ns[i].kids) IN
  /\ ns[i].op = "call"
  /\ IF ns[i].name \in Builtins
     THEN TakesRegion(ns[i].name, n, IF n = 0 THEN "" ELSE ns[Kid(ns, i, n)].ty)
     ELSE LET params == fns[FunctionNamed(fns, ns[i].name)].params IN
          n + 1 = Len(params) /\ params[n + 1].ty = "region"

Injected(fns) ==
  [k \in DOMAIN fns |-> [fns[k] EXCEPT !.nodes =
     [i \in DOMAIN @ |-> [@[i] EXCEPT !.auto = NeedsRegion(fns, fns[k].nodes, i)]]]]

\* Nodes that must be given a region, those of them the check may be left without.
HasAllocSpec(fns, n) ==
  \/ IsAllocatedLiteral(n)
  \/ n.op = "call" /\ n.name \in {"concat", "copy", "error_msg"}
  \/ n.op = "call" /\ n.name \notin Builtins /\ ~ fns[FunctionNamed(fns, n.name)].extern
     /\ n.ty = "composite"
  \/ n.op \in {"ternary", "id"} /\ n.ty = "composite"

------------------------------------------------------------------------------
(***************************************************************************)
(* Giving a literal its region                                             *)
(***************************************************************************)

\* The specifications after literal i, everything it is built from included, goes to s.
RECURSIVE SetAllocSpec(_, _, _, _)
SetAllocSpec(ns, specs, i, s) ==
  LET SetChild(sofar, c) ==
        CASE IsAllocatedLiteral(ns[c]) -> SetAllocSpec(ns, sofar, c, s)
          [] ns[c].auto -> [sofar EXCEPT ![c] = s]
          [] OTHER -> sofar
  IN FoldLeft(SetChild, [specs EXCEPT ![i] = s], Values(ns, i))

\* What the parser leaves in the tree: a literal is given its suffix once it is read,
\* after the literals inside it.
ParsedSpecs(ns) ==
  LET Give(sofar, i) ==
        IF IsAllocatedLiteral(ns[i]) THEN SetAllocSpec(ns, sofar, i, ns[i].spec) ELSE sofar
  IN FoldLeft(Give, [i \in DOMAIN ns |-> Unknown], Reverse([i \in DOMAIN ns |-> i]))
==============================================================================
