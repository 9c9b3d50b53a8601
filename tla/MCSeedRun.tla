------------------------------ MODULE MCSeedRun ------------------------------
(***************************************************************************)
(* Instances of SeedRun for TLC: a function f of two or three statements   *)
(* over what main gives it, with helpers that store, read, return and      *)
(* allocate, and a global it may read.                                     *)
(***************************************************************************)
EXTENDS SeedRun

C == "composite"
P == Id("p", C)
Q == Id("q", C)
X == Id("x", C)
G == Id("g", C)
R == Id("r", "region")

\* Helpers: an unsafe store, reads only, a foreign parameter, a new value.
Helpers ==
  <<Function("put", <<Param("c", C, FALSE), Param("v", C, FALSE)>>, "plain",
       <<Call("push", <<Id("c", C), Id("v", C)>>, "plain")>>),
    Function("look", <<Param("c", C, FALSE), Param("d", C, FALSE)>>, "plain",
       <<Declare("m", MemberAccess(Id("c", C))), Call("print", <<Id("m", C)>>, "plain")>>),
    Function("mix", <<Param("v", C, TRUE), Param("c", C, FALSE)>>, C,
       <<Call("push", <<Id("c", C), Id("c", C)>>, "plain"), Return(Id("c", C))>>),
    Function("make", <<Param("s", "region", FALSE)>>, C,
       <<Return(VectorNew(<<>>, InRegion("s")))>>),
    ExternFunction("host", <<Param("c", C, FALSE)>>, "plain")>>

Main ==
  Function("main", <<>>, "plain",
    <<Declare("a", StructNew(<<StringNew(Plain)>>, Plain)),
      Declare("b", VectorNew(<<Id("a", C)>>, Plain)),
      Call("f", <<Id("a", C), Id("b", C), LocalRegion>>, "plain")>>)

Expressions ==
  {VectorNew(<<>>, Plain), StructNew(<<StringNew(Plain)>>, BesideOf("p")), P, MemberAccess(P),
   VectorNew(<<StringNew(Plain)>>, InRegion("r")), Call("make", <<>>, C), Call("make", <<R>>, C),
   Call("copy", <<P>>, C), Ternary(P, VectorNew(<<>>, Plain)), SomeNew(P, Implicit),
   DictNew(<<StringNew(Plain)>>, <<P>>, Plain), Unwrap(SomeNew(Slice(Q), BesideOf("q"))),
   Must(Call("make", <<RegionOf("p")>>, C)), TableLookup, G, Call("concat", <<P, Q>>, C)}

Statements ==
  {MemberSet(P, X), MemberSet(X, P), SubscriptSet(P, StructNew(<<StringNew(Plain)>>, Plain)),
   SubscriptSet(X, VectorNew(<<X>>, Plain)), Return(X), Call("put", <<P, X>>, "plain"),
   Call("look", <<X, P>>, "plain"), Declare("y", Call("mix", <<X, P>>, C)),
   Declare("y", Call("mix", <<VectorNew(<<P, X>>, Plain), P>>, C)),
   Call("put", <<StructNew(<<>>, InRegion("r")), X>>, "plain"),
   ForIn("z", C, P, Block(<<Call("push", <<X, Id("z", C)>>, "plain")>>)),
   Match(X, <<Case("w", C, Block(<<MemberSet(P, Id("w", C))>>))>>),
   Assign("x", VectorNew(<<>>, Plain)),
   ForInPair("key", "z", C, X, Block(<<SubscriptSet(P, Id("z", C))>>)),
   Catch(Declare("y", Call("make", <<>>, C)), Block(<<Return(Call("error_msg", <<>>, C))>>),
         Block(<<Call("host", <<Id("y", C)>>, "plain")>>)),
   Call("f", <<X, Q, R>>, "plain"), Call("f", <<P, VectorNew(<<X>>, Plain), R>>, "plain"),
   While(Block(<<Call("push", <<X, Call("pop", <<X>>, C)>>, "plain")>>))}

\* A literal that was judged local and moves later; a second store; an exit.
Afterwards ==
  {MemberSet(P, X), Return(X), Return(VariantNew(X, Plain)), Call("put", <<X, Q>>, "plain")}

Body(e, statements) ==
  [functions |-> <<Main, Function("f", <<Param("p", C, FALSE), Param("q", C, FALSE),
       Param("r", "region", FALSE)>>, "plain", <<Declare("x", e)>> \o statements)>> \o Helpers,
   globals |-> {"g"}]

\* A function whose result comes from nowhere but itself.
Endless ==
  [Body(Call("again", <<>>, C), <<>>) EXCEPT !.functions = Append(@,
     Function("again", <<>>, C, <<Declare("y", Call("again", <<>>, C)), Return(Id("y", C))>>))]

\* Storing a parameter into a global, which the check lets pass.
IntoGlobal(e, s) ==
  /\ e \in {G, TableLookup}
  /\ s \in {MemberSet(X, P), ForIn("z", C, P, Block(<<Call("push", <<X, Id("z", C)>>, "plain")>>))}

Made ==
  {Body(es[1], <<es[2]>>) : es \in {es \in Expressions \X Statements : ~ IntoGlobal(es[1], es[2])}}
    \cup {Body(e, <<s, t>>) : e \in {VectorNew(<<>>, Plain), P, Call("make", <<>>, C)},
                              s \in Statements, t \in Afterwards}
    \cup {Endless}

==============================================================================
