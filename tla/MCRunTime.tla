------------------------------ MODULE MCRunTime ------------------------------
(***************************************************************************)
(* Instances of RunTime for TLC.                                           *)
(***************************************************************************)
EXTENDS RunTime

CONSTANTS a, b

\* Four keys, three of them with one place of their own in a table of two
\* and of four, the last place of the table.
Hashes == [k \in {<<a>>, <<b>>, <<a, b>>, <<b, a>>} |-> IF k = <<b>> THEN 2 ELSE 3]

Written == [texts |-> {<<>>, <<a, b>>}, vectors |-> {<<>>, <<101, 102>>}]

Entry(keys) == [i \in DOMAIN keys |-> <<keys[i], 200 + i>>]

Programs ==
  { [made |-> <<<<"vector", <<>>>>, <<"vector", <<101, 102>>>>>>,
     calls |-> 3, objects |-> 3, regions |-> 2],
    [made |-> <<<<"string", <<a, b>>>>, <<"buffer", <<a>>>>>>,
     calls |-> 4, objects |-> 3, regions |-> 2],
    [made |-> <<<<"dict", Entry(<<<<a>>, <<b>>>>)>>>>, calls |-> 4, objects |-> 1, regions |-> 2],
    [made |-> <<<<"dict", Entry(<<<<a>>, <<b>>, <<a, b>>>>)>>>>,
     calls |-> 3, objects |-> 1, regions |-> 2],
    [made |-> <<<<"merged", <<>>>>, <<"list", <<101>>>>>>,
     calls |-> 6, objects |-> 2, regions |-> 1],
    [made |-> <<<<"table", Entry(<<<<a>>, <<a, b>>>>)>>, <<"text", <<a>>>>>>,
     calls |-> 4, objects |-> 2, regions |-> 1] }

Ends == {Omitted, -1, 0, 1, 2, 3}
=============================================================================
