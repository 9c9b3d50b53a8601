\* All programs of three functions: every call graph, recursion included.
SPECIFICATION FairSpec
CONSTANT N = 3
INVARIANTS
    GreatestMarking
PROPERTY Terminates
CHECK_DEADLOCK FALSE
