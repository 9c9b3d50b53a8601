\* All programs of four modules with at most two imports each, cyclic ones included.
SPECIFICATION FairSpec
CONSTANTS
    N = 4
    MaxImports = 2
INVARIANTS
    DependenciesFirst
    CycleReal
    StartupSound
PROPERTY Terminates
CHECK_DEADLOCK FALSE
