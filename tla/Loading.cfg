\* Programs of up to three files, two of them in a package.
SPECIFICATION FairSpec
CONSTANTS
    main = main
    reader = reader
    csv = csv
    pkg = pkg
    Local = Local
    File <- FileDef
    Entry = main
    Root = {pkg}
    Home <- HomeDef
    MaxImports = 2
INVARIANTS
    EdgesFaithful
    LoadedComplete
    ConfinedIfRespected
PROPERTIES
    OriginKept
    Terminates
CHECK_DEADLOCK FALSE
