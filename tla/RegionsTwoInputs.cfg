\* Functions of two parameters, whose regions have to agree or stay apart.
SPECIFICATION Spec
CONSTANTS
    g = g
    o1 = o1
    Obj = {g, o1}
    Global = g
    NoObj = NoObj
    Params = 2
    Locals = 1
    MaxDepth = 2
    Dialect = {"forward"}
INVARIANTS
    EntriesOutlive
    OneCallerRegion
    ResultsFit
