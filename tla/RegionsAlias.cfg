\* A region-safe function that makes a name stand for two parameters.
SPECIFICATION Spec
CONSTANTS
    g = g
    o1 = o1
    o2 = o2
    Obj = {g, o1, o2}
    Global = g
    NoObj = NoObj
    Params = 2
    Locals = 1
    MaxDepth = 2
    Dialect = {"alias"}
SYMMETRY Symmetry
INVARIANTS
    EntriesOutlive
