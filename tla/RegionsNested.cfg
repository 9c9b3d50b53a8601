\* Calls three deep with literals built for foreign parameters.
SPECIFICATION Spec
CONSTANTS
    g = g
    o1 = o1
    Obj = {g, o1}
    Global = g
    NoObj = NoObj
    Params = 1
    Locals = 1
    MaxDepth = 3
    Dialect = {"mixed"}
INVARIANTS
    TypeOK
    NoDangling
    EntriesOutlive
    SourcesSound
    MixedStaysForeign
