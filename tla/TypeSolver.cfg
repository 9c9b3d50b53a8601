\* Every order of calls over four nodes and two types: trees of rank two.
SPECIFICATION Spec
CONSTANTS
    a = a  b = b  c = c  d = d
    Node = {a, b, c, d}
    s = s  t = t
    Type = {s, t}
    NoType = NoType
SYMMETRY Symmetry
PROPERTIES
    Classes
