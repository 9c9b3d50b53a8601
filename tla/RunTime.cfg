SPECIFICATION Spec
CONSTANTS
  SizeMax = 95
  Align = 2
  DefaultBlock = 10
  BlockHeader = 3
  ArenaStart = 8
  TreeMax = 2
  Null = Null
  Junk = Junk
  ElemSize = 2
  TableStart = 2
  ListStart = 2
  Nul = Nul
  Omitted = Omitted
  a = a
  b = b
  Hash <- Hashes
  Starts <- Programs
  BlockSizes = {0, 24}
  Literals <- Written
  Bounds <- Ends
INVARIANTS PiecesApart Accounted
PROPERTIES KeepsPromise ForeachComplete
CHECK_DEADLOCK FALSE
