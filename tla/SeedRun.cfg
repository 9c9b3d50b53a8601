SPECIFICATION Spec
CONSTANTS
  Programs <- Made
  MaxFrames = 4
  MaxTurns = 2
INVARIANTS NoDangling RegionsDeclared SafeStays StoresFit
PROPERTY Terminates
