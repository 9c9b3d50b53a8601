\* Every small program over the operations that constrain each other both
\* ways, and families of larger ones for the rest.
SPECIFICATION Spec
CONSTANTS
    Programs <- ProgramsDef
    Guess <- GuessDef
    MaxNodes = 11
INVARIANTS
    StoredIsOnlyTyping
    RefusedIsUntypable
PROPERTIES
    Terminates
CHECK_DEADLOCK FALSE
