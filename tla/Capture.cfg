\* Both hosts, both calls, every failure; pipes of two units, three units a stream.
SPECIFICATION Spec
CONSTANTS
    Capacity = 2
    MaxOutput = 3
INVARIANTS
    Complete
    StartReported
    NothingLeft
    NeverBroken
PROPERTIES
    Finishes
CHECK_DEADLOCK FALSE
