SPECIFICATION FairSpec
CONSTANTS
    Workers = {w1, w2}
    NumDrivers = 2
PROPERTIES
    ShutdownCompletes
INVARIANTS
    ClosedAfterUse
