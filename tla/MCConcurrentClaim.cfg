SPECIFICATION ConcurrentSpec
CONSTANTS
    Nodes = {n1}
    Procs = {p1}
    Devices = {d1}
    NoLease = NoLease
    LeaseTerm = 1
    MaxEpoch = 2
    Sessions = {s1}
    NumInputs = 2
    NoSession = NoSession
    KeyOf <- OwnKeys
    MaxPendingInputs = 2
    MaxFrameAttempts = 2
    MaxStream = 2
    MaxClaims = 1
    MaxEvents = 2
    Claimers = {c1}
    NoSnapshot = NoSnapshot
CONSTRAINT FewTurns
INVARIANTS
    OutcomeOnce
    FrameOwedOrShown
    ReleaseDrains
    LogMeetsContract
PROPERTIES
    OverlapNeverReruns
CHECK_DEADLOCK FALSE
