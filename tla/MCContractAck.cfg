SPECIFICATION ConcurrentSpec
CONSTANTS
    Nodes = {n1}
    Procs = {p1}
    Devices = {d1}
    NoLease = NoLease
    LeaseTerm = 1
    MaxEpoch = 2
    Sessions = {s1}
    NumInputs = 1
    NoSession = NoSession
    KeyOf <- OwnKeys
    MaxPendingInputs = 1
    MaxFrameAttempts = 2
    MaxStream = 2
    MaxClaims = 1
    MaxEvents = 0
    Claimers = {c1}
    NoSnapshot = NoSnapshot
INVARIANTS
    AcksWhileActive
CHECK_DEADLOCK FALSE
