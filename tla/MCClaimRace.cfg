SPECIFICATION ConcurrentSpec
CONSTANTS
    Nodes = {n1}
    Procs = {p1}
    Devices = {d1}
    NoLease = NoLease
    LeaseTerm = 1
    MaxEpoch = 1
    Sessions = {s1}
    NumInputs = 2
    NoSession = NoSession
    KeyOf <- OwnKeys
    MaxPendingInputs = 2
    MaxFrameAttempts = 1
    MaxStream = 1
    MaxClaims = 1
    MaxEvents = 0
    Claimers = {c1}
    NoSnapshot = NoSnapshot
PROPERTIES
    StartsOnFreshFrame
CHECK_DEADLOCK FALSE
