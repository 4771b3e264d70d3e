SPECIFICATION WorkerSpec
CONSTANTS
    Nodes = {n1}
    Procs = {p1, p2}
    Devices = {d1}
    NoLease = NoLease
    LeaseTerm = 2
    MaxEpoch = 2
    Sessions = {s1}
    NumInputs = 1
    NoSession = NoSession
    KeyOf <- OwnKeys
    MaxPendingInputs = 1
    MaxFrameAttempts = 1
    MaxStream = 1
    MaxClaims = 2
    MaxEvents = 0
INVARIANTS
    EpochHeldOnce
    RowsFollowOwner
PROPERTIES
    NoRerun
    ExecutingFinishes
    OpensAfterOlderCalls
    ExpiryReleases
CHECK_DEADLOCK FALSE
