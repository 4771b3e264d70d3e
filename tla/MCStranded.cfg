SPECIFICATION WorkerSpec
CONSTANTS
    Nodes = {n1}
    Procs = {p1}
    Devices = {d1}
    NoLease = NoLease
    LeaseTerm = 2
    MaxEpoch = 1
    Sessions = {s1}
    NumInputs = 1
    NoSession = NoSession
    KeyOf <- OwnKeys
    MaxPendingInputs = 2
    MaxFrameAttempts = 2
    MaxStream = 2
    MaxClaims = 1
    MaxEvents = 0
PROPERTIES
    ExecutingFinishes
CHECK_DEADLOCK FALSE
