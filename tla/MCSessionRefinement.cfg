SPECIFICATION Spec
CONSTANTS
    Nodes = {n1}
    Procs = {p1}
    Devices = {d1}
    NoLease = NoLease
    LeaseTerm = 1
    MaxEpoch = 2
    Sessions = {s1, s2}
    NumInputs = 2
    NoSession = NoSession
    KeyOf <- OwnKeys
    MaxPendingInputs = 2
    MaxFrameAttempts = 1
    MaxStream = 2
    MaxClaims = 1
    MaxEvents = 2
CONSTRAINT FewTurns
INVARIANTS
    SerialInputs
PROPERTIES
    ImplementsFencedDevice
CHECK_DEADLOCK FALSE
