SPECIFICATION TimedSpec
CONSTANTS
    L = L
    C = C
    I = I
    Clients = {L, C}
    IDs = {I}
    NoClient = NoClient
    NoID = NoID
    WireCap = 5
    MaxConnections = 2
    HeartbeatInterval = 2
    HeartbeatTimeout = 6
    MaxLag = 1
    MayFreeze = {L}
INVARIANTS
    TimedTypeOK
    DetectedInTime
PROPERTY
    NoFalseAlarm
