SPECIFICATION Spec
CONSTANTS
    MaxStreams = 1
    MaxChunks <- OneFromConnector
    QueueCap = 2
    BrokerMayFail = TRUE
INVARIANTS
    ListenerCleared
