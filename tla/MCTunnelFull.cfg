SPECIFICATION TurnsFairSpec
CONSTANTS
    MaxStreams = 1
    MaxChunks <- Silent
    QueueCap = 1
    BrokerMayFail = FALSE
CHECK_DEADLOCK FALSE
PROPERTIES
    CloseTerminates
