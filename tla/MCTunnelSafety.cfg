SPECIFICATION Spec
CONSTANTS
    MaxStreams = 1
    MaxChunks <- TwoFromConnector
    QueueCap = 1
    BrokerMayFail = TRUE
CONSTRAINT
    TwoOnAStream
INVARIANTS
    TypeOK
    InOrder
    PumpsMatched
    ConnectorCleared
    NothingForgotten
