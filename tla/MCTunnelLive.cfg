SPECIFICATION FairSpec
CONSTANTS
    MaxStreams = 1
    MaxChunks <- OneFromConnector
    QueueCap = 3
    BrokerMayFail = FALSE
PROPERTIES
    TunnelEnds
    EndReachesPeer
