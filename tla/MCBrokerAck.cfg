SPECIFICATION FairSpec
CONSTANTS
    Clients = {c1, c2}
    IDs = {i1}
    NoClient = NoClient
    NoID = NoID
    WireCap = 1
    MaxConnections = 2
PROPERTY
    AckBeforeRelay
