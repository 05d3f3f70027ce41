SPECIFICATION FairSpec
CONSTANTS
    Clients = {c1}
    IDs = {i1}
    NoClient = NoClient
    NoID = NoID
    WireCap = 1
    MaxConnections = 1
PROPERTY
    StopTerminates
