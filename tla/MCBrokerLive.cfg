SPECIFICATION FairLinkedSpec
CONSTANTS
    L = L
    C = C
    I = I
    Clients = {L, C}
    IDs = {I}
    NoClient = NoClient
    NoID = NoID
    WireCap = 1
    MaxConnections = 2
PROPERTIES
    CloseReturns
    SlotReturned
