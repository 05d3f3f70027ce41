SPECIFICATION Spec
CONSTANTS
    Clients = {c1, c2, c3}
    IDs = {i1, i2}
    NoClient = NoClient
    NoID = NoID
    WireCap = 1
    MaxConnections = 3
SYMMETRY Symmetry
CONSTRAINTS
    ServerRuns
    ThirdIsNew
INVARIANTS
    TypeOK
    LinksPaired
    NoGhosts
    RelayIsolation
    NoOrphanedListener
    SlotsMatchHandlers
    OnceHolderRuns
PROPERTIES
    RouterLifecycle
    RoomsSpec
