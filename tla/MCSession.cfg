SPECIFICATION FairSpec
CONSTANTS
    Senders = {g1, g2}
    PublicKeys = {1, 2}
    Sizes <- BoundarySizes
    MaxFrameSize <- FrameLimit
    Overhead <- SealOverhead
    CounterMod = 3
    MaxSends <- MostlyLeft
CHECK_DEADLOCK FALSE
INVARIANTS
    TypeOK
    KeysAgree
    NoNonceReuse
    DeliveredInOrder
PROPERTIES
    HandshakeEnds
    ChannelSpec
