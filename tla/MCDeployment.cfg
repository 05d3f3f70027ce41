SPECIFICATION SystemSpec
CONSTANTS
    RetrySettings <- Settings
    AttemptCap = 5
    InitialDelay = 1000
    MaxDelay = 30000
    Factor = 2
    Jitter = 25
    Confs <- SomeConfs
    MinCount = 3
    To4 <- V4Of
    NoIP = NoIP
    Country <- CountryOf
    Upper <- UpperOf
    NoCode = NoCode
    Absent = Absent
    Address = "a"
    MaxFaults = 2
INVARIANTS
    SystemTypeOK
    RetriesExact
    OneClient
    BackoffLaw
    OnlyFullList
    BlockedNeverServed
PROPERTIES
    CancelEndsLoop
    Recovers
CHECK_DEADLOCK FALSE
