SPECIFICATION FairSpec
CONSTANTS
    p1 = p1
    p2 = p2
    a = a
    b = b
    c = c
    k1 = k1
    k2 = k2
    Protocols = {p1, p2}
    Commands = {a, b, c}
    UnknownProtocol = unknown
    NoCommand = none
    Codes <- DistinctCodes
    Corrupt = {}
    Rejected = {}
    RepeatProtocols = {}
    Short <- NoShortIntervals
    MinDelta0 = 3
    RepeatMax = 3
    MaxDelta = 4
    Keys = {k1, k2}
    NoKey = nokey
    KeyOf <- KeyTable
    NoData = nodata
    Blocking = FALSE
    SlowHost = FALSE
    Suspends = FALSE
    Resets = FALSE
    Learning = FALSE
INVARIANTS
    TypeOK
    NoStuckKey
PROPERTIES
    NothingOverwritten
    HostAlternates
    EventuallyKeyUp
