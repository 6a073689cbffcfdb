SPECIFICATION FairSpec
CONSTANTS
    p1 = p1
    p2 = p2
    a = a
    b = b
    c = c
    k1 = k1
    k2 = k2
    Protocols = {p1, p2}
    Commands = {a, b, c}
    UnknownProtocol = unknown
    NoCommand = none
    Codes <- TwoButtons
    Corrupt = {}
    Rejected = {}
    RepeatProtocols = {p1}
    Short <- NoShortIntervals
    MinDelta0 = 1
    RepeatMax = 2
    MaxDelta = 2
    Keys = {k1, k2}
    NoKey = nokey
    KeyOf <- KeyTable
    NoData = nodata
    Blocking = FALSE
    SlowHost = FALSE
    Suspends = TRUE
    Resets = FALSE
    Learning = FALSE
PROPERTIES
    TransferEnds
