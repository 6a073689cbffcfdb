SPECIFICATION EventsSpec
CONSTANTS
    p1 = p1
    p2 = p2
    a = a
    b = b
    c = c
    Protocols = {p1, p2}
    Commands = {a, b, c}
    UnknownProtocol = unknown
    NoCommand = none
    NoCode = nocode
    Codes <- DistinctCodes
    Corrupt = {}
    Rejected = {}
    RepeatProtocols = {}
    Short <- ShortFirstIntervals
    MinDelta0 = 3
    RepeatMax = 3
    MaxDelta = 5
INVARIANTS
    EventsTypeOK
PROPERTIES
    MailboxStable
    ImplementsButtons
    EventuallyReleased
