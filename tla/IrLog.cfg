SPECIFICATION Spec
CONSTANTS
    DATALEN = 9
    Report = 5
    Lights = {3, 258}
    Darks = {1, 256}
    Beyond = 7
INVARIANTS
    TypeOK
    LogIntact
    ShownAsSeen
PROPERTIES
    LogSent
