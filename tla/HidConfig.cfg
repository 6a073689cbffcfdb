SPECIFICATION FairSpec
CONSTANTS
    k1 = k1
    Clients = {irmpconfig}
    Requests <- AllRequests
    WakeSlots = 2
    Codes = {k1}
    Erased = erased
    NoValue = novalue
    NoAlarm = never
    MaxAlarm = 0
    MaxAfter = 1
    Leds = TRUE
    Sleeps = FALSE
INVARIANTS
    TypeOK
PROPERTIES
    ImplementsService
    Answered
