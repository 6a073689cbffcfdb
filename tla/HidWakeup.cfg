SPECIFICATION FairSpec
CONSTANTS
    k1 = k1
    Clients = {irmpconfig}
    Requests <- WakeRequests
    WakeSlots = 3
    Codes = {k1}
    Erased = erased
    NoValue = novalue
    NoAlarm = never
    MaxAlarm = 2
    MaxAfter = 2
    Leds = FALSE
    Sleeps = TRUE
PROPERTIES
    AlarmWakes
