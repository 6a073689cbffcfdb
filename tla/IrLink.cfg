SPECIFICATION LinkSpec
CONSTANTS
    Codes <- AllCodes
    Commands <- AllPairs
    Latencies = {100}
    Silences = {5000}
INVARIANTS
    EachFrameOnce
    TimesOut
PROPERTIES
    HeardAsSent
