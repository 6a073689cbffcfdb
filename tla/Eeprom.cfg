\* Three pages of two cells and the mark, two bits to a byte: enough for the
\* log to fill up and wrap, and for a byte to be programmed in part.
SPECIFICATION Spec
CONSTANTS
    NumPages = 3
    Size = 3
    Bits = {b1, b2}
INVARIANTS
    TypeOK
    LogShape
    CleanMeansDurable
    CommitVerifies
PROPERTIES
    WearLevelled
    ImplementsStore
