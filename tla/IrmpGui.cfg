SPECIFICATION Spec
CONSTANTS
    Lines = 2
    c1 = c1
    k1 = k1
    Codes = {c1}
    Keys = {k1}
    Erased = Erased
    Zeros = Zeros
    Noise = Zeros
    NoKey = NoKey
    Edits <- OneEdit
    File <- OneFile
    QueueSize = 1
    Logging = TRUE
    LearnTime = 1
    Patience = 2
    Clicks = 2
    Hasty = FALSE
INVARIANT UncrossedInStep
PROPERTY HandlersEnd
