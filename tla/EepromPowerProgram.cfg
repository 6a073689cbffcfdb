SPECIFICATION PowerSpec
CONSTANTS
    NumPages = 4
    Size = 3
    Bits = {b1}
    PagesPerSector = 2
    ChunkSize = 1
    LossIn = {"program"}
    MaxLosses = 2
INVARIANTS
    NeverProgramsMarked
PROPERTIES
    TornProgramKeepsOld
    VerifiedIsStored
