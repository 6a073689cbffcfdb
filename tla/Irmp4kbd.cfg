SPECIFICATION Spec
CONSTANTS
    Keys <- TwoKeys
    Magic <- KeyRefresh
    Foreign <- IrReport
    Delay = 2
    Delta = 1
    MaxQueue = 1
INVARIANTS
    TypeOK
    InStep
PROPERTIES
    ImplementsRemote
    Reconnects
    KeyArrives
