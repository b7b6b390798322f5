SPECIFICATION Spec
CONSTANTS
    HighBandwidth = FALSE
    InitRate = 2
    RecoverRate = 4
    KeptTicks = 8
    MaxParts = 2
    MaxTick = 18
    SnapCap = 2
    InputCap = 2
INVARIANTS
    
    
    ShownIsStored
    Forward
CHECK_DEADLOCK FALSE
