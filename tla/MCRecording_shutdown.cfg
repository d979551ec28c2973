CONSTANTS
    Modes <- BatchMode
    Deliveries <- LiveOnly
    MuteOutputs = TRUE
    MuteMics = TRUE
    ChanCap = 2
    MaxPresses = 1
SPECIFICATION Spec
INVARIANTS NoKeysOnceClosed
