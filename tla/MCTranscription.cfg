SPECIFICATION Spec
CONSTANTS
    Smallest <- MCSmallest
    Levels <- MCLevels
    SILENCE_THRESHOLD = 3
    PipeCap = 2
    MaxFrames = 3
    MinFrames = 2
    MAX_RETRIES = 2
    None = None
CHECK_DEADLOCK FALSE
INVARIANTS
    AllAudioCollected
    RequestsJustified
PROPERTIES
    BatchEnds
