CONSTANTS
    kbd = kbd
    mirror = mirror
    Devices <- OneKeyboard
    Keyd = kbd
    Lag <- OneLag
    Cooldown = 3
    Settle = 2
    RawCap = 3
    ChanCap = 1
    MaxChords = 3
    MaxPending = 2
    MaxUnplugs = 0
SPECIFICATION Spec
INVARIANTS ViewCatchesUp
PROPERTIES ImplementsProtocol RestoredAltCleared
