CONSTANTS
    kbd = kbd
    mirror = mirror
    Devices <- TwoKeyboards
    Keyd = kbd
    Lag <- MirrorLag
    Cooldown = 3
    Settle = 1
    RawCap = 3
    ChanCap = 7
    MaxChords = 2
    MaxPending = 1
    MaxUnplugs = 1
SPECIFICATION FairSpec
PROPERTIES NoPhantomPress ReleaseCompletes
