CONSTANTS
    SegmentMax = 2
    ProviderMax = 2
    FrameSizes <- Sizes
    MaxFrames = 2
    MaxMessages = 2
SPECIFICATION FairSpec
INVARIANTS SegmentAgrees NothingLost
PROPERTIES ImplementsStream SessionEnds
