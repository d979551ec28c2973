CONSTANTS
    Modes <- AllModes
    Deliveries <- AllDeliveries
    MuteOutputs = TRUE
    MuteMics = TRUE
    ChanCap = 2
    MaxPresses = 2
SPECIFICATION FairSpec
INVARIANTS IInv RestoredAtRest MarkerGoneAtRest NoKeysAfterClose DeferredKeysWait KeysWaitForAlt DeliveredOnce BatchOnCleanLine
PROPERTIES HandlerReturns
