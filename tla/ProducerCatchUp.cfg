CONSTANTS
    SlotLen = 2
    GenesisTime = 2
    MaxFutureSlots = 1
    Main = TRUE
    Settle = 1
    MedianSpan = 3
    Hash = {0, 1, 2}
    NoBlock = NoBlock
    MaxClock = 7
SPECIFICATION FairSpec
PROPERTIES CatchesUp
CHECK_DEADLOCK FALSE
