CONSTANTS
    SlotLen = 2
    GenesisTime = 2
    MaxFutureSlots = 1
    Main = TRUE
    Settle = 1
    MedianSpan = 3
    Hash = {0, 1, 2, 3}
    NoBlock = NoBlock
    MaxClock = 8
SPECIFICATION Spec
INVARIANTS TypeOK MedianIsMedian MedianBelowSlot NeverTwiceAtHeight KeepsPace
PROPERTIES EmitNotEarly OneEmitPerMinute MissedMinuteIsFinal
CHECK_DEADLOCK FALSE
