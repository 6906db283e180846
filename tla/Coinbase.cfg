CONSTANTS
    Id = {1, 2, 3, 4}
    Interval = 2
    InitialSubsidy = 3
    MaxMoney = 20
    MaxCommit = 3
    Networks = {TRUE, FALSE}
    Blue = {1, 2}
    Heights = {1, 3, 5}
    Fees = {1}
    SeedSigned <- MCSeedSigned
    StreamMax = 1
    Absent = Absent
    PeerCoinbases <- MCPeerCoinbases
    PeerIds = {1, 2}
    PeerValues = {0, 1, 4}
SPECIFICATION Spec
INVARIANTS OwnBlockAccepted OnlyTheSignedDrawIsPaid DrawIsFair SubsidySplitEvenly NobodyPaidTwice
CHECK_DEADLOCK FALSE
