CONSTANTS
    s = s
    m = m
    b = b
    c1 = c1
    c2 = c2
    Node = {s, m, b}
    NoNode = NoNode
    Ask = {1, 2}
    Coin = {c1, c2}
    NoCoin = NoCoin
    Owner <- MCOwner
    Lists <- MCLists
    AskLimits = {1, 2}
    MaxPush = 1
    StartLinks <- MCLinks
    StartSeen <- MCSeen
    MaxSpends = 1
    MaxEvents = 2
SPECIFICATION FairSpec
INVARIANTS TypeOK BookSound PeersAgree
PROPERTIES GossipEnds
CHECK_DEADLOCK FALSE
