CONSTANTS
    s1 = s1
    s2 = s2
    Guest = {g1, g2, g3}
    Mover = {g1}
    Win = {1, 2}
    Value <- MCValue
    Script = {s1, s2}
    KeyScript = KeyScript
    PaidTo <- MCPaidTo
    Thread = {loop, rpc}
    Loop = loop
    Matured = {1}
    StartGuests = {{g1, g2}}
    Percents = {100}
    MaxGuests = 2
    PersistMax = 1
    Fee = 3
    Dust = 2
    Torn = Torn
    MaxEdits = 2
    MaxFaults = 1
SPECIFICATION FairSpec
INVARIANTS TypeOK SharedAtMostOnce PaysThePercent
PROPERTIES WinsGetHandled
CHECK_DEADLOCK FALSE
