CONSTANTS
    l1 = l1
    l2 = l2
    r1 = r1
    r2 = r2
    h1 = h1
    h2 = h2
    Script = {l1, l2, r1, r2}
    LocalScripts = {l1, l2}
    FileScript = l1
    Handle = {h1, h2}
    NoScript = NoScript
    NoHandle = NoHandle
    NoNode = NoNode
    NoCall = NoCall
    Worker = {"w1"}
    TTL = 1
    MaxSkew = 1
    CacheTTL = 2
    NegCacheTTL = 1
    MaxActive = 1
    SlotLen = 2
    RequireAttest = TRUE
    BakedSeed = TRUE
    LookupNode = TRUE
    Encrypted = FALSE
    Accounts = {}
    TemplateScripts = {l1, l2}
    Pinnable = {}
    Fickle = {h1}
    InitBlue = {h1, h2}
    MaxClock = 3
    MaxSent = 2
SPECIFICATION Spec
INVARIANTS SeedTicketsSigned SeedRegistryBounded StampedDraw
PROPERTIES StampsStopAfterLoss LiveTicketKept
CHECK_DEADLOCK FALSE
