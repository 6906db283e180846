CONSTANTS
    l1 = l1
    l2 = l2
    r1 = r1
    r2 = r2
    h1 = h1
    h2 = h2
    Script = {l1, l2, r1}
    LocalScripts = {l1, l2}
    FileScript = l1
    Handle = {h1, h2}
    NoScript = NoScript
    NoHandle = NoHandle
    NoNode = NoNode
    NoCall = NoCall
    Worker = {"w1"}
    TTL = 1
    MaxSkew = 1
    CacheTTL = 2
    NegCacheTTL = 1
    MaxActive = 1
    SlotLen = 2
    RequireAttest = FALSE
    BakedSeed = FALSE
    LookupNode = FALSE
    Encrypted = FALSE
    Accounts = {h1, h2}
    TemplateScripts = {l1, l2}
    Pinnable = {}
    Fickle = {}
    InitBlue = {h1, h2}
    MaxClock = 2
    MaxSent = 1
SPECIFICATION Spec
INVARIANTS TypeOK OneTicketPerHandle HandleIndexed
PROPERTIES LiveHandleSticky LiveTicketKept
CHECK_DEADLOCK FALSE
