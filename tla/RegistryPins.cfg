CONSTANTS
    l1 = l1
    l2 = l2
    r1 = r1
    r2 = r2
    h1 = h1
    h2 = h2
    Script = {l1, r1}
    LocalScripts = {l1}
    FileScript = l1
    Handle = {h1}
    NoScript = NoScript
    NoHandle = NoHandle
    NoNode = NoNode
    NoCall = NoCall
    Worker = {"w1"}
    TTL = 1
    MaxSkew = 1
    CacheTTL = 2
    NegCacheTTL = 1
    MaxActive = 2
    SlotLen = 2
    RequireAttest = TRUE
    BakedSeed = FALSE
    LookupNode = FALSE
    Encrypted = TRUE
    Accounts = {h1}
    TemplateScripts = {}
    Pinnable = {h1}
    Fickle = {}
    InitBlue = {h1}
    MaxClock = 2
    MaxSent = 1
SPECIFICATION Spec
INVARIANTS PinHonoured
CHECK_DEADLOCK FALSE
