CONSTANTS
    t1 = t1
    t2 = t2
    Thread = {t1, t2}
    NoThread = NoThread
    Brings <- MCBringsAll
    Importer = t1
    Outside = Outside
    Early = {a2}
    g = g
    a1 = a1
    a2 = a2
    x2 = x2
    b1 = b1
    b2 = b2
    c2 = c2
    h1 = h1
    h2 = h2
    n1 = n1
    n2 = n2
    Handle = {h1, h2}
    Name = {n1, n2}
    NoName = NoName
    NoBlock = NoBlock
    NoClaim = NoClaim
    Genesis = g
    Block <- MCBlock
    Parent <- MCParent
    Anc <- MCAnc
    Hash <- MCHash
    Claim <- MCNoClaims
    Good <- MCBlock
    LooseClaim = {}
    Derivable <- MCDerivable
    Proposal = {}
    SignedIn = {}
    SafeCrash = TRUE
    MaxCrashes = 0
SPECIFICATION FairSpec
PROPERTY ActivatesBest
CHECK_DEADLOCK FALSE
