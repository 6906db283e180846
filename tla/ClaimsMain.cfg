CONSTANTS
    t1 = t1
    t2 = t2
    Thread = {t1, t2}
    NoThread = NoThread
    Brings <- MCBrings
    Importer = t1
    Outside = Outside
    Early = {a2}
    g = g
    a1 = a1
    a2 = a2
    x2 = x2
    b1 = b1
    b2 = b2
    c2 = c2
    h1 = h1
    h2 = h2
    n1 = n1
    n2 = n2
    Handle = {h1, h2}
    Name = {n1, n2}
    NoName = NoName
    NoBlock = NoBlock
    NoClaim = NoClaim
    Genesis = g
    Block <- MCBlock
    Parent <- MCParent
    Anc <- MCAnc
    Hash <- MCHash
    Claim <- MCClaim
    Good <- MCGood
    LooseClaim <- MCLoose
    Derivable <- MCDerivable
    Proposal = {b1}
    SignedIn = {h1}
    SafeCrash = TRUE
    MaxCrashes = 1
SPECIFICATION FairSpec
INVARIANTS TypeOK OneRootPerHandle ConfirmedIsRecorded PoolFitsNextBlock RestartSucceeds
PROPERTIES SettlesOnBest ImplementsLedger
CHECK_DEADLOCK FALSE
