CONSTANTS
    k1 = k1
    k2 = k2
    g1 = g1
    g2 = g2
    op = op
    dev = dev
    other = other
    org = org
    view = view
    input = input
    root = root
    Blank = Blank
    NoKey = NoKey
    NoClaims = NoClaims
    Capability <- MCCapability
    Token <- MCTokens
    TrustedKeys <- MCTrusted
    Slot = {s1, s2}
    Device = dev
    Org = org
    MaxLifetime = 3
    StartSkew = 1
    FreshClock = TRUE
    MaxTime = 4
SYMMETRY SlotSymmetry
SPECIFICATION Spec
INVARIANTS
    OneSessionPerGrant
    IInv
PROPERTIES
    VerifiedIsWellFormed
    CacheIsUnexpired
    Implements
