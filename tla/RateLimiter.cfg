CONSTANTS
    Address = {a1, a2}
    NoAddress = NoAddress
    Request = {r1, r2}
    TrustForwardedFor = TRUE
    Limit = 1
    Window = 2
    MaxTracked = 1
    MaxDelay = 1
    MaxTime = 3
    MaxCorrections = 2
SPECIFICATION Spec
SYMMETRY Symmetry
CHECK_DEADLOCK FALSE
INVARIANTS
    BurstBound
PROPERTIES
    WindowsApart
    RefusedForOwnRequests
    RetryAfterIsHonest
    OnlyLiveWindowsBeyondTheTable
