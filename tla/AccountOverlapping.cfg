CONSTANTS
    p1 = p1
    p2 = p2
    Password <- TwoPasswords
    InitialUsers <- BothUsers
    Scenarios <- PasswordScenarios
    Operations = {"login", "login_mfa", "logout", "change_password"}
    Request = {r1, r2}
    MaxFailedAttempts = 2
    LockoutTicks = 1
    PendingTtl = 1
    SessionTtl = 1
    MaxTime = 3
    MaxSessions = 4
    MaxSecrets = 1
    MaxBatches = 1
SPECIFICATION MCSpec
SYMMETRY RequestSymmetry
INVARIANTS
    FailuresLock
    OnlyOverlappingLoginsSurvive
    PendingIsSingleUse
PROPERTIES
    LockedOpensNoSession
    LockIsKept
    CurrentPasswordIsRequired
