CONSTANTS
    p1 = p1
    p2 = p2
    Password <- TwoPasswords
    InitialUsers <- BothUsers
    Scenarios <- FactorScenarios
    Operations <- AllOperations
    Request = {r1, r2}
    MaxFailedAttempts = 2
    LockoutTicks = 1
    PendingTtl = 1
    SessionTtl = 1
    MaxTime = 2
    MaxSessions = 3
    MaxSecrets = 2
    MaxBatches = 2
SPECIFICATION MCSpec
SYMMETRY RequestSymmetry
INVARIANTS
    AccountInv
PROPERTIES
    FactorOnce
    PasswordAloneIsNotEnough
    ActiveSecretWasConfirmed
