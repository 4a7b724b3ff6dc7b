CONSTANTS
    Procs = {p1, p2}
    MaxFailedAttempts = 2
    LockoutTime = 1
    MaxAttempts = 2
    CodeTtl = 1
    TokenTtl = 1
    MaxCodes = 2
    MaxSessions = 3
    MaxRequests = 5
    MaxClock = 2
    NoJob = NoJob
    NoRow = NoRow
SPECIFICATION Spec
INVARIANTS
    CodeRedeemedOnceAlone
    RedemptionsBounded
    GuessesCapped
    FreezesAtThreshold
    CodeBeforeSession
    PasswordAloneIsGated
PROPERTIES
    LockoutHolds
SYMMETRY MCSymmetry
CHECK_DEADLOCK FALSE
