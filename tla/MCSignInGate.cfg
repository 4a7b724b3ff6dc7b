CONSTANTS
    Procs = {p1, p2}
    MaxFailedAttempts = 2
    LockoutTime = 1
    MaxAttempts = 2
    CodeTtl = 1
    TokenTtl = 1
    MaxCodes = 1
    MaxSessions = 1
    MaxRequests = 4
    MaxClock = 1
    NoJob = NoJob
    NoRow = NoRow
SPECIFICATION Spec
INVARIANTS
    ForcedChangeHolds
SYMMETRY MCSymmetry
CHECK_DEADLOCK FALSE
