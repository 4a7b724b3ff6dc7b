CONSTANTS
    Users = {u1, u2}
    Procs = {p1, p2}
    MaxTokens = 3
    MaxLogins = 2
    MaxClock = 5
    TTL = 4
    Graces <- MCGraces
    NoProc = NoProc
    NoJob = NoJob
    NoRow = NoRow
    NULL = NULL
SPECIFICATION Spec
INVARIANT
    SingleUse
PROPERTIES
    DeadFamilyStaysDead
    StaleReuseEndsFamily
    TabsNeverSignOut
    SessionEndsForCause
SYMMETRY MCSymmetry
