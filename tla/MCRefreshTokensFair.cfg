CONSTANTS
    Users = {u1}
    Procs = {p1, p2}
    MaxTokens = 4
    MaxLogins = 1
    MaxClock = 5
    TTL = 4
    Graces = {2}
    NoProc = NoProc
    NoJob = NoJob
    NoRow = NoRow
    NULL = NULL
SPECIFICATION FairSpec
INVARIANTS
    RaceHasWinner
PROPERTIES
    ImplementsSessions
    EveryRequestAnswered
