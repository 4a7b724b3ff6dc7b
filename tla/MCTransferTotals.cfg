CONSTANTS
    Procs = {p1, p2}
    Docs = {d1, d2}
    Amounts = {1, 2}
    MaxRequests = 3
    NoRow = NoRow
    NoJob = NoJob
SPECIFICATION Spec
INVARIANTS
    TypeOK
    TotalsSettled
    ReportsAgree
PROPERTIES
    SaveSettlesTotals
    SaveBalances
SYMMETRY MCSymmetry
CHECK_DEADLOCK FALSE
