CONSTANTS
    Procs = {p1, p2}
    Docs = {d1, d2}
    Amounts = {1, 2}
    MaxRequests = 3
    NoRow = NoRow
    NoJob = NoJob
SPECIFICATION Spec
INVARIANTS
    TotalsMatchReceipts
SYMMETRY MCSymmetry
CHECK_DEADLOCK FALSE
