CONSTANTS
    Procs = {p1}
    Products = {a, b}
    Prices = {low, high}
    MaxRequests = 4
    NoId = NoId
    NoProduct = NoProduct
    NoJob = NoJob
SPECIFICATION Spec
INVARIANT StartedAcceptanceCanFinish
SYMMETRY MCSymmetry
CHECK_DEADLOCK FALSE
