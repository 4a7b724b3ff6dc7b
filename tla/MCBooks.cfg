CONSTANTS
    Procs = {p1, p2}
    Products = {a, b}
    Prices = {low, high}
    MaxRequests = 3
    NoId = NoId
    NoProduct = NoProduct
    NoJob = NoJob
    MaxRows = 3
    MaxNow = 2
    MaxWrites = 1
    PageSize = 1
SPECIFICATION MCSpec
INVARIANTS
    BooksTypeOK
    StepsInOrder
    RepeatsNeedOverlap
    UndisturbedAcceptance
    PagesTell
PROPERTIES
    OnlyAcceptanceFinishes
    MergeKeepsCatalog
CONSTRAINT Calm
SYMMETRY Symmetry
CHECK_DEADLOCK FALSE
