CONSTANTS
    Procs = {p1, p2}
    MaxRequests = 3
    NoJob = NoJob
    NoId = NoId
    NoRow = NoRow
    NoExpense = NoExpense
    a = a
    b = b
    Products = {a, b}
    Kilos <- ProductKilos
    SentSubtotals = {4}
    Resources = {a}
    Units <- ResourceUnits
    Periods = {1, 2}
    Masters = {m1, m2}
    Absent = Absent
    CaptureFailed = CaptureFailed
    LastDay = 1
    Amounts = {1, 2}
    NoEntry = NoEntry
    NoDate = NoDate
SPECIFICATION Spec
INVARIANTS
    DocumentsTypeOK
    QuantitiesNested
    SummariesAddUp
    OneCopyPerMonth
    DeletionClean
    HistoryTruthful
    StatementsReconcile
CONSTRAINT Calm
SYMMETRY Symmetry
CHECK_DEADLOCK FALSE
