CONSTANTS
    Procs = {p1}
    MaxRequests = 3
    NoJob = NoJob
    LastDay = 1
    Amounts = {1, 2}
    NoEntry = NoEntry
    NoDate = NoDate
SPECIFICATION StatementsSpec
INVARIANTS
    StatementCarriesForward
CHECK_DEADLOCK FALSE
