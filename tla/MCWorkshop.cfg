CONSTANTS
    Procs = {p1, p2}
    MaxRequests = 3
    NoJob = NoJob
    NoId = NoId
    Spares = {x1, x2}
    Quantities = {y1, y2}
    NoSpare = NoSpare
    MaxLines = 2
    Machines = {m}
    Employees = {e}
    Types = {1, 2}
    NoType = NoType
    PlanMachines = {m}
    Crew = {e}
    Goods = {g}
    Shifts = {x1, x2}
    NoPlan = NoPlan
    Roles = {x1, x2}
    Emails = {y1, y2}
    NoUser = NoUser
    MaxNamed = 2
    Loads = {c1, c2, c3}
    Keys = {k1, k2}
    NoKey = NoKey
    cutter = cutter
    slitter = slitter
    packer = packer
    bag = bag
    film = film
    roll = roll
    Hands = {x1, x2}
    NoRun = NoRun
    NoEmployee = NoEmployee
    Kilos = {1}
    MaxClock = 4
    NoDoc = NoDoc
SPECIFICATION Spec
INVARIANTS
    WorkshopTypeOK
    SavedAsAsked
    ValidatedStaysValid
    BatchesSettle
    LedgerTellsHistory
    ProductionReportsReconcile
CONSTRAINT Calm
SYMMETRY Symmetry
CHECK_DEADLOCK FALSE
