-------------------------- MODULE ProductionReports --------------------------
(***************************************************************************)
(* What the machines made, used and wasted, as the reports of production   *)
(* tell it: production-performance, material-balance-summary, production-  *)
(* summary, employees-summary and production-resources-summary.            *)
(*                                                                         *)
(* A run (corrida) has lines it produced and lines it consumed, by machine *)
(* and product, a crew, and one figure of waste.  Each report joins these  *)
(* tables in SQL of its own: a join too many counts a kilo twice, and one  *)
(* too few loses a run that has no lines of a kind.                        *)
(*                                                                         *)
(* Each save is one step; what overlaps is in Productions.  Which of the   *)
(* machines and products are discontinued is read only by two reports, and *)
(* is an argument of them.  Bultos are summed as kilos are; shares of the  *)
(* waste are whole numbers if waste is a multiple of what they divide by.  *)
(***************************************************************************)
EXTENDS RequestSlots, TLC

CONSTANTS
    Machines,      \* of which
    Consuming,     \* consume material, and the others pack
    Products, Employees,
    Days, Calendar,   \* each day's year, month, ISO year and ISO week
    Epoch,         \* the day since when hours are captured
    RunForms,      \* what a save may name: type, waste, lines produced and consumed
    NoRun, NoEmployee

VARIABLES
    runs,          \* order_productions
    produced,      \* order_production_products
    consumed,      \* order_production_products_consumed
    crew           \* order_production_employees: on, taken off or never named

runVars == <<runs, produced, consumed, crew>>

Cut == 1

Header == [active : BOOLEAN, type : Nat, day : Days, waste : Nat]
Made == [run : Serials, machine : Machines, product : Products, kilos : Nat, hours : Nat,
         active : BOOLEAN]
Used == [run : Serials, machine : Machines, product : Products, kilos : Nat, active : BOOLEAN]

RunsTypeOK ==
    /\ runs \in [Serials -> Header \cup {NoRun}]
    /\ produced \subseteq Made
    /\ consumed \subseteq Used
    /\ crew \in [Serials -> [Employees -> {"on", "off", "none"}]]

RunsInit ==
    /\ runs = [d \in Serials |-> NoRun]
    /\ produced = {} /\ consumed = {}
    /\ crew = [d \in Serials |-> [e \in Employees |-> "none"]]

----------------------------------------------------------------------------

LiveRun(d) == runs[d] # NoRun /\ runs[d].active

\* The lines of a form in the place of the run's; those it drops stay, not active.
LinesSaved(table, d, form) ==
    LET kept == {q \in table : q.run = d /\ [q EXCEPT !.active = TRUE] \in form} IN
    {IF r.run = d /\ r \notin kept THEN [r EXCEPT !.active = FALSE] ELSE r : r \in table} \cup form

Row(d, line) == [run |-> d, active |-> TRUE] @@ line
RowsOf(d, lines) == {Row(d, l) : l \in lines}

\* upsertOrderProduction: a run keeps its type, and an employee taken off stays off.
SaveRun(p, d, day, form, names) ==
    /\ Instant(p)
    /\ \/ d = NextSerial
       \/ LiveRun(d) /\ runs[d].type = form.type
    /\ runs' = [runs EXCEPT ![d] =
          [active |-> TRUE, type |-> form.type, day |-> day, waste |-> form.waste]]
    /\ produced' = LinesSaved(produced, d, RowsOf(d, form.produced))
    /\ consumed' = LinesSaved(consumed, d, RowsOf(d, form.consumed))
    /\ crew' = [crew EXCEPT ![d] = [e \in Employees |->
          CASE @[e] = "none" -> IF e \in names THEN "on" ELSE "none"
            [] @[e] = "off" -> "off"
            [] OTHER -> IF e \in names THEN "on" ELSE "off"]]

\* deleteOrderProduction: the header, the lines produced, the crew.
DeleteRun(p, d) ==
    /\ LiveRun(d)
    /\ Start(p, "run_lines", [target |-> d], {})
    /\ runs' = [runs EXCEPT ![d].active = FALSE]
    /\ UNCHANGED <<produced, consumed, crew>>

DeleteRunLines(p) ==
    /\ phase[p] = "run_lines"
    /\ produced' = LinesSaved(produced, job[p].target, {})
    /\ Goto(p, "run_crew", job[p])
    /\ UNCHANGED <<runs, consumed, crew>>

DeleteRunCrew(p) ==
    /\ phase[p] = "run_crew"
    /\ crew' = [crew EXCEPT ![job[p].target] =
          [e \in Employees |-> IF @[e] = "on" THEN "off" ELSE @[e]]]
    /\ Finish(p)
    /\ UNCHANGED <<runs, produced, consumed>>

FailRun(p) ==
    /\ Fail(p, TRUE)
    /\ UNCHANGED runVars

RunsNext ==
    \E p \in Procs :
        \/ /\ Free(p)
           /\ \E d \in Serials :
                \/ \E day \in Days, form \in RunForms, names \in SUBSET Employees :
                      SaveRun(p, d, day, form, names)
                \/ DeleteRun(p, d)
        \/ DeleteRunLines(p) \/ DeleteRunCrew(p)
        \/ FailRun(p)

----------------------------------------------------------------------------
(* What every report reads: the lines in force of the runs in force *)

Lines == {r \in produced : r.active /\ LiveRun(r.run)}
Uses == {r \in consumed : r.active /\ LiveRun(r.run)}
CrewOf(d) == {e \in Employees : crew[d][e] = "on"}

KilosIn(rows) == SumFunction([r \in rows |-> r.kilos])
Hours(rows) == SumFunction([r \in rows |-> r.hours])
RunsIn(rows) == {r.run : r \in rows}
On(rows, ms, ps, from) ==
    {r \in rows : r.machine \in ms /\ r.product \in ps /\ runs[r.run].day >= from}
During(rows, days) == {r \in rows : runs[r.run].day \in days}

\* buildSharedFilters: with no day given, the epoch.
From(day) == IF day \in Days THEN day ELSE Epoch

\* The kilos a run produced, which its waste is shared by.  Mutant: with the lines
\* its edits have dropped.
RunKilosEver(d) == KilosIn({r \in produced : r.run = d})
RunKilos(d) == KilosIn({r \in produced : r.run = d /\ r.active})

WasteShare(r) ==
    IF RunKilos(r.run) > 0 THEN (runs[r.run].waste * r.kilos) \div RunKilos(r.run) ELSE 0

Waste(rows) == SumFunction([r \in rows |-> WasteShare(r)])
ProductCount(d) == Cardinality({r.product : r \in {q \in Lines : q.run = d}})

----------------------------------------------------------------------------
(* production-performance.service.ts *)

\* Runs are counted once, however many lines they have.
Figures(rows) ==
    [runs |-> Cardinality(RunsIn(rows)), kilos |-> KilosIn(rows), hours |-> Hours(rows),
     waste |-> Waste(rows)]

\* getMachineProducts and getProductsWithRuns.
MachineProducts(m) == {r.product : r \in {q \in Lines : q.machine = m}}
ProductsWithRuns(retired) == {r.product : r \in Lines} \ retired

\* getMachineProductEmployeeRuns: line by line and employee by employee.
EmployeeRuns(ms, ps, from) ==
    UNION {{[line |-> r, employee |-> e] :
               e \in IF CrewOf(r.run) = {} THEN {NoEmployee} ELSE CrewOf(r.run)} :
               r \in On(Lines, ms, ps, from)}

EmployeeShare(x) ==
    LET d == x.line.run
        heads == IF CrewOf(d) = {} THEN 1 ELSE Cardinality(CrewOf(d))
    IN IF RunKilos(d) > 0
       THEN ((runs[d].waste \div heads) * x.line.kilos) \div RunKilos(d) ELSE 0

\* getMachineHourlyRuns: the side that produced is of the products asked for, the
\* side that consumed of all.
HourlyRuns(ms, ps, from) ==
    LET rows == On(Lines, ms, ps, from) IN
    [d \in RunsIn(rows) |->
        LET made == {r \in rows : r.run = d} IN
        [kilos |-> KilosIn(made), hours |-> Hours(made),
         consumed |-> KilosIn({r \in Uses : r.run = d /\ r.machine \in ms})]]

\* getMachineProductRates: of a machine, or of a machine and a product.
Rate(m, ps, from, single) ==
    Figures({r \in On(Lines, {m}, ps, from) : single => ProductCount(r.run) = 1})

\* getMachineConsumptionRates: kilos by product; hours are those packed on the
\* machine in the runs that consumed on it, each run once.
ConsumptionRate(m, from) ==
    LET uses == On(Uses, {m}, Products, from) IN
    [kilos |-> [q \in {r.product : r \in uses} |-> KilosIn({r \in uses : r.product = q})],
     hours |-> Hours({r \in Lines : r.machine = m /\ r.run \in RunsIn(uses)}),
     runs |-> Cardinality(RunsIn(uses))]

\* getMachineProductPerformanceSummary and its transpose.
MachineSummary(m, from, retired) ==
    LET rows == On(Lines, {m}, Products, from) IN
    [q \in {r.product : r \in rows} \ retired |-> Figures({r \in rows : r.product = q})]

ProductSummary(q, from, retired) ==
    LET rows == On(Lines, Machines, {q}, from) IN
    [m \in {r.machine : r \in rows} \ retired |-> Figures({r \in rows : r.machine = m})]

\* getWeeklyAuditRuns, of the days from the week's start to its end.
WeeklyAudit(week) ==
    LET rows == During(Lines, week) IN
    [x \in {<<r.run, r.machine, r.product>> : r \in rows} |->
        Figures({r \in rows : <<r.run, r.machine, r.product>> = x})]

----------------------------------------------------------------------------
(* material-balance-summary.service.ts: runs of cutting, but for those that packed *)

\* Mutant: the near miss the code warns of, which drops runs that produced nothing.
NothingCut(d) == ~\E r \in produced : r.run = d /\ r.active /\ r.machine \in Consuming
PackingRun(d) == \E r \in produced : r.run = d /\ r.active /\ r.machine \notin Consuming

InScope(days) ==
    {d \in Serials : LiveRun(d) /\ runs[d].type = Cut /\ ~PackingRun(d) /\ runs[d].day \in days}

LinesIn(S) == {r \in Lines : r.run \in S}
UsesIn(S) == {r \in Uses : r.run \in S}

Missing(S, rows) == {d \in S : ~\E r \in rows : r.run = d}

\* getMaterialBalanceSummary, one row of it.
Balance(S) ==
    LET waste == SumFunction([d \in S |-> runs[d].waste]) IN
    [produced |-> KilosIn(LinesIn(S)), waste |-> waste, consumed |-> KilosIn(UsesIn(S)),
     difference |-> KilosIn(UsesIn(S)) - KilosIn(LinesIn(S)) - waste,
     runs |-> Cardinality(S),
     noConsumption |-> Cardinality(Missing(S, Uses)),
     noProduction |-> Cardinality(Missing(S, Lines))]

\* getDateInjections: a week has its ISO year.
ByDay(d) == runs[d].day
ByMonth(d) == <<Calendar[runs[d].day].year, Calendar[runs[d].day].month>>
ByWeek(d) == <<Calendar[runs[d].day].isoYear, Calendar[runs[d].day].week>>

\* One row for each key of a run in S.
Balances(key) == [k \in Range(key) |-> Balance({d \in DOMAIN key : key[d] = k})]

\* getMaterialBalanceByMachine: a week by its number alone.
OfWeek(S, week) == {d \in S : Calendar[runs[d].day].week = week}

MachineBalance(S) ==
    [m \in {r.machine : r \in LinesIn(S) \cup UsesIn(S)} |->
        [produced |-> KilosIn({r \in LinesIn(S) : r.machine = m}),
         consumed |-> KilosIn({r \in UsesIn(S) : r.machine = m})]]

\* getMaterialBalanceExceptions: also the products packed, and where they were cut.
CutLines(days) == {r \in During(Lines, days) : runs[r.run].type = Cut}
ProductsPacked(days) ==
    LET of(q, ms) == KilosIn({r \in CutLines(days) : r.product = q /\ r.machine \in ms}) IN
    [q \in {x \in Products : of(x, Machines \ Consuming) > 0} |->
        [packed |-> of(q, Machines \ Consuming), cut |-> of(q, Consuming)]]

----------------------------------------------------------------------------
(* The other summaries *)

\* getProductionSummary: kilos by machine, and waste.  That a line's product is of the
\* type too is asked there, and is so of every line: a save checks it, and no product
\* changes its type.
ProductionSummary(days, type) ==
    LET rows == {r \in During(Lines, days) : runs[r.run].type = type} IN
    [kilos |-> [m \in {r.machine : r \in rows} |-> KilosIn({r \in rows : r.machine = m})],
     waste |-> SumFunction([d \in {x \in Serials : LiveRun(x) /\ runs[x].type = type
                                                    /\ runs[x].day \in days} |-> runs[d].waste])]

\* getEmployeesSummary and getProductionResourcesSummary: a line counts for each
\* employee of the crew, and not at all if there is none.
OfEmployee(rows, days, e) == KilosIn({r \in During(rows, days) : e \in CrewOf(r.run)})

----------------------------------------------------------------------------
(* What is claimed of them *)

Summed(f, field(_)) == SumFunction([x \in DOMAIN f |-> field(f[x])])
KilosOf(x) == x.kilos
WasteOf(x) == x.waste
HoursOf(x) == x.hours

\* A run that produced anything has its waste shared out once, by lines, and by lines
\* and employees, each of whom has the same.
WasteSharedOnce ==
    \A d \in Serials : LiveRun(d) /\ RunKilos(d) > 0 =>
        LET shares == {x \in EmployeeRuns(Machines, Products, 1) : x.line.run = d}
            total(S) == SumFunction([x \in S |-> EmployeeShare(x)])
        IN /\ Waste({r \in Lines : r.run = d}) = runs[d].waste
           /\ total(shares) = runs[d].waste
           /\ \A x, y \in shares : total({z \in shares : z.employee = x.employee})
                                   = total({z \in shares : z.employee = y.employee})

\* The rate of a machine and a product, the row of either summary and the hourly runs
\* are the same figures, from whatever day.
PairAgrees(m, q, from) ==
    LET pair == Rate(m, {q}, from, FALSE)
        hourly == HourlyRuns({m}, {q}, from)
        byProduct == MachineSummary(m, from, {})
        byMachine == ProductSummary(q, from, {})
    IN /\ IF pair.runs > 0 THEN byProduct[q] = pair /\ byMachine[m] = pair
          ELSE q \notin DOMAIN byProduct /\ m \notin DOMAIN byMachine
       /\ Summed(hourly, KilosOf) = pair.kilos
       /\ Summed(hourly, HoursOf) = pair.hours
       /\ Cardinality(DOMAIN hourly) = pair.runs

\* The rate of a machine is that of its products together; runs, of which one may be
\* of several products, add up when only those of a single one are asked for.
MachineAgrees(m, from) ==
    LET rows == MachineSummary(m, from, {})
        single == [q \in Products |-> Rate(m, {q}, from, TRUE)]
        rate == Rate(m, Products, from, FALSE)
        hourly == HourlyRuns({m}, Products, from)
        used == ConsumptionRate(m, from)
        packed == {r \in On(Lines, {m}, Products, from) :
                     \E u \in Uses : u.run = r.run /\ u.machine = m}
    IN /\ Summed(rows, KilosOf) = rate.kilos
       /\ Summed(rows, HoursOf) = rate.hours
       /\ Summed(rows, WasteOf) = rate.waste
       /\ SumFunction([q \in Products |-> single[q].runs]) = Rate(m, Products, from, TRUE).runs
       /\ DOMAIN rows \subseteq MachineProducts(m) \cap ProductsWithRuns({})
       /\ used.hours = Hours(packed)
       /\ SumFunction(used.kilos)
            - SumFunction([d \in DOMAIN hourly |-> hourly[d].consumed])
          = KilosIn({u \in On(Uses, {m}, Products, from) :
                     ~\E r \in Lines : r.run = u.run /\ r.machine = m})

\* The audit of some days comes to the production of those days, and its waste to the
\* waste of the runs that produced.
AuditAgrees(days) ==
    LET audit == WeeklyAudit(days) IN
    /\ Summed(audit, KilosOf) =
         SumFunction([t \in {runs[d].type : d \in RunsIn(Lines)} |->
                        SumFunction(ProductionSummary(days, t).kilos)])
    /\ Summed(audit, WasteOf) =
         SumFunction([d \in {x \in Serials : LiveRun(x) /\ runs[x].day \in days /\ RunKilos(x) > 0}
                        |-> runs[d].waste])

\* By days, by months or by weeks the balance comes to the same, with every run in one
\* row; by machine, to the same but for the waste; and the exceptions are those counted.
\* What it leaves of the production of cutting is what packing runs made, and a run
\* that produced nothing is in it.
BalanceAgrees(days) ==
    LET S == InScope(days)
        all == Balance(S)
        byMachine == MachineBalance(S)
        comesTo(f) ==
            /\ \A field \in DOMAIN all :
                  SumFunction([k \in DOMAIN f |-> f[k][field]]) = all[field]
        packing == {d \in Serials : LiveRun(d) /\ runs[d].type = Cut /\ runs[d].day \in days
                                     /\ PackingRun(d)}
    IN /\ comesTo(Balances([d \in S |-> ByDay(d)]))
       /\ comesTo(Balances([d \in S |-> ByMonth(d)]))
       /\ comesTo(Balances([d \in S |-> ByWeek(d)]))
       /\ SumFunction([m \in DOMAIN byMachine |-> byMachine[m].consumed - byMachine[m].produced])
            = all.difference + all.waste
       /\ all.produced + KilosIn(LinesIn(packing)) = SumFunction(ProductionSummary(days, Cut).kilos)
       /\ all.waste + SumFunction([d \in packing |-> runs[d].waste]) = ProductionSummary(days, Cut).waste
       /\ \A u \in During(Uses, days) :
             runs[u.run].type = Cut /\ (~\E r \in Lines : r.run = u.run) =>
                u.run \in Missing(S, Lines)
       /\ Summed(ProductsPacked(days), LAMBDA x : x.packed) =
            KilosIn({r \in LinesIn(packing) : r.machine \notin Consuming})

\* The machines of a week are those of its row, unless the days asked for fall in two
\* ISO years, whose weeks have one number.
WeekAgrees(days, week) ==
    LET S == OfWeek(InScope(days), week)
        rows == Balances([d \in S |-> ByWeek(d)])
    IN Cardinality(DOMAIN rows) = 1 =>
         \A k \in DOMAIN rows :
            SumFunction([m \in DOMAIN MachineBalance(S) |-> MachineBalance(S)[m].consumed])
              = rows[k].consumed

\* What is told of an employee is the kilos of that employee's runs.
EmployeesAgree ==
    \A e \in Employees :
        SumFunction([x \in {y \in EmployeeRuns(Machines, Products, 1) : y.employee = e}
                       |-> x.line.kilos]) = OfEmployee(Lines, Days, e)

\* The periods a report may be asked for: a year or one of its months.
Periods ==
    {{d \in Days : Calendar[d].year = Calendar[day].year} : day \in Days}
    \cup {{d \in Days : Calendar[d].year = Calendar[day].year
                       /\ Calendar[d].month = Calendar[day].month} : day \in Days}

\* The reports of production tell one story, at any moment, even when the delete of
\* a run is under way or has failed halfway.
ProductionReportsReconcile ==
    /\ WasteSharedOnce
    /\ EmployeesAgree
    /\ \A m \in Machines, day \in {1, From(NoRun)} :
          MachineAgrees(m, day) /\ \A q \in Products : PairAgrees(m, q, day)
    /\ \A days \in Periods :
          /\ AuditAgrees(days) /\ BalanceAgrees(days)
          /\ \A week \in {Calendar[day].week : day \in days} : WeekAgrees(days, week)

=============================================================================
