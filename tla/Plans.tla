-------------------------------- MODULE Plans --------------------------------
(***************************************************************************)
(* Production plans: production-plans.service.ts.  A plan has a row for    *)
(* each machine, and a row employees and products.  Saving and deleting a  *)
(* plan are no transactions: every statement is a step.  Date, shift and   *)
(* branch are one `shift`.  Hours, efficiencies and inactive machines,     *)
(* products or employees only refuse a save.  An employee of a row is      *)
(* found by number and a product by the id of its line.  A form names a    *)
(* machine once here, and an employee of a row once: the code checks only  *)
(* that a product is, and stores a row for each naming.  What is claimed   *)
(* compares sets, of which such a row is no other member.                  *)
(***************************************************************************)
EXTENDS RequestSlots, RowDiff

CONSTANTS PlanMachines, Crew, Goods, Shifts, NoPlan

ASSUME PlanNames == NoId \notin Serials \X (PlanMachines \cup Goods)

VARIABLES
    plans,         \* production_plans: shift and whether active
    planRows,      \* production_plan_rows
    crew,          \* production_plan_row_employees, of the row in doc
    goods,         \* production_plan_row_products, of the row in doc
    planned        \* history: the form of the last save of each plan that ended

planVars == <<plans, planRows, crew, goods, planned>>

PlansTypeOK ==
    /\ plans \in [Serials -> [shift : Shifts, active : BOOLEAN] \cup {NoPlan}]
    /\ \A r \in planRows : plans[r.doc] # NoPlan /\ r.item \in PlanMachines
    /\ \A c \in crew \cup goods : c.doc \in Ids(planRows)

PlansInit ==
    /\ plans = [d \in Serials |-> NoPlan]
    /\ planRows = {} /\ crew = {} /\ goods = {}
    /\ planned = [d \in Serials |-> NoPlan]

LivePlan(d) == plans[d] # NoPlan /\ plans[d].active

Each(S) == [i \in S |-> {1}]

\* A row line, with employees and product lines of its own.
RowLines(d, l) ==
    {[id |-> l.id, item |-> l.item, amount |-> 1, crew |-> c, goods |-> g] :
        c \in SUBSET Crew, g \in Forms(RowsOf(goods, l.id), Goods, Each(Goods))}
PlanForms(d) ==
    UNION {{{f[l] : l \in lines} :
              f \in {g \in [lines -> UNION {RowLines(d, l) : l \in lines}] :
                       \A l \in lines : g[l] \in RowLines(d, l)}} :
           lines \in Forms(RowsOf(planRows, d), PlanMachines, Each(PlanMachines))}

\* What of a plan is in force, and what a form asks for.
RowInForce(r) ==
    [machine |-> r.item, crew |-> Items(ActiveOf(crew, r.id)),
     goods |-> Items(ActiveOf(goods, r.id))]
InForce(d) == {RowInForce(r) : r \in ActiveOf(planRows, d)}
AsForm(form) == {[machine |-> l.item, crew |-> l.crew, goods |-> Items(l.goods)] : l \in form}

PlanSaves == InFlight({"plan_header", "plan_rows", "row_gone", "row_sync"})
DeletesOfPlan(d) == {q \in InFlight({"plan_delete", "plan_row_gone"}) : job[q].target = d}
SavesOfPlan(d) == {q \in PlanSaves : job[q].target = d}

----------------------------------------------------------------------------
(* upsertProductionPlan *)

\* Mutant: that the plan found is the plan saved is not asked.
SomePlanInShift(d, shift) ==
    d = NextSerial => ~\E x \in Serials : LivePlan(x) /\ plans[x].shift = shift

\* validateProductionPlan: no other plan in force has the shift.
ShiftFree(d, shift) ==
    ~\E x \in Serials \ {d} : LivePlan(x) /\ plans[x].shift = shift

BeginPlan(p, d, shift) ==
    /\ Free(p)
    /\ d = NextSerial \/ plans[d] # NoPlan
    /\ ShiftFree(d, shift)
    /\ \E form \in PlanForms(d) :
         Start(p, "plan_header",
               [n |-> NextSerial, target |-> d, shift |-> shift, asked |-> AsForm(form),
                form |-> form, old |-> {}, row |-> NoPlan, line |-> NoPlan],
               PlanSaves \cup DeletesOfPlan(d))
    /\ UNCHANGED planVars

\* An update leaves alone whether the plan is active.  The rows in force come next.
PlanHeader(p) ==
    /\ phase[p] = "plan_header"
    /\ LET j == job[p]
           d == j.target
       IN
       /\ plans' = [plans EXCEPT ![d] =
             [shift |-> j.shift, active |-> (@ = NoPlan \/ plans[d].active)]]
       /\ planned' = [planned EXCEPT ![d] = NoPlan]
       /\ Goto(p, "plan_rows", [j EXCEPT !.old = ActiveOf(planRows, d)])
    /\ UNCHANGED <<planRows, crew, goods>>

\* softDeleteRowEmployees and softDeleteRowProducts, and the row itself.
Gone(table, row) == {IF r.doc = row THEN Deleted(r) ELSE r : r \in table}

RowGone(row) == {IF r.id = row THEN Deleted(r) ELSE r : r \in planRows}

\* Mutant: the row goes before what is on it.
RowFirst(row) ==
    /\ planRows' = RowGone(row)
    /\ UNCHANGED <<crew, goods>>

\* Of a row to delete, the employees and the products go first (here, in one step).
RowCleared(row) ==
    /\ crew' = Gone(crew, row)
    /\ goods' = Gone(goods, row)
    /\ UNCHANGED planRows

DropRow(p) ==
    /\ phase[p] = "plan_rows"
    /\ \E r \in Removed(job[p].old, job[p].form) :
         /\ RowCleared(r.id)
         /\ Goto(p, "row_gone", [job[p] EXCEPT !.old = @ \ {r}, !.row = r.id])
    /\ UNCHANGED <<plans, planned>>

DropRowRest(p) ==
    /\ phase[p] = "row_gone"
    /\ planRows' = RowGone(job[p].row)
    /\ Goto(p, "plan_rows", [job[p] EXCEPT !.row = NoPlan])
    /\ UNCHANGED <<plans, crew, goods, planned>>

\* A row created or updated, and then the employees and the products on it.
SaveRow(p) ==
    /\ phase[p] = "plan_rows"
    /\ Removed(job[p].old, job[p].form) = {}
    /\ LET j == job[p] IN
       \E w \in NextWrites(j.old, j.form) : \E l \in w[2] :
          /\ planRows' =
                Saved(planRows, w[1], {[id |-> l.id, item |-> l.item, amount |-> 1]},
                      j.target, j.n)
          /\ Goto(p, "row_sync",
                  [j EXCEPT !.old = @ \ w[1], !.form = @ \ {l}, !.line = l,
                            !.row = IF w[1] = {} THEN <<j.n, l.item>> ELSE l.id])
    /\ UNCHANGED <<plans, crew, goods, planned>>

\* Mutant: an employee who was taken off stays off.
CrewOnce(row, names, n) ==
    LET old == ActiveOf(crew, row) IN
    {IF r.doc = row /\ r.item \in Items(old) \ names THEN Deleted(r) ELSE r : r \in crew}
    \cup {NewRow([item |-> e, amount |-> 1], row, n) :
             e \in names \ Items(RowsOf(crew, row))}

\* syncRowEmployees: of the employees in force, one who is missing is taken off
\* and one who is new gets a row, whatever rows that employee had before.
CrewSynced(row, names, n) ==
    LET old == ActiveOf(crew, row) IN
    {IF r.doc = row /\ r.item \in Items(old) \ names THEN Deleted(r) ELSE r : r \in crew}
    \cup {NewRow([item |-> e, amount |-> 1], row, n) : e \in names \ Items(old)}

\* syncRowProducts, by the id of the line.
GoodsSynced(row, lines, n) ==
    LET mine == RowsOf(goods, row)
    IN (goods \ mine) \cup Saved(mine, Active(mine), lines, row, n)

\* The statements of both syncs are one step: saves that overlap are rivals anyway,
\* and where among them one fails is of no matter to a save that ends.
SyncRow(p) ==
    /\ phase[p] = "row_sync"
    /\ LET j == job[p] IN
       /\ crew' = CrewSynced(j.row, j.line.crew, j.n)
       /\ goods' = GoodsSynced(j.row, j.line.goods, j.n)
       /\ Goto(p, "plan_rows", [j EXCEPT !.row = NoPlan, !.line = NoPlan])
    /\ UNCHANGED <<plans, planRows, planned>>

PlanSaved(p) ==
    /\ phase[p] = "plan_rows"
    /\ job[p].old = {} /\ job[p].form = {}
    /\ planned' = [planned EXCEPT ![job[p].target] = job[p].asked]
    /\ Finish(p)
    /\ UNCHANGED <<plans, planRows, crew, goods>>

----------------------------------------------------------------------------
(* deleteProductionPlan: row by row, the plan last *)

BeginDeletePlan(p, d) ==
    /\ LivePlan(d)
    /\ Start(p, "plan_delete", [n |-> NextSerial, target |-> d, old |-> ActiveOf(planRows, d),
                                row |-> NoPlan],
             SavesOfPlan(d))
    /\ planned' = [planned EXCEPT ![d] = NoPlan]
    /\ UNCHANGED <<plans, planRows, crew, goods>>

DeletePlanRow(p) ==
    /\ phase[p] = "plan_delete"
    /\ \E r \in job[p].old :
         /\ RowCleared(r.id)
         /\ Goto(p, "plan_row_gone", [job[p] EXCEPT !.old = @ \ {r}, !.row = r.id])
    /\ UNCHANGED <<plans, planned>>

DeletePlanRowRest(p) ==
    /\ phase[p] = "plan_row_gone"
    /\ planRows' = RowGone(job[p].row)
    /\ Goto(p, "plan_delete", [job[p] EXCEPT !.row = NoPlan])
    /\ UNCHANGED <<plans, crew, goods, planned>>

DeletePlan(p) ==
    /\ phase[p] = "plan_delete"
    /\ job[p].old = {}
    /\ plans' = [plans EXCEPT ![job[p].target].active = FALSE]
    /\ Finish(p)
    /\ UNCHANGED <<planRows, crew, goods, planned>>

FailPlan(p) ==
    /\ Fail(p, FALSE)
    /\ UNCHANGED planVars

PlansNext ==
    \E p \in Procs :
        \/ \E d \in Serials, shift \in Shifts : BeginPlan(p, d, shift)
        \/ PlanHeader(p) \/ DropRow(p) \/ DropRowRest(p) \/ SaveRow(p)
        \/ SyncRow(p) \/ PlanSaved(p)
        \/ \E d \in Serials : BeginDeletePlan(p, d)
        \/ DeletePlanRow(p) \/ DeletePlanRowRest(p) \/ DeletePlan(p)
        \/ FailPlan(p)

PlansSpec == SlotsInit /\ PlansInit /\ [][PlansNext]_<<slotVars, planVars>>

----------------------------------------------------------------------------
(* What is claimed of them *)

\* One plan in force at most has a shift, and what is in force on a row is so
\* because the row is, wherever a save or a delete fails, unless two saves
\* overlapped, or a save and a delete of one plan.
PlanPerShift ==
    ~contended =>
        /\ \A c, d \in Serials : LivePlan(c) /\ LivePlan(d) /\ c # d =>
              plans[c].shift # plans[d].shift
        /\ \A c \in Active(crew \cup goods) : c.doc \in Ids(Active(planRows))

\* A plan whose last save ended has the rows, employees and products that save
\* asked for, whatever failed halfway before, under the same condition.
PlansAsAsked ==
    ~contended =>
        \A d \in Serials : LivePlan(d) /\ planned[d] # NoPlan => InForce(d) = planned[d]

=============================================================================
