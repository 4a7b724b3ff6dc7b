---------------------------- MODULE Productions ----------------------------
(***************************************************************************)
(* Production orders, the machines their lines run on and the employees on *)
(* their roster: order-productions.service.ts, with the saves and deletes  *)
(* of machines.service.ts and employees.service.ts.                        *)
(*                                                                         *)
(* A save is one REPEATABLE READ transaction after its validation; a       *)
(* delete is not.  A line is its machine: products are of a type for good, *)
(* and the products consumed are saved as the lines are.  Branches, shifts *)
(* and leaders only refuse a save.                                         *)
(***************************************************************************)
EXTENDS RequestSlots, RowDiff

CONSTANTS Machines, Employees, Types, NoType

ASSUME ProductionNames == NoType \notin Types /\ NoId \notin Serials \X (Machines \cup Employees)

VARIABLES
    staff,         \* machines and employees: type and whether active
    productions,   \* order_productions: type and whether active
    rows,          \* order_production_products
    roster,        \* order_production_employees
    placed,        \* history: the form of the last save of each production
    readded        \* history: a form has named an employee taken off before

productionVars == <<staff, productions, rows, roster, placed, readded>>

Staff == Machines \cup Employees
Hours == [i \in Staff |-> {1}]

ProductionsTypeOK ==
    /\ staff \in [Staff -> [type : Types, active : BOOLEAN]]
    /\ productions \in [Serials -> [type : Types \cup {NoType}, active : BOOLEAN]]
    /\ \A r \in rows \cup roster :
          productions[r.doc].type # NoType /\ r.id \in Serials \X Staff /\ r.active \in BOOLEAN
    /\ \A r \in rows : r.item \in Machines
    /\ \A r \in roster : r.item \in Employees
    /\ readded \in BOOLEAN

ProductionsInit ==
    /\ staff \in [Staff -> [type : Types, active : {TRUE}]]
    /\ productions = [d \in Serials |-> [type |-> NoType, active |-> FALSE]]
    /\ rows = {} /\ roster = {}
    /\ placed = [d \in Serials |-> {}]
    /\ readded = FALSE

LiveProduction(d) == productions[d].active

SavesOfProduction(d) == {q \in InFlight({"validated", "commit"}) : job[q].target = d}

----------------------------------------------------------------------------
(* upsertMachine and upsertEmployee *)

\* Mutant: whether the type may change is not asked.
AnyType(s, type) == TRUE

\* The previous row is looked for among active ones: a deleted record may change.
TypeKept(s, type) == staff[s].active => staff[s].type = type

BeginStaff(p, s, type) ==
    /\ TypeKept(s, type)
    /\ Start(p, "staff", [target |-> s, type |-> type], {})
    /\ UNCHANGED productionVars

SaveStaff(p) ==
    /\ phase[p] = "staff"
    /\ staff' = [staff EXCEPT ![job[p].target].type = job[p].type]
    /\ Finish(p)
    /\ UNCHANGED <<productions, rows, roster, placed, readded>>

\* deleteMachine and deletesEmployee: no active production has it on an active row.
BeginDeleteStaff(p, s) ==
    /\ staff[s].active
    /\ ~\E r \in Active(rows \cup roster) : r.item = s /\ LiveProduction(r.doc)
    /\ Start(p, "staff_delete", [target |-> s], {})
    /\ UNCHANGED productionVars

DeleteStaff(p) ==
    /\ phase[p] = "staff_delete"
    /\ staff' = [staff EXCEPT ![job[p].target].active = FALSE]
    /\ Finish(p)
    /\ UNCHANGED <<productions, rows, roster, placed, readded>>

----------------------------------------------------------------------------
(* upsertOrderProduction *)

\* validateOrderProduction: a stored production keeps its type, which a deleted one
\* has none of, and everything on the form is of it; active or not is not asked.
BeginProduction(p, d, type) ==
    /\ Free(p)
    /\ \/ d = NextSerial
       \/ LiveProduction(d) /\ productions[d].type = type
    /\ \E form \in Forms(RowsOf(rows, d), Machines, Hours), crew \in SUBSET Employees :
         /\ \A s \in Items(form) \cup crew : staff[s].type = type
         /\ Start(p, "validated", [n |-> NextSerial, target |-> d, type |-> type,
                                   form |-> form, crew |-> crew, rows |-> {}, roster |-> {}],
                  SavesOfProduction(d))
    /\ UNCHANGED productionVars

ProductionSnapshot(p) ==
    /\ phase[p] = "validated"
    /\ Goto(p, "commit", [job[p] EXCEPT !.rows = RowsOf(rows, job[p].target),
                                        !.roster = RowsOf(roster, job[p].target)])
    /\ UNCHANGED productionVars

\* Mutant: an employee who left the form stays on the roster.
CrewAdded(j) ==
    roster \cup {NewRow([item |-> e, amount |-> 1], j.target, j.n) :
                   e \in j.crew \ Items(j.roster)}

\* The roster is compared by employee with every row there is: one that was taken
\* off is found again, and an update does not write active.
CrewSaved(j) ==
    {IF r.doc = j.target /\ r.item \in Items(j.roster) \ j.crew THEN Deleted(r) ELSE r :
        r \in roster}
    \cup {NewRow([item |-> e, amount |-> 1], j.target, j.n) : e \in j.crew \ Items(j.roster)}

CommitProduction(p) ==
    /\ phase[p] = "commit"
    /\ LET j == job[p] IN
       /\ productions' = [productions EXCEPT ![j.target] =
             IF @.type = NoType THEN [type |-> j.type, active |-> TRUE]
             ELSE [@ EXCEPT !.type = j.type]]
       /\ rows' = Saved(rows, j.rows, j.form, j.target, j.n)
       /\ roster' = CrewSaved(j)
       /\ placed' = [placed EXCEPT ![j.target] = Items(j.form) \cup j.crew]
       /\ readded' = (readded \/ \E r \in j.roster : ~r.active /\ r.item \in j.crew)
    /\ Finish(p)
    /\ UNCHANGED staff

----------------------------------------------------------------------------
(* deleteOrderProduction: header, lines, roster; the products consumed stay *)

DeleteProduction(p, d) ==
    /\ LiveProduction(d)
    /\ Start(p, "delete_rows", [target |-> d], {})
    /\ productions' = [productions EXCEPT ![d].active = FALSE]
    /\ UNCHANGED <<staff, rows, roster, placed, readded>>

Without(table, d) == {IF r.doc = d THEN Deleted(r) ELSE r : r \in table}

DeleteProductionRows(p) ==
    /\ phase[p] = "delete_rows"
    /\ rows' = Without(rows, job[p].target)
    /\ Goto(p, "delete_roster", job[p])
    /\ UNCHANGED <<staff, productions, roster, placed, readded>>

DeleteProductionRoster(p) ==
    /\ phase[p] = "delete_roster"
    /\ roster' = Without(roster, job[p].target)
    /\ Finish(p)
    /\ UNCHANGED <<staff, productions, rows, placed, readded>>

----------------------------------------------------------------------------

FailProduction(p) ==
    /\ Fail(p, FALSE)
    /\ UNCHANGED productionVars

ProductionsNext ==
    \E p \in Procs :
        \/ \E s \in Staff, type \in Types : BeginStaff(p, s, type)
        \/ SaveStaff(p)
        \/ \E s \in Staff : BeginDeleteStaff(p, s)
        \/ DeleteStaff(p)
        \/ \E d \in Serials, type \in Types : BeginProduction(p, d, type)
        \/ ProductionSnapshot(p) \/ CommitProduction(p)
        \/ \E d \in Serials : DeleteProduction(p, d)
        \/ DeleteProductionRows(p) \/ DeleteProductionRoster(p)
        \/ FailProduction(p)

ProductionsSpec ==
    SlotsInit /\ ProductionsInit /\ [][ProductionsNext]_<<slotVars, productionVars>>

----------------------------------------------------------------------------
(* What is claimed of them *)

\* A production in force has machines and employees of its own type, of those that
\* are active, in every interleaving: what each validation saw still holds when it
\* is written, because the type of an active record never changes.
TypesAgree ==
    \A r \in Active(rows \cup roster) :
        LiveProduction(r.doc) /\ staff[r.item].active =>
            staff[r.item].type = productions[r.doc].type

\* A production in force has the machines and the employees its last save asked
\* for, unless two saves of it overlapped or a form put back an employee that had
\* been taken off: CrewSaved leaves that one out.
ProductionsAsAsked ==
    ~contended /\ ~readded =>
        \A d \in Serials : LiveProduction(d) =>
            Items(ActiveOf(rows, d)) \cup Items(ActiveOf(roster, d)) = placed[d]

=============================================================================
