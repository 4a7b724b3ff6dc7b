----------------------------- MODULE MCWorkshop -----------------------------
(***************************************************************************)
(* The components of Workshop on small sets, the ledger of a product and   *)
(* the production reports: one of them in a behaviour, as there.           *)
(***************************************************************************)
EXTENDS Workshop, InventoryLedger, TLC

CONSTANTS cutter, slitter, packer, bag, film, roll, Hands, NoRun, NoEmployee

VARIABLES runs, produced, consumed, hands

runVars == <<runs, produced, consumed, hands>>

\* 2025-01-02, 2025-12-29 and 2026-01-02: the first two in weeks of one number.
Dates ==
    <<[year |-> 2025, month |-> 1, isoYear |-> 2025, week |-> 1],
      [year |-> 2025, month |-> 12, isoYear |-> 2026, week |-> 1],
      [year |-> 2026, month |-> 1, isoYear |-> 2026, week |-> 1]>>

\* A run of one product or two, on one machine or two, or of none; packed, or packed
\* and cut; with and without consumption; and one of extrusion.
Made(machine, product, kilos, hours) ==
    [machine |-> machine, product |-> product, kilos |-> kilos, hours |-> hours]
Use(machine, product, kilos) == [machine |-> machine, product |-> product, kilos |-> kilos]
Form(type, made, used) == [type |-> type, waste |-> 12, produced |-> made, consumed |-> used]
ReportForms ==
    {Form(1, {Made(cutter, bag, 2, 1), Made(cutter, film, 1, 0)},
             {Use(cutter, roll, 2), Use(slitter, film, 1)}),
     Form(1, {Made(cutter, bag, 1, 1), Made(slitter, bag, 2, 0)}, {Use(cutter, roll, 2)}),
     Form(1, {Made(cutter, bag, 1, 1)}, {}),
     Form(1, {}, {Use(slitter, roll, 2)}),
     Form(1, {Made(packer, bag, 2, 1)}, {}),
     Form(1, {Made(packer, bag, 1, 1), Made(cutter, film, 1, 0)}, {Use(cutter, roll, 2)}),
     Form(2, {Made(cutter, roll, 2, 1)}, {})}

\* Two requests are enough for two runs, or for a run and its edit or deletion.
Reports == INSTANCE ProductionReports WITH
    MaxRequests <- 2, Machines <- {cutter, slitter, packer}, Consuming <- {cutter, slitter},
    Products <- {bag, film, roll}, Employees <- Hands, Days <- 1..3, Calendar <- Dates,
    Epoch <- 3, RunForms <- ReportForms, crew <- hands

ASSUME LedgerNamesHold == LedgerNames

\* The product of the ledger has rows in sales and in one other table.  The part a
\* behaviour is not of has one initial state.
Init ==
    /\ part \in Components \cup {"ledger", "reports"}
    /\ ComponentsInit
    /\ Reports!RunsInit
    /\ LedgerInit /\ Cardinality(tables) = 2
    /\ part # "ledger" => "adjustment" \in tables /\ ~docs[0].delivered
    /\ part # "production" => \A s \in DOMAIN staff : staff[s].type = 1

\* A form of an operation that names a spare twice does so in two amounts, and its
\* request runs alone and is not the last: with others in flight run those whose forms
\* name a spare once.
Twice(lines) == \E l \in lines : l.nth = 2
Saves == InFlight({"header", "old", "rows"})
Repeats ==
    /\ (\E q \in Saves : Twice(job[q].form)) => started' = started
    /\ \A q \in Saves' : started' # started /\ Twice(job'[q].form) =>
          /\ Idle /\ started' < MaxRequests
          /\ \A l, m \in job'[q].form : l.amount = m.amount => l = m

\* After an overlap, of which they claim only what refers to what, no other request of
\* these two begins.
Overlapped == part \in {"stock", "user"} /\ contended

\* The requests that write what the reports tell come one at a time: these are read
\* between any two of their writes all the same.
Next ==
    \/ /\ WorkshopNext
       /\ part = "stock" => Repeats
       /\ Overlapped => started' = started
       /\ UNCHANGED <<ledgerVars, runVars>>
    \/ part = "ledger" /\ LedgerNext /\ UNCHANGED <<part, componentVars, runVars>>
    \/ /\ part = "reports" /\ Reports!RunsNext
       /\ Idle \/ started' = started
       /\ UNCHANGED <<part, componentVars, ledgerVars>>

Spec == Init /\ [][Next]_<<part, slotVars, componentVars, ledgerVars, runVars>>

\* Not continued are states after two writes of the ledger's documents have
\* overlapped or a write has come between two statements of a reading: its property
\* is of readings that saw one state, of writes one at a time.  The order of the
\* statements of such a reading is all the same: one is enough.
Calm ==
    part = "ledger" =>
        /\ ~contended
        /\ \A p \in InFlight({"read"}) :
             /\ job[p].n = MaxRequests
             /\ \A s \in DOMAIN job[p].found :
                /\ job[p].found[s] = TableOf(s[2])
                /\ s[1] = "rows" => {"level"} \X tables \subseteq DOMAIN job[p].found
                /\ <<s[1], "sale">> \in DOMAIN job[p].found

\* A part the behaviour is not of stays as it began.
WorkshopTypeOK ==
    /\ SlotsTypeOK
    /\ CASE part = "stock" -> StockTypeOK
         [] part = "production" -> ProductionsTypeOK
         [] part = "plan" -> PlansTypeOK
         [] part = "user" -> UsersTypeOK
         [] part = "loader" -> LoaderTypeOK
         [] part = "ledger" -> LedgerTypeOK
         [] part = "reports" -> Reports!RunsTypeOK

ProductionReportsReconcile == part = "reports" => Reports!ProductionReportsReconcile

\* The components take their interchangeable values from the same two sets.
Symmetry == Permutations(Procs) \cup Permutations(Spares) \cup Permutations(Quantities)

=============================================================================
