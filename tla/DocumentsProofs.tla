---------------------------- MODULE DocumentsProofs ----------------------------
(***************************************************************************)
(* Proofs about Expenses, Records, ActivityAudit and AccountStatements,    *)
(* for any resources, months, records, documents and requests: a month of  *)
(* an account has one recurring copy of an expense, a deletion leaves      *)
(* nothing that it was to refuse, an activity tells the truth of its       *)
(* mutation, and the payment reports come to the same sums.                *)
(*                                                                         *)
(* In none does a row or a key say so: a generation decides by the         *)
(* snapshot it took, a deletion by counts taken before it marks the        *)
(* record, an activity shows what was captured around the write, a report  *)
(* adds receipts up by the columns its query happens to join.  What has to *)
(* be shown is that nothing but a rival can make any of these stale;       *)
(* saves, deletes and failures may come at any point.                      *)
(***************************************************************************)
EXTENDS Expenses, Records, ActivityAudit, AccountStatements, Sums, TLAPS

----------------------------------------------------------------------------
(* Expenses *)


vars == <<slotVars, expenseVars>>

Phases ==
    {"idle", "expense_header", "expense_lines", "expense_delete", "expense_delete_lines",
     "generate_tx", "generate_commit"}
Generating == {"generate_tx", "generate_commit"}

\* A row as its four columns.
Columns(r) ==
    [active |-> r.active, period |-> r.period, subtotal |-> r.subtotal, from |-> r.from]

\* What the variables are, as far as the argument needs it: sums are left open.
Shape ==
    /\ phase \in [Procs -> Phases]
    /\ job = [p \in Procs |-> job[p]]
    /\ contended \in BOOLEAN
    /\ moved \in BOOLEAN
    /\ expenses = [e \in DOMAIN expenses |-> expenses[e]]
    /\ \A e \in DOMAIN expenses : expenses[e] = Columns(expenses[e])

\* What the phases hold: a save, a new row that is a copy of nothing; a generation,
\* one item or two.
HeaderJob(j) ==
    /\ j.record = Columns(j.record)
    /\ j.record.from = NoExpense

GenerationJob(j) ==
    /\ j = [n |-> j.n, table |-> j.table, items |-> j.items]
    /\ DOMAIN j.items \subseteq {1, 2}

JobsOK ==
    \A p \in Procs :
        /\ phase[p] = "expense_header" => HeaderJob(job[p])
        /\ phase[p] \in Generating => GenerationJob(job[p])

\* Generations that do not overlap come one at a time.
OneGeneration ==
    ~contended =>
        \A p, q \in Procs : phase[p] \in Generating /\ phase[q] \in Generating => p = q

\* A copy in force of the source, in the period.
CopyIn(table, e, source, period) ==
    /\ e \in DOMAIN table
    /\ table[e].active
    /\ table[e].from = source
    /\ table[e].period = period

\* The copies in force now are in the snapshot a generation will decide by.
SnapshotCurrent ==
    ~contended /\ ~moved =>
        \A p \in Procs : phase[p] = "generate_commit" =>
            \A e, source, period :
                CopyIn(expenses, e, source, period) /\ source # NoExpense =>
                    CopyIn(job[p].table, e, source, period)

\* No two copies in force are of one source in one period.
OneCopy ==
    ~contended /\ ~moved =>
        \A e, f, source, period :
            /\ CopyIn(expenses, e, source, period)
            /\ CopyIn(expenses, f, source, period)
            /\ source # NoExpense
            => e = f

IInv == Shape /\ JobsOK /\ OneGeneration /\ SnapshotCurrent /\ OneCopy

----------------------------------------------------------------------------
(* The steps, one lemma for each part of the invariant *)

\* What a step of a request is.
RequestStep(p) ==
    \/ \E e \in Expense, period \in Periods : BeginExpense(p, e, period)
    \/ ExpenseHeader(p) \/ ExpenseLine(p) \/ ExpenseSaved(p)
    \/ \E e \in Expense : BeginDeleteExpense(p, e)
    \/ DeleteExpenseHeader(p) \/ DeleteExpenseLines(p)
    \/ BeginGeneration(p) \/ GenerationSnapshot(p) \/ GenerationCommit(p)
    \/ FailExpense(p)

\* The slots: how a step leaves phases and jobs, and what it counts as rivals.
Move(p, ph, j) ==
    /\ ph \in Phases
    /\ phase' = [phase EXCEPT ![p] = ph]
    /\ job' = [job EXCEPT ![p] = j]
    /\ ph = "expense_header" => HeaderJob(j)
    /\ ph \in Generating => GenerationJob(j)
    /\ ph \in Generating /\ phase[p] \notin Generating /\ ~contended' => Generations = {}
    /\ ph = "generate_commit" => j.table = expenses /\ UNCHANGED expenses

SlotStep(p) ==
    /\ \E ph, j : Move(p, ph, j)
    /\ contended' \in BOOLEAN
    /\ ~contended' => ~contended

\* The table: but for the commit of a generation, a step that moves nothing adds no
\* copy and turns none into another.
TableStep ==
    /\ moved' \in BOOLEAN
    /\ ~moved' => ~moved
    /\ expenses' = [e \in DOMAIN expenses' |-> expenses'[e]]
    /\ \A e \in DOMAIN expenses' : expenses'[e] = Columns(expenses'[e])

CopiesStay ==
    ~moved' =>
        \A e, source, period :
            CopyIn(expenses', e, source, period) /\ source # NoExpense =>
                CopyIn(expenses, e, source, period)

\* A phase in which a request neither saves a header nor generates asks nothing.
LEMMA PlainMove ==
  ASSUME Shape, NEW p \in Procs, NEW j,
         NEW ph \in Phases \ (Generating \cup {"expense_header"}),
         phase' = [phase EXCEPT ![p] = ph], job' = [job EXCEPT ![p] = j],
         contended' \in BOOLEAN, ~contended' => ~contended
  PROVE  SlotStep(p)
<1>1. Move(p, ph, j)
  BY DEF Move, Generating
<1> QED
  BY <1>1 DEF SlotStep

LEMMA SlotSteps ==
  ASSUME Shape, JobsOK, NEW p \in Procs, RequestStep(p)
  PROVE  SlotStep(p)
<1>1. ASSUME NEW e \in Expense, NEW period \in Periods, BeginExpense(p, e, period)
      PROVE  SlotStep(p)
  <2>1. PICK form \in Forms(RowsOf(lines, e), Resources, Units) \ {{}} :
          Start(p, "expense_header",
                [n |-> <<NextSerial, 1>>, target |-> e, form |-> form, old |-> {},
                 record |-> [active |-> TRUE, period |-> period,
                             subtotal |-> Total(form), from |-> NoExpense]],
                SavesOfExpense(e))
    BY <1>1 DEF BeginExpense
  <2> DEFINE r == [active |-> TRUE, period |-> period,
                   subtotal |-> Total(form), from |-> NoExpense]
             j == [n |-> <<NextSerial, 1>>, target |-> e, form |-> form, old |-> {},
                   record |-> r]
  <2>2. r = Columns(r) /\ r.from = NoExpense
    BY DEF Columns
  <2>3. HeaderJob(j)
    BY <2>2 DEF HeaderJob
  <2>4. Start(p, "expense_header", j, SavesOfExpense(e))
    BY <2>1
  <2> HIDE DEF j
  <2>5. Move(p, "expense_header", j)
    BY <2>3, <2>4 DEF Move, Start, Phases, Generating
  <2>6. contended' \in BOOLEAN /\ (~contended' => ~contended)
    BY <2>4 DEF Start, Shape
  <2> QED
    BY <2>5, <2>6 DEF SlotStep
<1>2. CASE ExpenseHeader(p) \/ ExpenseLine(p) \/ DeleteExpenseHeader(p)
  <2>1. PICK ph \in {"expense_lines", "expense_delete_lines"} : \E j : Goto(p, ph, j)
    BY <1>2 DEF ExpenseHeader, ExpenseLine, DeleteExpenseHeader
  <2>2. PICK j : Goto(p, ph, j)
    BY <2>1
  <2>3. ph \in Phases \ (Generating \cup {"expense_header"})
    BY <2>1 DEF Phases, Generating
  <2> QED
    BY <2>2, <2>3, PlainMove DEF Goto, Shape
<1>3. CASE ExpenseSaved(p) \/ DeleteExpenseLines(p) \/ GenerationCommit(p) \/ FailExpense(p)
  <2>1. /\ phase' = [phase EXCEPT ![p] = "idle"]
        /\ job' = [job EXCEPT ![p] = NoJob]
        /\ contended' = contended
    BY <1>3 DEF ExpenseSaved, DeleteExpenseLines, GenerationCommit, FailExpense, Finish, Goto, Fail
  <2>2. "idle" \in Phases \ (Generating \cup {"expense_header"})
    BY DEF Phases, Generating
  <2> QED
    BY <2>1, <2>2, PlainMove DEF Shape
<1>4. ASSUME NEW e \in Expense, BeginDeleteExpense(p, e)
      PROVE  SlotStep(p)
  <2>1. "expense_delete" \in Phases \ (Generating \cup {"expense_header"})
    BY DEF Phases, Generating
  <2>2. /\ phase' = [phase EXCEPT ![p] = "expense_delete"]
        /\ job' = [job EXCEPT ![p] = [target |-> e]]
        /\ contended' \in BOOLEAN /\ (~contended' => ~contended)
    BY <1>4 DEF BeginDeleteExpense, Start, Shape
  <2> QED
    BY <2>1, <2>2, PlainMove
<1>5. CASE BeginGeneration(p)
  <2>1. PICK n \in 1..2, sources \in [1..2 -> DOMAIN expenses], period \in Periods,
            form \in Forms({}, Resources, Units) :
          Start(p, "generate_tx",
                [n |-> NextSerial, table |-> <<>>,
                 items |-> [k \in 1..n |-> [source |-> sources[k], period |-> period,
                                            form |-> form]]],
                Generations)
    BY <1>5 DEF BeginGeneration
  <2> DEFINE its == [k \in 1..n |-> [source |-> sources[k], period |-> period, form |-> form]]
             j == [n |-> NextSerial, table |-> <<>>, items |-> its]
  <2>2. Start(p, "generate_tx", j, Generations)
    BY <2>1
  <2>3. DOMAIN its \subseteq {1, 2}
    BY <2>1
  <2> HIDE DEF its
  <2>4. GenerationJob(j)
    BY <2>3 DEF GenerationJob
  <2> HIDE DEF j
  <2>5. Move(p, "generate_tx", j)
    BY <2>2, <2>4 DEF Move, Start, Phases, Generating
  <2>6. contended' \in BOOLEAN /\ (~contended' => ~contended)
    BY <2>2 DEF Start, Shape
  <2> QED
    BY <2>5, <2>6 DEF SlotStep
<1>6. CASE GenerationSnapshot(p)
  <2> DEFINE j == [job[p] EXCEPT !.table = expenses]
  <2>1. phase[p] = "generate_tx" /\ Goto(p, "generate_commit", j) /\ UNCHANGED expenses
    BY <1>6 DEF GenerationSnapshot, expenseVars
  <2>2. GenerationJob(job[p])
    BY <2>1 DEF JobsOK, Generating
  <2>3. GenerationJob(j) /\ j.table = expenses
    BY <2>2 DEF GenerationJob
  <2> HIDE DEF j
  <2>4. Move(p, "generate_commit", j)
    BY <2>1, <2>3 DEF Move, Goto, Phases, Generating
  <2>5. contended' \in BOOLEAN /\ (~contended' => ~contended)
    BY <2>1 DEF Goto, Shape
  <2> QED
    BY <2>4, <2>5 DEF SlotStep
<1> QED
  BY <1>1, <1>2, <1>3, <1>4, <1>5, <1>6 DEF RequestStep

\* A save of the header keeps what makes a row a copy, or makes a row that is none.
LEMMA HeaderStep ==
  ASSUME Shape, JobsOK, NEW p \in Procs, ExpenseHeader(p)
  PROVE  TableStep /\ CopiesStay
<1> DEFINE r == job[p].record
           e == job[p].target
           row == IF Stored(e) THEN [r EXCEPT !.active = expenses[e].active,
                                              !.from = expenses[e].from]
                  ELSE r
<1>1. /\ phase[p] = "expense_header"
      /\ expenses' = Put(e, row)
      /\ moved' = (moved \/ (Stored(e) /\ expenses[e].period # r.period))
  BY DEF ExpenseHeader
<1>2. r = Columns(r) /\ r.from = NoExpense
  BY <1>1 DEF JobsOK, HeaderJob
<1>3. row = Columns(row)
  BY <1>2 DEF Columns
<1>4. /\ row.period = r.period
      /\ Stored(e) => row.active = expenses[e].active /\ row.from = expenses[e].from
      /\ ~Stored(e) => row.from = NoExpense
  BY <1>2 DEF Columns
<1> HIDE DEF row, r
<1>5. TableStep
  BY <1>1, <1>3 DEF TableStep, Put, Shape
<1>6. CopiesStay
  <2> SUFFICES ASSUME ~moved', NEW x, NEW source, NEW period,
                      CopyIn(expenses', x, source, period), source # NoExpense
               PROVE  CopyIn(expenses, x, source, period)
    BY DEF CopiesStay
  <2>1. ~(Stored(e) /\ expenses[e].period # r.period)
    BY <1>1
  <2>2. CASE x = e
    BY <1>1, <1>4, <2>1, <2>2 DEF CopyIn, Put, Stored
  <2>3. CASE x # e
    BY <1>1, <2>3 DEF CopyIn, Put
  <2> QED
    BY <2>2, <2>3
<1> QED
  BY <1>5, <1>6

LEMMA DeleteStep ==
  ASSUME Shape, NEW p \in Procs, DeleteExpenseHeader(p)
  PROVE  TableStep /\ CopiesStay
<1> DEFINE e == job[p].target
<1>1. /\ expenses' = [expenses EXCEPT ![e].active = FALSE]
      /\ moved' = moved
  BY DEF DeleteExpenseHeader
<1> HIDE DEF e
<1>2. /\ DOMAIN expenses' = DOMAIN expenses
      /\ expenses' = [x \in DOMAIN expenses' |-> expenses'[x]]
      /\ \A x \in DOMAIN expenses : x # e => expenses'[x] = expenses[x]
      /\ e \in DOMAIN expenses => expenses'[e] = [expenses[e] EXCEPT !.active = FALSE]
  BY <1>1 DEF Shape
<1>3. e \in DOMAIN expenses =>
         expenses'[e] = Columns(expenses'[e]) /\ ~expenses'[e].active
  BY <1>2 DEF Shape, Columns
<1>4. TableStep
  BY <1>1, <1>2, <1>3 DEF TableStep, Shape
<1>5. CopiesStay
  BY <1>2, <1>3 DEF CopiesStay, CopyIn
<1> QED
  BY <1>4, <1>5

\* Every other step but a commit leaves the table alone.
LEMMA OtherSteps ==
  ASSUME Shape, JobsOK, NEW p \in Procs, RequestStep(p), ~GenerationCommit(p)
  PROVE  TableStep /\ CopiesStay
<1>1. CASE ExpenseHeader(p)
  BY <1>1, HeaderStep
<1>2. CASE DeleteExpenseHeader(p)
  BY <1>2, DeleteStep
<1>3. CASE ~ExpenseHeader(p) /\ ~DeleteExpenseHeader(p)
  <2>1. expenses' = expenses /\ moved' = moved
    BY <1>3 DEF RequestStep, BeginExpense, ExpenseLine, ExpenseSaved, BeginDeleteExpense,
                DeleteExpenseLines, BeginGeneration, GenerationSnapshot, FailExpense, expenseVars
  <2> QED
    BY <2>1 DEF TableStep, CopiesStay, Shape
<1> QED
  BY <1>1, <1>2, <1>3

----------------------------------------------------------------------------
(* The commit of a generation *)

\* The rows a commit adds, and what they are.
Added(j) == {<<j.n, k>> : k \in Copied(j.table, j.items)}

LEMMA CommitRows ==
  ASSUME Shape, JobsOK, NEW p \in Procs, GenerationCommit(p)
  PROVE  /\ TableStep
         /\ moved' = moved
         /\ DOMAIN expenses' = DOMAIN expenses \cup Added(job[p])
         /\ \A e \in DOMAIN expenses \ Added(job[p]) : expenses'[e] = expenses[e]
         /\ \A e \in Added(job[p]) :
               /\ expenses'[e].active
               /\ expenses'[e].from = job[p].items[e[2]].source
               /\ expenses'[e].period = job[p].items[e[2]].period
<1> DEFINE j == job[p]
           row(e) == [active |-> TRUE, period |-> j.items[e[2]].period,
                      subtotal |-> Total(j.items[e[2]].form), from |-> j.items[e[2]].source]
<1>1. /\ expenses' = [e \in DOMAIN expenses \cup Added(j) |->
                         IF e \notin Added(j) THEN expenses[e] ELSE row(e)]
      /\ moved' = moved
  BY DEF GenerationCommit, Added
<1>2. \A e : /\ row(e) = Columns(row(e))
             /\ row(e).active
             /\ row(e).from = j.items[e[2]].source
             /\ row(e).period = j.items[e[2]].period
  BY DEF Columns
<1> HIDE DEF row
<1>3. TableStep
  BY <1>1, <1>2 DEF TableStep, Shape
<1> QED
  BY <1>1, <1>2, <1>3

\* Of two copies in force after a commit, none is left when both are new, since an
\* item is skipped if an earlier one names its source; nor when one is old, since
\* the snapshot has it.
LEMMA CommitKeepsOne ==
  ASSUME IInv, NEW p \in Procs, GenerationCommit(p), ~contended, ~moved',
         NEW e, NEW f, NEW source, NEW period,
         CopyIn(expenses', e, source, period), CopyIn(expenses', f, source, period),
         source # NoExpense
  PROVE  e = f
<1> DEFINE j == job[p]
<1> USE DEF IInv
<1>1. /\ moved' = moved
      /\ DOMAIN expenses' = DOMAIN expenses \cup Added(j)
      /\ \A x \in DOMAIN expenses \ Added(j) : expenses'[x] = expenses[x]
      /\ \A x \in Added(j) : /\ expenses'[x].from = j.items[x[2]].source
                             /\ expenses'[x].period = j.items[x[2]].period
  BY CommitRows
<1>2. phase[p] = "generate_commit" /\ DOMAIN j.items \subseteq {1, 2}
  BY DEF GenerationCommit, JobsOK, GenerationJob, Generating
<1>3. \A x \in {e, f} : x \notin Added(j) =>
          CopyIn(expenses, x, source, period) /\ CopyIn(j.table, x, source, period)
  BY <1>1, <1>2 DEF CopyIn, SnapshotCurrent
<1>4. \A x \in {e, f} : x \in Added(j) =>
          /\ x = <<j.n, x[2]>>
          /\ x[2] \in Copied(j.table, j.items)
          /\ j.items[x[2]].source = source
          /\ j.items[x[2]].period = period
  BY <1>1 DEF CopyIn, Added
<1>5. \A k \in Copied(j.table, j.items) :
          /\ k \in {1, 2}
          /\ ~HasCopy(j.table, j.items[k])
          /\ k = 2 => j.items[1].source # j.items[2].source
  BY <1>2 DEF Copied
<1>6. CASE e \notin Added(j) /\ f \notin Added(j)
  BY <1>1, <1>3, <1>6 DEF OneCopy
<1>7. CASE e \in Added(j) /\ f \in Added(j)
  BY <1>4, <1>5, <1>7
<1>8. CASE (e \in Added(j) /\ f \notin Added(j)) \/ (e \notin Added(j) /\ f \in Added(j))
  <2>1. PICK x \in {e, f}, y \in {e, f} : x \in Added(j) /\ y \notin Added(j)
    BY <1>8
  <2>2. CopyIn(j.table, y, source, period)
    BY <1>3, <2>1
  <2>3. HasCopy(j.table, j.items[x[2]])
    BY <1>4, <2>1, <2>2 DEF HasCopy, CopyIn
  <2> QED
    BY <1>4, <1>5, <2>1, <2>3
<1> QED
  BY <1>6, <1>7, <1>8

----------------------------------------------------------------------------
(* The invariant *)

LEMMA InitHolds == SlotsInit /\ ExpensesInit => IInv
<1> SUFFICES ASSUME SlotsInit, ExpensesInit PROVE IInv
  OBVIOUS
<1> USE DEF SlotsInit, ExpensesInit
<1>1. DOMAIN expenses = {}
  OBVIOUS
<1>2. expenses = [e \in DOMAIN expenses |-> expenses[e]]
  OBVIOUS
<1>3. phase \in [Procs -> Phases] /\ job = [p \in Procs |-> job[p]]
  BY DEF Phases
<1>4. Shape
  BY <1>1, <1>2, <1>3 DEF Shape
<1>5. JobsOK /\ OneGeneration /\ SnapshotCurrent
  BY DEF JobsOK, OneGeneration, SnapshotCurrent, Generating
<1>6. OneCopy
  BY <1>1 DEF OneCopy, CopyIn
<1> QED
  BY <1>4, <1>5, <1>6 DEF IInv

LEMMA StepKeeps == IInv /\ [ExpensesNext]_vars => IInv'
<1> SUFFICES ASSUME IInv, [ExpensesNext]_vars PROVE IInv'
  OBVIOUS
<1>1. CASE UNCHANGED vars
  BY <1>1 DEF vars, slotVars, expenseVars, IInv, Shape, JobsOK, OneGeneration, SnapshotCurrent,
              OneCopy, CopyIn
<1>2. CASE ExpensesNext
  <2>1. PICK p \in Procs : RequestStep(p)
    BY <1>2 DEF ExpensesNext, RequestStep
  <2>2. SlotStep(p)
    BY <2>1, SlotSteps DEF IInv
  <2>3. TableStep /\ (GenerationCommit(p) \/ CopiesStay)
    BY <2>1, OtherSteps, CommitRows DEF IInv
  <2>4. PICK ph, j : Move(p, ph, j)
    BY <2>2 DEF SlotStep
  <2>5. /\ phase'[p] = ph /\ job'[p] = j
        /\ \A q \in Procs \ {p} : phase'[q] = phase[q] /\ job'[q] = job[q]
    BY <2>4 DEF Move, IInv, Shape
  <2>6. Shape'
    BY <2>2, <2>3, <2>4 DEF Move, IInv, Shape, SlotStep, TableStep
  <2>7. JobsOK'
    BY <2>4, <2>5 DEF Move, IInv, JobsOK
  <2>8. OneGeneration'
    BY <2>2, <2>4, <2>5 DEF Move, IInv, OneGeneration, SlotStep, Generations, InFlight, Generating
  <2>9. SnapshotCurrent'
    <3> SUFFICES ASSUME ~contended', ~moved', NEW q \in Procs, phase'[q] = "generate_commit",
                        NEW e, NEW source, NEW period,
                        CopyIn(expenses', e, source, period), source # NoExpense
                 PROVE  CopyIn(job'[q].table, e, source, period)
      BY DEF SnapshotCurrent
    <3>1. CASE q = p
      BY <2>4, <2>5, <3>1 DEF Move, CopyIn
    <3>2. CASE q # p
      <4>1. phase[q] = "generate_commit" /\ job'[q] = job[q]
        BY <2>5, <3>2
      <4>2. ~contended /\ ~moved
        BY <2>2, <2>3 DEF SlotStep, TableStep
      <4>3. ~GenerationCommit(p)
        BY <3>2, <4>1, <4>2 DEF IInv, OneGeneration, Generating, GenerationCommit
      <4>4. CopyIn(expenses, e, source, period)
        BY <2>3, <4>3 DEF CopiesStay
      <4> QED
        BY <4>1, <4>2, <4>4 DEF IInv, SnapshotCurrent
    <3> QED
      BY <3>1, <3>2
  <2>10. OneCopy'
    <3> SUFFICES ASSUME ~contended', ~moved', NEW e, NEW f, NEW source, NEW period,
                        CopyIn(expenses', e, source, period),
                        CopyIn(expenses', f, source, period), source # NoExpense
                 PROVE  e = f
      BY DEF OneCopy
    <3>1. ~contended /\ ~moved
      BY <2>2, <2>3 DEF SlotStep, TableStep
    <3>2. CASE GenerationCommit(p)
      BY <3>1, <3>2, CommitKeepsOne
    <3>3. CASE CopiesStay
      BY <3>1, <3>3 DEF IInv, OneCopy, CopiesStay
    <3> QED
      BY <2>3, <3>2, <3>3
  <2> QED
    BY <2>6, <2>7, <2>8, <2>9, <2>10 DEF IInv
<1> QED
  BY <1>1, <1>2

\* A month of an account has one recurring copy of an expense at most, through saves,
\* deletes, failures and generations that name an expense twice, unless two
\* generations or two saves of an expense overlapped or a save moved an expense.
THEOREM OneCopyAMonth == ExpensesSpec => []OneCopyPerMonth
<1>1. IInv => OneCopyPerMonth
  <2> SUFFICES ASSUME IInv, ~contended, ~moved, NEW e \in Expense, NEW f \in Expense,
                      LiveExpense(e), LiveExpense(f), e # f, expenses[e].from # NoExpense,
                      <<expenses[e].from, expenses[e].period>>
                        = <<expenses[f].from, expenses[f].period>>
               PROVE  FALSE
    BY DEF OneCopyPerMonth
  <2>1. CopyIn(expenses, e, expenses[e].from, expenses[e].period)
    BY DEF CopyIn, LiveExpense, Stored
  <2>2. CopyIn(expenses, f, expenses[e].from, expenses[e].period)
    BY DEF CopyIn, LiveExpense, Stored
  <2> QED
    BY <2>1, <2>2 DEF IInv, OneCopy
<1> QED
  BY <1>1, InitHolds, StepKeeps, PTL DEF ExpensesSpec, vars

----------------------------------------------------------------------------
(* Records *)


RecordPhases == {"idle", "document", "account", "count", "mark"}
Deleting == {"count", "mark"}
Keeping == {"document", "account"}
Master == [kind : Kinds, active : BOOLEAN, saved : Nat, deleted : Nat]

RecordsShape ==
    /\ contended \in BOOLEAN
    /\ started \in Nat
    /\ phase \in [Procs -> RecordPhases]
    /\ job = [p \in Procs |-> job[p]]
    /\ masters \in [Masters -> Master]

\* Numbers are of requests there were.
Row(r) ==
    /\ r = [kind |-> r.kind, master |-> r.master, active |-> r.active, saved |-> r.saved]
    /\ r.saved \in 0..started
Numbered ==
    /\ \A m \in Masters : masters[m].deleted <= started
    /\ \A d \in DOMAIN documents : Row(documents[d])

\* Only accounts have contacts.
Contacts == \A m \in contacted : m \in Masters /\ masters[m].kind = "account"

JobOf(ph, j) ==
    /\ j.master \in Masters /\ j.n \in 1..started
    /\ ph = "account" => masters[j.master].kind = "account"
    /\ ph \in Deleting => j = [n |-> j.n, master |-> j.master, left |-> j.left]

RecordJobs == \A p \in Procs : phase[p] # "idle" => JobOf(phase[p], job[p])

\* A deletion is alone with its record.
DeletesAlone ==
    \A p, q \in Procs :
        p # q /\ phase[p] \in Deleting /\ phase[q] # "idle" => job[p].master # job[q].master

\* What is claimed, of one record.
CleanAt(m) ==
    ~masters[m].active =>
        /\ m \in contacted => masters[m].saved > masters[m].deleted
        /\ \A d \in DOMAIN documents :
              documents[d].active /\ documents[d].master = m =>
                 /\ documents[d].kind \in Protecting[masters[m].kind]
                       => documents[d].saved > masters[m].deleted
                 /\ RefusesInactive(documents[d].kind, masters[m].kind)
                       => documents[d].saved <= masters[m].deleted

\* A deletion in flight: every document of the record was saved before it began, and
\* those that protect it are of kinds it has not counted.
DeletionKnows(ph, j) ==
    /\ \A d \in DOMAIN documents :
          documents[d].master = j.master =>
             /\ documents[d].saved < j.n
             /\ documents[d].active /\ documents[d].kind \in Protecting[masters[j.master].kind]
                   => documents[d].kind \in j.left
    /\ ph = "mark" => j.master \notin contacted /\ j.left = {}

\* A save in flight began after the last deletion of the record, and what it refused
\* it would refuse still.
SaveKnows(ph, j) ==
    /\ j.n > masters[j.master].deleted
    /\ ph = "document" /\ RefusesInactive(j.kind, masters[j.master].kind)
          => masters[j.master].active

Knows(ph, j) ==
    /\ ph \in Deleting => DeletionKnows(ph, j)
    /\ ph \in Keeping => SaveKnows(ph, j)

RecordsQuiet ==
    /\ DeletesAlone
    /\ \A m \in Masters : CleanAt(m)
    /\ \A p \in Procs : phase[p] # "idle" => Knows(phase[p], job[p])

RecordsInv ==
    /\ RecordsShape /\ Numbered /\ Contacts /\ RecordJobs
    /\ ~contended => RecordsQuiet

LEMMA RecordsClaims == RecordsInv => DeletionClean
<1> SUFFICES ASSUME RecordsInv, ~contended, NEW m \in Masters, ~masters[m].active
             PROVE  /\ m \in contacted => masters[m].saved > masters[m].deleted
                    /\ \A d \in DOMAIN documents :
                          LET doc == documents[d]
                              later == doc.saved > masters[m].deleted
                          IN doc.active /\ doc.master = m =>
                                /\ doc.kind \in Protecting[masters[m].kind] => later
                                /\ RefusesInactive(doc.kind, masters[m].kind) => ~later
  BY DEF DeletionClean
<1>1. CleanAt(m) /\ masters[m].deleted \in Nat
  BY DEF RecordsInv, RecordsQuiet, RecordsShape, Master
<1>2. \A d \in DOMAIN documents : documents[d].saved \in Nat
  BY DEF RecordsInv, Numbered, Row, RecordsShape
<1> QED
  BY <1>1, <1>2 DEF CleanAt

LEMMA CountedProtects ==
  ASSUME NEW kind \in Kinds
  PROVE  Protecting[kind] = Counted[kind]
<1>1. kind \in {"account", "product", "machine", "employee", "resource"}
  BY DEF Kinds, Referring
<1>2. CASE kind = "account"
  BY <1>2 DEF Protecting, Counted, AccountDependencies
<1>3. CASE kind = "product"
  BY <1>3 DEF Protecting, Counted, ProductDependencies
<1>4. CASE kind = "machine"
  BY <1>4 DEF Protecting, Counted, MachineDependencies
<1>5. CASE kind = "employee"
  BY <1>5 DEF Protecting, Counted, EmployeeDependencies
<1>6. CASE kind = "resource"
  BY <1>6 DEF Protecting, Counted
<1> QED
  BY <1>1, <1>2, <1>3, <1>4, <1>5, <1>6

----------------------------------------------------------------------------

\* A step that concerns record m: of the others, documents may only be deleted or
\* repointed, and nothing else changes.
SameKept(m) ==
    \A d \in DOMAIN documents' :
       \/ documents'[d].master = m
       \/ /\ d \in DOMAIN documents
          /\ documents'[d].master = documents[d].master
          /\ documents'[d].kind = documents[d].kind
          /\ documents'[d].saved = documents[d].saved
          /\ documents'[d].active => documents[d].active
OthersKept(m) ==
    /\ SameKept(m)
    /\ \A x \in Masters : x # m => masters'[x] = masters[x]
    /\ \A x : x # m => (x \in contacted' <=> x \in contacted)

LEMMA CleanKept ==
  ASSUME NEW m, NEW x \in Masters, x # m, OthersKept(m), CleanAt(x)
  PROVE  CleanAt(x)'
<1>1. masters'[x] = masters[x] /\ (x \in contacted' <=> x \in contacted)
  BY DEF OthersKept
<1>2. ASSUME NEW d \in DOMAIN documents', documents'[d].active, documents'[d].master = x
      PROVE  /\ d \in DOMAIN documents /\ documents[d].active /\ documents[d].master = x
             /\ documents'[d].kind = documents[d].kind
             /\ documents'[d].saved = documents[d].saved
  BY <1>2 DEF OthersKept, SameKept
<1> QED
  BY <1>1, <1>2 DEF CleanAt

LEMMA DeletionKnowsKept ==
  ASSUME NEW m, NEW ph, NEW j, j.master # m, j.master \in Masters, OthersKept(m),
         DeletionKnows(ph, j)
  PROVE  DeletionKnows(ph, j)'
<1>1. PICK x : x = j.master
  OBVIOUS
<1>2. masters'[x] = masters[x] /\ (x \in contacted' <=> x \in contacted)
  BY <1>1 DEF OthersKept
<1>3. ASSUME NEW d \in DOMAIN documents', documents'[d].master = x
      PROVE  /\ d \in DOMAIN documents /\ documents[d].master = x
             /\ documents'[d].active => documents[d].active
             /\ documents'[d].kind = documents[d].kind
             /\ documents'[d].saved = documents[d].saved
  BY <1>1, <1>3 DEF OthersKept, SameKept
<1> QED
  BY <1>1, <1>2, <1>3 DEF DeletionKnows

\* What a step of request p about record m, to phase ph with k, must show.
RecordMoves(p, ph, k, m) ==
    /\ OthersKept(m)
    /\ ph # "idle" => k.master = m /\ Knows(ph, k)'
    /\ \A q \in Procs : q # p /\ phase[q] \in Deleting => job[q].master # m
    /\ \A q \in Procs : q # p /\ phase[q] # "idle" /\ job[q].master = m =>
          /\ ph \notin Deleting
          /\ masters'[m].deleted = masters[m].deleted /\ masters'[m].kind = masters[m].kind
          /\ masters'[m].active = masters[m].active
    /\ m \in Masters => CleanAt(m)'

LEMMA RecordsStep ==
  ASSUME RecordsInv, NEW p \in Procs, NEW ph \in RecordPhases, NEW k, NEW m,
         phase' = [phase EXCEPT ![p] = ph], job' = [job EXCEPT ![p] = k],
         started' \in Nat, started <= started', contended' \in BOOLEAN,
         masters' \in [Masters -> Master],
         \A x \in Masters : masters'[x].kind = masters[x].kind,
         Numbered', Contacts', ph # "idle" => JobOf(ph, k)',
         ~contended' => ~contended /\ RecordMoves(p, ph, k, m)
  PROVE  RecordsInv'
<1>1. /\ phase'[p] = ph /\ job'[p] = k
      /\ \A q \in Procs : q # p => phase'[q] = phase[q] /\ job'[q] = job[q]
  BY DEF RecordsInv, RecordsShape
<1>2. RecordsShape'
  <2>1. phase' \in [Procs -> RecordPhases] /\ job' = [q \in Procs |-> job'[q]]
    BY DEF RecordsInv, RecordsShape
  <2> QED
    BY <2>1 DEF RecordsShape
<1>3. RecordJobs'
  <2> SUFFICES ASSUME NEW q \in Procs, phase'[q] # "idle" PROVE JobOf(phase[q], job[q])'
    BY DEF RecordJobs
  <2>1. PICK f, j : f = phase'[q] /\ j = job'[q]
    OBVIOUS
  <2>2. JobOf(f, j)'
    <3>1. CASE q = p
      BY <1>1, <2>1, <3>1
    <3>2. CASE q # p
      <4>1. JobOf(f, j)
        BY <1>1, <2>1, <3>2 DEF RecordsInv, RecordJobs
      <4> QED
        BY <4>1 DEF JobOf, RecordsInv, RecordsShape
    <3> QED
      BY <3>1, <3>2
  <2> QED
    BY <2>1, <2>2
<1>4. ASSUME ~contended' PROVE RecordsQuiet'
  <2>1. RecordsQuiet /\ RecordMoves(p, ph, k, m)
    BY <1>4 DEF RecordsInv
  <2>2. DeletesAlone'
    <3> SUFFICES ASSUME NEW x \in Procs, NEW y \in Procs, x # y, phase'[x] \in Deleting,
                        phase'[y] # "idle"
                 PROVE  job'[x].master # job'[y].master
      BY DEF DeletesAlone
    <3>1. CASE x = p
      <4>1. phase[y] # "idle" /\ job'[y] = job[y] /\ ph \in Deleting /\ job'[x] = k /\ ph # "idle"
        BY <1>1, <3>1 DEF Deleting
      <4> QED
        BY <2>1, <3>1, <4>1 DEF RecordMoves
    <3>2. CASE y = p
      <4>1. phase[x] \in Deleting /\ job'[x] = job[x] /\ job'[y] = k /\ ph # "idle"
        BY <1>1, <3>2
      <4> QED
        BY <2>1, <3>2, <4>1 DEF RecordMoves
    <3>3. CASE x # p /\ y # p
      BY <1>1, <2>1, <3>3 DEF RecordsQuiet, DeletesAlone
    <3> QED
      BY <3>1, <3>2, <3>3
  <2>3. ASSUME NEW x \in Masters PROVE CleanAt(x)'
    <3>1. CASE x = m
      BY <2>1, <3>1 DEF RecordMoves
    <3>2. CASE x # m
      BY <2>1, <3>2, CleanKept DEF RecordMoves, RecordsQuiet
    <3> QED
      BY <3>1, <3>2
  <2>4. ASSUME NEW q \in Procs, phase'[q] # "idle" PROVE Knows(phase[q], job[q])'
    <3>1. PICK f, j : f = phase'[q] /\ j = job'[q]
      OBVIOUS
    <3>2. Knows(f, j)'
      <4>1. CASE q = p
        BY <1>1, <2>1, <2>4, <3>1, <4>1 DEF RecordMoves
      <4>2. CASE q # p
        <5>1. f = phase[q] /\ j = job[q] /\ f # "idle"
          BY <1>1, <2>4, <3>1, <4>2
        <5>2. Knows(f, j) /\ j.master \in Masters
          BY <2>1, <5>1 DEF RecordsQuiet, RecordsInv, RecordJobs, JobOf
        <5>3. OthersKept(m)
          BY <2>1 DEF RecordMoves
        <5>4. ASSUME f \in Deleting PROVE DeletionKnows(f, j)'
          <6>1. j.master # m
            BY <2>1, <4>2, <5>1, <5>4 DEF RecordMoves
          <6> QED
            BY <5>2, <5>3, <5>4, <6>1, DeletionKnowsKept DEF Knows
        <5>5. ASSUME f \in Keeping PROVE SaveKnows(f, j)'
          <6>1. PICK x : x = j.master
            OBVIOUS
          <6>2. /\ masters'[x].deleted = masters[x].deleted /\ masters'[x].kind = masters[x].kind
                /\ masters'[x].active = masters[x].active
            <7>1. CASE x = m
              BY <2>1, <4>2, <5>1, <6>1, <7>1 DEF RecordMoves
            <7>2. CASE x # m
              BY <5>2, <5>3, <6>1, <7>2 DEF OthersKept
            <7> QED
              BY <7>1, <7>2
          <6> QED
            BY <5>2, <5>5, <6>1, <6>2 DEF Knows, SaveKnows
        <5> QED
          BY <5>4, <5>5 DEF Knows
      <4> QED
        BY <4>1, <4>2
    <3> QED
      BY <3>1, <3>2
  <2> QED
    BY <2>2, <2>3, <2>4 DEF RecordsQuiet
<1> QED
  BY <1>2, <1>3, <1>4 DEF RecordsInv

----------------------------------------------------------------------------

LEMMA Begun ==
  ASSUME RecordsInv, NEW p \in Procs, NEW ph, NEW j, NEW rivals, Start(p, ph, j, rivals),
         UNCHANGED recordVars
  PROVE  /\ phase[p] = "idle"
         /\ phase' = [phase EXCEPT ![p] = ph] /\ job' = [job EXCEPT ![p] = j]
         /\ started' = started + 1 /\ started \in Nat
         /\ contended' \in BOOLEAN /\ (~contended' => ~contended /\ rivals = {})
         /\ masters' = masters /\ documents' = documents /\ contacted' = contacted
         /\ masters' \in [Masters -> Master]
         /\ Numbered' /\ Contacts'
         /\ \A m : OthersKept(m)
         /\ ~contended => \A m \in Masters : CleanAt(m)'
<1>1. /\ phase[p] = "idle"
      /\ phase' = [phase EXCEPT ![p] = ph] /\ job' = [job EXCEPT ![p] = j]
      /\ started' = started + 1 /\ started \in Nat
      /\ contended' \in BOOLEAN /\ (~contended' => ~contended /\ rivals = {})
      /\ masters' = masters /\ documents' = documents /\ contacted' = contacted
      /\ masters' \in [Masters -> Master]
  BY DEF Start, Free, NextSerial, recordVars, RecordsInv, RecordsShape
<1>2. Numbered'
  <2>1. \A m \in Masters : masters[m].deleted \in Nat /\ masters[m].deleted <= started
    BY DEF RecordsInv, RecordsShape, Numbered, Master
  <2>2. \A d \in DOMAIN documents : Row(documents[d])
    BY DEF RecordsInv, Numbered
  <2>3. ASSUME NEW r, Row(r) PROVE Row(r)'
    BY <1>1, <2>3 DEF Row
  <2> QED
    BY <1>1, <2>1, <2>2, <2>3 DEF Numbered, Row
<1>3. Contacts'
  BY <1>1 DEF RecordsInv, Contacts
<1>4. \A m : OthersKept(m)
  BY <1>1 DEF OthersKept, SameKept
<1>5. ~contended => \A m \in Masters : CleanAt(m)'
  BY <1>1 DEF RecordsInv, RecordsQuiet, CleanAt
<1> QED
  BY <1>1, <1>2, <1>3, <1>4, <1>5

LEMMA BegunDocument ==
  ASSUME RecordsInv, NEW p \in Procs, NEW d, NEW kind, NEW m \in Masters,
         BeginDocument(p, d, kind, m)
  PROVE  RecordsInv'
<1> DEFINE k == [n |-> NextSerial, doc |-> d, kind |-> kind, master |-> m]
<1>1. Start(p, "document", k, DeletionsOf(m)) /\ UNCHANGED recordVars
  BY DEF BeginDocument
<1>2. RefusesInactive(kind, masters[m].kind) => masters[m].active
  BY DEF BeginDocument
<1>3. PICK j, rivals : j = k /\ rivals = DeletionsOf(m)
  OBVIOUS
<1>4. j.n = started + 1 /\ j.kind = kind /\ j.master = m
  BY <1>3 DEF NextSerial
<1> HIDE DEF k
<1>5. /\ phase[p] = "idle"
      /\ phase' = [phase EXCEPT ![p] = "document"] /\ job' = [job EXCEPT ![p] = j]
      /\ started' = started + 1 /\ started \in Nat
      /\ contended' \in BOOLEAN /\ (~contended' => ~contended /\ rivals = {})
      /\ masters' = masters /\ documents' = documents /\ contacted' = contacted
      /\ masters' \in [Masters -> Master]
      /\ Numbered' /\ Contacts'
      /\ OthersKept(m)
      /\ ~contended => CleanAt(m)'
  BY <1>1, <1>3, Begun
<1>6. JobOf("document", j)'
  BY <1>4, <1>5 DEF JobOf, Deleting
<1>7. ASSUME ~contended' PROVE ~contended /\ RecordMoves(p, "document", j, m)
  <2>1. ~contended /\ DeletionsOf(m) = {}
    BY <1>3, <1>5, <1>7
  <2>2. \A q \in Procs : phase[q] \in Deleting => job[q].master # m
    BY <2>1 DEF DeletionsOf, InFlight, Deleting
  <2>3. masters[m].deleted \in Nat /\ masters[m].deleted <= started
    BY DEF RecordsInv, RecordsShape, Numbered, Master
  <2>4. SaveKnows("document", j)'
    BY <1>2, <1>4, <1>5, <2>3 DEF SaveKnows
  <2>5. Knows("document", j)'
    BY <2>4 DEF Knows, Deleting
  <2> QED
    BY <1>4, <1>5, <2>1, <2>2, <2>5 DEF RecordMoves, Deleting
<1>8. started' \in Nat /\ started <= started' /\ "document" \in RecordPhases
  BY <1>5 DEF RecordPhases
<1> QED
  BY <1>5, <1>6, <1>7, <1>8, RecordsStep

LEMMA BegunAccount ==
  ASSUME RecordsInv, NEW p \in Procs, NEW m \in Masters, NEW withContacts,
         BeginAccount(p, m, withContacts)
  PROVE  RecordsInv'
<1> DEFINE k == [n |-> NextSerial, master |-> m, contacts |-> withContacts]
<1>1. Start(p, "account", k, DeletionsOf(m)) /\ UNCHANGED recordVars
  BY DEF BeginAccount
<1>2. masters[m].kind = "account"
  BY DEF BeginAccount
<1>3. PICK j, rivals : j = k /\ rivals = DeletionsOf(m)
  OBVIOUS
<1>4. j.n = started + 1 /\ j.master = m
  BY <1>3 DEF NextSerial
<1> HIDE DEF k
<1>5. /\ phase[p] = "idle"
      /\ phase' = [phase EXCEPT ![p] = "account"] /\ job' = [job EXCEPT ![p] = j]
      /\ started' = started + 1 /\ started \in Nat
      /\ contended' \in BOOLEAN /\ (~contended' => ~contended /\ rivals = {})
      /\ masters' = masters /\ documents' = documents /\ contacted' = contacted
      /\ masters' \in [Masters -> Master]
      /\ Numbered' /\ Contacts'
      /\ OthersKept(m)
      /\ ~contended => CleanAt(m)'
  BY <1>1, <1>3, Begun
<1>6. JobOf("account", j)'
  BY <1>2, <1>4, <1>5 DEF JobOf, Deleting
<1>7. ASSUME ~contended' PROVE ~contended /\ RecordMoves(p, "account", j, m)
  <2>1. ~contended /\ DeletionsOf(m) = {}
    BY <1>3, <1>5, <1>7
  <2>2. \A q \in Procs : phase[q] \in Deleting => job[q].master # m
    BY <2>1 DEF DeletionsOf, InFlight, Deleting
  <2>3. masters[m].deleted \in Nat /\ masters[m].deleted <= started
    BY DEF RecordsInv, RecordsShape, Numbered, Master
  <2>4. SaveKnows("account", j)'
    BY <1>4, <1>5, <2>3 DEF SaveKnows
  <2>5. Knows("account", j)'
    BY <2>4 DEF Knows, Deleting
  <2> QED
    BY <1>4, <1>5, <2>1, <2>2, <2>5 DEF RecordMoves, Deleting
<1>8. started' \in Nat /\ started <= started' /\ "account" \in RecordPhases
  BY <1>5 DEF RecordPhases
<1> QED
  BY <1>5, <1>6, <1>7, <1>8, RecordsStep

LEMMA BegunDelete ==
  ASSUME RecordsInv, NEW p \in Procs, NEW m \in Masters, BeginDelete(p, m)
  PROVE  RecordsInv'
<1> DEFINE k == [n |-> NextSerial, master |-> m, left |-> Counted[masters[m].kind]]
           others == DeletionsOf(m) \cup SavesOfRecord(m)
<1>1. Start(p, "count", k, others) /\ UNCHANGED recordVars
  BY DEF BeginDelete
<1>3. PICK j, rivals : j = k /\ rivals = others
  OBVIOUS
<1>4. /\ j.n = started + 1 /\ j.master = m /\ j.left = Counted[masters[m].kind]
      /\ j = [n |-> j.n, master |-> j.master, left |-> j.left]
  BY <1>3 DEF NextSerial
<1> HIDE DEF k
<1>5. /\ phase[p] = "idle"
      /\ phase' = [phase EXCEPT ![p] = "count"] /\ job' = [job EXCEPT ![p] = j]
      /\ started' = started + 1 /\ started \in Nat
      /\ contended' \in BOOLEAN /\ (~contended' => ~contended /\ rivals = {})
      /\ masters' = masters /\ documents' = documents /\ contacted' = contacted
      /\ masters' \in [Masters -> Master]
      /\ Numbered' /\ Contacts'
      /\ OthersKept(m)
      /\ ~contended => CleanAt(m)'
  <2> HIDE DEF others
  <2> QED
    BY <1>1, <1>3, Begun
<1>6. JobOf("count", j)'
  BY <1>4, <1>5 DEF JobOf, Deleting
<1>7. ASSUME ~contended' PROVE ~contended /\ RecordMoves(p, "count", j, m)
  <2>1. ~contended /\ others = {}
    BY <1>3, <1>5, <1>7
  <2>2. \A q \in Procs : phase[q] # "idle" => job[q].master # m
    <3>1. \A q \in Procs : phase[q] \in RecordPhases
      BY DEF RecordsInv, RecordsShape
    <3> QED
      BY <2>1, <3>1 DEF DeletionsOf, SavesOfRecord, InFlight, RecordPhases
  <2>3. masters[m].kind \in Kinds
    BY DEF RecordsInv, RecordsShape, Master
  <2>4. Protecting[masters[m].kind] = j.left
    BY <1>4, <2>3, CountedProtects
  <2>5. \A d \in DOMAIN documents : documents[d].saved \in 0..started
    BY DEF RecordsInv, Numbered, Row
  <2>6. DeletionKnows("count", j)'
    BY <1>4, <1>5, <2>4, <2>5 DEF DeletionKnows
  <2>7. Knows("count", j)'
    BY <2>6 DEF Knows, Keeping
  <2>8. \A q \in Procs : q # p /\ phase[q] \in Deleting => job[q].master # m
    BY <2>2 DEF Deleting
  <2> QED
    BY <1>4, <1>5, <2>1, <2>2, <2>7, <2>8 DEF RecordMoves
<1>8. started' \in Nat /\ started <= started' /\ "count" \in RecordPhases
  BY <1>5 DEF RecordPhases
<1> QED
  BY <1>5, <1>6, <1>7, <1>8, RecordsStep

----------------------------------------------------------------------------

\* What is known of the request whose step it is.
LEMMA Running ==
  ASSUME RecordsInv, NEW p \in Procs, phase[p] # "idle"
  PROVE  /\ started \in Nat /\ job[p].master \in Masters /\ job[p].n \in 1..started
         /\ JobOf(phase[p], job[p])
         /\ masters[job[p].master] \in Master
         /\ \A d \in DOMAIN documents : Row(documents[d])
         /\ ~contended =>
               /\ Knows(phase[p], job[p]) /\ CleanAt(job[p].master)
               /\ \A q \in Procs : q # p /\ phase[q] \in Deleting => job[q].master # job[p].master
               /\ \A q \in Procs : q # p /\ phase[p] \in Deleting /\ phase[q] # "idle"
                                      => job[q].master # job[p].master
<1>1. JobOf(phase[p], job[p])
  BY DEF RecordsInv, RecordJobs
<1>2. /\ started \in Nat /\ job[p].master \in Masters /\ job[p].n \in 1..started
      /\ masters[job[p].master] \in Master
      /\ \A d \in DOMAIN documents : Row(documents[d])
  BY <1>1 DEF JobOf, RecordsInv, RecordsShape, Numbered
<1>3. ASSUME ~contended
      PROVE  /\ Knows(phase[p], job[p]) /\ CleanAt(job[p].master)
             /\ \A q \in Procs : q # p /\ phase[q] \in Deleting => job[q].master # job[p].master
             /\ \A q \in Procs : q # p /\ phase[p] \in Deleting /\ phase[q] # "idle"
                                    => job[q].master # job[p].master
  BY <1>2, <1>3 DEF RecordsInv, RecordsQuiet, DeletesAlone
<1> QED
  BY <1>1, <1>2, <1>3

LEMMA SavedDocument ==
  ASSUME RecordsInv, NEW p \in Procs, SaveDocument(p)
  PROVE  RecordsInv'
<1>0. phase[p] = "document"
  BY DEF SaveDocument
<1>1. PICK j, m, n : j = job[p] /\ m = j.master /\ n = j.n
  OBVIOUS
<1>2. /\ started \in Nat /\ m \in Masters /\ n \in 1..started
      /\ \A d \in DOMAIN documents : Row(documents[d])
      /\ ~contended =>
            /\ Knows("document", j) /\ CleanAt(m)
            /\ \A q \in Procs : q # p /\ phase[q] \in Deleting => job[q].master # m
  BY <1>0, <1>1, Running
<1>3. PICK active : active = (j.doc \in DOMAIN documents => documents[j.doc].active)
  OBVIOUS
<1>4. /\ phase' = [phase EXCEPT ![p] = "idle"] /\ job' = [job EXCEPT ![p] = NoJob]
      /\ started' = started /\ contended' = contended
      /\ masters' = masters /\ contacted' = contacted
      /\ documents' = [d \in DOMAIN documents \cup {j.doc} |->
             IF d # j.doc THEN documents[d]
             ELSE [kind |-> j.kind, master |-> m, active |-> active, saved |-> n]]
  BY <1>1, <1>3 DEF SaveDocument, Finish, Goto
<1>5. /\ DOMAIN documents' = DOMAIN documents \cup {j.doc}
      /\ documents'[j.doc] = [kind |-> j.kind, master |-> m, active |-> active, saved |-> n]
      /\ \A d \in DOMAIN documents : d # j.doc => documents'[d] = documents[d]
  BY <1>4
<1>6. PICK r : r = [kind |-> j.kind, master |-> m, active |-> active, saved |-> n]
  OBVIOUS
<1>7. r.kind = j.kind /\ r.master = m /\ r.saved = n /\ documents'[j.doc] = r /\ Row(r)
  BY <1>2, <1>5, <1>6 DEF Row
<1>8. Numbered' /\ Contacts'
  <2>1. \A x \in Masters : masters'[x].deleted <= started'
    BY <1>4 DEF RecordsInv, Numbered
  <2>2. ASSUME NEW d \in DOMAIN documents' PROVE Row(documents'[d])
    BY <1>2, <1>5, <1>7
  <2>3. ASSUME NEW x, Row(x) PROVE Row(x)'
    BY <1>4, <2>3 DEF Row
  <2>4. \A d \in DOMAIN documents' : Row(documents[d])'
    BY <2>2, <2>3 DEF Row
  <2>5. Contacts'
    BY <1>4 DEF RecordsInv, Contacts
  <2> QED
    BY <2>1, <2>4, <2>5 DEF Numbered
<1>9. ASSUME ~contended' PROVE ~contended /\ RecordMoves(p, "idle", NoJob, m)
  <2>1. ~contended
    BY <1>4, <1>9
  <2>2. OthersKept(m)
    <3>1. SameKept(m)
      BY <1>5, <1>7 DEF SameKept
    <3> QED
      BY <1>4, <3>1 DEF OthersKept
  <2>3. CleanAt(m)'
    <3>1. SaveKnows("document", j)
      BY <1>2, <2>1 DEF Knows, Keeping
    <3>2. n > masters[m].deleted
      BY <1>1, <3>1 DEF SaveKnows
    <3>3. RefusesInactive(j.kind, masters[m].kind) => masters[m].active
      BY <1>1, <3>1 DEF SaveKnows
    <3>4. ASSUME ~masters[m].active, NEW d \in DOMAIN documents',
                 documents'[d].active, documents'[d].master = m
          PROVE  /\ documents'[d].kind \in Protecting[masters[m].kind]
                       => documents'[d].saved > masters[m].deleted
                 /\ RefusesInactive(documents'[d].kind, masters[m].kind)
                       => documents'[d].saved <= masters[m].deleted
      <4>1. CASE d = j.doc
        BY <1>7, <3>2, <3>3, <3>4, <4>1
      <4>2. CASE d # j.doc
        <5>1. d \in DOMAIN documents /\ documents'[d] = documents[d]
          BY <1>5, <4>2
        <5> QED
          BY <1>2, <2>1, <3>4, <5>1 DEF CleanAt
      <4> QED
        BY <4>1, <4>2
    <3>5. ~masters[m].active => (m \in contacted => masters[m].saved > masters[m].deleted)
      BY <1>2, <2>1 DEF CleanAt
    <3> QED
      BY <1>4, <3>4, <3>5 DEF CleanAt
  <2> QED
    BY <1>2, <1>4, <2>1, <2>2, <2>3 DEF RecordMoves, Deleting
<1>10. /\ "idle" \in RecordPhases /\ started' \in Nat /\ started <= started'
       /\ contended' \in BOOLEAN /\ masters' \in [Masters -> Master]
       /\ \A x \in Masters : masters'[x].kind = masters[x].kind
  BY <1>2, <1>4 DEF RecordPhases, RecordsInv, RecordsShape
<1> QED
  BY <1>4, <1>8, <1>9, <1>10, RecordsStep

LEMMA SavedAccount ==
  ASSUME RecordsInv, NEW p \in Procs, SaveAccount(p)
  PROVE  RecordsInv'
<1>0. phase[p] = "account"
  BY DEF SaveAccount
<1>1. PICK j, m, n : j = job[p] /\ m = j.master /\ n = j.n
  OBVIOUS
<1>2. /\ started \in Nat /\ m \in Masters /\ n \in 1..started
      /\ JobOf("account", j)
      /\ masters[m] \in Master
      /\ ~contended =>
            /\ Knows("account", j) /\ CleanAt(m)
            /\ \A q \in Procs : q # p /\ phase[q] \in Deleting => job[q].master # m
  BY <1>0, <1>1, Running
<1>3. /\ phase' = [phase EXCEPT ![p] = "idle"] /\ job' = [job EXCEPT ![p] = NoJob]
      /\ started' = started /\ contended' = contended
      /\ masters' = [masters EXCEPT ![m].saved = n] /\ documents' = documents
      /\ contacted' = contacted \cup {m} \/ contacted' = contacted \ {m}
  BY <1>1 DEF SaveAccount, Finish, Goto
<1>4. masters \in [Masters -> Master]
  BY DEF RecordsInv, RecordsShape
<1>5. /\ masters'[m] \in Master /\ masters'[m].saved = n /\ masters'[m].kind = masters[m].kind
      /\ masters'[m].active = masters[m].active /\ masters'[m].deleted = masters[m].deleted
  BY <1>2, <1>3, <1>4 DEF Master
<1>6. masters' \in [Masters -> Master] /\ \A x \in Masters : x # m => masters'[x] = masters[x]
  <2>1. masters' = [masters EXCEPT ![m] = masters'[m]]
    BY <1>2, <1>3, <1>4
  <2> QED
    BY <1>2, <1>4, <1>5, <2>1
<1>7. \A x \in Masters : masters'[x].kind = masters[x].kind /\ masters'[x].deleted = masters[x].deleted
  BY <1>5, <1>6
<1>8. Numbered' /\ Contacts'
  <2>1. \A x \in Masters : masters'[x].deleted <= started'
    BY <1>3, <1>7 DEF RecordsInv, Numbered
  <2>2. \A d \in DOMAIN documents' : Row(documents[d])'
    BY <1>3 DEF RecordsInv, Numbered, Row
  <2>3. masters[m].kind = "account"
    BY <1>1, <1>2 DEF JobOf
  <2>4. Contacts'
    BY <1>2, <1>3, <1>7, <2>3 DEF RecordsInv, Contacts
  <2> QED
    BY <2>1, <2>2, <2>4 DEF Numbered
<1>9. ASSUME ~contended' PROVE ~contended /\ RecordMoves(p, "idle", NoJob, m)
  <2>1. ~contended
    BY <1>3, <1>9
  <2>2. OthersKept(m)
    <3>1. SameKept(m)
      BY <1>3 DEF SameKept
    <3> QED
      BY <1>3, <1>6, <3>1 DEF OthersKept
  <2>3. CleanAt(m)'
    <3>1. SaveKnows("account", j)
      BY <1>2, <2>1 DEF Knows, Keeping
    <3>2. n > masters[m].deleted
      BY <1>1, <3>1 DEF SaveKnows
    <3> QED
      BY <1>2, <1>3, <1>5, <2>1, <3>2 DEF CleanAt
  <2> QED
    BY <1>2, <1>5, <2>1, <2>2, <2>3 DEF RecordMoves, Deleting
<1>10. "idle" \in RecordPhases /\ started' \in Nat /\ started <= started' /\ contended' \in BOOLEAN
  BY <1>2, <1>3 DEF RecordPhases, RecordsInv, RecordsShape
<1> QED
  BY <1>3, <1>6, <1>7, <1>8, <1>9, <1>10, RecordsStep

LEMMA DependentsCounted ==
  ASSUME RecordsInv, NEW p \in Procs, CountDependents(p)
  PROVE  RecordsInv'
<1>0. phase[p] = "count"
  BY DEF CountDependents
<1>1. PICK j, m, n : j = job[p] /\ m = j.master /\ n = j.n
  OBVIOUS
<1>2. /\ started \in Nat /\ m \in Masters /\ n \in 1..started
      /\ JobOf("count", j)
      /\ ~contended =>
            /\ Knows("count", j) /\ CleanAt(m)
            /\ \A q \in Procs : q # p /\ phase[q] \in Deleting => job[q].master # m
            /\ \A q \in Procs : q # p /\ phase[q] # "idle" => job[q].master # m
  BY <1>0, <1>1, Running DEF Deleting
<1>3. PICK kind \in j.left :
         IF Dependents(kind, m) # {} THEN Finish(p)
         ELSE Goto(p, "count", [j EXCEPT !.left = @ \ {kind}])
  BY <1>1 DEF CountDependents
<1>4. PICK ph, k : /\ phase' = [phase EXCEPT ![p] = ph] /\ job' = [job EXCEPT ![p] = k]
                   /\ \/ ph = "idle"
                      \/ /\ ph = "count" /\ Dependents(kind, m) = {}
                         /\ k = [j EXCEPT !.left = @ \ {kind}]
  BY <1>3 DEF Finish, Goto
<1>5. /\ started' = started /\ contended' = contended /\ masters' = masters
      /\ documents' = documents /\ contacted' = contacted
  BY <1>3 DEF Finish, Goto, CountDependents, recordVars
<1>6. ASSUME ph # "idle"
      PROVE  /\ ph = "count" /\ Dependents(kind, m) = {} /\ k.n = n /\ k.master = m
             /\ k.left = j.left \ {kind} /\ k = [n |-> k.n, master |-> k.master, left |-> k.left]
  <2>1. PICK l : l = j.left
    OBVIOUS
  <2>2. j = [n |-> n, master |-> m, left |-> l]
    BY <1>1, <1>2, <2>1 DEF JobOf, Deleting
  <2>3. k = [n |-> n, master |-> m, left |-> l \ {kind}]
    BY <1>4, <1>6, <2>1, <2>2
  <2>4. k.n = n /\ k.master = m /\ k.left = l \ {kind}
    BY <2>3
  <2> QED
    BY <1>4, <1>6, <2>1, <2>3, <2>4
<1>7. ph # "idle" => JobOf(ph, k)'
  BY <1>2, <1>5, <1>6 DEF JobOf
<1>8. Numbered' /\ Contacts'
  BY <1>5 DEF RecordsInv, Numbered, Row, Contacts
<1>9. ASSUME ~contended' PROVE ~contended /\ RecordMoves(p, ph, k, m)
  <2>1. ~contended
    BY <1>5, <1>9
  <2>2. OthersKept(m)
    BY <1>5 DEF OthersKept, SameKept
  <2>3. CleanAt(m)'
    BY <1>2, <1>5, <2>1 DEF CleanAt
  <2>4. ASSUME ph # "idle" PROVE Knows(ph, k)'
    <3>1. DeletionKnows("count", j)
      BY <1>2, <2>1 DEF Knows, Deleting
    <3>2. ASSUME NEW d \in DOMAIN documents, documents[d].master = m
          PROVE  /\ documents[d].saved < n
                 /\ documents[d].active /\ documents[d].kind \in Protecting[masters[m].kind]
                       => documents[d].kind \in k.left
      <4>1. /\ documents[d].saved < n
            /\ documents[d].active /\ documents[d].kind \in Protecting[masters[m].kind]
                  => documents[d].kind \in j.left
        BY <1>1, <3>1, <3>2 DEF DeletionKnows
      <4>2. documents[d].active => documents[d].kind # kind
        BY <1>6, <2>4, <3>2 DEF Dependents
      <4> QED
        BY <1>6, <2>4, <4>1, <4>2
    <3>3. DeletionKnows("count", k)'
      BY <1>5, <1>6, <2>4, <3>2 DEF DeletionKnows
    <3> QED
      BY <1>6, <2>4, <3>3 DEF Knows, Keeping
  <2> QED
    BY <1>2, <1>6, <2>1, <2>2, <2>3, <2>4 DEF RecordMoves
<1>10. /\ ph \in RecordPhases /\ started' \in Nat /\ started <= started'
       /\ contended' \in BOOLEAN /\ masters' \in [Masters -> Master]
       /\ \A x \in Masters : masters'[x].kind = masters[x].kind
  BY <1>2, <1>4, <1>5 DEF RecordPhases, RecordsInv, RecordsShape
<1> QED
  BY <1>4, <1>7, <1>8, <1>9, <1>10, RecordsStep

LEMMA ContactsDeleted ==
  ASSUME RecordsInv, NEW p \in Procs, DeleteContacts(p)
  PROVE  RecordsInv'
<1>0. phase[p] = "count"
  BY DEF DeleteContacts, Deletable
<1>1. PICK j, m, n : j = job[p] /\ m = j.master /\ n = j.n
  OBVIOUS
<1>2. /\ started \in Nat /\ m \in Masters /\ n \in 1..started
      /\ JobOf("count", j)
      /\ ~contended =>
            /\ Knows("count", j) /\ CleanAt(m)
            /\ \A q \in Procs : q # p /\ phase[q] \in Deleting => job[q].master # m
            /\ \A q \in Procs : q # p /\ phase[q] # "idle" => job[q].master # m
  BY <1>0, <1>1, Running DEF Deleting
<1>3. /\ phase' = [phase EXCEPT ![p] = "mark"] /\ job' = [job EXCEPT ![p] = j]
      /\ started' = started /\ contended' = contended /\ masters' = masters
      /\ documents' = documents /\ contacted' = contacted \ {m} /\ j.left = {}
  BY <1>1 DEF DeleteContacts, Deletable, Goto
<1>4. JobOf("mark", j)'
  BY <1>1, <1>2, <1>3 DEF JobOf, Deleting
<1>5. Numbered' /\ Contacts'
  BY <1>3 DEF RecordsInv, Numbered, Row, Contacts
<1>6. ASSUME ~contended' PROVE ~contended /\ RecordMoves(p, "mark", j, m)
  <2>1. ~contended
    BY <1>3, <1>6
  <2>2. OthersKept(m)
    BY <1>3 DEF OthersKept, SameKept
  <2>3. CleanAt(m)'
    BY <1>2, <1>3, <2>1 DEF CleanAt
  <2>4. DeletionKnows("count", j)
    BY <1>2, <2>1 DEF Knows, Deleting
  <2>5. DeletionKnows("mark", j)'
    BY <1>1, <1>3, <2>4 DEF DeletionKnows
  <2>6. Knows("mark", j)'
    BY <2>5 DEF Knows, Keeping
  <2> QED
    BY <1>1, <1>2, <2>1, <2>2, <2>3, <2>6 DEF RecordMoves
<1>7. /\ "mark" \in RecordPhases /\ started' \in Nat /\ started <= started'
      /\ contended' \in BOOLEAN /\ masters' \in [Masters -> Master]
      /\ \A x \in Masters : masters'[x].kind = masters[x].kind
  BY <1>2, <1>3 DEF RecordPhases, RecordsInv, RecordsShape
<1> QED
  BY <1>3, <1>4, <1>5, <1>6, <1>7, RecordsStep

LEMMA RecordMarked ==
  ASSUME RecordsInv, NEW p \in Procs, MarkDeleted(p)
  PROVE  RecordsInv'
<1>0. phase[p] \in Deleting
  BY DEF MarkDeleted, Deletable, Deleting
<1>1. PICK f, j, m, n : f = phase[p] /\ j = job[p] /\ m = j.master /\ n = j.n
  OBVIOUS
<1>2. /\ started \in Nat /\ m \in Masters /\ n \in 1..started
      /\ masters[m] \in Master
      /\ ~contended =>
            /\ Knows(f, j) /\ CleanAt(m)
            /\ \A q \in Procs : q # p /\ phase[q] # "idle" => job[q].master # m
            /\ \A q \in Procs : q # p /\ phase[q] \in Deleting => job[q].master # m
  BY <1>0, <1>1, Running DEF Deleting
<1>3. /\ phase' = [phase EXCEPT ![p] = "idle"] /\ job' = [job EXCEPT ![p] = NoJob]
      /\ started' = started /\ contended' = contended
      /\ documents' = documents /\ contacted' = contacted
      /\ masters' = [masters EXCEPT ![m].active = FALSE, ![m].deleted = n]
  BY <1>1 DEF MarkDeleted, Finish, Goto
<1>4. f = "mark" \/ (j.left = {} /\ masters[m].kind # "account")
  BY <1>1 DEF MarkDeleted, Deletable
<1>5. masters \in [Masters -> Master]
  BY DEF RecordsInv, RecordsShape
<1>6. /\ masters'[m] \in Master /\ masters'[m].saved = masters[m].saved
      /\ masters'[m].kind = masters[m].kind
      /\ masters'[m].active = FALSE /\ masters'[m].deleted = n
  <2>1. PICK o : o = masters[m]
    OBVIOUS
  <2>2. masters'[m] = [o EXCEPT !.active = FALSE, !.deleted = n]
    BY <1>2, <1>3, <1>5, <2>1
  <2>3. o = [kind |-> o.kind, active |-> o.active, saved |-> o.saved, deleted |-> o.deleted]
    BY <1>2, <2>1 DEF Master
  <2>4. masters'[m] = [kind |-> o.kind, active |-> FALSE, saved |-> o.saved, deleted |-> n]
    BY <2>2, <2>3
  <2>5. n \in Nat /\ o.kind \in Kinds /\ o.saved \in Nat
    BY <1>2, <2>1 DEF Master
  <2> QED
    BY <2>1, <2>4, <2>5 DEF Master
<1>7. masters' \in [Masters -> Master] /\ \A x \in Masters : x # m => masters'[x] = masters[x]
  <2>1. masters' = [masters EXCEPT ![m] = masters'[m]]
    BY <1>2, <1>3, <1>5
  <2> QED
    BY <1>2, <1>5, <1>6, <2>1
<1>8. \A x \in Masters : masters'[x].kind = masters[x].kind
  BY <1>6, <1>7
<1>9. Numbered' /\ Contacts'
  <2>1. ASSUME NEW x \in Masters PROVE masters'[x].deleted <= started'
    <3>1. CASE x = m
      BY <1>2, <1>3, <1>6, <3>1
    <3>2. CASE x # m
      BY <1>3, <1>7, <3>2 DEF RecordsInv, Numbered
    <3> QED
      BY <3>1, <3>2
  <2>2. \A d \in DOMAIN documents' : Row(documents[d])'
    BY <1>3 DEF RecordsInv, Numbered, Row
  <2>3. Contacts'
    BY <1>3, <1>8 DEF RecordsInv, Contacts
  <2> QED
    BY <2>1, <2>2, <2>3 DEF Numbered
<1>10. ASSUME ~contended' PROVE ~contended /\ RecordMoves(p, "idle", NoJob, m)
  <2>1. ~contended
    BY <1>3, <1>10
  <2>2. OthersKept(m)
    BY <1>3, <1>7 DEF OthersKept, SameKept
  <2>3. DeletionKnows(f, j)
    BY <1>0, <1>1, <1>2, <2>1 DEF Knows
  <2>4. j.left = {} /\ m \notin contacted
    BY <1>1, <1>4, <2>3 DEF DeletionKnows, RecordsInv, Contacts
  <2>5. \A d \in DOMAIN documents :
           documents[d].master = m =>
              /\ documents[d].saved < n
              /\ ~(documents[d].active /\ documents[d].kind \in Protecting[masters[m].kind])
    BY <1>1, <2>3, <2>4 DEF DeletionKnows
  <2>6. \A d \in DOMAIN documents : documents[d].saved \in Nat
    BY DEF RecordsInv, RecordsShape, Numbered, Row
  <2>7. CleanAt(m)'
    <3>1. PICK o, v : o = masters'[m].deleted /\ v = masters'[m].saved
      OBVIOUS
    <3>2. \A d \in DOMAIN documents :
             documents[d].active /\ documents[d].master = m =>
                /\ documents[d].kind \notin Protecting[masters'[m].kind]
                /\ documents[d].saved <= o
      BY <1>2, <1>6, <2>5, <2>6, <3>1
    <3>3. m \notin contacted'
      BY <1>3, <2>4
    <3> QED
      BY <1>3, <3>1, <3>2, <3>3 DEF CleanAt
  <2> QED
    BY <1>2, <2>1, <2>2, <2>7 DEF RecordMoves, Deleting
<1>11. "idle" \in RecordPhases /\ started' \in Nat /\ started <= started' /\ contended' \in BOOLEAN
  BY <1>2, <1>3 DEF RecordPhases, RecordsInv, RecordsShape
<1> QED
  BY <1>3, <1>7, <1>8, <1>9, <1>10, <1>11, RecordsStep

LEMMA RecordFailed ==
  ASSUME RecordsInv, NEW p \in Procs, FailRecord(p)
  PROVE  RecordsInv'
<1>0. phase[p] # "idle"
  BY DEF FailRecord, Fail
<1>1. PICK m : m = job[p].master
  OBVIOUS
<1>2. /\ started \in Nat /\ m \in Masters
      /\ ~contended =>
            /\ CleanAt(m)
            /\ \A q \in Procs : q # p /\ phase[q] \in Deleting => job[q].master # m
  BY <1>0, <1>1, Running
<1>3. /\ phase' = [phase EXCEPT ![p] = "idle"] /\ job' = [job EXCEPT ![p] = NoJob]
      /\ started' = started /\ contended' = contended
      /\ documents' = documents /\ contacted' = contacted /\ masters' = masters
  BY DEF FailRecord, Fail, recordVars
<1>4. Numbered' /\ Contacts'
  BY <1>3 DEF RecordsInv, Numbered, Row, Contacts
<1>5. ASSUME ~contended' PROVE ~contended /\ RecordMoves(p, "idle", NoJob, m)
  <2>1. ~contended
    BY <1>3, <1>5
  <2>2. OthersKept(m)
    BY <1>3 DEF OthersKept, SameKept
  <2>3. CleanAt(m)'
    BY <1>2, <1>3, <2>1 DEF CleanAt
  <2> QED
    BY <1>2, <1>3, <2>1, <2>2, <2>3 DEF RecordMoves, Deleting
<1>6. /\ "idle" \in RecordPhases /\ started' \in Nat /\ started <= started'
      /\ contended' \in BOOLEAN /\ masters' \in [Masters -> Master]
      /\ \A x \in Masters : masters'[x].kind = masters[x].kind
  BY <1>2, <1>3 DEF RecordPhases, RecordsInv, RecordsShape
<1> QED
  BY <1>3, <1>4, <1>5, <1>6, RecordsStep

LEMMA DocumentDeleted ==
  ASSUME RecordsInv, NEW p \in Procs, NEW d, DeleteDocument(p, d)
  PROVE  RecordsInv'
<1>1. /\ phase[p] = "idle" /\ phase' = phase /\ job' = job /\ started' = started + 1
      /\ contended' = contended /\ masters' = masters /\ contacted' = contacted
      /\ d \in DOMAIN documents /\ documents' = [documents EXCEPT ![d].active = FALSE]
      /\ started \in Nat
  BY DEF DeleteDocument, Instant, Free, NextSerial, RecordsInv, RecordsShape
<1>2. PICK r : r = documents[d]
  OBVIOUS
<1>3. Row(r)
  BY <1>1, <1>2 DEF RecordsInv, Numbered
<1>4. /\ DOMAIN documents' = DOMAIN documents
      /\ \A x \in DOMAIN documents : x # d => documents'[x] = documents[x]
      /\ documents'[d] = [r EXCEPT !.active = FALSE]
  BY <1>1, <1>2
<1>5. PICK s : s = documents'[d]
  OBVIOUS
<1>6. /\ s = [kind |-> r.kind, master |-> r.master, active |-> FALSE, saved |-> r.saved]
      /\ s.kind = r.kind /\ s.master = r.master /\ s.saved = r.saved /\ s.active = FALSE
      /\ Row(s)
  <2>1. s = [kind |-> r.kind, master |-> r.master, active |-> FALSE, saved |-> r.saved]
    BY <1>3, <1>4, <1>5 DEF Row
  <2> QED
    BY <1>3, <2>1 DEF Row
<1>7. Numbered'
  <2>1. \A x \in Masters : masters[x].deleted \in Nat /\ masters[x].deleted <= started
    BY DEF RecordsInv, RecordsShape, Numbered, Master
  <2>2. \A x \in DOMAIN documents' : Row(documents'[x])
    BY <1>4, <1>5, <1>6 DEF RecordsInv, Numbered
  <2>3. ASSUME NEW x, Row(x) PROVE Row(x)'
    BY <1>1, <2>3 DEF Row
  <2>4. \A x \in Masters : masters'[x].deleted <= started'
    BY <1>1, <2>1
  <2>5. \A x \in DOMAIN documents' : Row(documents[x])'
    BY <2>2, <2>3 DEF Row
  <2> QED
    BY <2>4, <2>5 DEF Numbered
<1>8. Contacts'
  BY <1>1 DEF RecordsInv, Contacts
<1>9. PICK m : m \notin Masters
  BY NoSetContainsEverything
<1>10. phase' = [phase EXCEPT ![p] = "idle"] /\ job' = [job EXCEPT ![p] = job[p]]
  BY <1>1 DEF RecordsInv, RecordsShape
<1>11. ASSUME ~contended' PROVE ~contended /\ RecordMoves(p, "idle", job[p], m)
  <2>1. ~contended
    BY <1>1, <1>11
  <2>2. OthersKept(m)
    <3>1. SameKept(m)
      BY <1>2, <1>4, <1>5, <1>6 DEF SameKept
    <3> QED
      BY <1>1, <3>1 DEF OthersKept
  <2>3. \A q \in Procs : phase[q] # "idle" => job[q].master # m
    BY <1>9 DEF RecordsInv, RecordJobs, JobOf
  <2>4. \A q \in Procs : phase[q] \in Deleting => job[q].master # m
    BY <2>3 DEF Deleting
  <2> QED
    BY <1>9, <2>1, <2>2, <2>3, <2>4 DEF RecordMoves
<1>12. /\ "idle" \in RecordPhases /\ started' \in Nat /\ started <= started'
       /\ contended' \in BOOLEAN /\ masters' \in [Masters -> Master]
       /\ \A x \in Masters : masters'[x].kind = masters[x].kind
  BY <1>1 DEF RecordPhases, RecordsInv, RecordsShape
<1> QED
  BY <1>7, <1>8, <1>10, <1>11, <1>12, RecordsStep

----------------------------------------------------------------------------

LEMMA RecordsStart ==
  ASSUME SlotsInit, RecordsInit
  PROVE  RecordsInv
<1>1. RecordsShape
  <2>1. PICK kind \in [Masters -> Kinds] :
           masters = [m \in Masters |->
                         [kind |-> kind[m], active |-> TRUE, saved |-> 0, deleted |-> 0]]
    BY DEF RecordsInit
  <2>2. masters \in [Masters -> Master]
    BY <2>1 DEF Master
  <2>3. job = [p \in Procs |-> job[p]] /\ phase \in [Procs -> RecordPhases]
    BY DEF SlotsInit, RecordPhases
  <2> QED
    BY <2>2, <2>3 DEF SlotsInit, RecordsShape
<1>2. \A m \in Masters : masters[m].active = TRUE /\ masters[m].deleted = 0
  BY DEF RecordsInit
<1>3. Numbered
  <2>1. DOMAIN documents = {}
    BY DEF RecordsInit
  <2> QED
    BY <1>2, <2>1 DEF Numbered, SlotsInit
<1>4. Contacts
  BY DEF RecordsInit, Contacts
<1>5. \A p \in Procs : phase[p] = "idle"
  BY DEF SlotsInit
<1>6. RecordJobs
  BY <1>5 DEF RecordJobs
<1>7. RecordsQuiet
  BY <1>2, <1>5 DEF RecordsQuiet, DeletesAlone, CleanAt
<1> QED
  BY <1>1, <1>3, <1>4, <1>6, <1>7 DEF RecordsInv

LEMMA RecordsInvKept ==
  ASSUME RecordsInv, [RecordsNext]_<<slotVars, recordVars>>
  PROVE  RecordsInv'
<1>1. CASE UNCHANGED <<slotVars, recordVars>>
  <2>1. /\ phase' = phase /\ job' = job /\ started' = started /\ contended' = contended
        /\ masters' = masters /\ documents' = documents /\ contacted' = contacted
    BY <1>1 DEF slotVars, recordVars
  <2>2. (RecordsShape /\ Numbered /\ Contacts /\ RecordJobs)'
    BY <2>1 DEF RecordsInv, RecordsShape, Numbered, Row, Contacts, RecordJobs, JobOf
  <2>3. RecordsQuiet => RecordsQuiet'
    BY <2>1 DEF RecordsQuiet, DeletesAlone, CleanAt, Knows, DeletionKnows, SaveKnows
  <2> QED
    BY <2>1, <2>2, <2>3 DEF RecordsInv
<1>2. CASE RecordsNext
  <2> PICK p \in Procs :
         \/ \E d \in Serials, m \in Masters, kind \in UNION Range(Referring) :
               BeginDocument(p, d, kind, m)
         \/ SaveDocument(p)
         \/ \E d \in Serials : DeleteDocument(p, d)
         \/ \E m \in Masters, withContacts \in BOOLEAN : BeginAccount(p, m, withContacts)
         \/ SaveAccount(p)
         \/ \E m \in Masters : BeginDelete(p, m)
         \/ CountDependents(p) \/ DeleteContacts(p) \/ MarkDeleted(p)
         \/ FailRecord(p)
    BY <1>2 DEF RecordsNext
  <2>1. CASE \E d \in Serials, m \in Masters, kind \in UNION Range(Referring) :
                BeginDocument(p, d, kind, m)
    BY <2>1, BegunDocument
  <2>2. CASE SaveDocument(p)
    BY <2>2, SavedDocument
  <2>3. CASE \E d \in Serials : DeleteDocument(p, d)
    BY <2>3, DocumentDeleted
  <2>4. CASE \E m \in Masters, withContacts \in BOOLEAN : BeginAccount(p, m, withContacts)
    BY <2>4, BegunAccount
  <2>5. CASE SaveAccount(p)
    BY <2>5, SavedAccount
  <2>6. CASE \E m \in Masters : BeginDelete(p, m)
    BY <2>6, BegunDelete
  <2>7. CASE CountDependents(p)
    BY <2>7, DependentsCounted
  <2>8. CASE DeleteContacts(p)
    BY <2>8, ContactsDeleted
  <2>9. CASE MarkDeleted(p)
    BY <2>9, RecordMarked
  <2>10. CASE FailRecord(p)
    BY <2>10, RecordFailed
  <2> QED
    BY <2>1, <2>2, <2>3, <2>4, <2>5, <2>6, <2>7, <2>8, <2>9, <2>10
<1> QED
  BY <1>1, <1>2

\* Unless a deletion overlapped a save of the same record, no active document that the
\* code means to protect refers to a deleted account, product, machine, employee or
\* resource, and no deleted account keeps a contact in force, but through a save that
\* began after the deletion; and what refuses inactive records was saved before it.
THEOREM DeletionsStayClean == RecordsSpec => []DeletionClean
<1>1. SlotsInit /\ RecordsInit => RecordsInv
  BY RecordsStart
<1>2. RecordsInv /\ [RecordsNext]_<<slotVars, recordVars>> => RecordsInv'
  BY RecordsInvKept
<1>3. RecordsInv => DeletionClean
  BY RecordsClaims
<1> QED
  BY <1>1, <1>2, <1>3, PTL DEF RecordsSpec

----------------------------------------------------------------------------
(* ActivityAudit: first, what its mutations write *)


Parts == {"header", "lines", "unseen"}

\* A mutation writes at least once, tables of the entity only.
Plain(m, tables) ==
    /\ m = [type |-> m.type, steps |-> m.steps, told |-> m.told]
    /\ m.type \in Changes /\ m.told \in BOOLEAN
    /\ m.steps \in Seq(SUBSET tables) /\ Len(m.steps) >= 1

LEMMA StepsPlain ==
  ASSUME NEW tables, NEW s \in Seq(SUBSET tables), Len(s) >= 1,
         NEW type \in Changes, NEW told \in BOOLEAN
  PROVE  Plain(Mutation(type, s, told), tables)
<1>1. PICK m : m = [type |-> type, steps |-> s, told |-> told]
  OBVIOUS
<1>2. m.type = type /\ m.steps = s /\ m.told = told
  BY <1>1
<1>3. Plain(m, tables)
  BY <1>1, <1>2, Zenon DEF Plain
<1> QED
  BY <1>1, <1>3 DEF Mutation

LEMMA OneStep ==
  ASSUME NEW A, NEW tables, A \subseteq tables,
         NEW type \in Changes, NEW told \in BOOLEAN
  PROVE  Plain(Mutation(type, <<A>>, told), tables)
<1>1. PICK s : s = <<A>>
  OBVIOUS
<1>2. s \in Seq(SUBSET tables) /\ Len(s) >= 1
  BY <1>1
<1> QED
  BY <1>1, <1>2, StepsPlain

LEMMA TwoSteps ==
  ASSUME NEW A, NEW B, NEW tables, A \subseteq tables, B \subseteq tables,
         NEW type \in Changes, NEW told \in BOOLEAN
  PROVE  Plain(Mutation(type, <<A, B>>, told), tables)
<1>1. PICK s : s = <<A, B>>
  OBVIOUS
<1>2. s \in Seq(SUBSET tables) /\ Len(s) >= 1
  BY <1>1
<1> QED
  BY <1>1, <1>2, StepsPlain

LEMMA ThreeSteps ==
  ASSUME NEW A, NEW B, NEW C, NEW tables, A \subseteq tables, B \subseteq tables, C \subseteq tables,
         NEW type \in Changes, NEW told \in BOOLEAN
  PROVE  Plain(Mutation(type, <<A, B, C>>, told), tables)
<1>1. PICK s : s = <<A, B, C>>
  OBVIOUS
<1>2. s \in Seq(SUBSET tables) /\ Len(s) >= 1
  BY <1>1
<1> QED
  BY <1>1, <1>2, StepsPlain

AllPlain(ms, tables) == \A m \in ms : Plain(m, tables)

\* The ways the mutations are written down.
LEMMA PlainSets ==
  ASSUME NEW A, NEW B, NEW tables, A \subseteq tables, B \subseteq tables
  PROVE  /\ AllPlain(Save(<<A>>), tables) /\ AllPlain(Save(<<A, B>>), tables)
         /\ AllPlain(Change(A), tables) /\ AllPlain(Untold(A), tables)
         /\ AllPlain(Delete(<<A>>), tables) /\ AllPlain(Delete(<<A, B>>), tables)
<1>1. \A t \in {"create", "update", "delete"} : t \in Changes
  BY DEF Changes
<1>2. AllPlain(Save(<<A>>), tables)
  BY <1>1, OneStep DEF AllPlain, Save
<1>3. AllPlain(Save(<<A, B>>), tables)
  BY <1>1, TwoSteps DEF AllPlain, Save
<1>4. AllPlain(Change(A), tables) /\ AllPlain(Untold(A), tables)
  BY <1>1, OneStep DEF AllPlain, Change, Untold
<1>5. AllPlain(Delete(<<A>>), tables)
  BY <1>1, OneStep DEF AllPlain, Delete
<1>6. AllPlain(Delete(<<A, B>>), tables)
  BY <1>1, TwoSteps DEF AllPlain, Delete
<1> QED
  BY <1>2, <1>3, <1>4, <1>5, <1>6

LEMMA PlainUnion ==
  ASSUME NEW ms, NEW ns, NEW tables, AllPlain(ms, tables), AllPlain(ns, tables)
  PROVE  AllPlain(ms \cup ns, tables)
  BY DEF AllPlain

LEMMA PlainThree ==
  ASSUME NEW A, NEW B, NEW C, NEW tables, A \subseteq tables, B \subseteq tables,
         C \subseteq tables
  PROVE  AllPlain(Delete(<<A, B, C>>), tables)
<1>1. "delete" \in Changes
  BY DEF Changes
<1> QED
  BY <1>1, ThreeSteps DEF AllPlain, Delete

\* The tables of an entity's mutations are those of its snapshot, if it has one.
LEMMA QuotationsPlain == AllPlain(OrderQuotationMutations, Header \cup OrderQuotationSnapshot)
<1> DEFINE T == Header \cup OrderQuotationSnapshot
           rows == {"order_quotation_products"}
<1>1. Header \subseteq T /\ rows \subseteq T /\ Header \cup rows \subseteq T
  BY DEF OrderQuotationSnapshot
<1> HIDE DEF rows, T
<1>2. AllPlain(Save(<<Header \cup rows>>), T)
  BY <1>1, PlainSets
<1>3. AllPlain(Change(Header), T)
  BY <1>1, PlainSets
<1>4. AllPlain(Change(rows), T)
  BY <1>1, PlainSets
<1>5. AllPlain(Delete(<<rows, Header>>), T)
  BY <1>1, PlainSets
<1>6. AllPlain(Untold(Header), T)
  BY <1>1, PlainSets
<1>7. OrderQuotationMutations =
        Save(<<Header \cup rows>>)
          \cup Change(Header)
          \cup Change(rows)
          \cup Delete(<<rows, Header>>)
          \cup Untold(Header)
  BY DEF OrderQuotationMutations, rows
<1>8. AllPlain(OrderQuotationMutations, T)
  BY <1>2, <1>3, <1>4, <1>5, <1>6, <1>7, PlainUnion
<1> QED
  BY <1>8 DEF T

LEMMA RequestsPlain == AllPlain(OrderRequestMutations, Header \cup OrderRequestSnapshot)
<1> DEFINE T == Header \cup OrderRequestSnapshot
           rows == {"order_request_products"}
<1>1. Header \subseteq T /\ rows \subseteq T /\ Header \cup rows \subseteq T
  BY DEF OrderRequestSnapshot
<1> HIDE DEF rows, T
<1>2. AllPlain(Save(<<Header \cup rows>>), T)
  BY <1>1, PlainSets
<1>3. AllPlain(Change(Header), T)
  BY <1>1, PlainSets
<1>4. AllPlain(Delete(<<rows, Header>>), T)
  BY <1>1, PlainSets
<1>5. AllPlain(Untold(Header), T)
  BY <1>1, PlainSets
<1>6. OrderRequestMutations =
        Save(<<Header \cup rows>>)
          \cup Change(Header)
          \cup Delete(<<rows, Header>>)
          \cup Untold(Header)
  BY DEF OrderRequestMutations, rows
<1>7. AllPlain(OrderRequestMutations, T)
  BY <1>2, <1>3, <1>4, <1>5, <1>6, PlainUnion
<1> QED
  BY <1>7 DEF T

LEMMA SalesPlain == AllPlain(OrderSaleMutations, Header \cup OrderSaleSnapshot)
<1> DEFINE T == Header \cup OrderSaleSnapshot
           rows == {"order_sale_products"}
<1>1. Header \subseteq T /\ rows \subseteq T /\ Header \cup rows \subseteq T
  BY DEF OrderSaleSnapshot
<1> HIDE DEF rows, T
<1>2. AllPlain(Save(<<Header \cup rows>>), T)
  BY <1>1, PlainSets
<1>3. AllPlain(Change(Header), T)
  BY <1>1, PlainSets
<1>4. AllPlain(Delete(<<rows, Header>>), T)
  BY <1>1, PlainSets
<1>5. AllPlain(Untold(Header), T)
  BY <1>1, PlainSets
<1>6. OrderSaleMutations =
        Save(<<Header \cup rows>>)
          \cup Change(Header)
          \cup Delete(<<rows, Header>>)
          \cup Untold(Header)
  BY DEF OrderSaleMutations, rows
<1>7. AllPlain(OrderSaleMutations, T)
  BY <1>2, <1>3, <1>4, <1>5, <1>6, PlainUnion
<1> QED
  BY <1>7 DEF T

LEMMA ExpensesPlain == AllPlain(ExpenseMutations, Header \cup ExpenseSnapshot)
<1> DEFINE T == Header \cup ExpenseSnapshot
           rows == {"expense_resources"}
<1>1. Header \subseteq T /\ rows \subseteq T /\ Header \cup rows \subseteq T
  BY DEF ExpenseSnapshot
<1> HIDE DEF rows, T
<1>2. AllPlain(Save(<<Header, rows>>), T)
  BY <1>1, PlainSets
<1>3. AllPlain(Change(Header), T)
  BY <1>1, PlainSets
<1>4. AllPlain(Delete(<<Header, rows>>), T)
  BY <1>1, PlainSets
<1>5. AllPlain(Untold(Header), T)
  BY <1>1, PlainSets
<1>6. ExpenseMutations =
        Save(<<Header, rows>>)
          \cup Change(Header)
          \cup Delete(<<Header, rows>>)
          \cup Untold(Header)
  BY DEF ExpenseMutations, rows
<1>7. AllPlain(ExpenseMutations, T)
  BY <1>2, <1>3, <1>4, <1>5, <1>6, PlainUnion
<1> QED
  BY <1>7 DEF T

LEMMA TransfersPlain == AllPlain(TransferMutations, Header \cup TransferSnapshot)
<1> DEFINE T == Header \cup TransferSnapshot
           rows == {"transfer_receipts"}
<1>1. Header \subseteq T /\ rows \subseteq T /\ Header \cup rows \subseteq T
  BY DEF TransferSnapshot
<1> HIDE DEF rows, T
<1>2. AllPlain(Save(<<Header \cup rows>>), T)
  BY <1>1, PlainSets
<1>3. AllPlain(Delete(<<Header, rows>>), T)
  BY <1>1, PlainSets
<1>4. TransferMutations =
        Save(<<Header \cup rows>>)
          \cup Delete(<<Header, rows>>)
  BY DEF TransferMutations, rows
<1>5. AllPlain(TransferMutations, T)
  BY <1>2, <1>3, <1>4, PlainUnion
<1> QED
  BY <1>5 DEF T

LEMMA AccountsPlain == AllPlain(AccountMutations, Header \cup AccountSnapshot)
<1> DEFINE T == Header \cup AccountSnapshot
           contacts == {"account_contacts"}
           prices == {"account_products"}
           children == AccountSnapshot
<1>1. /\ Header \subseteq T /\ contacts \subseteq T /\ prices \subseteq T
      /\ children \subseteq T /\ Header \cup contacts \subseteq T /\ Header \cup prices \subseteq T
      /\ Header \cup children \subseteq T
  BY DEF AccountSnapshot
<1> HIDE DEF contacts, prices, children, T
<1>2. AllPlain(Save(<<Header \cup children>>), T)
  BY <1>1, PlainSets
<1>3. AllPlain(Delete(<<contacts, Header>>), T)
  BY <1>1, PlainSets
<1>4. AllPlain(Change(prices), T)
  BY <1>1, PlainSets
<1>5. AccountMutations =
        Save(<<Header \cup children>>)
          \cup Delete(<<contacts, Header>>)
          \cup Change(prices)
  BY DEF AccountMutations, contacts, prices, children
<1>6. AllPlain(AccountMutations, T)
  BY <1>2, <1>3, <1>4, <1>5, PlainUnion
<1> QED
  BY <1>6 DEF T

LEMMA ProductionsPlain == AllPlain(OrderProductionMutations, Header \cup OrderProductionSnapshot)
<1> DEFINE T == Header \cup OrderProductionSnapshot
           outputs == {"order_production_products"}
           crew == {"order_production_employees"}
           children == OrderProductionSnapshot
<1>1. /\ Header \subseteq T /\ outputs \subseteq T /\ crew \subseteq T
      /\ children \subseteq T /\ Header \cup outputs \subseteq T /\ Header \cup crew \subseteq T
      /\ Header \cup children \subseteq T
  BY DEF OrderProductionSnapshot
<1> HIDE DEF outputs, crew, children, T
<1>2. AllPlain(Save(<<Header \cup children>>), T)
  BY <1>1, PlainSets
<1>3. AllPlain(Delete(<<Header, outputs, crew>>), T)
  BY <1>1, PlainThree
<1>4. OrderProductionMutations =
        Save(<<Header \cup children>>)
          \cup Delete(<<Header, outputs, crew>>)
  BY DEF OrderProductionMutations, outputs, crew, children
<1>5. AllPlain(OrderProductionMutations, T)
  BY <1>2, <1>3, <1>4, PlainUnion
<1> QED
  BY <1>5 DEF T

LEMMA AdjustmentsPlain == AllPlain(OrderAdjustmentMutations, Header \cup OrderAdjustmentSnapshot)
<1> DEFINE T == Header \cup OrderAdjustmentSnapshot
           rows == {"order_adjustment_products"}
<1>1. Header \subseteq T /\ rows \subseteq T /\ Header \cup rows \subseteq T
  BY DEF OrderAdjustmentSnapshot
<1> HIDE DEF rows, T
<1>2. AllPlain(Save(<<Header, rows>>), T)
  BY <1>1, PlainSets
<1>3. AllPlain(Delete(<<Header, rows>>), T)
  BY <1>1, PlainSets
<1>4. OrderAdjustmentMutations =
        Save(<<Header, rows>>)
          \cup Delete(<<Header, rows>>)
  BY DEF OrderAdjustmentMutations, rows
<1>5. AllPlain(OrderAdjustmentMutations, T)
  BY <1>2, <1>3, <1>4, PlainUnion
<1> QED
  BY <1>5 DEF T

LEMMA UsersPlain == AllPlain(UserMutations, Header \cup UserSnapshot)
<1> DEFINE T == Header \cup UserSnapshot
           roles == {"user_roles"}
<1>1. Header \subseteq T /\ roles \subseteq T /\ Header \cup roles \subseteq T
  BY DEF UserSnapshot
<1> HIDE DEF roles, T
<1>2. AllPlain(Save(<<Header, roles>>), T)
  BY <1>1, PlainSets
<1>3. AllPlain(Untold(Header), T)
  BY <1>1, PlainSets
<1>4. UserMutations =
        Save(<<Header, roles>>)
          \cup Untold(Header)
  BY DEF UserMutations, roles
<1>5. AllPlain(UserMutations, T)
  BY <1>2, <1>3, <1>4, PlainUnion
<1> QED
  BY <1>5 DEF T

LEMMA ProductsPlain == AllPlain(ProductMutations, Header \cup ProductSnapshot)
<1> DEFINE T == Header \cup ProductSnapshot
<1>1. Header \subseteq T
  BY DEF ProductSnapshot
<1> HIDE DEF T
<1>2. AllPlain(Save(<<Header>>), T)
  BY <1>1, PlainSets
<1>3. AllPlain(Delete(<<Header>>), T)
  BY <1>1, PlainSets
<1>4. ProductMutations =
        Save(<<Header>>)
          \cup Delete(<<Header>>)
  BY DEF ProductMutations
<1>5. AllPlain(ProductMutations, T)
  BY <1>2, <1>3, <1>4, PlainUnion
<1> QED
  BY <1>5 DEF T

LEMMA ResourcesPlain == AllPlain(ResourceMutations, Header \cup ResourceSnapshot)
<1> DEFINE T == Header \cup ResourceSnapshot
<1>1. Header \subseteq T
  BY DEF ResourceSnapshot
<1> HIDE DEF T
<1>2. AllPlain(Save(<<Header>>), T)
  BY <1>1, PlainSets
<1>3. AllPlain(Delete(<<Header>>), T)
  BY <1>1, PlainSets
<1>4. ResourceMutations =
        Save(<<Header>>)
          \cup Delete(<<Header>>)
  BY DEF ResourceMutations
<1>5. AllPlain(ResourceMutations, T)
  BY <1>2, <1>3, <1>4, PlainUnion
<1> QED
  BY <1>5 DEF T

LEMMA EmployeesPlain == AllPlain(EmployeeMutations, Header \cup EmployeeSnapshot)
<1> DEFINE T == Header \cup EmployeeSnapshot
<1>1. Header \subseteq T
  BY DEF EmployeeSnapshot
<1> HIDE DEF T
<1>2. AllPlain(Save(<<Header>>), T)
  BY <1>1, PlainSets
<1>3. AllPlain(Delete(<<Header>>), T)
  BY <1>1, PlainSets
<1>4. EmployeeMutations =
        Save(<<Header>>)
          \cup Delete(<<Header>>)
  BY DEF EmployeeMutations
<1>5. AllPlain(EmployeeMutations, T)
  BY <1>2, <1>3, <1>4, PlainUnion
<1> QED
  BY <1>5 DEF T

LEMMA MachinesPlain == AllPlain(MachineMutations, Header \cup MachineSnapshot)
<1> DEFINE T == Header \cup MachineSnapshot
<1>1. Header \subseteq T
  BY DEF MachineSnapshot
<1> HIDE DEF T
<1>2. AllPlain(Save(<<Header>>), T)
  BY <1>1, PlainSets
<1>3. AllPlain(Delete(<<Header>>), T)
  BY <1>1, PlainSets
<1>4. MachineMutations =
        Save(<<Header>>)
          \cup Delete(<<Header>>)
  BY DEF MachineMutations
<1>5. AllPlain(MachineMutations, T)
  BY <1>2, <1>3, <1>4, PlainUnion
<1> QED
  BY <1>5 DEF T

LEMMA PlansPlain == AllPlain(ProductionPlanMutations, Header \cup {"production_plan_rows"})
<1> DEFINE T == Header \cup {"production_plan_rows"}
           rows == {"production_plan_rows"}
<1>1. Header \subseteq T /\ rows \subseteq T /\ Header \cup rows \subseteq T
  OBVIOUS
<1> HIDE DEF rows, T
<1>2. AllPlain(Save(<<Header, rows>>), T)
  BY <1>1, PlainSets
<1>3. AllPlain(Delete(<<rows, Header>>), T)
  BY <1>1, PlainSets
<1>4. ProductionPlanMutations =
        Save(<<Header, rows>>)
          \cup Delete(<<rows, Header>>)
  BY DEF ProductionPlanMutations, rows
<1>5. AllPlain(ProductionPlanMutations, T)
  BY <1>2, <1>3, <1>4, PlainUnion
<1> QED
  BY <1>5 DEF T

LEMMA GeneratedPlain == AllPlain(GeneratedExpenses, Header \cup ExpenseSnapshot)
<1>1. "create" \in Changes /\ Header \cup {"expense_resources"} \subseteq Header \cup ExpenseSnapshot
  BY DEF Changes, ExpenseSnapshot
<1> QED
  BY <1>1, OneStep DEF AllPlain, GeneratedExpenses

LEMMA AllExpensesPlain ==
  AllPlain(ExpenseMutations \cup GeneratedExpenses, Header \cup ExpenseSnapshot)
  BY ExpensesPlain, GeneratedPlain, PlainUnion

Entities ==
    {"order_quotation", "order_request", "order_sale", "expense", "transfer", "account",
     "user", "order_production", "order_adjustment", "product", "resource", "employee",
     "machine"}

LEMMA EntityNames ==
  /\ Wrappers = Entities /\ DOMAIN SnapshotOf = Entities
  /\ Untopical = {"production_plan"} /\ "production_plan" \notin Entities
<1>1. Wrappers = Entities
  BY DEF Wrappers, WorkshopWrappers, ClientWrappers, MoneyWrappers, Entities
<1>2. DOMAIN SnapshotOf = Entities
  BY DEF SnapshotOf, Entities
<1>3. "production_plan" \notin Entities
  BY DEF Entities
<1> QED
  BY <1>1, <1>2, <1>3 DEF Untopical

LEMMA EntitiesPlain ==
  ASSUME NEW e \in Entities
  PROVE  AllPlain(MutationsOf[e], Header \cup SnapshotOf[e])
<1>1. CASE e = "order_quotation"
  <2>1. MutationsOf[e] = OrderQuotationMutations
    BY <1>1 DEF MutationsOf
  <2>2. SnapshotOf[e] = OrderQuotationSnapshot
    BY <1>1 DEF SnapshotOf
  <2> QED
    BY <2>1, <2>2, QuotationsPlain
<1>2. CASE e = "order_request"
  <2>1. MutationsOf[e] = OrderRequestMutations
    BY <1>2 DEF MutationsOf
  <2>2. SnapshotOf[e] = OrderRequestSnapshot
    BY <1>2 DEF SnapshotOf
  <2> QED
    BY <2>1, <2>2, RequestsPlain
<1>3. CASE e = "order_sale"
  <2>1. MutationsOf[e] = OrderSaleMutations
    BY <1>3 DEF MutationsOf
  <2>2. SnapshotOf[e] = OrderSaleSnapshot
    BY <1>3 DEF SnapshotOf
  <2> QED
    BY <2>1, <2>2, SalesPlain
<1>4. CASE e = "expense"
  <2>1. MutationsOf[e] = ExpenseMutations \cup GeneratedExpenses
    BY <1>4 DEF MutationsOf
  <2>2. SnapshotOf[e] = ExpenseSnapshot
    BY <1>4 DEF SnapshotOf
  <2> QED
    BY <2>1, <2>2, AllExpensesPlain
<1>5. CASE e = "transfer"
  <2>1. MutationsOf[e] = TransferMutations
    BY <1>5 DEF MutationsOf
  <2>2. SnapshotOf[e] = TransferSnapshot
    BY <1>5 DEF SnapshotOf
  <2> QED
    BY <2>1, <2>2, TransfersPlain
<1>6. CASE e = "account"
  <2>1. MutationsOf[e] = AccountMutations
    BY <1>6 DEF MutationsOf
  <2>2. SnapshotOf[e] = AccountSnapshot
    BY <1>6 DEF SnapshotOf
  <2> QED
    BY <2>1, <2>2, AccountsPlain
<1>7. CASE e = "user"
  <2>1. MutationsOf[e] = UserMutations
    BY <1>7 DEF MutationsOf
  <2>2. SnapshotOf[e] = UserSnapshot
    BY <1>7 DEF SnapshotOf
  <2> QED
    BY <2>1, <2>2, UsersPlain
<1>8. CASE e = "order_production"
  <2>1. MutationsOf[e] = OrderProductionMutations
    BY <1>8 DEF MutationsOf
  <2>2. SnapshotOf[e] = OrderProductionSnapshot
    BY <1>8 DEF SnapshotOf
  <2> QED
    BY <2>1, <2>2, ProductionsPlain
<1>9. CASE e = "order_adjustment"
  <2>1. MutationsOf[e] = OrderAdjustmentMutations
    BY <1>9 DEF MutationsOf
  <2>2. SnapshotOf[e] = OrderAdjustmentSnapshot
    BY <1>9 DEF SnapshotOf
  <2> QED
    BY <2>1, <2>2, AdjustmentsPlain
<1>10. CASE e = "product"
  <2>1. MutationsOf[e] = ProductMutations
    BY <1>10 DEF MutationsOf
  <2>2. SnapshotOf[e] = ProductSnapshot
    BY <1>10 DEF SnapshotOf
  <2> QED
    BY <2>1, <2>2, ProductsPlain
<1>11. CASE e = "resource"
  <2>1. MutationsOf[e] = ResourceMutations
    BY <1>11 DEF MutationsOf
  <2>2. SnapshotOf[e] = ResourceSnapshot
    BY <1>11 DEF SnapshotOf
  <2> QED
    BY <2>1, <2>2, ResourcesPlain
<1>12. CASE e = "employee"
  <2>1. MutationsOf[e] = EmployeeMutations
    BY <1>12 DEF MutationsOf
  <2>2. SnapshotOf[e] = EmployeeSnapshot
    BY <1>12 DEF SnapshotOf
  <2> QED
    BY <2>1, <2>2, EmployeesPlain
<1>13. CASE e = "machine"
  <2>1. MutationsOf[e] = MachineMutations
    BY <1>13 DEF MutationsOf
  <2>2. SnapshotOf[e] = MachineSnapshot
    BY <1>13 DEF SnapshotOf
  <2> QED
    BY <2>1, <2>2, MachinesPlain
<1> QED
  BY <1>1, <1>2, <1>3, <1>4, <1>5, <1>6, <1>7, <1>8, <1>9, <1>10, <1>11, <1>12, <1>13 DEF Entities

----------------------------------------------------------------------------

\* What a mutation has left to write; of an entity with snapshots, nothing they leave out.
Left(s, supported) ==
    /\ s \in Seq(SUBSET Parts) /\ Len(s) >= 1
    /\ supported => \A i \in 1..Len(s) : "unseen" \notin s[i]

MutationOf(m, supported) ==
    m.type \in Changes /\ m.told \in BOOLEAN /\ Left(m.steps, supported)

TrailOf(t) ==
    t.supported \in BOOLEAN /\ \A m \in t.mutations : MutationOf(m, t.supported)

PartsAre(S, e, s) == S = [i \in DOMAIN s |-> {Part(e, t) : t \in s[i]}]

LEMMA PartsOf ==
  ASSUME NEW e, NEW s, NEW tables, s \in Seq(SUBSET tables), Len(s) >= 1,
         NEW S, PartsAre(S, e, s),
         NEW supported \in BOOLEAN, supported => e \in DOMAIN SnapshotOf,
         supported => tables \subseteq Header \cup SnapshotOf[e]
  PROVE  Left(S, supported)
<1>1. PICK n : n = Len(s) /\ S = [i \in DOMAIN s |-> {Part(e, t) : t \in s[i]}]
  BY DEF PartsAre
<1>2. n \in Nat /\ n >= 1 /\ DOMAIN s = 1..n
  BY <1>1
<1>3. S = [i \in 1..n |-> {Part(e, t) : t \in s[i]}]
  BY <1>1, <1>2
<1>4. \A t : Part(e, t) \in Parts
  BY DEF Part, Parts
<1>5. \A i \in 1..n : S[i] \in SUBSET Parts
  BY <1>3, <1>4
<1>6. S \in Seq(SUBSET Parts) /\ Len(S) = n
  BY <1>2, <1>3, <1>5
<1>7. ASSUME supported, NEW i \in 1..n, "unseen" \in S[i] PROVE FALSE
  <2>1. PICK t \in s[i] : Part(e, t) = "unseen"
    BY <1>3, <1>7
  <2>2. s[i] \subseteq tables
    BY <1>2
  <2>3. t \in Header \cup SnapshotOf[e] /\ e \in DOMAIN SnapshotOf
    BY <1>7, <2>1, <2>2
  <2> QED
    BY <2>1, <2>3 DEF Part
<1>8. supported => \A i \in 1..n : "unseen" \notin S[i]
  BY <1>7
<1> QED
  BY <1>1, <1>2, <1>6, <1>8 DEF Left

LEMMA TrailsKnown ==
  ASSUME NEW e \in Wrappers \cup Untopical
  PROVE  TrailOf(Trail(e))
<1>1. PICK supported : supported = (e \in DOMAIN SnapshotOf)
  OBVIOUS
<1>2. supported \in BOOLEAN
  BY <1>1
<1>3. PICK tables : /\ AllPlain(MutationsOf[e], tables)
                    /\ supported => tables \subseteq Header \cup SnapshotOf[e]
  <2>1. CASE e \in Entities
    BY <2>1, EntitiesPlain
  <2>2. CASE e = "production_plan"
    <3>1. MutationsOf[e] = ProductionPlanMutations
      BY <2>2 DEF MutationsOf
    <3>2. ~supported
      BY <1>1, <2>2, EntityNames
    <3> QED
      BY <3>1, <3>2, PlansPlain
  <2> QED
    BY <2>1, <2>2, EntityNames
<1>4. ASSUME NEW m \in MutationsOf[e],
             NEW k, k = [m EXCEPT !.steps = [i \in DOMAIN @ |-> {Part(e, t) : t \in @[i]}]]
      PROVE  MutationOf(k, supported)
  <2>1. Plain(m, tables)
    BY <1>3 DEF AllPlain
  <2>2. PICK s, S : /\ s = m.steps /\ s \in Seq(SUBSET tables) /\ Len(s) >= 1
                     /\ S = [i \in DOMAIN s |-> {Part(e, t) : t \in s[i]}]
    BY <2>1 DEF Plain
  <2>3. Left(S, supported)
    <3>1. /\ supported => e \in DOMAIN SnapshotOf
          /\ supported => tables \subseteq Header \cup SnapshotOf[e]
      BY <1>1, <1>3
    <3>2. PartsAre(S, e, s)
      BY <2>2 DEF PartsAre
    <3> QED
      BY <1>2, <2>2, <3>1, <3>2, PartsOf
  <2>4. PICK ty, st, to : ty = m.type /\ st = m.steps /\ to = m.told
    OBVIOUS
  <2>5. m = [type |-> ty, steps |-> st, told |-> to]
    BY <2>1, <2>4 DEF Plain
  <2>6. k = [m EXCEPT !.steps = S]
    BY <1>4, <2>2
  <2>7. k = [type |-> ty, steps |-> S, told |-> to]
    BY <2>5, <2>6
  <2>8. k.type = ty /\ k.steps = S /\ k.told = to
    BY <2>7
  <2> QED
    BY <2>1, <2>3, <2>4, <2>8 DEF MutationOf, Plain
<1>5. PICK T : T = Trail(e)
  OBVIOUS
<1>6. /\ T.supported = supported
      /\ T.mutations = {[m EXCEPT !.steps = [i \in DOMAIN @ |-> {Part(e, t) : t \in @[i]}]] :
                           m \in MutationsOf[e]}
  BY <1>1, <1>5 DEF Trail
<1>7. ASSUME NEW k \in T.mutations PROVE MutationOf(k, supported)
  <2>1. PICK m \in MutationsOf[e] :
           k = [m EXCEPT !.steps = [i \in DOMAIN @ |-> {Part(e, t) : t \in @[i]}]]
    BY <1>6
  <2> QED
    BY <1>4, <2>1
<1> QED
  BY <1>2, <1>5, <1>6, <1>7 DEF TrailOf
----------------------------------------------------------------------------

TrailPhases ==
    {"idle", "capture_old", "write", "capture_new", "notify", "insert", "publish"}
AtRecord == {"capture_old", "write", "capture_new"}
AtWork == {"capture_old", "write"}
AfterWriting == {"capture_new", "notify", "insert", "publish"}

RecordOf(r) == r.row \in Records \cup {Absent} /\ r.live \subseteq r.lines

Tables ==
    /\ records = [d \in Records |-> records[d]]
    /\ \A d \in Records : RecordOf(records[d])
    /\ replied \in [Serials -> {"nothing", "done", "error"}]
    /\ notified \subseteq {"entity", "activity"} \X Serials
    /\ \A a \in activities : a.n \in Serials

AuditShape ==
    /\ contended \in BOOLEAN
    /\ started \in 0..MaxRequests
    /\ phase \in [Procs -> TrailPhases]
    /\ job = [p \in Procs |-> job[p]]
    /\ Tables
    /\ TrailOf(trail)

Whole(n) == n \in DOMAIN written /\ written[n].all

\* What is claimed of an activity.
Told(a) ==
    /\ a.status \in Statuses /\ a.type \in Changes
    /\ Whole(a.n)
    /\ IF a.status # "complete" THEN a.old = Absent /\ a.new = Absent
       ELSE /\ a.type # "create" <=> a.old # Absent
            /\ a.type # "delete" <=> a.new # Absent
            /\ ~contended =>
                  /\ a.old # Absent => Shows(a.old, written[a.n].before)
                  /\ a.new # Absent => Shows(a.new, written[a.n].after)
                  /\ written[a.n].before.unseen = written[a.n].after.unseen

\* And of a mutation.
Truthful(n) ==
    /\ replied[n] = "done" \/ <<"entity", n>> \in notified => Whole(n)
    /\ replied[n] = "error" /\ n \in DOMAIN written => ~written[n].whole
    /\ <<"activity", n>> \in notified => \E a \in activities : a.n = n
    /\ \A a \in activities : a.n = n => Told(a)

\* Nobody has heard of it yet.
Unheard(n) ==
    /\ replied[n] = "nothing"
    /\ \A t : <<t, n>> \notin notified
    /\ \A a \in activities : a.n # n

TrailJob(ph, j) ==
    /\ j.n \in 1..started /\ j.target \in Records /\ j.type \in Changes
    /\ j = [n |-> j.n, target |-> j.target, type |-> j.type, told |-> j.told, left |-> j.left,
            whole |-> j.whole, old |-> j.old, new |-> j.new]
    /\ j.type = "create" => j.old = Absent
    /\ ph = "capture_old" => j.type # "create" /\ j.n \notin DOMAIN written
    /\ ph = "capture_new" => j.type # "delete"
    /\ ph \in AtRecord \/ j.type = "delete" => j.new = Absent
    /\ ph \in AtWork =>
          /\ Unheard(j.n)
          /\ Left(j.left, trail.supported)
          /\ j.whole => Len(j.left) = 1
          /\ j.n \in DOMAIN written => ~written[j.n].whole /\ ~j.whole
    /\ ph \in AfterWriting => Whole(j.n)
    /\ ph = "publish" => \E a \in activities : a.n = j.n

TrailJobs == \A p \in Procs : phase[p] # "idle" => TrailJob(phase[p], job[p])

Apart ==
    \A p, q \in Procs :
        p # q /\ phase[p] # "idle" /\ phase[q] # "idle" => job[p].n # job[q].n

\* Numbers to come.
Untouched == \A n \in Serials : n > started => Unheard(n) /\ n \notin DOMAIN written

\* While no mutations of a record overlap, a mutation holds what its activity will show.
Tells(ph, j) ==
    LET w == written[j.n]
        before == IF j.n \in DOMAIN written THEN w.before ELSE records[j.target]
    IN
    /\ ~Missing(j.old) /\ ph # "capture_old" => Shows(j.old, before)
    /\ ~Missing(j.new) => Shows(j.new, w.after)
    /\ j.n \in DOMAIN written /\ trail.supported => w.before.unseen = w.after.unseen
    /\ ph \in AtRecord /\ j.n \in DOMAIN written => records[j.target] = w.after

OneAtRecord ==
    \A p, q \in Procs :
        p # q /\ phase[p] \in AtRecord /\ phase[q] \in AtRecord => job[p].target # job[q].target

TrailQuiet ==
    OneAtRecord /\ \A p \in Procs : phase[p] # "idle" => Tells(phase[p], job[p])

AuditInv ==
    /\ AuditShape /\ TrailJobs /\ Apart /\ Untouched
    /\ \A n \in Serials : Truthful(n)
    /\ ~contended => TrailQuiet

LEMMA AuditClaims == AuditInv => AuditTypeOK /\ HistoryTruthful
<1> SUFFICES ASSUME AuditInv PROVE AuditTypeOK /\ HistoryTruthful
  OBVIOUS
<1>1. \A n \in Serials : Truthful(n)
  BY DEF AuditInv
<1>2. \A a \in activities : Told(a)
  BY <1>1 DEF AuditInv, AuditShape, Tables, Truthful
<1>3. AuditTypeOK
  BY <1>2 DEF AuditInv, AuditShape, Tables, AuditTypeOK, RecordOf, Told
<1>4. ASSUME NEW n \in Serials
      PROVE  LET whole == n \in DOMAIN written /\ written[n].all IN
             /\ replied[n] = "done" \/ <<"entity", n>> \in notified => whole
             /\ replied[n] = "error" /\ n \in DOMAIN written => ~written[n].whole
             /\ <<"activity", n>> \in notified => \E a \in activities : a.n = n
  BY <1>1 DEF Truthful, Whole
<1>5. ASSUME NEW a \in activities
      PROVE  /\ a.n \in DOMAIN written /\ written[a.n].all
             /\ IF a.status # "complete" THEN a.old = Absent /\ a.new = Absent
                ELSE /\ a.type # "create" <=> a.old # Absent
                     /\ a.type # "delete" <=> a.new # Absent
                     /\ ~contended =>
                           /\ a.old # Absent => Shows(a.old, written[a.n].before)
                           /\ a.new # Absent => Shows(a.new, written[a.n].after)
                           /\ written[a.n].before.unseen = written[a.n].after.unseen
  BY <1>2 DEF Told, Whole
<1>6. HistoryTruthful
  BY <1>4, <1>5 DEF HistoryTruthful
<1> QED
  BY <1>3, <1>6

----------------------------------------------------------------------------

\* Nothing of mutation n changes.
Same(n) ==
    /\ n \in DOMAIN written' <=> n \in DOMAIN written
    /\ n \in DOMAIN written => written'[n] = written[n]
    /\ replied'[n] = replied[n]
    /\ \A t : <<t, n>> \in notified' <=> <<t, n>> \in notified
    /\ \A a \in activities' : a.n = n => a \in activities

Grows ==
    /\ activities \subseteq activities' /\ trail' = trail
    /\ ~contended' => ~contended

LEMMA TruthfulKept ==
  ASSUME NEW n, Same(n), Grows, Truthful(n)
  PROVE  Truthful(n)'
<1>1. Whole(n)' <=> Whole(n)
  BY DEF Same, Whole
<1>2. replied'[n] = "done" \/ <<"entity", n>> \in notified' => Whole(n)'
  BY <1>1 DEF Same, Truthful
<1>3. replied'[n] = "error" /\ n \in DOMAIN written' => ~written'[n].whole
  BY DEF Same, Truthful
<1>4. <<"activity", n>> \in notified' => \E a \in activities' : a.n = n
  BY DEF Same, Truthful, Grows
<1>5. ASSUME NEW a \in activities', a.n = n PROVE Told(a)'
  <2>1. Told(a)
    BY <1>5 DEF Same, Truthful
  <2>2. Whole(n) /\ n \in DOMAIN written /\ written'[n] = written[n]
    BY <1>5, <2>1 DEF Told, Whole, Same
  <2> QED
    BY <1>1, <1>5, <2>1, <2>2 DEF Told, Grows
<1> QED
  BY <1>2, <1>3, <1>4, <1>5 DEF Truthful

LEMMA UnheardKept ==
  ASSUME NEW n, Same(n), Unheard(n)
  PROVE  Unheard(n)'
  BY DEF Same, Unheard

LEMMA TrailJobKept ==
  ASSUME NEW ph, NEW j, Same(j.n), Grows, started \in Nat, started' \in Nat, started <= started',
         TrailJob(ph, j)
  PROVE  TrailJob(ph, j)'
<1>1. PICK n : n = j.n
  OBVIOUS
<1>2. /\ n \in DOMAIN written' <=> n \in DOMAIN written
      /\ n \in DOMAIN written => written'[n] = written[n]
      /\ Whole(n)' <=> Whole(n)
  BY <1>1 DEF Same, Whole
<1>3. Unheard(n) => Unheard(n)'
  BY <1>1, UnheardKept
<1>4. /\ activities \subseteq activities' /\ trail' = trail
  BY DEF Grows
<1>5. j.n \in 1..started'
  BY DEF TrailJob
<1>6. ph = "publish" => \E a \in activities' : a.n = n
  BY <1>1, <1>4 DEF TrailJob
<1> QED
  BY <1>1, <1>2, <1>3, <1>4, <1>5, <1>6 DEF TrailJob

LEMMA TellsKept ==
  ASSUME NEW ph \in TrailPhases, NEW j, Same(j.n), Grows, Tells(ph, j), ph # "idle", TrailJob(ph, j),
         ph \in AtRecord => records'[j.target] = records[j.target]
  PROVE  Tells(ph, j)'
<1>1. PICK n, d : n = j.n /\ d = j.target
  OBVIOUS
<1>2. /\ n \in DOMAIN written' <=> n \in DOMAIN written
      /\ n \in DOMAIN written => written'[n] = written[n]
  BY <1>1 DEF Same
<1>3. trail' = trail
  BY DEF Grows
<1>4. ph \notin AtRecord => n \in DOMAIN written
  BY <1>1 DEF TrailJob, AtRecord, AfterWriting, TrailPhases, Whole
<1>5. ph \in AtRecord => j.new = Absent
  BY DEF TrailJob
<1>6. CASE ph \in AtRecord
  BY <1>1, <1>2, <1>3, <1>5, <1>6 DEF Tells, Missing
<1>7. CASE ph \notin AtRecord
  BY <1>1, <1>2, <1>3, <1>4, <1>7 DEF Tells
<1> QED
  BY <1>6, <1>7

\* What a step of request p, mutation n, to phase ph with k, must show.
TrailMoves(p, ph, k, n) ==
    /\ n \in Serials /\ n <= started'
    /\ \A x \in Serials : x # n => Same(x)
    /\ Truthful(n)'
    /\ \A q \in Procs : q # p /\ phase[q] # "idle" => job[q].n # n
    /\ ph # "idle" => k.n = n /\ TrailJob(ph, k)'

QuietMoves(p, ph, k) ==
    /\ \A q \in Procs : q # p /\ phase[q] \in AtRecord =>
          /\ records'[job[q].target] = records[job[q].target]
          /\ ph \in AtRecord => job[q].target # k.target
    /\ ph # "idle" => Tells(ph, k)'

LEMMA TrailStep ==
  ASSUME AuditInv, NEW p \in Procs, NEW ph \in TrailPhases, NEW k, NEW n,
         phase' = [phase EXCEPT ![p] = ph], job' = [job EXCEPT ![p] = k],
         started' \in 0..MaxRequests, started <= started', contended' \in BOOLEAN,
         Grows, Tables', TrailMoves(p, ph, k, n),
         ~contended' => QuietMoves(p, ph, k)
  PROVE  AuditInv'
<1>1. /\ phase'[p] = ph /\ job'[p] = k
      /\ \A q \in Procs : q # p => phase'[q] = phase[q] /\ job'[q] = job[q]
  BY DEF AuditInv, AuditShape
<1>2. started \in Nat /\ started' \in Nat /\ MaxRequests \in Nat /\ started <= MaxRequests
  BY RequestBounds DEF AuditInv, AuditShape
<1>3. ASSUME NEW q \in Procs, q # p, phase[q] # "idle"
      PROVE  /\ TrailJob(phase[q], job[q]) /\ job[q].n \in Serials /\ job[q].n # n
             /\ Same(job[q].n)
  BY <1>2, <1>3 DEF AuditInv, TrailJobs, TrailJob, TrailMoves, Serials
<1>4. TrailJobs'
  <2> SUFFICES ASSUME NEW q \in Procs, phase'[q] # "idle" PROVE TrailJob(phase[q], job[q])'
    BY DEF TrailJobs
  <2>1. PICK f, j : f = phase'[q] /\ j = job'[q]
    OBVIOUS
  <2>2. TrailJob(f, j)'
    <3>1. CASE q = p
      BY <1>1, <2>1, <3>1 DEF TrailMoves
    <3>2. CASE q # p
      <4>1. TrailJob(f, j) /\ Same(j.n)
        BY <1>1, <1>3, <2>1, <3>2
      <4> QED
        BY <1>2, <4>1, TrailJobKept
    <3> QED
      BY <3>1, <3>2
  <2> QED
    BY <2>1, <2>2
<1>5. Apart'
  <2> SUFFICES ASSUME NEW x \in Procs, NEW y \in Procs, x # y, phase'[x] # "idle",
                      phase'[y] # "idle"
               PROVE  job'[x].n # job'[y].n
    BY DEF Apart
  <2>1. CASE x = p
    BY <1>1, <1>3, <2>1 DEF TrailMoves
  <2>2. CASE y = p
    BY <1>1, <1>3, <2>2 DEF TrailMoves
  <2>3. CASE x # p /\ y # p
    BY <1>1, <2>3 DEF AuditInv, Apart
  <2> QED
    BY <2>1, <2>2, <2>3
<1>6. Untouched'
  <2> SUFFICES ASSUME NEW x \in Serials, x > started' PROVE Unheard(x)' /\ x \notin DOMAIN written'
    BY DEF Untouched, Serials
  <2>1. x # n /\ x > started
    BY <1>2 DEF TrailMoves, Serials
  <2>2. Same(x) /\ Unheard(x) /\ x \notin DOMAIN written
    BY <2>1 DEF TrailMoves, AuditInv, Untouched
  <2>3. Unheard(x)'
    BY <2>2, UnheardKept
  <2> QED
    BY <2>2, <2>3 DEF Same
<1>7. ASSUME NEW x \in Serials PROVE Truthful(x)'
  <2>1. CASE x = n
    BY <2>1 DEF TrailMoves
  <2>2. CASE x # n
    BY <2>2, TruthfulKept DEF TrailMoves, AuditInv
  <2> QED
    BY <2>1, <2>2
<1>9. AuditShape'
  <2>1. phase' \in [Procs -> TrailPhases] /\ job' = [q \in Procs |-> job'[q]]
    BY DEF AuditInv, AuditShape
  <2>2. TrailOf(trail)'
    BY DEF AuditInv, AuditShape, TrailOf, Grows
  <2> QED
    BY <2>1, <2>2 DEF AuditShape
<1>8. ASSUME ~contended' PROVE TrailQuiet'
  <2>1. TrailQuiet /\ QuietMoves(p, ph, k)
    BY <1>8 DEF AuditInv, Grows
  <2>2. OneAtRecord'
    <3> SUFFICES ASSUME NEW x \in Procs, NEW y \in Procs, x # y, phase'[x] \in AtRecord,
                        phase'[y] \in AtRecord
                 PROVE  job'[x].target # job'[y].target
      BY DEF OneAtRecord
    <3>1. CASE x = p
      BY <1>1, <2>1, <3>1 DEF QuietMoves
    <3>2. CASE y = p
      BY <1>1, <2>1, <3>2 DEF QuietMoves
    <3>3. CASE x # p /\ y # p
      BY <1>1, <2>1, <3>3 DEF TrailQuiet, OneAtRecord
    <3> QED
      BY <3>1, <3>2, <3>3
  <2>3. ASSUME NEW q \in Procs, phase'[q] # "idle" PROVE Tells(phase[q], job[q])'
    <3>1. PICK f, j : f = phase'[q] /\ j = job'[q]
      OBVIOUS
    <3>2. Tells(f, j)'
      <4>1. CASE q = p
        BY <1>1, <2>1, <2>3, <3>1, <4>1 DEF QuietMoves
      <4>2. CASE q # p
        <5>1. f = phase[q] /\ j = job[q] /\ f # "idle" /\ f \in TrailPhases
          BY <1>1, <2>3, <3>1, <4>2 DEF AuditInv, AuditShape
        <5>2. TrailJob(f, j) /\ Same(j.n)
          BY <1>3, <4>2, <5>1
        <5>3. Tells(f, j)
          BY <2>1, <5>1 DEF TrailQuiet
        <5>4. f \in AtRecord => records'[j.target] = records[j.target]
          BY <2>1, <4>2, <5>1 DEF QuietMoves
        <5> QED
          BY <5>1, <5>2, <5>3, <5>4, TellsKept
      <4> QED
        BY <4>1, <4>2
    <3> QED
      BY <3>1, <3>2
  <2> QED
    BY <2>2, <2>3 DEF TrailQuiet
<1> QED
  BY <1>4, <1>5, <1>6, <1>7, <1>8, <1>9 DEF AuditInv
----------------------------------------------------------------------------

\* A step that leaves the tables alone.
LEMMA TablesStill ==
  ASSUME AuditInv, UNCHANGED auditVars, ~contended' => ~contended
  PROVE  /\ Grows /\ Tables'
         /\ \A n \in Serials : Same(n) /\ Truthful(n)'
<1>1. /\ trail' = trail /\ records' = records /\ activities' = activities
      /\ notified' = notified /\ replied' = replied /\ written' = written
  BY DEF auditVars
<1>2. Grows
  BY <1>1 DEF Grows
<1>3. \A n : Same(n)
  BY <1>1 DEF Same
<1>4. Tables'
  BY <1>1 DEF AuditInv, AuditShape, Tables, RecordOf
<1>5. \A n \in Serials : Truthful(n)'
  BY <1>2, <1>3, TruthfulKept DEF AuditInv
<1> QED
  BY <1>2, <1>3, <1>4, <1>5

\* What is known of the request whose step it is.
LEMMA AtStep ==
  ASSUME AuditInv, NEW p \in Procs, phase[p] # "idle"
  PROVE  /\ started \in 0..MaxRequests /\ started \in Nat /\ contended \in BOOLEAN
         /\ job[p].n \in Serials /\ job[p].n <= started /\ job[p].target \in Records
         /\ TrailJob(phase[p], job[p]) /\ Truthful(job[p].n)
         /\ \A q \in Procs : q # p /\ phase[q] # "idle" => job[q].n # job[p].n
         /\ ~contended =>
               /\ Tells(phase[p], job[p])
               /\ phase[p] \in AtRecord =>
                     \A q \in Procs : q # p /\ phase[q] \in AtRecord
                                         => job[q].target # job[p].target
<1>1. TrailJob(phase[p], job[p])
  BY DEF AuditInv, TrailJobs
<1>2. started \in 0..MaxRequests /\ started \in Nat /\ contended \in BOOLEAN
  BY RequestBounds DEF AuditInv, AuditShape
<1>3. job[p].n \in Serials /\ job[p].n <= started /\ job[p].target \in Records
  BY <1>1, <1>2, RequestBounds DEF TrailJob, Serials
<1>4. Truthful(job[p].n)
  BY <1>3 DEF AuditInv
<1>5. \A q \in Procs : q # p /\ phase[q] # "idle" => job[q].n # job[p].n
  BY DEF AuditInv, Apart
<1>6. ~contended =>
         /\ Tells(phase[p], job[p])
         /\ phase[p] \in AtRecord =>
               \A q \in Procs : q # p /\ phase[q] \in AtRecord => job[q].target # job[p].target
  BY DEF AuditInv, TrailQuiet, OneAtRecord
<1> QED
  BY <1>1, <1>2, <1>3, <1>4, <1>5, <1>6

LEMMA MutationBegun ==
  ASSUME AuditInv, NEW p \in Procs, NEW d \in Records, NEW m \in trail.mutations,
         BeginMutation(p, d, m)
  PROVE  AuditInv'
<1>1. PICK ph, k, n, rivals :
        /\ ph = IF m.type # "create" /\ m.told /\ trail.supported THEN "capture_old" ELSE "write"
        /\ n = started + 1 /\ rivals = Writing(d)
        /\ k = [n |-> n, target |-> d, type |-> m.type, told |-> m.told, left |-> m.steps,
                whole |-> Len(m.steps) = 1, old |-> Absent, new |-> Absent]
        /\ Start(p, ph, k, rivals)
  BY DEF BeginMutation, NextSerial
<1>2. UNCHANGED auditVars
  BY DEF BeginMutation
<1>3. /\ phase[p] = "idle" /\ started < MaxRequests
      /\ phase' = [phase EXCEPT ![p] = ph] /\ job' = [job EXCEPT ![p] = k]
      /\ started' = n /\ contended' = (contended \/ rivals # {})
  BY <1>1 DEF Start, Free, NextSerial
<1>4. started \in Nat /\ contended \in BOOLEAN /\ MutationOf(m, trail.supported)
  BY RequestBounds DEF AuditInv, AuditShape, TrailOf
<1>5. /\ n \in Serials /\ started' \in 0..MaxRequests /\ started <= started'
      /\ contended' \in BOOLEAN /\ (~contended' => ~contended) /\ n > started
  BY <1>1, <1>3, <1>4, RequestBounds DEF Serials
<1>6. /\ Grows /\ Tables'
      /\ \A x \in Serials : Same(x) /\ Truthful(x)'
  BY <1>2, <1>5, TablesStill
<1>7. ph \in {"capture_old", "write"} /\ (ph = "capture_old" => m.type # "create")
  BY <1>1
<1>8. /\ k.n = n /\ k.target = d /\ k.type = m.type /\ k.left = m.steps
      /\ k.whole = (Len(m.steps) = 1) /\ k.old = Absent /\ k.new = Absent
      /\ k = [n |-> k.n, target |-> k.target, type |-> k.type, told |-> k.told, left |-> k.left,
              whole |-> k.whole, old |-> k.old, new |-> k.new]
  BY <1>1
<1>9. TrailJob(ph, k)'
  <2>1. Unheard(n) /\ n \notin DOMAIN written
    BY <1>5 DEF AuditInv, Untouched
  <2>2. Unheard(n)' /\ n \notin DOMAIN written'
    BY <1>5, <1>6, <2>1, UnheardKept DEF Same
  <2>3. trail' = trail
    BY <1>6 DEF Grows
  <2>4. k.n \in 1..started' /\ k.type \in Changes /\ Left(k.left, trail'.supported)
    BY <1>3, <1>4, <1>5, <1>8, <2>3 DEF MutationOf
  <2>5. ph \notin AfterWriting /\ ph # "publish" /\ ph # "capture_new"
    BY <1>7 DEF AfterWriting
  <2> QED
    BY <1>7, <1>8, <2>2, <2>4, <2>5 DEF TrailJob
<1>10. \A q \in Procs : q # p /\ phase[q] # "idle" => job[q].n # n
  <2> SUFFICES ASSUME NEW q \in Procs, phase[q] # "idle" PROVE job[q].n # n
    OBVIOUS
  <2>1. job[q].n \in 1..started
    BY DEF AuditInv, TrailJobs, TrailJob
  <2> QED
    BY <1>4, <1>5, <2>1
<1>11. ASSUME ~contended' PROVE QuietMoves(p, ph, k)
  <2>1. rivals = {}
    BY <1>3, <1>11
  <2>2. \A q \in Procs : phase[q] \in AtRecord => job[q].target # d
    BY <1>1, <2>1 DEF Writing, InFlight, AtRecord
  <2>3. n \notin DOMAIN written'
    BY <1>5, <1>6 DEF AuditInv, Untouched, Same
  <2>4. Tells(ph, k)'
    BY <1>8, <2>3 DEF Tells, Missing
  <2> QED
    BY <1>2, <1>8, <2>2, <2>4 DEF QuietMoves, auditVars
<1>12. ph \in TrailPhases /\ TrailMoves(p, ph, k, n)
  BY <1>3, <1>4, <1>5, <1>6, <1>7, <1>8, <1>9, <1>10 DEF TrailMoves, TrailPhases
<1> QED
  BY <1>3, <1>5, <1>6, <1>11, <1>12, TrailStep

\* A snapshot that was taken shows the record as it is.
LEMMA CapturedShows ==
  ASSUME NEW d, NEW s \in Captures(d), ~Missing(s)
  PROVE  Shows(s, records[d])
<1>1. s = Seen(d)
  BY DEF Captures, Missing
<1> QED
  BY <1>1 DEF Seen, Shows

LEMMA OldCaptured ==
  ASSUME AuditInv, NEW p \in Procs, CaptureOld(p)
  PROVE  AuditInv'
<1>0. phase[p] = "capture_old" /\ UNCHANGED auditVars
  BY DEF CaptureOld
<1>1. PICK j, n, d : j = job[p] /\ n = j.n /\ d = j.target
  OBVIOUS
<1>2. /\ started \in 0..MaxRequests /\ started \in Nat /\ contended \in BOOLEAN
      /\ n \in Serials /\ n <= started /\ TrailJob("capture_old", j)
      /\ \A q \in Procs : q # p /\ phase[q] # "idle" => job[q].n # n
      /\ ~contended =>
            /\ Tells("capture_old", j)
            /\ \A q \in Procs : q # p /\ phase[q] \in AtRecord => job[q].target # d
  BY <1>0, <1>1, AtStep DEF AtRecord
<1>3. PICK s \in Captures(d) : Goto(p, "write", [j EXCEPT !.old = s])
  BY <1>1 DEF CaptureOld
<1>4. PICK k : k = [j EXCEPT !.old = s]
  OBVIOUS
<1>5. /\ phase' = [phase EXCEPT ![p] = "write"] /\ job' = [job EXCEPT ![p] = k]
      /\ started' = started /\ contended' = contended
  BY <1>3, <1>4 DEF Goto
<1>6. /\ k.n = n /\ k.target = d /\ k.type = j.type /\ k.left = j.left /\ k.whole = j.whole
      /\ k.old = s /\ k.new = j.new
      /\ k = [n |-> k.n, target |-> k.target, type |-> k.type, told |-> k.told, left |-> k.left,
              whole |-> k.whole, old |-> k.old, new |-> k.new]
  <2>1. PICK ty, to, le, wh, ol, ne : /\ ty = j.type /\ to = j.told /\ le = j.left
                                      /\ wh = j.whole /\ ol = j.old /\ ne = j.new
    OBVIOUS
  <2>2. j = [n |-> n, target |-> d, type |-> ty, told |-> to, left |-> le, whole |-> wh,
             old |-> ol, new |-> ne]
    BY <1>1, <1>2, <2>1 DEF TrailJob
  <2>3. k = [n |-> n, target |-> d, type |-> ty, told |-> to, left |-> le, whole |-> wh,
             old |-> s, new |-> ne]
    BY <1>4, <2>2
  <2> QED
    BY <2>1, <2>3
<1>7. /\ Grows /\ Tables'
      /\ \A x \in Serials : Same(x) /\ Truthful(x)'
  BY <1>0, <1>5, TablesStill
<1>8. TrailJob("capture_old", j)'
  BY <1>1, <1>2, <1>5, <1>7, TrailJobKept
<1>9. TrailJob("write", k)'
  BY <1>1, <1>6, <1>8 DEF TrailJob, AtRecord, AtWork, AfterWriting
<1>10. ASSUME ~contended' PROVE QuietMoves(p, "write", k)
  <2>1. records' = records /\ written' = written
    BY <1>0 DEF auditVars
  <2>2. n \notin DOMAIN written' /\ k.new = Absent
    BY <1>1, <1>2, <1>6, <2>1 DEF TrailJob, AtRecord
  <2>3. ~Missing(s) => Shows(s, records[d])
    BY CapturedShows
  <2>4. Tells("write", k)'
    BY <1>6, <2>1, <2>2, <2>3 DEF Tells, Missing, Shows
  <2> QED
    BY <1>2, <1>5, <1>6, <1>10, <2>1, <2>4 DEF QuietMoves
<1>11. "write" \in TrailPhases /\ TrailMoves(p, "write", k, n)
  BY <1>2, <1>5, <1>6, <1>7, <1>9 DEF TrailMoves, TrailPhases
<1>12. started' \in 0..MaxRequests /\ started <= started' /\ contended' \in BOOLEAN
  BY <1>2, <1>5
<1> QED
  BY <1>5, <1>7, <1>10, <1>11, <1>12, TrailStep
LEMMA HeadAndTail ==
  ASSUME NEW s, NEW supported, Left(s, supported)
  PROVE  /\ supported => "unseen" \notin Head(s)
         /\ Tail(s) # <<>> => Left(Tail(s), supported) /\ Len(s) # 1
<1>1. PICK n \in Nat : n = Len(s) /\ n >= 1
  BY DEF Left
<1>2. supported => "unseen" \notin Head(s)
  BY <1>1 DEF Left
<1>3. PICK t : t = Tail(s)
  OBVIOUS
<1>4. /\ t \in Seq(SUBSET Parts) /\ Len(t) = n - 1
      /\ \A i \in 1..(n - 1) : t[i] = s[i + 1]
  BY <1>1, <1>3 DEF Left
<1>5. ASSUME t # <<>> PROVE n >= 2
  BY <1>1, <1>4, <1>5
<1>6. ASSUME supported, NEW i \in 1..(n - 1) PROVE "unseen" \notin t[i]
  <2>1. i + 1 \in 1..n
    BY <1>1
  <2> QED
    BY <1>1, <1>4, <1>6, <2>1 DEF Left
<1>7. ASSUME t # <<>> PROVE Left(t, supported) /\ n # 1
  BY <1>1, <1>4, <1>5, <1>6, <1>7 DEF Left
<1> QED
  BY <1>1, <1>2, <1>3, <1>7

\* What a write of mutation n makes of the row r of record d, and of the history.
WriteOf(j, n, d, r, after, done) ==
    /\ records' = [records EXCEPT ![d] = after]
    /\ RecordOf(after)
    /\ trail.supported => after.unseen = r.unseen
    /\ DOMAIN written' = DOMAIN written \cup {n}
    /\ \A x \in DOMAIN written : x # n => written'[x] = written[x]
    /\ written'[n] = done
    /\ done.before = IF n \in DOMAIN written THEN written[n].before ELSE r
    /\ done.after = after /\ done.all = (Tail(j.left) = <<>>) /\ done.whole = j.whole

LEMMA RowWritten ==
  ASSUME AuditInv, NEW p \in Procs, WriteRecord(p)
  PROVE  \E after, done :
            WriteOf(job[p], job[p].n, job[p].target, records[job[p].target], after, done)
<1>0. phase[p] = "write"
  BY DEF WriteRecord
<1>1. PICK j, n, d, r, parts, rest :
         /\ j = job[p] /\ n = j.n /\ d = j.target /\ r = records[d]
         /\ parts = Head(j.left) /\ rest = Tail(j.left)
  OBVIOUS
<1>2. n \in Serials /\ d \in Records /\ TrailJob("write", j)
  BY <1>0, <1>1, AtStep
<1>3. PICK live :
         /\ records' = [records EXCEPT ![job[p].target] =
               AfterWrite(job[p], records[job[p].target], Head(job[p].left), live)]
         /\ written' = [x \in DOMAIN written \cup {job[p].n} |->
               IF x # job[p].n THEN written[x]
               ELSE [before |-> IF x \in DOMAIN written THEN written[x].before
                                ELSE records[job[p].target],
                     after |-> AfterWrite(job[p], records[job[p].target], Head(job[p].left), live),
                     all |-> Tail(job[p].left) = <<>>, whole |-> job[p].whole]]
  BY DEF WriteRecord
<1>4. PICK after, done :
         /\ after = AfterWrite(job[p], records[job[p].target], Head(job[p].left), live)
         /\ done = [before |-> IF n \in DOMAIN written THEN written[n].before ELSE r,
                    after |-> after, all |-> rest = <<>>, whole |-> j.whole]
  OBVIOUS
<1>5. /\ records' = [records EXCEPT ![d] = after]
      /\ DOMAIN written' = DOMAIN written \cup {n}
      /\ \A x \in DOMAIN written : x # n => written'[x] = written[x]
      /\ written'[n] = done
  <2>1. records' = [records EXCEPT ![d] = after]
    BY <1>1, <1>3, <1>4
  <2>2. DOMAIN written' = DOMAIN written \cup {n}
    BY <1>1, <1>3
  <2>3. \A x \in DOMAIN written : x # n => written'[x] = written[x]
    BY <1>1, <1>3
  <2>4. written'[n] = done
    <3>1. written'[job[p].n] =
             [before |-> IF job[p].n \in DOMAIN written THEN written[job[p].n].before
                         ELSE records[job[p].target],
              after |-> AfterWrite(job[p], records[job[p].target], Head(job[p].left), live),
              all |-> Tail(job[p].left) = <<>>, whole |-> job[p].whole]
      BY <1>3
    <3> QED
      BY <1>1, <1>4, <3>1
  <2> QED
    BY <2>1, <2>2, <2>3, <2>4
<1>6. /\ done.before = IF n \in DOMAIN written THEN written[n].before ELSE r
      /\ done.after = after /\ done.all = (rest = <<>>) /\ done.whole = j.whole
  BY <1>4
<1>7. RecordOf(r)
  BY <1>1, <1>2 DEF AuditInv, AuditShape, Tables
<1>8. after = [row |-> IF "header" \in parts THEN n ELSE r.row,
               active |-> IF "header" \in parts /\ j.type # "update" THEN j.type = "create" ELSE r.active,
               lines |-> r.lines \cup live,
               live |-> live,
               unseen |-> IF "unseen" \in parts THEN n ELSE r.unseen]
  BY <1>1, <1>4 DEF AfterWrite
<1>9. RecordOf(after)
  <2>1. n \in Records
    BY <1>2, RequestBounds DEF Serials, Records
  <2>2. after.row = (IF "header" \in parts THEN n ELSE r.row)
    BY <1>8
  <2>3. after.lines = r.lines \cup live /\ after.live = live
    BY <1>8
  <2> QED
    BY <1>7, <2>1, <2>2, <2>3 DEF RecordOf
<1>10. trail.supported => after.unseen = r.unseen
  <2>1. trail.supported => "unseen" \notin parts
    BY <1>1, <1>2, HeadAndTail DEF TrailJob, AtWork
  <2> QED
    BY <1>8, <2>1
<1>11. WriteOf(j, n, d, r, after, done)
  BY <1>1, <1>3, <1>5, <1>6, <1>9, <1>10 DEF WriteOf
<1> QED
  BY <1>1, <1>11

\* Where the mutation goes then.
LEMMA WrittenNext ==
  ASSUME NEW p, WriteRecord(p)
  PROVE  LET j == job[p]
             rest == Tail(j.left)
         IN \E ph, k :
               /\ phase' = [phase EXCEPT ![p] = ph] /\ job' = [job EXCEPT ![p] = k]
               /\ started' = started /\ contended' = contended
               /\ \/ ph = "write" /\ k = [j EXCEPT !.left = rest] /\ rest # <<>> /\ replied' = replied
                  \/ /\ ph = "idle" /\ rest = <<>>
                     /\ replied' = [replied EXCEPT ![j.n] = "done"]
                  \/ /\ ph = "capture_new" /\ k = [j EXCEPT !.left = rest] /\ rest = <<>>
                     /\ j.type # "delete" /\ replied' = replied
                  \/ /\ ph = "notify" /\ k = [j EXCEPT !.left = rest] /\ rest = <<>>
                     /\ replied' = replied
<1>1. PICK j, rest : j = job[p] /\ rest = Tail(j.left)
  OBVIOUS
<1>2. \/ rest # <<>> /\ Goto(p, "write", [j EXCEPT !.left = rest]) /\ UNCHANGED replied
      \/ rest = <<>> /\ Reply(p, "done")
      \/ /\ rest = <<>> /\ UNCHANGED replied
         /\ Goto(p, IF j.type # "delete" /\ trail.supported THEN "capture_new" ELSE "notify",
                 [j EXCEPT !.left = rest])
  BY <1>1 DEF WriteRecord
<1>3. CASE rest # <<>> /\ Goto(p, "write", [j EXCEPT !.left = rest]) /\ UNCHANGED replied
  BY <1>1, <1>3 DEF Goto
<1>4. CASE rest = <<>> /\ Reply(p, "done")
  BY <1>1, <1>4 DEF Reply, Finish, Goto
<1>5. CASE /\ rest = <<>> /\ UNCHANGED replied
           /\ Goto(p, IF j.type # "delete" /\ trail.supported THEN "capture_new" ELSE "notify",
                   [j EXCEPT !.left = rest])
  BY <1>1, <1>5 DEF Goto
<1> QED
  BY <1>2, <1>3, <1>4, <1>5

LEMMA RecordWritten ==
  ASSUME AuditInv, NEW p \in Procs, WriteRecord(p)
  PROVE  AuditInv'
<1>0. /\ phase[p] = "write" /\ trail' = trail /\ activities' = activities
      /\ notified' = notified
  BY DEF WriteRecord
<1>1. PICK j, n, d, r, rest :
         j = job[p] /\ n = j.n /\ d = j.target /\ r = records[d] /\ rest = Tail(j.left)
  OBVIOUS
<1>2. /\ started \in 0..MaxRequests /\ started \in Nat /\ contended \in BOOLEAN
      /\ n \in Serials /\ n <= started /\ d \in Records /\ TrailJob("write", j)
      /\ \A q \in Procs : q # p /\ phase[q] # "idle" => job[q].n # n
      /\ ~contended =>
            /\ Tells("write", j)
            /\ \A q \in Procs : q # p /\ phase[q] \in AtRecord => job[q].target # d
  BY <1>0, <1>1, AtStep DEF AtRecord
<1>3. PICK after, done :
         /\ records' = [records EXCEPT ![d] = after]
         /\ RecordOf(after)
         /\ trail.supported => after.unseen = r.unseen
         /\ DOMAIN written' = DOMAIN written \cup {n}
         /\ \A x \in DOMAIN written : x # n => written'[x] = written[x]
         /\ written'[n] = done
         /\ done.before = IF n \in DOMAIN written THEN written[n].before ELSE r
         /\ done.after = after /\ done.all = (rest = <<>>) /\ done.whole = j.whole
  <2>1. PICK after, done : WriteOf(j, n, d, r, after, done)
    BY <1>1, RowWritten
  <2> QED
    BY <1>1, <2>1 DEF WriteOf
<1>4. PICK ph, k :
         /\ phase' = [phase EXCEPT ![p] = ph] /\ job' = [job EXCEPT ![p] = k]
         /\ started' = started /\ contended' = contended
         /\ \/ ph = "write" /\ k = [j EXCEPT !.left = rest] /\ rest # <<>> /\ replied' = replied
            \/ /\ ph = "idle" /\ rest = <<>>
               /\ replied' = [replied EXCEPT ![j.n] = "done"]
            \/ /\ ph = "capture_new" /\ k = [j EXCEPT !.left = rest] /\ rest = <<>>
               /\ j.type # "delete" /\ replied' = replied
            \/ /\ ph = "notify" /\ k = [j EXCEPT !.left = rest] /\ rest = <<>>
               /\ replied' = replied
  BY <1>1, WrittenNext
<1>5. ASSUME ph # "idle"
      PROVE  /\ k.n = n /\ k.target = d /\ k.type = j.type /\ k.left = rest /\ k.whole = j.whole
             /\ k.old = j.old /\ k.new = j.new
             /\ k = [n |-> k.n, target |-> k.target, type |-> k.type, told |-> k.told,
                     left |-> k.left, whole |-> k.whole, old |-> k.old, new |-> k.new]
  <2>1. PICK ty, to, le, wh, ol, ne : /\ ty = j.type /\ to = j.told /\ le = j.left
                                      /\ wh = j.whole /\ ol = j.old /\ ne = j.new
    OBVIOUS
  <2>2. j = [n |-> n, target |-> d, type |-> ty, told |-> to, left |-> le, whole |-> wh,
             old |-> ol, new |-> ne]
    BY <1>1, <1>2, <2>1 DEF TrailJob
  <2>3. k = [j EXCEPT !.left = rest]
    BY <1>4, <1>5
  <2>4. k = [n |-> n, target |-> d, type |-> ty, told |-> to, left |-> rest, whole |-> wh,
             old |-> ol, new |-> ne]
    BY <2>2, <2>3
  <2> QED
    BY <2>1, <2>4
<1>6. Grows
  BY <1>0, <1>4 DEF Grows
<1>7. \A x \in Serials : x # n => replied'[x] = replied[x]
  BY <1>1, <1>4 DEF AuditInv, AuditShape, Tables
<1>8. \A x \in Serials : x # n => Same(x)
  BY <1>0, <1>3, <1>7 DEF Same
<1>9. replied' \in [Serials -> {"nothing", "done", "error"}]
  BY <1>1, <1>2, <1>4 DEF AuditInv, AuditShape, Tables
<1>10. Tables'
  <2>1. records' = [x \in Records |-> records'[x]] /\ \A x \in Records : RecordOf(records[x])'
    <3>1. records = [x \in Records |-> records[x]] /\ \A x \in Records : RecordOf(records[x])
      BY DEF AuditInv, AuditShape, Tables
    <3>2. records' = [x \in Records |-> IF x = d THEN after ELSE records[x]]
      BY <1>2, <1>3, <3>1
    <3>3. \A x \in Records : RecordOf(records'[x])
      BY <1>3, <3>1, <3>2
    <3> QED
      BY <3>2, <3>3 DEF RecordOf
  <2>2. notified' \subseteq {"entity", "activity"} \X Serials /\ \A a \in activities' : a.n \in Serials
    BY <1>0 DEF AuditInv, AuditShape, Tables
  <2> QED
    BY <1>9, <2>1, <2>2 DEF Tables
<1>11. Unheard(n)
  BY <1>1, <1>2 DEF TrailJob, AtWork
<1>12. replied'[n] = "nothing" \/ (replied'[n] = "done" /\ rest = <<>>)
  BY <1>1, <1>2, <1>4, <1>11 DEF Unheard, AuditInv, AuditShape, Tables
<1>13. n \in DOMAIN written' /\ (rest = <<>> => Whole(n)')
  BY <1>3 DEF Whole
<1>14. Truthful(n)'
  BY <1>0, <1>11, <1>12, <1>13 DEF Truthful, Unheard
<1>15. ASSUME ph # "idle" PROVE TrailJob(ph, k)'
  <2>1. /\ k.n \in 1..started' /\ k.target \in Records /\ k.type \in Changes
        /\ k.type = "create" => k.old = Absent
        /\ k.new = Absent
    BY <1>1, <1>2, <1>4, <1>5, <1>15 DEF TrailJob, AtRecord
  <2>2. CASE ph = "write"
    <3>1. replied' = replied /\ rest # <<>>
      BY <1>4, <2>2
    <3>2. Unheard(n)'
      BY <1>0, <1>11, <3>1 DEF Unheard
    <3>3. Left(j.left, trail.supported) /\ (j.whole => Len(j.left) = 1)
      BY <1>2 DEF TrailJob, AtWork
    <3>4. Left(rest, trail'.supported) /\ ~j.whole
      BY <1>0, <1>1, <3>1, <3>3, HeadAndTail
    <3>5. ~written'[n].whole
      BY <1>3, <3>4
    <3> QED
      BY <1>5, <1>15, <2>1, <2>2, <3>2, <3>4, <3>5 DEF TrailJob, AfterWriting
  <2>3. CASE ph = "capture_new"
    <3>1. Whole(n)' /\ j.type # "delete"
      BY <1>4, <1>13, <2>3
    <3> QED
      BY <1>5, <1>15, <2>1, <2>3, <3>1 DEF TrailJob, AtWork
  <2>4. CASE ph = "notify"
    <3>1. Whole(n)'
      BY <1>4, <1>13, <2>4
    <3> QED
      BY <1>5, <1>15, <2>1, <2>4, <3>1 DEF TrailJob, AtWork
  <2> QED
    BY <1>4, <1>15, <2>2, <2>3, <2>4
<1>16. ASSUME ~contended' PROVE QuietMoves(p, ph, k)
  <2>1. /\ ~contended /\ Tells("write", j)
        /\ \A q \in Procs : q # p /\ phase[q] \in AtRecord => job[q].target # d
    BY <1>2, <1>4, <1>16
  <2>2. records'[d] = after /\ \A x : x # d => (x \in Records => records'[x] = records[x])
    BY <1>2, <1>3 DEF AuditInv, AuditShape, Tables
  <2>3. ASSUME NEW q \in Procs, q # p, phase[q] \in AtRecord
        PROVE  records'[job[q].target] = records[job[q].target]
    <3>1. job[q].target # d /\ job[q].target \in Records
      BY <2>1, <2>3 DEF AuditInv, TrailJobs, TrailJob, AtRecord
    <3> QED
      BY <2>2, <3>1
  <2>4. ASSUME ph # "idle" PROVE Tells(ph, k)'
    <3>1. PICK before : before = IF n \in DOMAIN written THEN written[n].before ELSE r
      OBVIOUS
    <3>2. ~Missing(j.old) => Shows(j.old, before)
      BY <1>1, <2>1, <3>1 DEF Tells
    <3>3. trail.supported => r.unseen = before.unseen
      BY <1>1, <2>1, <3>1 DEF Tells, AtRecord
    <3>4. k.new = Absent
      BY <1>2, <1>5, <2>4 DEF TrailJob, AtRecord
    <3>5. /\ written'[n].before = before /\ written'[n].after = after /\ n \in DOMAIN written'
          /\ records'[d] = after
      BY <1>3, <2>2, <3>1
    <3>6. trail'.supported => before.unseen = after.unseen
      BY <1>0, <1>3, <3>3
    <3>7. ~Missing(k.old) => Shows(k.old, before)
      BY <1>5, <2>4, <3>2
    <3> QED
      BY <1>5, <2>4, <3>4, <3>5, <3>6, <3>7 DEF Tells, Missing, Shows
  <2> QED
    BY <1>5, <2>1, <2>3, <2>4 DEF QuietMoves, AtRecord
<1>17. ph \in TrailPhases /\ TrailMoves(p, ph, k, n)
  BY <1>2, <1>4, <1>5, <1>8, <1>14, <1>15 DEF TrailMoves, TrailPhases
<1>18. started' \in 0..MaxRequests /\ started <= started' /\ contended' \in BOOLEAN
  BY <1>2, <1>4
<1> QED
  BY <1>4, <1>6, <1>10, <1>16, <1>17, <1>18, TrailStep
----------------------------------------------------------------------------

\* A step that only answers.
LEMMA Answered ==
  ASSUME AuditInv, NEW p \in Procs, phase[p] # "idle", NEW answer \in {"done", "error"},
         Reply(p, answer), UNCHANGED <<trail, records, activities, written>>,
         NEW n, n = job[p].n, Truthful(n)',
         notified' = notified \/ notified' = notified \cup {<<"activity", n>>}
  PROVE  AuditInv'
<1>1. n = job[p].n
  OBVIOUS
<1>2. /\ started \in 0..MaxRequests /\ started \in Nat /\ contended \in BOOLEAN
      /\ n \in Serials /\ n <= started
      /\ \A q \in Procs : q # p /\ phase[q] # "idle" => job[q].n # n
  BY <1>1, AtStep
<1>3. /\ phase' = [phase EXCEPT ![p] = "idle"] /\ job' = [job EXCEPT ![p] = NoJob]
      /\ started' = started /\ contended' = contended
      /\ replied' = [replied EXCEPT ![n] = answer]
      /\ trail' = trail /\ records' = records /\ activities' = activities /\ written' = written
  BY <1>1 DEF Reply, Finish, Goto
<1>4. Grows
  BY <1>3 DEF Grows
<1>5. \A x \in Serials : x # n => replied'[x] = replied[x]
  BY <1>3 DEF AuditInv, AuditShape, Tables
<1>6. \A x : x # n => \A t : <<t, x>> \in notified' <=> <<t, x>> \in notified
  BY <1>1
<1>7. \A x \in Serials : x # n => Same(x)
  BY <1>3, <1>5, <1>6 DEF Same
<1>8. Tables'
  <2>1. records' = [x \in Records |-> records'[x]] /\ \A x \in Records : RecordOf(records[x])'
    BY <1>3 DEF AuditInv, AuditShape, Tables, RecordOf
  <2>2. replied' \in [Serials -> {"nothing", "done", "error"}]
    BY <1>3 DEF AuditInv, AuditShape, Tables
  <2>3. notified' \subseteq {"entity", "activity"} \X Serials
    BY <1>1, <1>2 DEF AuditInv, AuditShape, Tables
  <2>4. \A a \in activities' : a.n \in Serials
    BY <1>3 DEF AuditInv, AuditShape, Tables
  <2> QED
    BY <2>1, <2>2, <2>3, <2>4 DEF Tables
<1>9. "idle" \in TrailPhases /\ TrailMoves(p, "idle", NoJob, n)
  BY <1>1, <1>2, <1>3, <1>7 DEF TrailMoves, TrailPhases
<1>10. QuietMoves(p, "idle", NoJob)
  BY <1>3 DEF QuietMoves, AtRecord
<1>11. started' \in 0..MaxRequests /\ started <= started' /\ contended' \in BOOLEAN
  BY <1>2, <1>3
<1> QED
  BY <1>3, <1>4, <1>8, <1>9, <1>10, <1>11, TrailStep

LEMMA RepliedIs ==
  ASSUME AuditInv, NEW p \in Procs, phase[p] # "idle", NEW answer, Reply(p, answer)
  PROVE  replied'[job[p].n] = answer /\ contended' = contended
  BY AtStep DEF Reply, Finish, Goto, AuditInv, AuditShape, Tables

LEMMA WriteFailed ==
  ASSUME AuditInv, NEW p \in Procs, WriteFails(p)
  PROVE  AuditInv'
<1>0. /\ phase[p] = "write" /\ Reply(p, "error") /\ notified' = notified
      /\ UNCHANGED <<trail, records, activities, written>>
  BY DEF WriteFails
<1>1. PICK n : n = job[p].n
  OBVIOUS
<1>2. Unheard(n) /\ (n \in DOMAIN written => ~written[n].whole)
  BY <1>0, <1>1, AtStep DEF TrailJob, AtWork
<1>3. replied'[n] = "error"
  BY <1>0, <1>1, RepliedIs
<1>4. Truthful(n)'
  BY <1>0, <1>2, <1>3 DEF Truthful, Unheard
<1> QED
  BY <1>0, <1>1, <1>4, Answered

LEMMA InsertFailed ==
  ASSUME AuditInv, NEW p \in Procs, InsertFails(p)
  PROVE  AuditInv'
<1>0. /\ phase[p] = "insert" /\ Reply(p, "done") /\ notified' = notified
      /\ UNCHANGED <<trail, records, activities, written>>
  BY DEF InsertFails
<1>1. PICK n : n = job[p].n
  OBVIOUS
<1>2. Truthful(n) /\ Whole(n)
  BY <1>0, <1>1, AtStep DEF TrailJob, AfterWriting
<1>3. replied'[n] = "done" /\ contended' = contended
  BY <1>0, <1>1, RepliedIs
<1>4. Whole(n)' /\ written' = written /\ activities' = activities
  BY <1>0, <1>2 DEF Whole
<1>5. \A a \in activities : a.n = n => Told(a)'
  BY <1>2, <1>3, <1>4 DEF Truthful, Told, Whole
<1>6. Truthful(n)'
  BY <1>0, <1>2, <1>3, <1>4, <1>5 DEF Truthful
<1> QED
  BY <1>0, <1>1, <1>6, Answered

LEMMA ActivityPublished ==
  ASSUME AuditInv, NEW p \in Procs, PublishActivity(p)
  PROVE  AuditInv'
<1>0. /\ phase[p] = "publish" /\ Reply(p, "done")
      /\ notified' = notified \cup {<<"activity", job[p].n>>}
      /\ UNCHANGED <<trail, records, activities, written>>
  BY DEF PublishActivity
<1>1. PICK n : n = job[p].n
  OBVIOUS
<1>2. Truthful(n) /\ Whole(n) /\ \E a \in activities : a.n = n
  BY <1>0, <1>1, AtStep DEF TrailJob, AfterWriting
<1>3. replied'[n] = "done" /\ contended' = contended
  BY <1>0, <1>1, RepliedIs
<1>4. Whole(n)' /\ written' = written /\ activities' = activities
  BY <1>0, <1>2 DEF Whole
<1>5. \A a \in activities : a.n = n => Told(a)'
  BY <1>2, <1>3, <1>4 DEF Truthful, Told, Whole
<1>6. Truthful(n)'
  BY <1>2, <1>3, <1>4, <1>5 DEF Truthful
<1> QED
  BY <1>0, <1>1, <1>6, Answered

LEMMA MutationFailed ==
  ASSUME AuditInv, NEW p \in Procs, FailMutation(p)
  PROVE  AuditInv'
<1>0. /\ phase[p] # "idle" /\ UNCHANGED auditVars
      /\ phase' = [phase EXCEPT ![p] = "idle"] /\ job' = [job EXCEPT ![p] = NoJob]
      /\ started' = started /\ contended' = contended
  BY DEF FailMutation, Fail
<1>1. PICK n : n = job[p].n
  OBVIOUS
<1>2. /\ started \in 0..MaxRequests /\ started \in Nat /\ contended \in BOOLEAN
      /\ n \in Serials /\ n <= started
      /\ \A q \in Procs : q # p /\ phase[q] # "idle" => job[q].n # n
  BY <1>0, <1>1, AtStep
<1>3. /\ Grows /\ Tables'
      /\ \A x \in Serials : Same(x) /\ Truthful(x)'
  BY <1>0, TablesStill
<1>4. "idle" \in TrailPhases /\ TrailMoves(p, "idle", NoJob, n)
  BY <1>0, <1>2, <1>3 DEF TrailMoves, TrailPhases
<1>5. QuietMoves(p, "idle", NoJob)
  BY <1>0 DEF QuietMoves, AtRecord, auditVars
<1>6. started' \in 0..MaxRequests /\ started <= started' /\ contended' \in BOOLEAN
  BY <1>0, <1>2
<1> QED
  BY <1>0, <1>3, <1>4, <1>5, <1>6, TrailStep

LEMMA NewCaptured ==
  ASSUME AuditInv, NEW p \in Procs, CaptureNew(p)
  PROVE  AuditInv'
<1>0. phase[p] = "capture_new" /\ UNCHANGED auditVars
  BY DEF CaptureNew
<1>1. PICK j, n, d : j = job[p] /\ n = j.n /\ d = j.target
  OBVIOUS
<1>2. /\ started \in 0..MaxRequests /\ started \in Nat /\ contended \in BOOLEAN
      /\ n \in Serials /\ n <= started /\ TrailJob("capture_new", j)
      /\ \A q \in Procs : q # p /\ phase[q] # "idle" => job[q].n # n
      /\ ~contended => Tells("capture_new", j)
  BY <1>0, <1>1, AtStep DEF AtRecord
<1>3. PICK s \in Captures(d) : Goto(p, "notify", [j EXCEPT !.new = s])
  BY <1>1 DEF CaptureNew
<1>4. PICK k : k = [j EXCEPT !.new = s]
  OBVIOUS
<1>5. /\ phase' = [phase EXCEPT ![p] = "notify"] /\ job' = [job EXCEPT ![p] = k]
      /\ started' = started /\ contended' = contended
  BY <1>3, <1>4 DEF Goto
<1>6. /\ k.n = n /\ k.target = d /\ k.type = j.type /\ k.old = j.old /\ k.new = s
      /\ k = [n |-> k.n, target |-> k.target, type |-> k.type, told |-> k.told, left |-> k.left,
              whole |-> k.whole, old |-> k.old, new |-> k.new]
  <2>1. PICK ty, to, le, wh, ol, ne : /\ ty = j.type /\ to = j.told /\ le = j.left
                                      /\ wh = j.whole /\ ol = j.old /\ ne = j.new
    OBVIOUS
  <2>2. j = [n |-> n, target |-> d, type |-> ty, told |-> to, left |-> le, whole |-> wh,
             old |-> ol, new |-> ne]
    BY <1>1, <1>2, <2>1 DEF TrailJob
  <2>3. k = [n |-> n, target |-> d, type |-> ty, told |-> to, left |-> le, whole |-> wh,
             old |-> ol, new |-> s]
    BY <1>4, <2>2
  <2> QED
    BY <2>1, <2>3
<1>7. /\ Grows /\ Tables'
      /\ \A x \in Serials : Same(x) /\ Truthful(x)'
  BY <1>0, <1>5, TablesStill
<1>8. TrailJob("capture_new", j)'
  BY <1>1, <1>2, <1>5, <1>7, TrailJobKept
<1>9. TrailJob("notify", k)'
  BY <1>1, <1>6, <1>8 DEF TrailJob, AtRecord, AtWork, AfterWriting
<1>10. ASSUME ~contended' PROVE QuietMoves(p, "notify", k)
  <2>1. records' = records /\ written' = written /\ trail' = trail
    BY <1>0 DEF auditVars
  <2>2. Tells("capture_new", j) /\ n \in DOMAIN written
    BY <1>1, <1>2, <1>5, <1>10 DEF TrailJob, AfterWriting, Whole
  <2>3. ~Missing(s) => Shows(s, records[d])
    BY CapturedShows
  <2>4. records[d] = written[n].after
    BY <1>1, <2>2 DEF Tells, AtRecord
  <2>5. Tells("notify", k)'
    BY <1>1, <1>6, <2>1, <2>2, <2>3, <2>4 DEF Tells, AtRecord
  <2> QED
    BY <1>6, <2>1, <2>5 DEF QuietMoves, AtRecord
<1>11. "notify" \in TrailPhases /\ TrailMoves(p, "notify", k, n)
  BY <1>2, <1>5, <1>6, <1>7, <1>9 DEF TrailMoves, TrailPhases
<1>12. started' \in 0..MaxRequests /\ started <= started' /\ contended' \in BOOLEAN
  BY <1>2, <1>5
<1> QED
  BY <1>5, <1>7, <1>10, <1>11, <1>12, TrailStep

LEMMA EntityPublished ==
  ASSUME AuditInv, NEW p \in Procs, PublishEntity(p)
  PROVE  AuditInv'
<1>0. /\ phase[p] = "notify" /\ trail' = trail /\ records' = records /\ written' = written
      /\ activities' = activities /\ replied' = replied
  BY DEF PublishEntity
<1>1. PICK j, n : j = job[p] /\ n = j.n
  OBVIOUS
<1>2. /\ started \in 0..MaxRequests /\ started \in Nat /\ contended \in BOOLEAN
      /\ n \in Serials /\ n <= started /\ TrailJob("notify", j) /\ Truthful(n)
      /\ \A q \in Procs : q # p /\ phase[q] # "idle" => job[q].n # n
      /\ ~contended => Tells("notify", j)
  BY <1>0, <1>1, AtStep
<1>3. /\ phase' = [phase EXCEPT ![p] = "insert"] /\ job' = [job EXCEPT ![p] = j]
      /\ started' = started /\ contended' = contended
      /\ notified' = notified \/ notified' = notified \cup {<<"entity", n>>}
  BY <1>1 DEF PublishEntity, Goto
<1>4. Grows
  BY <1>0, <1>3 DEF Grows
<1>5. \A x \in Serials : x # n => Same(x)
  BY <1>0, <1>3 DEF Same
<1>6. Tables'
  <2>1. records' = [x \in Records |-> records'[x]] /\ \A x \in Records : RecordOf(records[x])'
    BY <1>0 DEF AuditInv, AuditShape, Tables, RecordOf
  <2>2. notified' \subseteq {"entity", "activity"} \X Serials
    BY <1>2, <1>3 DEF AuditInv, AuditShape, Tables
  <2> QED
    BY <1>0, <2>1, <2>2 DEF AuditInv, AuditShape, Tables
<1>7. Whole(n) /\ Whole(n)'
  BY <1>0, <1>1, <1>2 DEF TrailJob, AfterWriting, Whole
<1>8. Truthful(n)'
  <2>1. \A a \in activities : a.n = n => Told(a)'
    BY <1>0, <1>2, <1>3 DEF Truthful, Told, Whole
  <2>2. <<"activity", n>> \in notified' => <<"activity", n>> \in notified
    BY <1>3
  <2> QED
    BY <1>0, <1>2, <1>7, <2>1, <2>2 DEF Truthful
<1>9. TrailJob("insert", j)'
  BY <1>0, <1>1, <1>2, <1>3, <1>7 DEF TrailJob, AtRecord, AtWork, AfterWriting
<1>10. ASSUME ~contended' PROVE QuietMoves(p, "insert", j)
  <2>1. Tells("notify", j)
    BY <1>2, <1>3, <1>10
  <2>2. Tells("insert", j)'
    BY <1>0, <2>1 DEF Tells, AtRecord
  <2> QED
    BY <1>0, <2>2 DEF QuietMoves, AtRecord
<1>11. "insert" \in TrailPhases /\ TrailMoves(p, "insert", j, n)
  BY <1>1, <1>2, <1>3, <1>5, <1>8, <1>9 DEF TrailMoves, TrailPhases
<1>12. started' \in 0..MaxRequests /\ started <= started' /\ contended' \in BOOLEAN
  BY <1>2, <1>3
<1> QED
  BY <1>3, <1>4, <1>6, <1>10, <1>11, <1>12, TrailStep

LEMMA ActivityInserted ==
  ASSUME AuditInv, NEW p \in Procs, InsertActivity(p)
  PROVE  AuditInv'
<1>0. /\ phase[p] = "insert" /\ trail' = trail /\ records' = records /\ written' = written
      /\ notified' = notified /\ replied' = replied
  BY DEF InsertActivity
<1>1. PICK j, n, s : j = job[p] /\ n = j.n /\ s = ResolveSnapshots(j)
  OBVIOUS
<1>2. /\ started \in 0..MaxRequests /\ started \in Nat /\ contended \in BOOLEAN
      /\ n \in Serials /\ n <= started /\ TrailJob("insert", j) /\ Truthful(n)
      /\ \A q \in Procs : q # p /\ phase[q] # "idle" => job[q].n # n
      /\ ~contended => Tells("insert", j)
  BY <1>0, <1>1, AtStep
<1>3. PICK new : new = [n |-> n, record |-> j.target, type |-> j.type,
                        status |-> s.status, old |-> s.old, new |-> s.new]
  OBVIOUS
<1>4. /\ phase' = [phase EXCEPT ![p] = "publish"] /\ job' = [job EXCEPT ![p] = j]
      /\ started' = started /\ contended' = contended
      /\ activities' = activities \cup {new}
  BY <1>1, <1>3 DEF InsertActivity, Goto
<1>5. /\ new.n = n /\ new.type = j.type /\ new.status = s.status
      /\ new.old = s.old /\ new.new = s.new
  BY <1>3
<1>6. Grows
  BY <1>0, <1>4 DEF Grows
<1>7. \A x \in Serials : x # n => Same(x)
  BY <1>0, <1>4, <1>5 DEF Same
<1>8. Tables'
  <2>1. records' = [x \in Records |-> records'[x]] /\ \A x \in Records : RecordOf(records[x])'
    BY <1>0 DEF AuditInv, AuditShape, Tables, RecordOf
  <2>2. \A a \in activities' : a.n \in Serials
    BY <1>2, <1>4, <1>5 DEF AuditInv, AuditShape, Tables
  <2> QED
    BY <1>0, <2>1, <2>2 DEF AuditInv, AuditShape, Tables
<1>9. Whole(n) /\ Whole(n)'
  BY <1>0, <1>1, <1>2 DEF TrailJob, AfterWriting, Whole
<1>10. Told(new)'
  <2>1. j.type \in Changes
    BY <1>2 DEF TrailJob
  <2>2. CASE ~trail.supported
    <3>1. s.status = "not_supported" /\ s.old = Absent /\ s.new = Absent
      BY <1>1, <2>2 DEF ResolveSnapshots
    <3> QED
      BY <1>5, <1>9, <2>1, <3>1 DEF Told, Statuses
  <2>3. CASE trail.supported /\ (MissingOld(j) \/ MissingNew(j))
    <3>1. s.status = "capture_failed" /\ s.old = Absent /\ s.new = Absent
      BY <1>1, <2>3 DEF ResolveSnapshots
    <3> QED
      BY <1>5, <1>9, <2>1, <3>1 DEF Told, Statuses
  <2>4. CASE trail.supported /\ ~MissingOld(j) /\ ~MissingNew(j)
    <3>1. s.status = "complete" /\ s.old = j.old /\ s.new = j.new
      BY <1>1, <2>4 DEF ResolveSnapshots
    <3>2. /\ j.type # "create" <=> j.old # Absent
          /\ j.type # "delete" <=> j.new # Absent
      BY <1>2, <2>4 DEF TrailJob, MissingOld, MissingNew, Missing, AtRecord
    <3>3. /\ j.old # Absent => ~Missing(j.old)
          /\ j.new # Absent => ~Missing(j.new)
      BY <2>4, <3>2 DEF MissingOld, MissingNew
    <3>4. ASSUME ~contended'
          PROVE  /\ j.old # Absent => Shows(j.old, written[n].before)
                 /\ j.new # Absent => Shows(j.new, written[n].after)
                 /\ written[n].before.unseen = written[n].after.unseen
      <4>1. Tells("insert", j) /\ n \in DOMAIN written
        BY <1>2, <1>4, <1>9, <3>4 DEF Whole
      <4> QED
        BY <1>1, <2>4, <3>3, <4>1 DEF Tells
    <3> QED
      BY <1>0, <1>5, <1>9, <2>1, <3>1, <3>2, <3>4 DEF Told, Statuses, Shows
  <2> QED
    BY <2>2, <2>3, <2>4
<1>11. Truthful(n)'
  <2>1. \A a \in activities : a.n = n => Told(a)'
    BY <1>0, <1>2, <1>4 DEF Truthful, Told, Whole
  <2>2. \A a \in activities' : a.n = n => Told(a)'
    BY <1>4, <1>10, <2>1
  <2>3. \E a \in activities' : a.n = n
    BY <1>4, <1>5
  <2> QED
    BY <1>0, <1>2, <1>9, <2>2, <2>3 DEF Truthful
<1>12. TrailJob("publish", j)'
  <2>1. \E a \in activities' : a.n = n
    BY <1>4, <1>5
  <2> QED
    BY <1>0, <1>1, <1>2, <1>4, <1>9, <2>1 DEF TrailJob, AtRecord, AtWork, AfterWriting
<1>13. ASSUME ~contended' PROVE QuietMoves(p, "publish", j)
  <2>1. Tells("insert", j)
    BY <1>2, <1>4, <1>13
  <2>2. Tells("publish", j)'
    BY <1>0, <2>1 DEF Tells, AtRecord
  <2> QED
    BY <1>0, <2>2 DEF QuietMoves, AtRecord
<1>14. "publish" \in TrailPhases /\ TrailMoves(p, "publish", j, n)
  BY <1>1, <1>2, <1>4, <1>7, <1>11, <1>12 DEF TrailMoves, TrailPhases
<1>15. started' \in 0..MaxRequests /\ started <= started' /\ contended' \in BOOLEAN
  BY <1>2, <1>4
<1> QED
  BY <1>4, <1>6, <1>8, <1>13, <1>14, <1>15, TrailStep

----------------------------------------------------------------------------

LEMMA AuditStart ==
  ASSUME SlotsInit, AuditInit
  PROVE  AuditInv
<1>1. /\ activities = {} /\ notified = {} /\ DOMAIN written = {}
      /\ \A n \in Serials : replied[n] = "nothing"
      /\ started = 0 /\ contended = FALSE /\ \A p \in Procs : phase[p] = "idle"
  BY DEF AuditInit, SlotsInit
<1>2. Tables
  <2>1. PICK first, other :
           /\ first = [row |-> 0, active |-> TRUE, lines |-> {-1, 0}, live |-> {0}, unseen |-> 0]
           /\ other = [row |-> Absent, active |-> FALSE, lines |-> {}, live |-> {},
                       unseen |-> Absent]
    OBVIOUS
  <2>2. RecordOf(first) /\ RecordOf(other)
    BY <2>1, RequestBounds DEF RecordOf, Records
  <2>3. records = [d \in Records |-> IF d = 0 THEN first ELSE other]
    BY <2>1 DEF AuditInit
  <2>4. records = [d \in Records |-> records[d]] /\ \A d \in Records : RecordOf(records[d])
    BY <2>2, <2>3
  <2>5. replied \in [Serials -> {"nothing", "done", "error"}]
    BY DEF AuditInit
  <2> QED
    BY <1>1, <2>4, <2>5 DEF Tables
<1>3. TrailOf(trail)
  BY TrailsKnown DEF AuditInit
<1>4. AuditShape
  <2>1. phase \in [Procs -> TrailPhases] /\ job = [p \in Procs |-> job[p]]
    BY DEF SlotsInit, TrailPhases
  <2>2. started \in 0..MaxRequests
    BY <1>1, RequestBounds
  <2> QED
    BY <1>1, <1>2, <1>3, <2>1, <2>2 DEF AuditShape
<1>5. TrailJobs /\ Apart /\ TrailQuiet
  BY <1>1 DEF TrailJobs, Apart, TrailQuiet, OneAtRecord, AtRecord
<1>6. Untouched /\ \A n \in Serials : Truthful(n)
  BY <1>1 DEF Untouched, Unheard, Truthful
<1> QED
  BY <1>4, <1>5, <1>6 DEF AuditInv

LEMMA AuditInvKept ==
  ASSUME AuditInv, [AuditNext]_<<slotVars, auditVars>>
  PROVE  AuditInv'
<1>1. CASE UNCHANGED <<slotVars, auditVars>>
  <2>1. /\ phase' = phase /\ job' = job /\ started' = started /\ contended' = contended
        /\ records' = records /\ written' = written /\ trail' = trail /\ UNCHANGED auditVars
    BY <1>1 DEF slotVars, auditVars
  <2>2. /\ Grows /\ Tables'
        /\ \A x \in Serials : Same(x) /\ Truthful(x)'
    BY <2>1, TablesStill
  <2>3. AuditShape'
    BY <2>1, <2>2 DEF AuditInv, AuditShape, TrailOf
  <2>4. TrailJobs'
    BY <1>1 DEF AuditInv, TrailJobs, TrailJob, Unheard, Whole, slotVars, auditVars
  <2>5. Apart' /\ Untouched'
    BY <1>1 DEF AuditInv, Apart, Untouched, Unheard, slotVars, auditVars
  <2>6. TrailQuiet => TrailQuiet'
    BY <2>1 DEF TrailQuiet, OneAtRecord, Tells
  <2> QED
    BY <2>1, <2>2, <2>3, <2>4, <2>5, <2>6 DEF AuditInv
<1>2. CASE AuditNext
  <2> PICK p \in Procs :
         \/ \E d \in Records, m \in trail.mutations : BeginMutation(p, d, m)
         \/ CaptureOld(p) \/ WriteRecord(p) \/ WriteFails(p) \/ CaptureNew(p)
         \/ PublishEntity(p) \/ InsertActivity(p) \/ InsertFails(p) \/ PublishActivity(p)
         \/ FailMutation(p)
    BY <1>2 DEF AuditNext
  <2>1. CASE \E d \in Records, m \in trail.mutations : BeginMutation(p, d, m)
    BY <2>1, MutationBegun
  <2>2. CASE CaptureOld(p)
    BY <2>2, OldCaptured
  <2>3. CASE WriteRecord(p)
    BY <2>3, RecordWritten
  <2>4. CASE WriteFails(p)
    BY <2>4, WriteFailed
  <2>5. CASE CaptureNew(p)
    BY <2>5, NewCaptured
  <2>6. CASE PublishEntity(p)
    BY <2>6, EntityPublished
  <2>7. CASE InsertActivity(p)
    BY <2>7, ActivityInserted
  <2>8. CASE InsertFails(p)
    BY <2>8, InsertFailed
  <2>9. CASE PublishActivity(p)
    BY <2>9, ActivityPublished
  <2>10. CASE FailMutation(p)
    BY <2>10, MutationFailed
  <2> QED
    BY <2>1, <2>2, <2>3, <2>4, <2>5, <2>6, <2>7, <2>8, <2>9, <2>10
<1> QED
  BY <1>1, <1>2

\* For any number of requests and slots: an activity, and what a caller or a subscriber
\* is told, is of a write that was committed whole; and the snapshots an activity calls
\* complete are the record just before and just after that write, unless another mutation
\* of the record overlapped, whatever capture, insert or publication fails.
THEOREM ActivitiesTellTheTruth == AuditSpec => [](AuditTypeOK /\ HistoryTruthful)
<1>1. SlotsInit /\ AuditInit => AuditInv
  BY AuditStart
<1>2. AuditInv /\ [AuditNext]_<<slotVars, auditVars>> => AuditInv'
  BY AuditInvKept
<1>3. AuditInv => AuditTypeOK /\ HistoryTruthful
  BY AuditClaims
<1> QED
  BY <1>1, <1>2, <1>3, PTL DEF AuditSpec

----------------------------------------------------------------------------
(* Account statements *)

(* The reports as functions of the tables *)

\* A finite set of receipts.
Payments(S) == IsFiniteSet(S) /\ \A r \in S : r.amount \in Nat

LEMMA PaymentsSum ==
  ASSUME NEW S, Payments(S), NEW f, f = [r \in S |-> r.amount], NEW U, U \subseteq S
  PROVE  Sum(U) = SumFunctionOnSet(f, U) /\ IsFiniteSet(U) /\ \A r \in U : f[r] \in Int
<1>1. IsFiniteSet(U)
  BY FS_Subset DEF Payments
<1>2. PICK g : g = [r \in U |-> r.amount]
  OBVIOUS
<1>3. \A r \in U : g[r] = f[r]
  BY <1>2
<1>4. SumFunctionOnSet(g, U) = SumFunctionOnSet(f, U)
  BY <1>1, <1>3, SameValuesSameSum
<1>5. Sum(U) = SumFunctionOnSet(g, U)
  BY <1>2 DEF Sum, SumFunction
<1> QED
  BY <1>1, <1>4, <1>5 DEF Payments

\* What is paid splits as the receipts do.
LEMMA PaymentsSplit ==
  ASSUME NEW S, Payments(S), NEW A, A \subseteq S, NEW B, B = S \ A
  PROVE  Sum(S) = Sum(A) + Sum(B) /\ Sum(A) \in Int /\ Sum(B) \in Int
<1>1. PICK f : f = [r \in S |-> r.amount]
  OBVIOUS
<1>2. PICK U : U = S
  OBVIOUS
<1>3. Sum(U) = SumFunctionOnSet(f, U) /\ IsFiniteSet(U) /\ \A r \in U : f[r] \in Int
  BY <1>1, <1>2, PaymentsSum
<1>4. Sum(A) = SumFunctionOnSet(f, A) /\ IsFiniteSet(A) /\ \A r \in A : f[r] \in Int
  BY <1>1, PaymentsSum
<1>5. B \subseteq S
  OBVIOUS
<1>6. Sum(B) = SumFunctionOnSet(f, B) /\ IsFiniteSet(B) /\ \A r \in B : f[r] \in Int
  BY <1>1, <1>5, PaymentsSum
<1>7. SumFunctionOnSet(f, S) = SumFunctionOnSet(f, A) + SumFunctionOnSet(f, S \ A)
  <2>1. IsFiniteSet(S) /\ \A r \in S : f[r] \in Int
    BY <1>2, <1>3
  <2> QED
    BY <2>1, SumOfParts
<1>8. SumFunctionOnSet(f, A) \in Int /\ SumFunctionOnSet(f, B) \in Int
  BY <1>4, <1>6, SumIsAnInteger
<1> QED
  BY <1>2, <1>3, <1>4, <1>6, <1>7, <1>8

\* The same of a sum over documents, here of whatever f says of each.
LEMMA DocumentsSplit ==
  ASSUME NEW S, IsFiniteSet(S), NEW f, \A d \in S : f[d] \in Int,
         NEW A, A \subseteq S, NEW B, B = S \ A
  PROVE  /\ SumFunctionOnSet(f, S) = SumFunctionOnSet(f, A) + SumFunctionOnSet(f, B)
         /\ SumFunctionOnSet(f, A) \in Int /\ SumFunctionOnSet(f, B) \in Int
<1>1. IsFiniteSet(A) /\ IsFiniteSet(B)
  BY FS_Subset
<1>2. SumFunctionOnSet(f, A) \in Int /\ SumFunctionOnSet(f, B) \in Int
  <2>1. (\A d \in A : f[d] \in Int) /\ \A d \in B : f[d] \in Int
    OBVIOUS
  <2> QED
    BY <1>1, <2>1, SumIsAnInteger
<1>3. SumFunctionOnSet(f, S) = SumFunctionOnSet(f, A) + SumFunctionOnSet(f, S \ A)
  BY SumOfParts
<1> QED
  BY <1>2, <1>3

\* A function over some rows sums to what one over more of them does on the first.
LEMMA RestrictedSum ==
  ASSUME NEW S, IsFiniteSet(S), NEW f, NEW g, DOMAIN g = S, \A d \in S : g[d] = f[d]
  PROVE  SumFunction(g) = SumFunctionOnSet(f, S)
<1>1. SumFunctionOnSet(g, S) = SumFunctionOnSet(f, S)
  BY SameValuesSameSum
<1> QED
  BY <1>1 DEF SumFunction

----------------------------------------------------------------------------

\* Receipts are of documents and transfers there are, one at most in force of a
\* transfer and a document, and of documents of the kind the transfer pays.
ReceiptsTold ==
    /\ IsFiniteSet(receipts)
    /\ \A r \in receipts : docs[r.doc] # NoEntry /\ transfers[r.transfer] # NoEntry
    /\ \A r \in receipts : r.active /\ Stands(transfers, r.transfer) =>
          transfers[r.transfer].kind = docs[r.doc].kind
    /\ \A r, q \in receipts :
          r.active /\ q.active /\ r.transfer = q.transfer /\ r.doc = q.doc => r = q

\* The amount of a transfer in force is that of its receipts in force, and only a
\* payment of a sale may have no date.
TransfersTold ==
    \A t \in Rows : Stands(transfers, t) =>
        /\ transfers[t].amount = Sum(ReceiptsOf(t))
        /\ transfers[t].kind = "expense" => transfers[t].at # NoDate

\* A delete in its second statement has left its transfer not active.
Dropped(t) == transfers[t] # NoEntry /\ ~transfers[t].active
DeletesKnow ==
    /\ DOMAIN phase = Procs /\ DOMAIN job = Procs
    /\ \A p \in Procs :
          phase[p] = "receipts" => \E t \in Rows : job[p].target = t /\ Dropped(t)

StatementsInv ==
    /\ StatementsTypeOK /\ started \in 0..MaxRequests
    /\ ReceiptsTold /\ TransfersTold /\ DeletesKnow

\* A document that is there, by its columns.
LEMMA DocColumns ==
  ASSUME StatementNames, StatementsTypeOK, NEW d \in Rows, docs[d] # NoEntry
  PROVE  /\ docs[d] \in SaleOrExpense
         /\ docs[d].kind \in PaidKinds /\ docs[d].active \in BOOLEAN /\ docs[d].canceled \in BOOLEAN
         /\ docs[d].date \in Int /\ docs[d].date >= 0 /\ docs[d].date <= LastDay
         /\ docs[d].gross \in Nat /\ docs[d].back \in Nat
<1>1. docs[d] \in SaleOrExpense
  BY DEF StatementsTypeOK
<1>2. PICK x : x = docs[d]
  OBVIOUS
<1>3. /\ x.kind \in PaidKinds /\ x.active \in BOOLEAN /\ x.canceled \in BOOLEAN
      /\ x.date \in Days /\ x.gross \in Amounts /\ x.back \in Nat
  BY <1>1, <1>2 DEF SaleOrExpense
<1>4. x.date \in Int /\ x.date >= 0 /\ x.date <= LastDay
  BY <1>3 DEF StatementNames, Days
<1>5. x.gross \in Nat
  BY <1>3 DEF StatementNames
<1> QED
  BY <1>1, <1>2, <1>3, <1>4, <1>5

LEMMA TransferColumns ==
  ASSUME StatementNames, StatementsTypeOK, NEW t \in Rows, transfers[t] # NoEntry
  PROVE  /\ transfers[t] \in Transfer
         /\ transfers[t].kind \in PaidKinds /\ transfers[t].active \in BOOLEAN
         /\ transfers[t].at # NoDate => transfers[t].at \in Int
         /\ transfers[t].amount \in Nat
<1>1. transfers[t] \in Transfer
  BY DEF StatementsTypeOK
<1>2. \A i \in Instants : i \in Int
  <2>1. ASSUME NEW i \in Instants PROVE i \in Int
    <3>1. PICK d \in Days, q \in {0, 1} : i = 4 * d + q
      BY DEF Instants
    <3>2. d \in Int /\ q \in Int
      BY DEF Days, StatementNames
    <3> QED
      BY <3>1, <3>2
  <2> QED
    BY <2>1
<1> QED
  BY <1>1, <1>2 DEF Transfer

LEMMA ReceiptColumns ==
  ASSUME StatementNames, StatementsTypeOK, NEW r \in receipts
  PROVE  /\ r.transfer \in Rows /\ r.doc \in Rows /\ r.active \in BOOLEAN
         /\ r.amount \in Nat
<1>1. r \in Receipt
  BY DEF StatementsTypeOK
<1> QED
  BY <1>1 DEF Receipt, StatementNames

LEMMA RowsFinite == IsFiniteSet(Rows)
<1>1. IsFiniteSet(1..MaxRequests)
  BY RequestBounds, FS_Interval
<1>2. IsFiniteSet({0})
  BY FS_Singleton
<1> QED
  BY <1>1, <1>2, FS_Union DEF Rows, Serials

LEMMA ReceiptsPay ==
  ASSUME StatementNames, StatementsInv, NEW U, U \subseteq receipts
  PROVE  Payments(U)
<1>1. IsFiniteSet(U)
  BY FS_Subset DEF StatementsInv, ReceiptsTold
<1> QED
  BY <1>1, ReceiptColumns DEF Payments, StatementsInv

\* Each document in force has its columns, and what was paid of it is a sum.
LEMMA OwedAndPaid ==
  ASSUME StatementNames, StatementsInv, NEW d \in InForce
  PROVE  /\ d \in Rows /\ docs[d] # NoEntry
         /\ docs[d].date \in Int /\ docs[d].date >= 0 /\ docs[d].date <= LastDay
         /\ docs[d].gross \in Int /\ Owed(d) \in Int /\ PaidOn(d) \in Int
<1>1. d \in Rows /\ docs[d] # NoEntry
  BY DEF InForce, Stands
<1>2. PICK U : U = {r \in Paid : r.doc = d}
  OBVIOUS
<1>3. U \subseteq receipts
  BY <1>2 DEF Paid
<1>4. Payments(U)
  BY <1>3, ReceiptsPay
<1>5. Sum(U) \in Int
  <2>1. PICK f : f = [r \in U |-> r.amount]
    OBVIOUS
  <2>2. PICK V : V = U
    OBVIOUS
  <2>3. Sum(V) = SumFunctionOnSet(f, V) /\ IsFiniteSet(V) /\ \A r \in V : f[r] \in Int
    BY <1>4, <2>1, <2>2, PaymentsSum
  <2>4. SumFunctionOnSet(f, V) \in Int
    BY <2>3, SumIsAnInteger
  <2> QED
    BY <2>2, <2>3, <2>4
<1>6. PaidOn(d) \in Int
  BY <1>2, <1>5 DEF PaidOn
<1>7. StatementsTypeOK
  BY DEF StatementsInv
<1>8. docs[d].gross \in Nat /\ docs[d].back \in Nat
  BY <1>1, <1>7, DocColumns
<1>9. docs[d].date \in Int /\ docs[d].date >= 0 /\ docs[d].date <= LastDay
  BY <1>1, <1>7, DocColumns
<1> QED
  BY <1>1, <1>6, <1>8, <1>9 DEF Owed

LEMMA InForceFinite ==
  ASSUME NEW S, S \subseteq InForce
  PROVE  IsFiniteSet(S)
<1>1. S \subseteq Rows
  BY DEF InForce
<1> QED
  BY <1>1, RowsFinite, FS_Subset

\* A payment before a day is before every later one.
LEMMA BeforeLater ==
  ASSUME StatementNames, StatementsInv, NEW r \in Paid, NEW a \in Int, NEW b \in Int, a <= b,
         Before(r, a)
  PROVE  Before(r, b)
<1>1. StatementsTypeOK /\ r \in receipts
  BY DEF StatementsInv, Paid
<1>2. PICK t : t = transfers[r.transfer]
  OBVIOUS
<1>3. r.transfer \in Rows /\ r.doc \in Rows /\ transfers[r.transfer] # NoEntry /\ docs[r.doc] # NoEntry
  BY <1>1, ReceiptColumns DEF StatementsInv, ReceiptsTold
<1>4. t.at # NoDate => t.at \in Int
  BY <1>1, <1>2, <1>3, TransferColumns
<1>5. PICK x : x = docs[r.doc].date
  OBVIOUS
<1>6. x \in Int
  BY <1>1, <1>3, <1>5, DocColumns
<1>7. IF t.at # NoDate THEN t.at < 4 * a + 1 ELSE x < a
  BY <1>2, <1>5 DEF Before, BusinessDayStart
<1>8. IF t.at # NoDate THEN t.at < 4 * b + 1 ELSE x < b
  BY <1>4, <1>6, <1>7
<1> QED
  BY <1>2, <1>5, <1>8 DEF Before, BusinessDayStart

\* A statement leads from one opening balance to the next.
LEMMA StatementsContinue ==
  ASSUME StatementNames, StatementsInv, NEW from \in Days, NEW until \in from..LastDay
  PROVE  StatementContinues(from, until)
<1>1. from \in Int /\ until \in Int /\ from <= until /\ LastDay \in Int
  BY DEF Days, StatementNames
<1>2. PICK f : f = [d \in InForce |-> docs[d].gross]
  OBVIOUS
<1>3. PICK A : A = {x \in InForce : docs[x].date < from}
  OBVIOUS
<1>4. PICK B : B = {x \in InForce : docs[x].date < until + 1}
  OBVIOUS
<1>5. PICK L : L = History(from, until)
  OBVIOUS
<1>6. A \subseteq B /\ L = B \ A /\ B \subseteq InForce /\ L \subseteq InForce
  <2>1. \A x \in InForce : docs[x].date \in Int
    BY OwedAndPaid
  <2>2. ASSUME NEW x \in InForce
        PROVE  /\ docs[x].date < from => docs[x].date < until + 1
               /\ docs[x].date \in from..until <=> docs[x].date < until + 1 /\ ~(docs[x].date < from)
    <3>1. PICK y : y = docs[x].date
      OBVIOUS
    <3>2. y \in Int
      BY <2>1, <3>1
    <3> QED
      BY <1>1, <3>1, <3>2
  <2>3. L = {x \in InForce : docs[x].date \in from..until}
    BY <1>5 DEF History
  <2> QED
    BY <1>3, <1>4, <2>2, <2>3
<1>7. IsFiniteSet(A) /\ IsFiniteSet(B) /\ IsFiniteSet(L)
  BY <1>6, InForceFinite
<1>8. \A d \in B : f[d] \in Int
  BY <1>2, <1>6, OwedAndPaid
<1>9. /\ SumFunctionOnSet(f, B) = SumFunctionOnSet(f, A) + SumFunctionOnSet(f, L)
      /\ SumFunctionOnSet(f, A) \in Int /\ SumFunctionOnSet(f, L) \in Int
  BY <1>6, <1>7, <1>8, DocumentsSplit
<1>10. SumFunction([d \in A |-> docs[d].gross]) = SumFunctionOnSet(f, A)
  <2>1. PICK g : g = [d \in A |-> docs[d].gross]
    OBVIOUS
  <2>2. DOMAIN g = A /\ \A d \in A : g[d] = f[d]
    BY <1>2, <1>6, <2>1
  <2> QED
    BY <1>7, <2>1, <2>2, RestrictedSum
<1>11. SumFunction([d \in B |-> docs[d].gross]) = SumFunctionOnSet(f, B)
  <2>1. PICK g : g = [d \in B |-> docs[d].gross]
    OBVIOUS
  <2>2. DOMAIN g = B /\ \A d \in B : g[d] = f[d]
    BY <1>2, <1>6, <2>1
  <2> QED
    BY <1>7, <2>1, <2>2, RestrictedSum
<1>12. SumFunction([d \in L |-> docs[d].gross]) = SumFunctionOnSet(f, L)
  <2>1. PICK g : g = [d \in L |-> docs[d].gross]
    OBVIOUS
  <2>2. DOMAIN g = L /\ \A d \in L : g[d] = f[d]
    BY <1>2, <1>6, <2>1
  <2> QED
    BY <1>7, <2>1, <2>2, RestrictedSum
<1>13. PICK P : P = {r \in Paid : r.doc \in InForce /\ Before(r, from)}
  OBVIOUS
<1>14. PICK Q : Q = {r \in Paid : r.doc \in InForce /\ Before(r, until + 1)}
  OBVIOUS
<1>15. PICK T : T = AccountTransfers(from, until)
  OBVIOUS
<1>16. P \subseteq Q /\ T = Q \ P /\ Q \subseteq receipts
  <2>1. \A r \in Paid : Before(r, from) => Before(r, until + 1)
    <3>1. until + 1 \in Int /\ from <= until + 1
      BY <1>1
    <3> QED
      BY <1>1, <3>1, BeforeLater
  <2>2. T = {r \in Paid : r.doc \in InForce /\ ~Before(r, from) /\ Before(r, until + 1)}
    BY <1>15 DEF AccountTransfers
  <2>3. Paid \subseteq receipts
    BY DEF Paid
  <2> QED
    BY <1>13, <1>14, <2>1, <2>2, <2>3
<1>17. Payments(Q)
  BY <1>16, ReceiptsPay
<1>18. Sum(Q) = Sum(P) + Sum(T) /\ Sum(P) \in Int /\ Sum(T) \in Int
  <2>1. P \subseteq Q
    BY <1>16
  <2>2. T = Q \ P
    BY <1>16
  <2> QED
    BY <1>17, <2>1, <2>2, PaymentsSplit
<1>19. OpeningBalance(from) = SumFunctionOnSet(f, A) - Sum(P)
  BY <1>3, <1>10, <1>13 DEF OpeningBalance
<1>20. OpeningBalance(until + 1) = SumFunctionOnSet(f, B) - Sum(Q)
  BY <1>4, <1>11, <1>14 DEF OpeningBalance
<1>21. OpeningBalance(until + 1) =
         OpeningBalance(from) + SumFunctionOnSet(f, L) - Sum(T)
  BY <1>9, <1>18, <1>19, <1>20
<1> QED
  BY <1>5, <1>12, <1>15, <1>21 DEF StatementContinues

\* What the lists leave out comes to nothing.
LEMMA DisparitiesTell ==
  ASSUME StatementNames, StatementsInv
  PROVE  DisparitiesTellBalance
<1>1. PICK f : f = [d \in InForce |-> Owed(d) - PaidOn(d)]
  OBVIOUS
<1>2. PICK W : W = WithDisparities
  OBVIOUS
<1>3. PICK S : S = InForce
  OBVIOUS
<1>4. W \subseteq S /\ \A d \in S \ W : PaidOn(d) = Owed(d)
  BY <1>2, <1>3 DEF WithDisparities
<1>5. \A d \in S : Owed(d) \in Int /\ PaidOn(d) \in Int
  BY <1>3, OwedAndPaid
<1>6. (\A d \in S : f[d] \in Int) /\ \A d \in S \ W : f[d] = 0
  BY <1>1, <1>3, <1>4, <1>5
<1>7. IsFiniteSet(S) /\ IsFiniteSet(W)
  BY <1>3, <1>4, InForceFinite
<1>8. SumFunctionOnSet(f, S) = SumFunctionOnSet(f, W)
  BY <1>4, <1>6, <1>7, SumWithoutZeros
<1>9. Balance(S) = SumFunctionOnSet(f, S)
  <2>1. PICK g : g = [d \in S |-> Owed(d) - PaidOn(d)]
    OBVIOUS
  <2>2. DOMAIN g = S /\ \A d \in S : g[d] = f[d]
    BY <1>1, <1>3, <2>1
  <2>3. SumFunction(g) = SumFunctionOnSet(f, S)
    BY <1>7, <2>2, RestrictedSum
  <2> QED
    BY <2>1, <2>3 DEF Balance
<1>10. Balance(W) = SumFunctionOnSet(f, W)
  <2>1. PICK g : g = [d \in W |-> Owed(d) - PaidOn(d)]
    OBVIOUS
  <2>2. DOMAIN g = W /\ \A d \in W : g[d] = f[d]
    BY <1>1, <1>3, <1>4, <2>1
  <2>3. SumFunction(g) = SumFunctionOnSet(f, W)
    BY <1>7, <2>2, RestrictedSum
  <2> QED
    BY <2>1, <2>3 DEF Balance
<1> QED
  BY <1>2, <1>3, <1>8, <1>9, <1>10 DEF DisparitiesTellBalance

LEMMA SuppliersAgree ==
  ASSUME StatementNames, StatementsInv
  PROVE  SupplierTotalsAgree
<1>1. PICK S : S = {d \in InForce : docs[d].kind = "expense"}
  OBVIOUS
<1>2. IsFiniteSet(S) /\ S \subseteq InForce
  BY <1>1, InForceFinite
<1>3. PICK f : f = [d \in S |-> Owed(d)]
  OBVIOUS
<1>4. PICK g : g = [d \in S |-> PaidOn(d)]
  OBVIOUS
<1>5. PICK h : h = [d \in S |-> Owed(d) - PaidOn(d)]
  OBVIOUS
<1>6. \A d \in S : f[d] \in Int /\ g[d] \in Int /\ h[d] = f[d] - g[d]
  <2>1. \A d \in S : Owed(d) \in Int /\ PaidOn(d) \in Int
    BY <1>2, OwedAndPaid
  <2> QED
    BY <1>3, <1>4, <1>5, <2>1
<1>7. SumFunctionOnSet(h, S) = SumFunctionOnSet(f, S) - SumFunctionOnSet(g, S)
  BY <1>2, <1>6, SumOfDifferences
<1>8. SupplierTotals.owed = SumFunction(f) /\ SupplierTotals.paid = SumFunction(g)
  BY <1>1, <1>3, <1>4 DEF SupplierTotals
<1>9. Balance(S) = SumFunction(h)
  BY <1>5 DEF Balance
<1>10. DOMAIN f = S /\ DOMAIN g = S /\ DOMAIN h = S
  BY <1>3, <1>4, <1>5
<1>11. /\ SumFunction(f) = SumFunctionOnSet(f, S) /\ SumFunction(g) = SumFunctionOnSet(g, S)
       /\ SumFunction(h) = SumFunctionOnSet(h, S)
  BY <1>10 DEF SumFunction
<1> QED
  BY <1>1, <1>7, <1>8, <1>9, <1>11 DEF SupplierTotalsAgree

\* The transfers of a kind that are in force, and the receipts in force of them.
TransfersOf(kind) == {t \in Rows : Stands(transfers, t) /\ transfers[t].kind = kind}
PaidTo(kind) == {r \in Paid : transfers[r.transfer].kind = kind}

LEMMA TransfersMove ==
  ASSUME StatementNames, StatementsInv, NEW kind
  PROVE  SumFunction([t \in TransfersOf(kind) |-> transfers[t].amount]) = Sum(PaidTo(kind))
<1>1. PICK T : T = TransfersOf(kind)
  OBVIOUS
<1>2. PICK S : S = PaidTo(kind)
  OBVIOUS
<1>3. StatementsTypeOK /\ S \subseteq receipts /\ T \subseteq Rows
  BY <1>1, <1>2 DEF StatementsInv, PaidTo, Paid, TransfersOf
<1>4. Payments(S)
  BY <1>3, ReceiptsPay
<1>5. PICK f : f = [r \in S |-> r.amount]
  OBVIOUS
<1>6. PICK h : h = [r \in S |-> r.transfer]
  OBVIOUS
<1>7. PICK g : g = [t \in T |-> transfers[t].amount]
  OBVIOUS
<1>8. IsFiniteSet(S) /\ IsFiniteSet(T)
  BY <1>3, <1>4, RowsFinite, FS_Subset DEF Payments
<1>9. \A r \in S : f[r] \in Int
  BY <1>4, <1>5 DEF Payments
<1>10. \A r \in S : h[r] \in T
  <2>1. ASSUME NEW r \in S PROVE r.transfer \in T
    <3>1. r.transfer \in Rows
      BY <1>3, ReceiptColumns
    <3> QED
      BY <1>1, <1>2, <3>1 DEF PaidTo, Paid, TransfersOf
  <2> QED
    BY <1>6, <2>1
<1>11. ASSUME NEW t \in T PROVE g[t] = SumFunctionOnSet(f, {r \in S : h[r] = t})
  <2>1. PICK U : U = {r \in S : h[r] = t}
    OBVIOUS
  <2>2. Stands(transfers, t) /\ transfers[t].kind = kind /\ t \in Rows
    BY <1>1 DEF TransfersOf
  <2>3. U = ReceiptsOf(t)
    <3>1. ASSUME NEW r \in U PROVE r \in ReceiptsOf(t)
      BY <1>2, <1>6, <2>1 DEF ReceiptsOf, PaidTo, Paid
    <3>2. ASSUME NEW r \in ReceiptsOf(t) PROVE r \in U
      <4>1. r \in receipts /\ r.active /\ r.transfer = t
        BY DEF ReceiptsOf
      <4>2. r \in S
        BY <1>2, <2>2, <4>1 DEF PaidTo, Paid
      <4> QED
        BY <1>6, <2>1, <4>1, <4>2
    <3> QED
      BY <3>1, <3>2
  <2>4. transfers[t].amount = Sum(U)
    BY <2>2, <2>3 DEF StatementsInv, TransfersTold
  <2>5. U \subseteq S
    BY <2>1
  <2>6. Sum(U) = SumFunctionOnSet(f, U)
    BY <1>4, <1>5, <2>5, PaymentsSum
  <2> QED
    BY <1>7, <2>1, <2>4, <2>6
<1>12. SumFunctionOnSet(f, S) = SumFunctionOnSet(g, T)
  BY <1>8, <1>9, <1>10, <1>11, SumByParts
<1>13. SumFunction(g) = SumFunctionOnSet(g, T)
  BY <1>7 DEF SumFunction
<1>14. Sum(S) = SumFunctionOnSet(f, S)
  <2>1. PICK U : U = S
    OBVIOUS
  <2>2. U \subseteq S
    BY <2>1
  <2>3. Sum(U) = SumFunctionOnSet(f, U)
    BY <1>4, <1>5, <2>2, PaymentsSum
  <2> QED
    BY <2>1, <2>3
<1> QED
  BY <1>1, <1>2, <1>7, <1>12, <1>13, <1>14

LEMMA OwnAgrees ==
  ASSUME StatementNames, StatementsInv
  PROVE  OwnBalanceAgrees
<1>1. PICK sales : sales = Sum(PaidTo("sale"))
  OBVIOUS
<1>2. PICK spent : spent = Sum(PaidTo("expense"))
  OBVIOUS
<1>3. SumFunction([t \in TransfersOf("sale") |-> transfers[t].amount]) = sales
  BY <1>1, TransfersMove
<1>4. SumFunction([t \in TransfersOf("expense") |-> transfers[t].amount]) = spent
  BY <1>2, TransfersMove
<1>5. OwnBalance = sales - spent
  BY <1>3, <1>4 DEF OwnBalance, TransfersOf
<1> QED
  BY <1>1, <1>2, <1>5 DEF OwnBalanceAgrees, PaidTo

\* The payments of a period are the same receipts, found by other columns.
LEMMA SummariesAgree ==
  ASSUME StatementNames, StatementsInv, NEW from \in Days, NEW until \in from..LastDay
  PROVE  SummaryAgrees(from, until)
<1> SUFFICES ASSUME \A r \in receipts : Stands(transfers, r.transfer) => r.active,
                    \A d \in Rows : Stands(docs, d) => ~docs[d].canceled
             PROVE  TransfersSummary(from, until) =
                      Sum({r \in AccountTransfers(from, until) : docs[r.doc].kind = "expense"})
  BY DEF SummaryAgrees
<1>1. from \in Int /\ until \in Int
  BY DEF Days, StatementNames
<1>2. PICK A : A = {r \in receipts :
           LET t == transfers[r.transfer] IN
           /\ Stands(transfers, r.transfer) /\ t.kind = "expense"
           /\ Stands(docs, r.doc)
           /\ t.at # NoDate /\ BusinessTime(t.at) \in (4 * from)..(4 * (until + 1) - 1)}
  OBVIOUS
<1>3. PICK B : B = {r \in AccountTransfers(from, until) : docs[r.doc].kind = "expense"}
  OBVIOUS
<1>4. ASSUME NEW r \in receipts, Stands(transfers, r.transfer), Stands(docs, r.doc)
      PROVE  r \in A <=> r \in B
  <2>1. r.active /\ r.transfer \in Rows /\ r.doc \in Rows /\ StatementsTypeOK
    BY <1>4, ReceiptColumns DEF StatementsInv
  <2>2. r \in Paid /\ r.doc \in InForce
    BY <1>4, <2>1 DEF Paid, InForce
  <2>3. PICK t : t = transfers[r.transfer]
    OBVIOUS
  <2>4. t.kind = docs[r.doc].kind
    BY <1>4, <2>1, <2>3 DEF StatementsInv, ReceiptsTold
  <2>5. t.kind = "expense" => t.at # NoDate
    BY <1>4, <2>1, <2>3 DEF StatementsInv, TransfersTold
  <2>6. t.at # NoDate => t.at \in Int
    BY <1>4, <2>1, <2>3, TransferColumns DEF Stands
  <2>7. PICK early, late : early = Before(r, from) /\ late = Before(r, until + 1)
    OBVIOUS
  <2>8. r \in B <=> t.kind = "expense" /\ ~early /\ late
    BY <1>3, <2>2, <2>4, <2>7 DEF AccountTransfers
  <2>9. t.at # NoDate => /\ early <=> t.at < 4 * from + 1
                         /\ late <=> t.at < 4 * (until + 1) + 1
    BY <2>3, <2>7 DEF Before, BusinessDayStart
  <2>10. r \in A <=> /\ t.kind = "expense" /\ t.at # NoDate
                     /\ t.at - 1 \in (4 * from)..(4 * (until + 1) - 1)
    BY <1>2, <1>4, <2>3 DEF BusinessTime
  <2>11. t.at # NoDate =>
            (t.at - 1 \in (4 * from)..(4 * (until + 1) - 1)
             <=> ~(t.at < 4 * from + 1) /\ t.at < 4 * (until + 1) + 1)
    BY <1>1, <2>6
  <2> QED
    BY <2>5, <2>8, <2>9, <2>10, <2>11
<1>5. \A r \in A : r \in receipts /\ Stands(transfers, r.transfer) /\ Stands(docs, r.doc)
  BY <1>2
<1>6. \A r \in B : r \in receipts /\ Stands(transfers, r.transfer) /\ Stands(docs, r.doc)
  BY <1>3 DEF AccountTransfers, Paid, InForce
<1>7. A = B
  BY <1>4, <1>5, <1>6
<1> QED
  BY <1>2, <1>3, <1>7 DEF TransfersSummary

LEMMA ReportsReconcile ==
  ASSUME StatementNames, StatementsInv
  PROVE  StatementsReconcile
<1>1. \A from \in Days : \A until \in from..LastDay :
          StatementContinues(from, until) /\ SummaryAgrees(from, until)
  BY StatementsContinue, SummariesAgree
<1> QED
  BY <1>1, DisparitiesTell, SuppliersAgree, OwnAgrees DEF StatementsReconcile

LEMMA InitStatements ==
  ASSUME StatementNames, SlotsInit, StatementsInit
  PROVE  StatementsInv
<1>1. PICK date \in Days, gross \in Amounts, amount \in Amounts, sold \in BOOLEAN, paid \in BOOLEAN :
        /\ paid => sold
        /\ docs = [d \in Rows |-> IF d # 0 \/ ~sold THEN NoEntry ELSE
                     [kind |-> "sale", active |-> TRUE, canceled |-> FALSE,
                      date |-> date, gross |-> gross, back |-> 0]]
        /\ transfers = [t \in Rows |-> IF t # 0 \/ ~paid THEN NoEntry ELSE
                          [kind |-> "sale", active |-> TRUE, at |-> NoDate, amount |-> amount]]
        /\ receipts = IF ~paid THEN {} ELSE
                        {[id |-> <<0, 0>>, transfer |-> 0, doc |-> 0, amount |-> amount,
                          active |-> TRUE]}
  BY DEF StatementsInit
<1>2. 0 \in Rows /\ amount \in Nat /\ gross \in Nat
  BY DEF Rows, StatementNames
<1>3. PICK sale : sale = [kind |-> "sale", active |-> TRUE, canceled |-> FALSE,
                          date |-> date, gross |-> gross, back |-> 0]
  OBVIOUS
<1>4. sale \in SaleOrExpense /\ sale.kind = "sale" /\ sale # NoEntry
  <2>1. sale \in SaleOrExpense
    BY <1>3 DEF SaleOrExpense, PaidKinds
  <2> QED
    BY <1>3, <2>1 DEF StatementNames
<1>5. PICK payment : payment = [kind |-> "sale", active |-> TRUE, at |-> NoDate, amount |-> amount]
  OBVIOUS
<1>6. /\ payment \in Transfer /\ payment.kind = "sale" /\ payment.amount = amount
      /\ payment # NoEntry
  <2>1. payment \in Transfer
    BY <1>2, <1>5 DEF Transfer, PaidKinds
  <2> QED
    BY <1>5, <2>1 DEF StatementNames
<1>7. PICK r : r = [id |-> <<0, 0>>, transfer |-> 0, doc |-> 0, amount |-> amount, active |-> TRUE]
  OBVIOUS
<1>8. r \in Receipt /\ r.transfer = 0 /\ r.doc = 0 /\ r.active /\ r.amount = amount
  <2>1. r \in Receipt
    BY <1>2, <1>7 DEF Receipt
  <2> QED
    BY <1>7, <2>1
<1>9. docs = [d \in Rows |-> IF d # 0 \/ ~sold THEN NoEntry ELSE sale] /\ (paid => sold)
  BY <1>1, <1>3
<1>10. transfers = [t \in Rows |-> IF t # 0 \/ ~paid THEN NoEntry ELSE payment]
  BY <1>1, <1>5
<1>11. receipts = IF ~paid THEN {} ELSE {r}
  BY <1>1, <1>7
<1>12. StatementsTypeOK
  BY <1>4, <1>6, <1>8, <1>9, <1>10, <1>11 DEF StatementsTypeOK
<1>13. ReceiptsTold
  <2>1. IsFiniteSet(receipts)
    BY <1>11, FS_EmptySet, FS_Singleton
  <2>2. \A q \in receipts : paid /\ q = r
    BY <1>11
  <2>3. paid => docs[0] = sale /\ transfers[0] = payment
    BY <1>2, <1>9, <1>10
  <2>4. \A q \in receipts : /\ docs[q.doc] # NoEntry /\ transfers[q.transfer] # NoEntry
                            /\ transfers[q.transfer].kind = docs[q.doc].kind
    BY <1>4, <1>6, <1>8, <2>2, <2>3
  <2> QED
    BY <2>1, <2>2, <2>4 DEF ReceiptsTold
<1>14. TransfersTold
  <2>1. ASSUME NEW t \in Rows, Stands(transfers, t)
        PROVE  /\ transfers[t].amount = Sum(ReceiptsOf(t))
               /\ transfers[t].kind = "expense" => transfers[t].at # NoDate
    <3>1. t = 0 /\ paid /\ transfers[t] = payment
      BY <1>10, <2>1 DEF Stands
    <3>2. PICK U : U = ReceiptsOf(t)
      OBVIOUS
    <3>3. U = {r}
      BY <1>8, <1>11, <3>1, <3>2 DEF ReceiptsOf
    <3>4. PICK f : f = [q \in U |-> q.amount]
      OBVIOUS
    <3>5. Payments(U)
      BY <1>2, <1>8, <3>3, FS_Singleton DEF Payments
    <3>6. PICK V : V = U
      OBVIOUS
    <3>7. Sum(V) = SumFunctionOnSet(f, V) /\ IsFiniteSet(V) /\ \A q \in V : f[q] \in Int
      BY <3>4, <3>5, <3>6, PaymentsSum
    <3>8. r \in V /\ V \ {r} = {}
      BY <3>3, <3>6
    <3>9. SumFunctionOnSet(f, V) = f[r] + SumFunctionOnSet(f, V \ {r})
      BY <3>7, <3>8, SumTakesOut
    <3>10. SumFunctionOnSet(f, {}) = 0
      BY SumOfNothing
    <3>11. f[r] = amount
      BY <1>8, <3>3, <3>4
    <3>12. Sum(V) = amount
      BY <1>2, <3>7, <3>8, <3>9, <3>10, <3>11
    <3> QED
      BY <1>6, <3>1, <3>2, <3>6, <3>12
  <2> QED
    BY <2>1 DEF TransfersTold
<1>15. DeletesKnow
  BY DEF SlotsInit, DeletesKnow
<1>16. started \in 0..MaxRequests
  BY RequestBounds DEF SlotsInit
<1> QED
  BY <1>12, <1>13, <1>14, <1>15, <1>16 DEF StatementsInv

\* Requests that begin or end leave what the deletes of others know.
LEMMA SlotsTurn ==
  ASSUME DeletesKnow, NEW p \in Procs, DOMAIN phase' = Procs, DOMAIN job' = Procs,
         \A q \in Procs : q # p => phase'[q] = phase[q] /\ job'[q] = job[q],
         phase'[p] = "receipts" => \E t \in Rows : job'[p].target = t /\ Dropped(t)',
         \A t \in Rows : Dropped(t) => Dropped(t)'
  PROVE  DeletesKnow'
<1>1. ASSUME NEW q \in Procs, phase'[q] = "receipts"
      PROVE  \E t \in Rows : job'[q].target = t /\ Dropped(t)'
  <2>1. CASE q = p
    BY <1>1, <2>1
  <2>2. CASE q # p
    <3>1. phase[q] = "receipts" /\ job'[q] = job[q]
      BY <1>1, <2>2
    <3>2. PICK t \in Rows : job[q].target = t /\ Dropped(t)
      BY <3>1 DEF DeletesKnow
    <3>3. Dropped(t)'
      BY <3>2
    <3> QED
      BY <3>1, <3>2, <3>3
  <2> QED
    BY <2>1, <2>2
<1> QED
  BY <1>1 DEF DeletesKnow

LEMMA SlotsKept ==
  ASSUME DeletesKnow, UNCHANGED <<phase, job>>,
         \A t \in Rows : Dropped(t) => Dropped(t)'
  PROVE  DeletesKnow'
<1>1. ASSUME NEW q \in Procs, phase'[q] = "receipts"
      PROVE  \E t \in Rows : job'[q].target = t /\ Dropped(t)'
  <2>1. phase[q] = "receipts" /\ job'[q] = job[q]
    BY <1>1
  <2>2. PICK t \in Rows : job[q].target = t /\ Dropped(t)
    BY <2>1 DEF DeletesKnow
  <2>3. Dropped(t)'
    BY <2>2
  <2> QED
    BY <2>1, <2>2, <2>3
<1> QED
  BY <1>1 DEF DeletesKnow

\* A write of the documents alone, which leaves each there and of its kind.
LEMMA DocumentsWritten ==
  ASSUME StatementNames, StatementsInv, UNCHANGED <<transfers, receipts, phase, job>>,
         started' \in 0..MaxRequests,
         NEW d \in Rows, NEW x \in SaleOrExpense, docs' = [docs EXCEPT ![d] = x],
         docs[d] # NoEntry => x.kind = docs[d].kind
  PROVE  StatementsInv'
<1>1. /\ StatementsTypeOK /\ ReceiptsTold /\ TransfersTold /\ DeletesKnow
  BY DEF StatementsInv
<1>2. x # NoEntry
  BY DEF StatementNames
<1>3. docs' \in [Rows -> SaleOrExpense \cup {NoEntry}]
  BY <1>1 DEF StatementsTypeOK
<1>4. StatementsTypeOK'
  BY <1>1, <1>3 DEF StatementsTypeOK
<1>5. \A e \in Rows : docs[e] # NoEntry => docs'[e] # NoEntry /\ docs'[e].kind = docs[e].kind
  BY <1>1, <1>2 DEF StatementsTypeOK
<1>6. ReceiptsTold'
  <2>1. \A r \in receipts : r.doc \in Rows
    BY <1>1, ReceiptColumns
  <2>2. transfers' = transfers /\ receipts' = receipts
    OBVIOUS
  <2>3. IsFiniteSet(receipts')
    BY <1>1, <2>2 DEF ReceiptsTold
  <2>4. \A r \in receipts : docs'[r.doc] # NoEntry /\ docs'[r.doc].kind = docs[r.doc].kind
    BY <1>1, <1>5, <2>1 DEF ReceiptsTold
  <2>5. \A r \in receipts : transfers[r.transfer] # NoEntry
    BY <1>1 DEF ReceiptsTold
  <2>6. \A r \in receipts : r.active /\ Stands(transfers, r.transfer) =>
            transfers[r.transfer].kind = docs'[r.doc].kind
    BY <1>1, <2>4 DEF ReceiptsTold
  <2>7. \A r, q \in receipts :
            r.active /\ q.active /\ r.transfer = q.transfer /\ r.doc = q.doc => r = q
    BY <1>1 DEF ReceiptsTold
  <2> QED
    BY <2>2, <2>3, <2>4, <2>5, <2>6, <2>7 DEF ReceiptsTold
<1>7. TransfersTold'
  BY <1>1 DEF TransfersTold, ReceiptsOf, Sum, Stands
<1>8. DeletesKnow'
  <2>1. \A t \in Rows : Dropped(t) => Dropped(t)'
    BY DEF Dropped
  <2>2. UNCHANGED <<phase, job>>
    OBVIOUS
  <2> QED
    BY <1>1, <2>1, <2>2, SlotsKept
<1> QED
  BY <1>4, <1>6, <1>7, <1>8 DEF StatementsInv

\* The request to come has a number, and it is a row's.
LEMMA SerialIsRow ==
  ASSUME started \in 0..MaxRequests, NEW p \in Procs, Free(p)
  PROVE  NextSerial \in Rows /\ NextSerial \in 0..MaxRequests
BY RequestBounds DEF Free, NextSerial, Rows, Serials

LEMMA DocumentSteps ==
  ASSUME StatementNames, StatementsInv, NEW p \in Procs, NEW d \in Rows,
         \/ \E kind \in PaidKinds, date \in Days, gross \in Amounts :
               SaveSaleOrExpense(p, d, kind, date, gross)
         \/ \E back \in Amounts \cup {0} : SaveReturn(p, d, back)
         \/ UpdateDetails(p, d) \/ DeleteSaleOrExpense(p, d)
  PROVE  StatementsInv'
<1>1. Instant(p) /\ UNCHANGED <<transfers, receipts>>
  BY DEF SaveSaleOrExpense, SaveReturn, UpdateDetails, DeleteSaleOrExpense
<1>2. UNCHANGED <<transfers, receipts, phase, job>> /\ started' \in 0..MaxRequests
  BY <1>1, SerialIsRow DEF Instant, StatementsInv
<1>3. StatementsTypeOK /\ DOMAIN docs = Rows
  BY DEF StatementsInv, StatementsTypeOK
<1>4. ASSUME NEW x \in SaleOrExpense, docs' = [docs EXCEPT ![d] = x],
             docs[d] # NoEntry => x.kind = docs[d].kind
      PROVE  StatementsInv'
  BY <1>2, <1>4, DocumentsWritten
<1>5. ASSUME NEW kind \in PaidKinds, NEW date \in Days, NEW gross \in Amounts,
             SaveSaleOrExpense(p, d, kind, date, gross)
      PROVE  StatementsInv'
  <2>1. CASE docs[d] = NoEntry
    <3>1. PICK x : x = [kind |-> kind, active |-> TRUE, canceled |-> FALSE, date |-> date,
                        gross |-> gross, back |-> 0]
      OBVIOUS
    <3>2. x \in SaleOrExpense
      BY <3>1 DEF SaleOrExpense
    <3>3. docs' = [docs EXCEPT ![d] = x]
      BY <1>5, <2>1, <3>1 DEF SaveSaleOrExpense
    <3> QED
      BY <1>4, <2>1, <3>2, <3>3
  <2>2. CASE docs[d] # NoEntry
    <3>1. docs[d] \in SaleOrExpense
      BY <1>3, <2>2, DocColumns
    <3>2. PICK x : x = [docs[d] EXCEPT !.date = date, !.gross = gross]
      OBVIOUS
    <3>3. x \in SaleOrExpense /\ x.kind = docs[d].kind
      BY <3>1, <3>2 DEF SaleOrExpense
    <3>4. docs' = [docs EXCEPT ![d] = x]
      BY <1>5, <2>2, <3>2 DEF SaveSaleOrExpense
    <3> QED
      BY <1>4, <3>3, <3>4
  <2> QED
    BY <2>1, <2>2
<1>6. ASSUME NEW back \in Amounts \cup {0}, SaveReturn(p, d, back) PROVE StatementsInv'
  <2>1. docs[d] \in SaleOrExpense /\ docs[d] # NoEntry
    BY <1>3, <1>6, DocColumns DEF SaveReturn, Stands
  <2>2. back \in Nat
    BY DEF StatementNames
  <2>3. PICK x : x = [docs[d] EXCEPT !.back = back]
    OBVIOUS
  <2>4. x \in SaleOrExpense /\ x.kind = docs[d].kind
    BY <2>1, <2>2, <2>3 DEF SaleOrExpense
  <2>5. docs' = [docs EXCEPT ![d] = x]
    BY <1>6, <2>3 DEF SaveReturn
  <2> QED
    BY <1>4, <2>4, <2>5
<1>7. CASE UpdateDetails(p, d)
  <2>1. docs[d] \in SaleOrExpense
    BY <1>3, <1>7, DocColumns DEF UpdateDetails, Stands
  <2>2. PICK x : x = [docs[d] EXCEPT !.canceled = ~@]
    OBVIOUS
  <2>3. x \in SaleOrExpense /\ x.kind = docs[d].kind
    BY <2>1, <2>2 DEF SaleOrExpense
  <2>4. docs' = [docs EXCEPT ![d] = x]
    BY <1>7, <2>2 DEF UpdateDetails
  <2> QED
    BY <1>4, <2>3, <2>4
<1>8. CASE DeleteSaleOrExpense(p, d)
  <2>1. docs[d] \in SaleOrExpense
    BY <1>3, <1>8, DocColumns DEF DeleteSaleOrExpense, Stands
  <2>2. PICK x : x = [docs[d] EXCEPT !.active = FALSE]
    OBVIOUS
  <2>3. x \in SaleOrExpense /\ x.kind = docs[d].kind
    BY <2>1, <2>2 DEF SaleOrExpense
  <2>4. docs' = [docs EXCEPT ![d] = x]
    BY <1>8, <2>2 DEF DeleteSaleOrExpense
  <2> QED
    BY <1>4, <2>3, <2>4
<1> QED
  BY <1>5, <1>6, <1>7, <1>8

\* The rows of a transfer's receipts after a save of it: those the form names again,
\* those it drops, and new ones.
Named(t, paid) == {r \in ReceiptsOf(t) : r.doc \in DOMAIN paid}
Again(t, paid) == {[r EXCEPT !.amount = paid[r.doc]] : r \in Named(t, paid)}
DroppedBy(t, paid) == {[r EXCEPT !.active = FALSE] : r \in ReceiptsOf(t) \ Named(t, paid)}
Unnamed(t, paid) == DOMAIN paid \ {r.doc : r \in ReceiptsOf(t)}
PaidAnew(t, paid) ==
    {[id |-> <<NextSerial, d>>, transfer |-> t, doc |-> d, amount |-> paid[d],
      active |-> TRUE] : d \in Unnamed(t, paid)}

LEMMA ReceiptsSaved ==
  ASSUME NEW p, NEW t, NEW kind, NEW at, NEW paid, SaveTransfer(p, t, kind, at, paid)
  PROVE  receipts' = (receipts \ ReceiptsOf(t)) \cup Again(t, paid) \cup DroppedBy(t, paid)
                       \cup PaidAnew(t, paid)
<1>1. PICK old : old = ReceiptsOf(t)
  OBVIOUS
<1>2. receipts' =
        (receipts \ old)
        \cup {IF r.doc \in DOMAIN paid THEN [r EXCEPT !.amount = paid[r.doc]]
              ELSE [r EXCEPT !.active = FALSE] : r \in old}
        \cup {[id |-> <<NextSerial, d>>, transfer |-> t, doc |-> d, amount |-> paid[d],
               active |-> TRUE] : d \in Unnamed(t, paid)}
  BY <1>1 DEF SaveTransfer, Unnamed
<1>3. {IF r.doc \in DOMAIN paid THEN [r EXCEPT !.amount = paid[r.doc]]
       ELSE [r EXCEPT !.active = FALSE] : r \in old} = Again(t, paid) \cup DroppedBy(t, paid)
  BY <1>1 DEF Again, DroppedBy, Named
<1> QED
  BY <1>1, <1>2, <1>3 DEF PaidAnew

\* What each of these rows is.
RowsOfForm(t, D, paid) ==
    /\ \A r \in Again(t, paid) :
          /\ r \in Receipt /\ r.transfer = t /\ r.active /\ r.doc \in D /\ r.amount = paid[r.doc]
          /\ \E q \in ReceiptsOf(t) : q.doc = r.doc /\ r = [q EXCEPT !.amount = paid[q.doc]]
    /\ \A r \in DroppedBy(t, paid) :
          /\ r \in Receipt /\ r.transfer = t /\ ~r.active
          /\ \E q \in ReceiptsOf(t) : q.doc = r.doc
    /\ \A r \in PaidAnew(t, paid) :
          /\ r \in Receipt /\ r.transfer = t /\ r.active /\ r.amount = paid[r.doc]
          /\ r.doc \in D /\ \A q \in ReceiptsOf(t) : q.doc # r.doc
          /\ \A q \in PaidAnew(t, paid) : q.doc = r.doc => q = r

LEMMA RowsSaved ==
  ASSUME StatementNames, StatementsInv, NextSerial \in Rows,
         NEW t \in Rows, NEW D \in SUBSET Rows, NEW paid \in [D -> Amounts]
  PROVE  RowsOfForm(t, D, paid)
<1>1. ASSUME NEW q \in ReceiptsOf(t)
      PROVE  q \in Receipt /\ q.transfer = t /\ q.active
  BY DEF ReceiptsOf, StatementsInv, StatementsTypeOK
<1>2. DOMAIN paid = D /\ \A d \in D : paid[d] \in Amounts
  OBVIOUS
<1>3. ASSUME NEW r \in Again(t, paid)
      PROVE  /\ r \in Receipt /\ r.transfer = t /\ r.active /\ r.doc \in D /\ r.amount = paid[r.doc]
             /\ \E q \in ReceiptsOf(t) : q.doc = r.doc /\ r = [q EXCEPT !.amount = paid[q.doc]]
  <2>1. PICK q \in ReceiptsOf(t) : q.doc \in D /\ r = [q EXCEPT !.amount = paid[q.doc]]
    BY <1>2 DEF Again, Named
  <2>2. q \in Receipt /\ q.transfer = t /\ q.active
    BY <1>1
  <2>3. paid[q.doc] \in Amounts
    BY <1>2, <2>1
  <2>4. r \in Receipt /\ r.transfer = t /\ r.active /\ r.doc = q.doc /\ r.amount = paid[q.doc]
    BY <2>1, <2>2, <2>3 DEF Receipt
  <2> QED
    BY <2>1, <2>4
<1>4. ASSUME NEW r \in DroppedBy(t, paid)
      PROVE  /\ r \in Receipt /\ r.transfer = t /\ ~r.active
             /\ \E q \in ReceiptsOf(t) : q.doc = r.doc
  <2>1. PICK q \in ReceiptsOf(t) : r = [q EXCEPT !.active = FALSE]
    BY DEF DroppedBy
  <2>2. q \in Receipt /\ q.transfer = t
    BY <1>1
  <2>3. r \in Receipt /\ r.transfer = t /\ ~r.active /\ r.doc = q.doc
    BY <2>1, <2>2 DEF Receipt
  <2> QED
    BY <2>3
<1>5. ASSUME NEW r \in PaidAnew(t, paid)
      PROVE  /\ r \in Receipt /\ r.transfer = t /\ r.active /\ r.amount = paid[r.doc]
             /\ r.doc \in D /\ \A q \in ReceiptsOf(t) : q.doc # r.doc
             /\ \A q \in PaidAnew(t, paid) : q.doc = r.doc => q = r
  <2>1. PICK d \in Unnamed(t, paid) :
           r = [id |-> <<NextSerial, d>>, transfer |-> t, doc |-> d, amount |-> paid[d],
                active |-> TRUE]
    BY DEF PaidAnew
  <2>2. d \in D /\ d \in Rows /\ paid[d] \in Amounts /\ \A q \in ReceiptsOf(t) : q.doc # d
    BY <1>2 DEF Unnamed
  <2>3. r.transfer = t /\ r.active /\ r.doc = d /\ r.amount = paid[d]
    BY <2>1
  <2>4. r \in Receipt
    BY <2>1, <2>2 DEF Receipt
  <2>5. ASSUME NEW q \in PaidAnew(t, paid), q.doc = r.doc PROVE q = r
    <3>1. PICK e \in Unnamed(t, paid) :
             q = [id |-> <<NextSerial, e>>, transfer |-> t, doc |-> e, amount |-> paid[e],
                  active |-> TRUE]
      BY DEF PaidAnew
    <3>2. e = d
      BY <2>3, <2>5, <3>1
    <3> QED
      BY <2>1, <3>1, <3>2
  <2> QED
    BY <2>2, <2>3, <2>4, <2>5
<1> QED
  BY <1>3, <1>4, <1>5 DEF RowsOfForm

\* In force of the transfer are, after the save, a receipt for each document of the
\* form, with the amount the form has for it.
LEMMA FormIsPaid ==
  ASSUME StatementNames, StatementsInv, NEW p, NEW t \in Rows, NEW kind, NEW at,
         NEW D \in SUBSET Rows, NEW paid \in [D -> Amounts],
         SaveTransfer(p, t, kind, at, paid), NextSerial \in Rows
  PROVE  /\ \A r \in ReceiptsOf(t)' : r.doc \in D /\ r.amount = paid[r.doc]
         /\ \A r, q \in ReceiptsOf(t)' : r.doc = q.doc => r = q
         /\ \A d \in D : \E r \in ReceiptsOf(t)' : r.doc = d
<1>1. receipts' = (receipts \ ReceiptsOf(t)) \cup Again(t, paid) \cup DroppedBy(t, paid)
                    \cup PaidAnew(t, paid)
  BY ReceiptsSaved
<1>2. /\ \A r \in Again(t, paid) :
             /\ r \in Receipt /\ r.transfer = t /\ r.active /\ r.doc \in D /\ r.amount = paid[r.doc]
             /\ \E q \in ReceiptsOf(t) : q.doc = r.doc /\ r = [q EXCEPT !.amount = paid[q.doc]]
      /\ \A r \in DroppedBy(t, paid) :
             /\ r \in Receipt /\ r.transfer = t /\ ~r.active
             /\ \E q \in ReceiptsOf(t) : q.doc = r.doc
      /\ \A r \in PaidAnew(t, paid) :
             /\ r \in Receipt /\ r.transfer = t /\ r.active /\ r.amount = paid[r.doc]
             /\ r.doc \in D /\ \A q \in ReceiptsOf(t) : q.doc # r.doc
             /\ \A q \in PaidAnew(t, paid) : q.doc = r.doc => q = r
  <2>1. RowsOfForm(t, D, paid)
    BY RowsSaved
  <2> QED
    BY <2>1 DEF RowsOfForm
<1>3. ReceiptsOf(t)' = Again(t, paid) \cup PaidAnew(t, paid)
  <2>1. ReceiptsOf(t)' = {r \in receipts' : r.transfer = t /\ r.active}
    BY DEF ReceiptsOf
  <2>2. \A r \in receipts \ ReceiptsOf(t) : ~(r.transfer = t /\ r.active)
    BY DEF ReceiptsOf
  <2>3. \A r \in Again(t, paid) : r.transfer = t /\ r.active
    BY <1>2
  <2>4. \A r \in PaidAnew(t, paid) : r.transfer = t /\ r.active
    BY <1>2
  <2>5. \A r \in DroppedBy(t, paid) : ~r.active
    BY <1>2
  <2> QED
    BY <1>1, <2>1, <2>2, <2>3, <2>4, <2>5
<1>4. ASSUME NEW r \in ReceiptsOf(t)', NEW q \in ReceiptsOf(t)', r.doc = q.doc
      PROVE  r = q
  <2>1. CASE r \in Again(t, paid) /\ q \in Again(t, paid)
    <3>1. PICK x \in ReceiptsOf(t) : x.doc = r.doc /\ r = [x EXCEPT !.amount = paid[x.doc]]
      BY <1>2, <2>1
    <3>2. PICK y \in ReceiptsOf(t) : y.doc = q.doc /\ q = [y EXCEPT !.amount = paid[y.doc]]
      BY <1>2, <2>1
    <3>3. x \in receipts /\ y \in receipts /\ x.active /\ y.active /\ x.transfer = y.transfer
      BY DEF ReceiptsOf
    <3>4. x = y
      BY <1>4, <3>1, <3>2, <3>3 DEF StatementsInv, ReceiptsTold
    <3> QED
      BY <3>1, <3>2, <3>4
  <2>2. CASE r \in PaidAnew(t, paid) /\ q \in PaidAnew(t, paid)
    BY <1>2, <1>4, <2>2
  <2>3. CASE r \in PaidAnew(t, paid) /\ q \in Again(t, paid)
    BY <1>2, <1>4, <2>3
  <2>4. CASE r \in Again(t, paid) /\ q \in PaidAnew(t, paid)
    BY <1>2, <1>4, <2>4
  <2> QED
    BY <1>3, <2>1, <2>2, <2>3, <2>4
<1>5. ASSUME NEW d \in D PROVE \E r \in ReceiptsOf(t)' : r.doc = d
  <2>1. CASE \E q \in ReceiptsOf(t) : q.doc = d
    <3>1. PICK q \in ReceiptsOf(t) : q.doc = d
      BY <2>1
    <3>2. PICK r : r = [q EXCEPT !.amount = paid[q.doc]]
      OBVIOUS
    <3>3. q \in Receipt
      BY DEF ReceiptsOf, StatementsInv, StatementsTypeOK
    <3>4. r.doc = d
      BY <3>1, <3>2, <3>3 DEF Receipt
    <3>5. r \in Again(t, paid)
      BY <3>1, <3>2 DEF Again, Named
    <3> QED
      BY <1>3, <3>4, <3>5
  <2>2. CASE ~\E q \in ReceiptsOf(t) : q.doc = d
    <3>1. PICK r : r = [id |-> <<NextSerial, d>>, transfer |-> t, doc |-> d, amount |-> paid[d],
                        active |-> TRUE]
      OBVIOUS
    <3>2. d \in Unnamed(t, paid)
      BY <2>2 DEF Unnamed
    <3>3. r \in PaidAnew(t, paid)
      BY <3>1, <3>2 DEF PaidAnew
    <3>4. r.doc = d
      BY <3>1
    <3> QED
      BY <1>3, <3>3, <3>4
  <2> QED
    BY <2>1, <2>2
<1>6. \A r \in ReceiptsOf(t)' : r.doc \in D /\ r.amount = paid[r.doc]
  BY <1>2, <1>3
<1> QED
  BY <1>4, <1>5, <1>6

\* What the receipts in force of the transfer come to is what the form does.
LEMMA FormIsSummed ==
  ASSUME NEW D, IsFiniteSet(D), NEW paid \in [D -> Nat], NEW U, IsFiniteSet(U),
         \A r \in U : r.doc \in D /\ r.amount = paid[r.doc],
         \A r, q \in U : r.doc = q.doc => r = q,
         \A d \in D : \E r \in U : r.doc = d
  PROVE  SumFunction(paid) = Sum(U) /\ SumFunction(paid) \in Nat
<1>1. PICK h : h = [r \in U |-> r.doc]
  OBVIOUS
<1>2. PICK f : f = [r \in U |-> r.amount]
  OBVIOUS
<1>3. h \in [U -> D]
  BY <1>1
<1>4. \A x, y \in U : h[x] = h[y] => x = y
  BY <1>1
<1>5. \A z \in D : \E x \in U : z = h[x]
  BY <1>1
<1>6. \A x \in U : f[x] \in Int /\ paid[h[x]] = f[x]
  BY <1>1, <1>2
<1>7. SumFunctionOnSet(f, U) = SumFunctionOnSet(paid, D)
  BY <1>3, <1>4, <1>5, <1>6, SumRenamed
<1>8. Payments(U)
  BY DEF Payments
<1>9. Sum(U) = SumFunctionOnSet(f, U)
  <2>1. PICK V : V = U
    OBVIOUS
  <2>2. V \subseteq U
    BY <2>1
  <2>3. Sum(V) = SumFunctionOnSet(f, V)
    BY <1>2, <1>8, <2>2, PaymentsSum
  <2> QED
    BY <2>1, <2>3
<1>10. SumFunction(paid) = SumFunctionOnSet(paid, D)
  BY DEF SumFunction
<1>11. \A d \in D : paid[d] \in Nat
  OBVIOUS
<1>12. SumFunctionOnSet(paid, D) \in Nat
  BY <1>11, SumIsNatural
<1> QED
  BY <1>7, <1>9, <1>10, <1>12

LEMMA TransferSaved ==
  ASSUME StatementNames, StatementsInv, NEW p \in Procs, NEW t \in Rows, NEW kind \in PaidKinds,
         NEW at \in Instants, NEW paid \in FormLines(kind), Free(p),
         SaveTransfer(p, t, kind, at, paid)
  PROVE  StatementsInv'
<1>1. PICK D : /\ D \subseteq {d \in Rows : docs[d] # NoEntry /\ docs[d].kind = kind}
               /\ paid \in [D -> Amounts]
  BY DEF FormLines
<1>2. D \in SUBSET Rows /\ \A d \in D : docs[d] # NoEntry /\ docs[d].kind = kind
  BY <1>1
<1>3. StatementsTypeOK /\ started \in 0..MaxRequests /\ ReceiptsTold /\ TransfersTold /\ DeletesKnow
  BY DEF StatementsInv
<1>4. NextSerial \in Rows /\ NextSerial \in 0..MaxRequests
  BY <1>3, SerialIsRow
<1>5. receipts' = (receipts \ ReceiptsOf(t)) \cup Again(t, paid) \cup DroppedBy(t, paid)
                    \cup PaidAnew(t, paid)
  BY ReceiptsSaved
<1>6. RowsOfForm(t, D, paid)
  BY <1>1, <1>2, <1>4, RowsSaved
<1>7. /\ \A r \in ReceiptsOf(t)' : r.doc \in D /\ r.amount = paid[r.doc]
      /\ \A r, q \in ReceiptsOf(t)' : r.doc = q.doc => r = q
      /\ \A d \in D : \E r \in ReceiptsOf(t)' : r.doc = d
  BY <1>1, <1>2, <1>4, FormIsPaid
<1>8. UNCHANGED <<phase, job>> /\ started' = NextSerial /\ docs' = docs
  BY DEF SaveTransfer, Instant
<1>9. receipts' \subseteq Receipt
  <2>1. receipts \subseteq Receipt
    BY <1>3 DEF StatementsTypeOK
  <2>2. Again(t, paid) \subseteq Receipt /\ DroppedBy(t, paid) \subseteq Receipt /\ PaidAnew(t, paid) \subseteq Receipt
    BY <1>6 DEF RowsOfForm
  <2> QED
    BY <1>5, <2>1, <2>2
<1>10. IsFiniteSet(receipts')
  <2>1. IsFiniteSet(receipts) /\ ReceiptsOf(t) \subseteq receipts
    BY <1>3 DEF ReceiptsTold, ReceiptsOf
  <2>2. IsFiniteSet(receipts \ ReceiptsOf(t)) /\ IsFiniteSet(Named(t, paid))
        /\ IsFiniteSet(ReceiptsOf(t) \ Named(t, paid))
    BY <2>1, FS_Subset DEF Named
  <2>3. IsFiniteSet(D) /\ Unnamed(t, paid) \subseteq D
    BY <1>1, <1>2, RowsFinite, FS_Subset DEF Unnamed
  <2>4. IsFiniteSet(Again(t, paid))
    <3>1. PICK S : S = Named(t, paid)
      OBVIOUS
    <3>2. PICK f : f = [r \in S |-> [r EXCEPT !.amount = paid[r.doc]]]
      OBVIOUS
    <3>3. PICK T : T = Again(t, paid)
      OBVIOUS
    <3>4. DOMAIN f = S /\ f = [r \in S |-> f[r]] /\ (\A r \in S : f[r] \in T) /\ \A q \in T : \E r \in S : f[r] = q
      BY <3>1, <3>2, <3>3 DEF Again
    <3>5. IsFiniteSet(S)
      BY <2>2, <3>1
    <3> QED
      BY <3>3, <3>4, <3>5, FiniteImage
  <2>5. IsFiniteSet(DroppedBy(t, paid))
    <3>1. PICK S : S = ReceiptsOf(t) \ Named(t, paid)
      OBVIOUS
    <3>2. PICK f : f = [r \in S |-> [r EXCEPT !.active = FALSE]]
      OBVIOUS
    <3>3. PICK T : T = DroppedBy(t, paid)
      OBVIOUS
    <3>4. DOMAIN f = S /\ f = [r \in S |-> f[r]] /\ (\A r \in S : f[r] \in T) /\ \A q \in T : \E r \in S : f[r] = q
      BY <3>1, <3>2, <3>3 DEF DroppedBy
    <3>5. IsFiniteSet(S)
      BY <2>2, <3>1
    <3> QED
      BY <3>3, <3>4, <3>5, FiniteImage
  <2>6. IsFiniteSet(PaidAnew(t, paid))
    <3>1. PICK S : S = Unnamed(t, paid)
      OBVIOUS
    <3>2. PICK f : f = [d \in S |-> [id |-> <<NextSerial, d>>, transfer |-> t, doc |-> d,
                                     amount |-> paid[d], active |-> TRUE]]
      OBVIOUS
    <3>3. PICK T : T = PaidAnew(t, paid)
      OBVIOUS
    <3>4. DOMAIN f = S /\ f = [r \in S |-> f[r]] /\ (\A r \in S : f[r] \in T) /\ \A q \in T : \E r \in S : f[r] = q
      BY <3>1, <3>2, <3>3 DEF PaidAnew
    <3>5. IsFiniteSet(S)
      BY <2>3, <3>1, FS_Subset
    <3> QED
      BY <3>3, <3>4, <3>5, FiniteImage
  <2> QED
    BY <1>5, <2>2, <2>4, <2>5, <2>6, FS_Union
<1>11. SumFunction(paid) = Sum(ReceiptsOf(t)') /\ SumFunction(paid) \in Nat
  <2>1. PICK U : U = ReceiptsOf(t)'
    OBVIOUS
  <2>2. U \subseteq receipts'
    BY <2>1 DEF ReceiptsOf
  <2>3. IsFiniteSet(U) /\ IsFiniteSet(D)
    BY <1>2, <1>10, <2>2, RowsFinite, FS_Subset
  <2>4. paid \in [D -> Nat]
    BY <1>1 DEF StatementNames
  <2>5. /\ \A r \in U : r.doc \in D /\ r.amount = paid[r.doc]
        /\ \A r, q \in U : r.doc = q.doc => r = q
        /\ \A d \in D : \E r \in U : r.doc = d
    BY <1>7, <2>1
  <2> QED
    BY <2>1, <2>3, <2>4, <2>5, FormIsSummed
<1>12. PICK x : x = [kind |-> kind, active |-> transfers[t] = NoEntry \/ transfers[t].active,
                     at |-> at, amount |-> SumFunction(paid)]
  OBVIOUS
<1>13. transfers' = [transfers EXCEPT ![t] = x]
  BY <1>12 DEF SaveTransfer
<1>14. x \in Transfer /\ x # NoEntry
  <2>1. (transfers[t] = NoEntry \/ transfers[t].active) \in BOOLEAN
    OBVIOUS
  <2>2. x \in Transfer
    BY <1>11, <1>12, <2>1 DEF Transfer
  <2> QED
    BY <2>2 DEF StatementNames
<1>15. transfers' \in [Rows -> Transfer \cup {NoEntry}] /\ transfers'[t] = x
       /\ \A u \in Rows : u # t => transfers'[u] = transfers[u]
  BY <1>3, <1>13, <1>14 DEF StatementsTypeOK
<1>16. StatementsTypeOK'
  BY <1>3, <1>8, <1>9, <1>15 DEF StatementsTypeOK
<1>17. \A r \in receipts : r.transfer \in Rows /\ r.doc \in Rows
  BY <1>3, ReceiptColumns
<1>18. ASSUME NEW r \in receipts', r.transfer # t PROVE r \in receipts
  BY <1>5, <1>6, <1>18 DEF RowsOfForm
<1>19. ASSUME NEW u \in Rows, u # t PROVE ReceiptsOf(u)' = ReceiptsOf(u)
  <2>1. \A r \in receipts : r.transfer = u => r \in receipts'
    BY <1>5, <1>19 DEF ReceiptsOf
  <2>2. \A r \in receipts' : r.transfer = u => r \in receipts
    BY <1>18, <1>19
  <2> QED
    BY <2>1, <2>2 DEF ReceiptsOf
<1>20. ASSUME NEW r \in receipts', r.transfer = t, r.active PROVE r \in ReceiptsOf(t)'
  BY <1>20 DEF ReceiptsOf
<1>21. ReceiptsTold'
  <2>1. ASSUME NEW r \in receipts' PROVE docs[r.doc] # NoEntry /\ transfers'[r.transfer] # NoEntry
    <3>1. CASE r \in receipts
      BY <1>3, <1>14, <1>15, <1>17, <3>1 DEF ReceiptsTold
    <3>2. CASE r \notin receipts
      <4>1. r.transfer = t
        BY <1>18, <3>2
      <4>2. CASE r.active
        BY <1>2, <1>7, <1>14, <1>15, <1>20, <4>1, <4>2
      <4>3. CASE ~r.active
        <5>1. r \in DroppedBy(t, paid)
          BY <1>5, <1>6, <3>2, <4>3 DEF RowsOfForm
        <5>2. PICK q \in ReceiptsOf(t) : q.doc = r.doc
          BY <1>6, <5>1 DEF RowsOfForm
        <5>3. q \in receipts
          BY DEF ReceiptsOf
        <5> QED
          BY <1>3, <1>14, <1>15, <4>1, <5>2, <5>3 DEF ReceiptsTold
      <4> QED
        BY <4>2, <4>3
    <3> QED
      BY <3>1, <3>2
  <2>2. ASSUME NEW r \in receipts', r.active, Stands(transfers', r.transfer)
        PROVE  transfers'[r.transfer].kind = docs[r.doc].kind
    <3>1. CASE r.transfer = t
      <4>1. r.doc \in D
        BY <1>7, <1>20, <2>2, <3>1
      <4>2. x.kind = kind
        BY <1>12
      <4> QED
        BY <1>2, <1>15, <3>1, <4>1, <4>2
    <3>2. CASE r.transfer # t
      <4>1. r \in receipts
        BY <1>18, <3>2
      <4>2. transfers'[r.transfer] = transfers[r.transfer]
        BY <1>15, <1>17, <3>2, <4>1
      <4>3. Stands(transfers, r.transfer)
        BY <2>2, <4>2 DEF Stands
      <4> QED
        BY <1>3, <2>2, <4>1, <4>2, <4>3 DEF ReceiptsTold
    <3> QED
      BY <3>1, <3>2
  <2>3. ASSUME NEW r \in receipts', NEW q \in receipts', r.active, q.active,
               r.transfer = q.transfer, r.doc = q.doc
        PROVE  r = q
    <3>1. CASE r.transfer = t
      BY <1>7, <1>20, <2>3, <3>1
    <3>2. CASE r.transfer # t
      <4>1. r \in receipts /\ q \in receipts
        BY <1>18, <2>3, <3>2
      <4> QED
        BY <1>3, <2>3, <4>1 DEF ReceiptsTold
    <3> QED
      BY <3>1, <3>2
  <2> QED
    BY <1>8, <1>10, <2>1, <2>2, <2>3 DEF ReceiptsTold
<1>22. TransfersTold'
  <2>1. ASSUME NEW u \in Rows, Stands(transfers', u)
        PROVE  /\ transfers'[u].amount = Sum(ReceiptsOf(u)')
               /\ transfers'[u].kind = "expense" => transfers'[u].at # NoDate
    <3>1. CASE u = t
      <4>1. x.amount = SumFunction(paid) /\ x.at = at
        BY <1>12
      <4>2. at # NoDate
        BY DEF StatementNames
      <4> QED
        BY <1>11, <1>15, <3>1, <4>1, <4>2
    <3>2. CASE u # t
      <4>1. transfers'[u] = transfers[u] /\ ReceiptsOf(u)' = ReceiptsOf(u)
        BY <1>15, <1>19, <3>2
      <4>2. Stands(transfers, u)
        BY <2>1, <4>1 DEF Stands
      <4> QED
        BY <1>3, <4>1, <4>2 DEF TransfersTold
    <3> QED
      BY <3>1, <3>2
  <2> QED
    BY <2>1 DEF TransfersTold, Sum
<1>23. DeletesKnow'
  <2>1. ASSUME NEW u \in Rows, Dropped(u) PROVE Dropped(u)'
    <3>1. transfers[u] # NoEntry /\ ~transfers[u].active
      BY <2>1 DEF Dropped
    <3>2. u = t => ~x.active
      BY <1>12, <3>1
    <3> QED
      BY <1>14, <1>15, <3>1, <3>2 DEF Dropped
  <2> QED
    BY <1>3, <1>8, <2>1, SlotsKept
<1> QED
  BY <1>4, <1>8, <1>16, <1>21, <1>22, <1>23 DEF StatementsInv

LEMMA TransferDropped ==
  ASSUME StatementNames, StatementsInv, NEW p \in Procs, NEW t \in Rows, DeleteTransfer(p, t)
  PROVE  StatementsInv'
<1>1. StatementsTypeOK /\ started \in 0..MaxRequests /\ ReceiptsTold /\ TransfersTold /\ DeletesKnow
  BY DEF StatementsInv
<1>2. transfers[t] # NoEntry /\ Free(p) /\ started' = NextSerial /\ UNCHANGED <<docs, receipts>>
  BY DEF DeleteTransfer, Stands, Start
<1>3. transfers[t] \in Transfer
  BY <1>1, <1>2, TransferColumns
<1>4. PICK x : x = [transfers[t] EXCEPT !.active = FALSE]
  OBVIOUS
<1>5. x \in Transfer /\ x.kind = transfers[t].kind /\ ~x.active /\ x # NoEntry
  <2>1. x \in Transfer /\ x.kind = transfers[t].kind /\ ~x.active
    BY <1>3, <1>4 DEF Transfer
  <2> QED
    BY <2>1 DEF StatementNames
<1>6. transfers' = [transfers EXCEPT ![t] = x]
  BY <1>4 DEF DeleteTransfer
<1>7. transfers' \in [Rows -> Transfer \cup {NoEntry}] /\ transfers'[t] = x
      /\ \A u \in Rows : u # t => transfers'[u] = transfers[u]
  BY <1>1, <1>5, <1>6 DEF StatementsTypeOK
<1>8. StatementsTypeOK'
  BY <1>1, <1>2, <1>7 DEF StatementsTypeOK
<1>9. \A u \in Rows : Stands(transfers', u) => u # t /\ transfers'[u] = transfers[u] /\ Stands(transfers, u)
  BY <1>5, <1>7 DEF Stands
<1>10. ReceiptsTold'
  <2>1. \A r \in receipts : r.transfer \in Rows
    BY <1>1, ReceiptColumns
  <2>2. \A r \in receipts : docs[r.doc] # NoEntry /\ transfers'[r.transfer] # NoEntry
    BY <1>1, <1>5, <1>7, <2>1 DEF ReceiptsTold
  <2>3. \A r \in receipts : r.active /\ Stands(transfers', r.transfer) =>
            transfers'[r.transfer].kind = docs[r.doc].kind
    BY <1>1, <1>9, <2>1 DEF ReceiptsTold
  <2> QED
    BY <1>1, <1>2, <2>2, <2>3 DEF ReceiptsTold
<1>11. TransfersTold'
  <2>1. \A u \in Rows : ReceiptsOf(u)' = ReceiptsOf(u)
    BY <1>2 DEF ReceiptsOf
  <2>2. ASSUME NEW u \in Rows, Stands(transfers', u)
        PROVE  /\ transfers'[u].amount = Sum(ReceiptsOf(u)')
               /\ transfers'[u].kind = "expense" => transfers'[u].at # NoDate
    BY <1>1, <1>9, <2>1, <2>2 DEF TransfersTold
  <2> QED
    BY <2>2 DEF TransfersTold, Sum
<1>12. DeletesKnow'
  <2>1. \A u \in Rows : Dropped(u) => Dropped(u)'
    BY <1>5, <1>7 DEF Dropped
  <2>2. /\ \A q \in Procs : q # p => phase'[q] = phase[q] /\ job'[q] = job[q]
        /\ DOMAIN phase' = Procs /\ DOMAIN job' = Procs
    BY <1>1 DEF DeleteTransfer, Start, DeletesKnow
  <2>3. Dropped(t)'
    BY <1>5, <1>7 DEF Dropped
  <2>4. phase'[p] = "receipts" => \E u \in Rows : job'[p].target = u /\ Dropped(u)'
    <3>1. job'[p] = [target |-> t]
      BY <1>1 DEF DeleteTransfer, Start, DeletesKnow
    <3> QED
      BY <2>3, <3>1
  <2> QED
    BY <1>1, <2>1, <2>2, <2>4, SlotsTurn
<1>13. started' \in 0..MaxRequests
  BY <1>1, <1>2, SerialIsRow
<1> QED
  BY <1>8, <1>10, <1>11, <1>12, <1>13 DEF StatementsInv

LEMMA ReceiptsDropped ==
  ASSUME StatementNames, StatementsInv, NEW p \in Procs, DeleteReceipts(p)
  PROVE  StatementsInv'
<1>1. StatementsTypeOK /\ started \in 0..MaxRequests /\ ReceiptsTold /\ TransfersTold /\ DeletesKnow
  BY DEF StatementsInv
<1>2. PICK t \in Rows : job[p].target = t /\ Dropped(t)
  BY <1>1 DEF DeletesKnow, DeleteReceipts
<1>3. receipts' = {IF r.transfer = t THEN [r EXCEPT !.active = FALSE] ELSE r : r \in receipts}
  BY <1>2 DEF DeleteReceipts
<1>4. UNCHANGED <<docs, transfers, started>>
  BY DEF DeleteReceipts, Finish, Goto
<1>5. ASSUME NEW r \in receipts'
      PROVE  /\ r \in Receipt
             /\ \E q \in receipts : /\ q.transfer = r.transfer /\ q.doc = r.doc
                                    /\ r.transfer # t => r = q
                                    /\ r.transfer = t => ~r.active
  <2>1. PICK q \in receipts : r = IF q.transfer = t THEN [q EXCEPT !.active = FALSE] ELSE q
    BY <1>3
  <2>2. q \in Receipt
    BY <1>1 DEF StatementsTypeOK
  <2>3. CASE q.transfer = t
    <3>1. r \in Receipt /\ r.transfer = q.transfer /\ r.doc = q.doc /\ ~r.active
      BY <2>1, <2>2, <2>3 DEF Receipt
    <3> QED
      BY <2>3, <3>1
  <2>4. CASE q.transfer # t
    BY <2>1, <2>2, <2>4
  <2> QED
    BY <2>3, <2>4
<1>6. IsFiniteSet(receipts')
  <2>1. PICK S : S = receipts
    OBVIOUS
  <2>2. PICK f : f = [r \in S |-> IF r.transfer = t THEN [r EXCEPT !.active = FALSE] ELSE r]
    OBVIOUS
  <2>3. PICK T : T = receipts'
    OBVIOUS
  <2>4. DOMAIN f = S /\ f = [r \in S |-> f[r]] /\ (\A r \in S : f[r] \in T) /\ \A q \in T : \E r \in S : f[r] = q
    BY <1>3, <2>1, <2>2, <2>3
  <2>5. IsFiniteSet(S)
    BY <1>1, <2>1 DEF ReceiptsTold
  <2> QED
    BY <2>3, <2>4, <2>5, FiniteImage
<1>7. StatementsTypeOK'
  BY <1>1, <1>4, <1>5 DEF StatementsTypeOK
<1>8. ReceiptsTold'
  <2>1. ASSUME NEW r \in receipts' PROVE docs[r.doc] # NoEntry /\ transfers[r.transfer] # NoEntry
    BY <1>1, <1>5 DEF ReceiptsTold
  <2>2. ASSUME NEW r \in receipts', r.active PROVE r \in receipts
    BY <1>5, <2>2
  <2> QED
    BY <1>1, <1>4, <1>6, <2>1, <2>2 DEF ReceiptsTold
<1>9. ASSUME NEW u \in Rows, Stands(transfers, u) PROVE ReceiptsOf(u)' = ReceiptsOf(u)
  <2>1. u # t
    BY <1>2, <1>9 DEF Dropped, Stands
  <2>2. \A r \in receipts' : r.transfer = u => r \in receipts
    BY <1>5, <2>1
  <2>3. \A r \in receipts : r.transfer = u => r \in receipts'
    <3>1. ASSUME NEW r \in receipts, r.transfer = u PROVE r \in receipts'
      <4>1. r = IF r.transfer = t THEN [r EXCEPT !.active = FALSE] ELSE r
        BY <2>1, <3>1
      <4> QED
        BY <1>3, <4>1
    <3> QED
      BY <3>1
  <2> QED
    BY <2>2, <2>3 DEF ReceiptsOf
<1>10. TransfersTold'
  <2>1. ASSUME NEW u \in Rows, Stands(transfers', u)
        PROVE  /\ transfers'[u].amount = Sum(ReceiptsOf(u)')
               /\ transfers'[u].kind = "expense" => transfers'[u].at # NoDate
    BY <1>1, <1>4, <1>9, <2>1 DEF TransfersTold
  <2> QED
    BY <2>1 DEF TransfersTold, Sum
<1>11. DeletesKnow'
  <2>1. \A u \in Rows : Dropped(u) => Dropped(u)'
    BY <1>4 DEF Dropped
  <2>2. /\ \A q \in Procs : q # p => phase'[q] = phase[q] /\ job'[q] = job[q]
        /\ phase'[p] # "receipts" /\ DOMAIN phase' = Procs /\ DOMAIN job' = Procs
    BY <1>1 DEF DeleteReceipts, Finish, Goto, DeletesKnow
  <2> QED
    BY <1>1, <2>1, <2>2, SlotsTurn
<1> QED
  BY <1>1, <1>4, <1>7, <1>8, <1>10, <1>11 DEF StatementsInv

LEMMA StatementSteps ==
  ASSUME StatementNames, StatementsInv, [StatementsNext]_<<slotVars, statementVars>>
  PROVE  StatementsInv'
<1>1. ASSUME NEW p \in Procs, Free(p), NEW d \in Rows,
             \/ \E kind \in PaidKinds, date \in Days, gross \in Amounts :
                   SaveSaleOrExpense(p, d, kind, date, gross)
             \/ \E back \in Amounts \cup {0} : SaveReturn(p, d, back)
             \/ UpdateDetails(p, d) \/ DeleteSaleOrExpense(p, d)
      PROVE  StatementsInv'
  BY <1>1, DocumentSteps
<1>2. ASSUME NEW p \in Procs, Free(p), NEW t \in Rows, NEW kind \in PaidKinds,
             NEW at \in Instants, NEW paid \in FormLines(kind), SaveTransfer(p, t, kind, at, paid)
      PROVE  StatementsInv'
  BY <1>2, TransferSaved
<1>3. ASSUME NEW p \in Procs, NEW t \in Rows, DeleteTransfer(p, t) PROVE StatementsInv'
  BY <1>3, TransferDropped
<1>4. ASSUME NEW p \in Procs, DeleteReceipts(p) PROVE StatementsInv'
  BY <1>4, ReceiptsDropped
<1>5. ASSUME NEW p \in Procs, FailStatement(p) PROVE StatementsInv'
  <2>1. UNCHANGED statementVars /\ started' = started
    BY <1>5 DEF FailStatement, Fail
  <2>2. DeletesKnow
    BY DEF StatementsInv
  <2>3. \A t \in Rows : Dropped(t) => Dropped(t)'
    BY <2>1 DEF statementVars, Dropped
  <2>4. /\ \A q \in Procs : q # p => phase'[q] = phase[q] /\ job'[q] = job[q]
        /\ phase'[p] # "receipts" /\ DOMAIN phase' = Procs /\ DOMAIN job' = Procs
    BY <1>5, <2>2 DEF FailStatement, Fail, DeletesKnow
  <2>5. DeletesKnow'
    BY <2>2, <2>3, <2>4, SlotsTurn
  <2>6. StatementsTypeOK' /\ ReceiptsTold' /\ TransfersTold'
    BY <2>1 DEF StatementsInv, statementVars, StatementsTypeOK, ReceiptsTold, TransfersTold,
       ReceiptsOf, Sum, Stands
  <2> QED
    BY <2>1, <2>5, <2>6 DEF StatementsInv
<1>6. CASE UNCHANGED <<slotVars, statementVars>>
  <2>1. UNCHANGED statementVars /\ UNCHANGED <<phase, job>> /\ started' = started
    BY <1>6 DEF slotVars
  <2>2. \A t \in Rows : Dropped(t) => Dropped(t)'
    BY <2>1 DEF statementVars, Dropped
  <2>3. DeletesKnow'
    BY <2>1, <2>2, SlotsKept DEF StatementsInv
  <2>4. StatementsTypeOK' /\ ReceiptsTold' /\ TransfersTold'
    BY <2>1 DEF StatementsInv, statementVars, StatementsTypeOK, ReceiptsTold, TransfersTold,
       ReceiptsOf, Sum, Stands
  <2> QED
    BY <2>1, <2>3, <2>4 DEF StatementsInv
<1>7. CASE StatementsNext
  BY <1>1, <1>2, <1>3, <1>4, <1>5, <1>7 DEF StatementsNext
<1> QED
  BY <1>6, <1>7

\* The six reports of an account tell one story in every reachable state, for any days,
\* amounts and requests, whatever overlaps, and even while a delete of a transfer is
\* under way or has failed halfway.
THEOREM StatementsTell ==
  ASSUME StatementNames
  PROVE  StatementsSpec => [](StatementsTypeOK /\ StatementsReconcile)
<1>1. SlotsInit /\ StatementsInit => StatementsInv
  BY InitStatements
<1>2. StatementsInv /\ [StatementsNext]_<<slotVars, statementVars>> => StatementsInv'
  BY StatementSteps
<1>3. StatementsInv => StatementsTypeOK /\ StatementsReconcile
  BY ReportsReconcile DEF StatementsInv
<1> QED
  BY <1>1, <1>2, <1>3, PTL DEF StatementsSpec

==============================================================================
