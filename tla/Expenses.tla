------------------------------ MODULE Expenses ------------------------------
(***************************************************************************)
(* Expenses, their resource lines and the recurring copies a month gets:   *)
(* expenses.service.ts.                                                    *)
(*                                                                         *)
(* Saving and deleting an expense are no transactions: every statement is  *)
(* a step.  A generation is one, over a snapshot.  An expense is named by  *)
(* the request that created it and its place among the items of that       *)
(* request.  A generation looks for an earlier copy in one month of one    *)
(* account, so an expense has a `period`, which stands for both.  Amounts  *)
(* are units at a price of one, without tax.  A save may be refused for    *)
(* more reasons (supplier, receipts, codes), as a delete may (receipts, a  *)
(* cancelled expense): each only takes behaviours away.                    *)
(***************************************************************************)
EXTENDS RequestSlots, RowDiff, Sequences

CONSTANTS Resources, Units, Periods, NoExpense

ASSUME ExpensesBounds == MaxRequests \in Nat /\ Units \in [Resources -> SUBSET (Nat \ {0})]

VARIABLES
    expenses,      \* the expenses table
    lines,         \* expense_resources
    moved,         \* history: a save has moved a stored expense to another period
    revived        \* history: a form has named a line that was removed

expenseVars == <<expenses, lines, moved, revived>>

\* A generation has one item or two.
Expense == Serials \X {1, 2}
ExpenseRecord ==
    [active : BOOLEAN, period : Periods, subtotal : Nat,
     from : Expense \cup {NoExpense}]
Line == [id : Expense \X Resources, doc : Expense, item : Resources,
         amount : UNION Range(Units), active : BOOLEAN]

\* The resources are finitely many, and what stands for no id is no line's.
ASSUME ExpenseNames == IsFiniteSet(Resources) /\ NoId \notin Expense \X Resources

ExpensesTypeOK ==
    /\ DOMAIN expenses \subseteq Expense
    /\ Range(expenses) \subseteq ExpenseRecord
    /\ lines \subseteq Line
    /\ {moved, revived} \subseteq BOOLEAN

ExpensesInit ==
    /\ expenses = <<>>
    /\ lines = {}
    /\ moved = FALSE
    /\ revived = FALSE

Stored(e) == e \in DOMAIN expenses
LiveExpense(e) == Stored(e) /\ expenses[e].active

Put(e, record) == [x \in DOMAIN expenses \cup {e} |-> IF x = e THEN record ELSE expenses[x]]

\* Two saves of one expense are rivals, and any two generations.
SavesOfExpense(e) ==
    {q \in InFlight({"expense_header", "expense_lines"}) : job[q].target = e}
Generations == InFlight({"generate_tx", "generate_commit"})

----------------------------------------------------------------------------
(* upsertExpense *)

\* validateUpsertExpense: some line, and the subtotal is theirs.
BeginExpense(p, e, period) ==
    /\ Free(p)
    /\ e = <<NextSerial, 1>> \/ Stored(e)
    /\ \E form \in Forms(RowsOf(lines, e), Resources, Units) \ {{}} :
         Start(p, "expense_header",
               [n |-> <<NextSerial, 1>>, target |-> e, form |-> form, old |-> {},
                record |-> [active |-> TRUE, period |-> period,
                            subtotal |-> Total(form), from |-> NoExpense]],
               SavesOfExpense(e))
    /\ UNCHANGED expenseVars

\* An update leaves alone whether the expense is active and what it is a copy of.
\* The old lines are read next, in force or not.
ExpenseHeader(p) ==
    /\ phase[p] = "expense_header"
    /\ LET j == job[p]
           e == j.target
       IN
       /\ expenses' = Put(e, IF Stored(e) THEN [j.record EXCEPT !.active = expenses[e].active,
                                                                !.from = expenses[e].from]
                             ELSE j.record)
       /\ moved' = (moved \/ (Stored(e) /\ expenses[e].period # j.record.period))
       /\ revived' = (revived \/ \E r \in RowsOf(lines, e) : ~r.active /\ r.id \in Ids(j.form))
       /\ Goto(p, "expense_lines", [j EXCEPT !.old = RowsOf(lines, e)])
    /\ UNCHANGED lines

\* Mutant: the units of a line that stays are not written.
PriceUpdated(r, form) == r

\* An update does not write active: a line that was removed stays removed.
LineUpdated(r, form) == [r EXCEPT !.amount = LineOf(form, r.id).amount]

\* The lines after one write: a delete, a create or an update.
LineWritten(old, form, doc, n) ==
    {IF r.id \in Ids(Removed(old, form)) THEN Deleted(r)
     ELSE IF r.id \in Ids(Kept(old, form)) THEN LineUpdated(r, form) ELSE r : r \in lines}
    \cup {NewRow(l, doc, n) : l \in Created(old, form)}

ExpenseLine(p) ==
    /\ phase[p] = "expense_lines"
    /\ LET j == job[p] IN
       \E w \in NextWrites(j.old, j.form) :
          /\ lines' = LineWritten(w[1], w[2], j.target, j.n)
          /\ Goto(p, "expense_lines", [j EXCEPT !.old = @ \ w[1], !.form = @ \ w[2]])
    /\ UNCHANGED <<expenses, moved, revived>>

ExpenseSaved(p) ==
    /\ phase[p] = "expense_lines"
    /\ job[p].old = {} /\ job[p].form = {}
    /\ Finish(p)
    /\ UNCHANGED expenseVars

----------------------------------------------------------------------------
(* deleteExpense: the header, then the lines, under whatever was checked *)

BeginDeleteExpense(p, e) ==
    /\ LiveExpense(e)
    /\ Start(p, "expense_delete", [target |-> e], {})
    /\ UNCHANGED expenseVars

DeleteExpenseHeader(p) ==
    /\ phase[p] = "expense_delete"
    /\ expenses' = [expenses EXCEPT ![job[p].target].active = FALSE]
    /\ Goto(p, "expense_delete_lines", job[p])
    /\ UNCHANGED <<lines, moved, revived>>

DeleteExpenseLines(p) ==
    /\ phase[p] = "expense_delete_lines"
    /\ lines' = {IF r.doc = job[p].target THEN Deleted(r) ELSE r : r \in lines}
    /\ Finish(p)
    /\ UNCHANGED <<expenses, moved, revived>>

----------------------------------------------------------------------------
(* generateRecurringExpenses: one transaction over the items of the request *)

\* The lines of the items are those the user left in the dialog, if any.  The
\* first statement of the transaction takes the snapshot.
BeginGeneration(p) ==
    /\ Free(p)
    /\ \E n \in 1..2, sources \in [1..2 -> DOMAIN expenses], period \in Periods,
          form \in Forms({}, Resources, Units) :
         Start(p, "generate_tx",
               [n |-> NextSerial, table |-> <<>>,
                items |-> [k \in 1..n |-> [source |-> sources[k], period |-> period,
                                           form |-> form]]],
               Generations)
    /\ UNCHANGED expenseVars

GenerationSnapshot(p) ==
    /\ phase[p] = "generate_tx"
    /\ Goto(p, "generate_commit", [job[p] EXCEPT !.table = expenses])
    /\ UNCHANGED expenseVars

\* Mutant: a copy is looked for in the period of its source.
CopyOfSource(table, item) ==
    \E e \in DOMAIN table : /\ table[e].active
                            /\ table[e].from = item.source
                            /\ table[e].period = table[item.source].period

\* The copy of the item's source that its period has already.
HasCopy(table, item) ==
    \E e \in DOMAIN table : /\ table[e].active
                            /\ table[e].from = item.source
                            /\ table[e].period = item.period

\* The items that make a copy: the transaction sees the copies of earlier items.
Copied(table, items) ==
    {k \in DOMAIN items : /\ ~HasCopy(table, items[k])
                          /\ \A i \in 1..(k - 1) : items[i].source # items[k].source}

\* A source that is not active fails the transaction: that is FailExpense.
GenerationCommit(p) ==
    /\ phase[p] = "generate_commit"
    /\ LET j == job[p]
           copied == Copied(j.table, j.items)
           new == {<<j.n, k>> : k \in copied}
       IN
       /\ \A k \in DOMAIN j.items : j.table[j.items[k].source].active
       /\ expenses' = [e \in DOMAIN expenses \cup new |->
             IF e \notin new THEN expenses[e]
             ELSE [active |-> TRUE, period |-> j.items[e[2]].period,
                   subtotal |-> Total(j.items[e[2]].form), from |-> j.items[e[2]].source]]
       /\ lines' = lines \cup UNION {{NewRow(l, <<j.n, k>>, <<j.n, k>>) : l \in j.items[k].form} :
                                       k \in copied}
    /\ Finish(p)
    /\ UNCHANGED <<moved, revived>>

----------------------------------------------------------------------------

FailExpense(p) ==
    /\ Fail(p, phase[p] \in {"expense_lines", "expense_delete_lines"})
    /\ UNCHANGED expenseVars

ExpensesNext ==
    \E p \in Procs :
        \/ \E e \in Expense, period \in Periods : BeginExpense(p, e, period)
        \/ ExpenseHeader(p) \/ ExpenseLine(p) \/ ExpenseSaved(p)
        \/ \E e \in Expense : BeginDeleteExpense(p, e)
        \/ DeleteExpenseHeader(p) \/ DeleteExpenseLines(p)
        \/ BeginGeneration(p) \/ GenerationSnapshot(p) \/ GenerationCommit(p)
        \/ FailExpense(p)

\* The component by itself.
ExpensesSpec ==
    SlotsInit /\ ExpensesInit /\ [][ExpensesNext]_<<slotVars, expenseVars>>

----------------------------------------------------------------------------
(* What is claimed of them *)

\* The subtotal of an expense in force is the sum of its lines in force, when no
\* rivals overlapped, no request failed halfway and no form named a line an
\* earlier save had removed: LineUpdated does not bring that line back.
ExpenseAddsUp ==
    Idle /\ ~contended /\ ~interrupted /\ ~revived =>
        \A e \in Expense : LiveExpense(e) =>
            expenses[e].subtotal = Total(ActiveOf(lines, e))

\* A month of an account has one recurring copy of an expense at most, through
\* deletes, failures and generations that name an expense twice, unless two
\* generations overlapped or a copy or its source was moved.
OneCopyPerMonth ==
    ~contended /\ ~moved =>
        \A e, f \in Expense :
            /\ LiveExpense(e) /\ LiveExpense(f) /\ e # f
            /\ expenses[e].from # NoExpense
            => <<expenses[e].from, expenses[e].period>> # <<expenses[f].from, expenses[f].period>>

=============================================================================
