----------------------------- MODULE MCDocuments -----------------------------
(***************************************************************************)
(* Order sales, expenses, the deletion of records, the activity trail and  *)
(* the statements of an account, one in a behaviour.  They share no table  *)
(* at the detail they are modelled in, so their steps commute, and `part`  *)
(* says which of them a behaviour is of.                                   *)
(***************************************************************************)
EXTENDS DocumentReports, Records, ActivityAudit, AccountStatements, TLC

CONSTANTS a, b

VARIABLE part

DocumentVars == <<part, slotVars, saleVars, expenseVars, recordVars, auditVars, statementVars>>

ASSUME StatementNamesHold == StatementNames

\* Records are of one kind, so that a document may be moved from one to another.
\* The order request begins with both products, two kilos of one.  A line of it
\* may have two amounts, and of the other one.  The sale of the statements is of the
\* first day and not the smallest, and not paid or paid in part.
ProductKilos == a :> {1, 2} @@ b :> {1}
ResourceUnits == a :> {1, 2}

Init ==
    /\ part \in {"sales", "expenses", "records", "trail", "statements"}
    /\ SlotsInit /\ SalesInit /\ ExpensesInit /\ RecordsInit /\ AuditInit
    /\ StatementsInit
    /\ Items(ordered) = {a, b}
    /\ TotalOf(ordered, a) = 2
    /\ \A m, n \in Masters : masters[m].kind = masters[n].kind
    /\ part # "records" => \A m \in Masters : masters[m].kind = "resource"
    /\ part # "trail" => trail = Trail("machine")
    /\ IF part = "statements"
       THEN /\ docs[0] # NoEntry /\ docs[0].date = 0 /\ docs[0].gross = 2
            /\ \A r \in receipts : r.amount = 1
       ELSE docs[0] = NoEntry

\* Two mutations of a record, one after the other or at once.  Those of two records have
\* nothing in common, so those at once are of one; of the entities, quotations and
\* expenses write in all the ways there are; and a capture fails in one that is alone.
Several == {Trail("order_quotation"), Trail("expense")}
AtOnce ==
    LET busy == {q \in Procs : phase'[q] # "idle"} IN
    /\ started' <= 2
    /\ Cardinality({job'[p].target : p \in busy}) <= 1
    /\ Cardinality(busy) > 1 =>
          /\ trail \in Several
          /\ \A p \in busy : CaptureFailed \notin {job'[p].old, job'[p].new}

\* The totals of a sale are sent, and not computed, only where it has two kilos of one
\* product: at its creation or at an edit of it, before returns or after.
Sent ==
    \A p \in InFlight({"sale_tx"})' :
        ~job'[p].auto => Items(job'[p].form) = {a} /\ Total(job'[p].form) = 2

\* The requests that write what the statements tell come one at a time: these are
\* read between any two of their writes all the same.
Next ==
    \/ /\ part = "sales" /\ SalesNext /\ Sent
       /\ UNCHANGED <<part, expenseVars, recordVars, auditVars, statementVars>>
    \/ /\ part = "expenses" /\ ExpensesNext
       /\ UNCHANGED <<part, saleVars, recordVars, auditVars, statementVars>>
    \/ /\ part = "records" /\ RecordsNext
       /\ UNCHANGED <<part, saleVars, expenseVars, auditVars, statementVars>>
    \/ /\ part = "trail" /\ AuditNext /\ AtOnce
       /\ UNCHANGED <<part, saleVars, expenseVars, recordVars, statementVars>>
    \/ /\ part = "statements" /\ StatementsNext
       /\ Idle \/ started' = started
       /\ UNCHANGED <<part, saleVars, expenseVars, recordVars, auditVars>>

Spec == Init /\ [][Next]_DocumentVars

\* The type invariant: a part the behaviour is not of stays as it began.
DocumentsTypeOK ==
    /\ SlotsTypeOK
    /\ CASE part = "sales" -> SalesTypeOK
         [] part = "expenses" -> ExpensesTypeOK
         [] part = "records" -> RecordsTypeOK
         [] part = "trail" -> AuditTypeOK
         [] part = "statements" -> StatementsTypeOK

\* Not continued are states after rival requests have overlapped, of which nothing
\* but types is claimed, those of the activity trail excepted.
Calm == contended => part = "trail"

Symmetry == Permutations(Procs) \cup Permutations(Masters)

=============================================================================
