-------------------------- MODULE AccountStatements --------------------------
(***************************************************************************)
(* What an account owes and is owed, as six reports tell it: its history,  *)
(* opening balance and transfers (accounts.service.ts), the sales and      *)
(* expenses with disparities, the supplier totals, the balance of an own   *)
(* account, and the payments of a month.                                   *)
(*                                                                         *)
(* Each report sums the same documents, transfers and receipts in SQL of   *)
(* its own.  A document is dated by a calendar day, a transfer by an       *)
(* instant in UTC: a business day begins six hours into the calendar day.  *)
(* Time is in quarters of a day.                                           *)
(*                                                                         *)
(* The documents are those of one account, client and supplier; the        *)
(* transfers are its payments to one own account and that account's to it  *)
(* (types 2 and 3).  Each handler is one step: what overlaps and what moves*)
(* between documents is in TransferTotals and OrderSales.                  *)
(***************************************************************************)
EXTENDS RequestSlots

CONSTANTS
    LastDay,     \* bound: days from 0
    Amounts,     \* of a document or a receipt: positive
    NoEntry, NoDate

VARIABLES
    docs,          \* order_sales and expenses
    transfers,
    receipts       \* transfer_receipts

statementVars == <<docs, transfers, receipts>>

PaidKinds == {"sale", "expense"}
Days == 0..LastDay
Instants == {4 * d + q : d \in Days, q \in {0, 1}}

\* Rows are named by the request that created them; those of 0 were there before.
Rows == Serials \cup {0}

\* gross is subtotal + tax, less what an expense retains; back what came back of a sale.
SaleOrExpense == [kind : PaidKinds, active : BOOLEAN, canceled : BOOLEAN, date : Days,
             gross : Amounts, back : Nat]
\* kind is that of the documents it pays.
Transfer == [kind : PaidKinds, active : BOOLEAN, at : Instants \cup {NoDate}, amount : Nat]
Receipt == [id : Rows \X Rows, transfer : Rows, doc : Rows, amount : Amounts, active : BOOLEAN]

\* Amounts are positive, and what stands for no row and no date is none.
StatementNames ==
    /\ LastDay \in Nat
    /\ Amounts \subseteq Nat \ {0}
    /\ NoEntry \notin SaleOrExpense \cup Transfer
    /\ NoDate \notin Instants

StatementsTypeOK ==
    /\ docs \in [Rows -> SaleOrExpense \cup {NoEntry}]
    /\ transfers \in [Rows -> Transfer \cup {NoEntry}]
    /\ receipts \subseteq Receipt

\* Nothing is there, or a sale, and perhaps a payment of it from when these had no date.
StatementsInit ==
    \E date \in Days, gross, amount \in Amounts, sold, paid \in BOOLEAN :
        /\ paid => sold
        /\ docs = [d \in Rows |-> IF d # 0 \/ ~sold THEN NoEntry ELSE
                     [kind |-> "sale", active |-> TRUE, canceled |-> FALSE,
                      date |-> date, gross |-> gross, back |-> 0]]
        /\ transfers = [t \in Rows |-> IF t # 0 \/ ~paid THEN NoEntry ELSE
                          [kind |-> "sale", active |-> TRUE, at |-> NoDate, amount |-> amount]]
        /\ receipts = IF ~paid THEN {} ELSE
                        {[id |-> <<0, 0>>, transfer |-> 0, doc |-> 0, amount |-> amount,
                          active |-> TRUE]}

----------------------------------------------------------------------------

Stands(table, x) == table[x] # NoEntry /\ table[x].active

Sum(rows) == SumFunction([r \in rows |-> r.amount])

ReceiptsOf(t) == {r \in receipts : r.transfer = t /\ r.active}
ReceiptsOn(d) == {r \in receipts : r.doc = d /\ r.active}

----------------------------------------------------------------------------
(* The documents *)

\* A sale has a line for what came back of it; a deleted document passes as new and
\* stays deleted.
SaveSaleOrExpense(p, d, kind, date, gross) ==
    /\ Instant(p)
    /\ IF docs[d] = NoEntry
       THEN d = NextSerial
       ELSE docs[d].kind = kind /\ (docs[d].active => gross >= docs[d].back)
    /\ docs' = [docs EXCEPT ![d] =
          IF @ = NoEntry
          THEN [kind |-> kind, active |-> TRUE, canceled |-> FALSE, date |-> date,
                gross |-> gross, back |-> 0]
          ELSE [@ EXCEPT !.date = date, !.gross = gross]]
    /\ UNCHANGED <<transfers, receipts>>

\* An adjustment of the sale is saved or deleted, and its net totals computed.
SaveReturn(p, d, back) ==
    /\ Stands(docs, d) /\ docs[d].kind = "sale" /\ back \in 0..docs[d].gross
    /\ Instant(p)
    /\ docs' = [docs EXCEPT ![d].back = back]
    /\ UNCHANGED <<transfers, receipts>>

\* updateOrderSaleDetails and updateExpenseDetails, whatever has been paid.
UpdateDetails(p, d) ==
    /\ Stands(docs, d)
    /\ Instant(p)
    /\ docs' = [docs EXCEPT ![d].canceled = ~@]
    /\ UNCHANGED <<transfers, receipts>>

DeleteSaleOrExpense(p, d) ==
    /\ Stands(docs, d)
    /\ ~docs[d].canceled /\ docs[d].back = 0 /\ ReceiptsOn(d) = {}
    /\ Instant(p)
    /\ docs' = [docs EXCEPT ![d].active = FALSE]
    /\ UNCHANGED <<transfers, receipts>>

----------------------------------------------------------------------------
(* The transfers *)

\* A form names documents of one kind, deleted or not, each with an amount.
FormLines(kind) ==
    UNION {[S -> Amounts] : S \in (SUBSET {d \in Rows : docs[d] # NoEntry /\ docs[d].kind = kind}) \ {{}}}

\* upsertTransfer.  Receipts the form drops stay, not active.
SaveTransfer(p, t, kind, at, paid) ==
    /\ Instant(p)
    /\ t = NextSerial \/ transfers[t] # NoEntry
    /\ Stands(transfers, t) => transfers[t].kind = kind
    /\ LET old == ReceiptsOf(t)
           new == DOMAIN paid \ {r.doc : r \in old}
       IN receipts' =
            (receipts \ old)
            \cup {IF r.doc \in DOMAIN paid THEN [r EXCEPT !.amount = paid[r.doc]]
                  ELSE [r EXCEPT !.active = FALSE] : r \in old}
            \cup {[id |-> <<NextSerial, d>>, transfer |-> t, doc |-> d, amount |-> paid[d],
                   active |-> TRUE] : d \in new}
    /\ transfers' = [transfers EXCEPT ![t] =
          [kind |-> kind, active |-> transfers[t] = NoEntry \/ transfers[t].active, at |-> at,
           amount |-> SumFunction(paid)]]
    /\ UNCHANGED docs

\* deleteTransfer is no transaction: the header, then the receipts.
DeleteTransfer(p, t) ==
    /\ Stands(transfers, t)
    /\ Start(p, "receipts", [target |-> t], {})
    /\ transfers' = [transfers EXCEPT ![t].active = FALSE]
    /\ UNCHANGED <<docs, receipts>>

DeleteReceipts(p) ==
    /\ phase[p] = "receipts"
    /\ receipts' = {IF r.transfer = job[p].target THEN [r EXCEPT !.active = FALSE] ELSE r :
                       r \in receipts}
    /\ Finish(p)
    /\ UNCHANGED <<docs, transfers>>

FailStatement(p) ==
    /\ Fail(p, TRUE)
    /\ UNCHANGED statementVars

StatementsNext ==
    \E p \in Procs :
        \/ /\ Free(p)
           /\ \E x \in Rows :
                \/ \E kind \in PaidKinds, date \in Days, gross \in Amounts :
                      SaveSaleOrExpense(p, x, kind, date, gross)
                \/ \E back \in Amounts \cup {0} : SaveReturn(p, x, back)
                \/ UpdateDetails(p, x) \/ DeleteSaleOrExpense(p, x)
                \/ \E kind \in PaidKinds : \E at \in Instants, paid \in FormLines(kind) :
                      SaveTransfer(p, x, kind, at, paid)
                \/ DeleteTransfer(p, x)
        \/ DeleteReceipts(p)
        \/ FailStatement(p)

\* The component by itself.
StatementsSpec ==
    SlotsInit /\ StatementsInit /\ [][StatementsNext]_<<slotVars, statementVars>>

----------------------------------------------------------------------------
(* The reports.  A period is the days from..until, both included. *)

\* The business day's first instant.  Mutant: the calendar day's.
CalendarDayStart(d) == 4 * d
BusinessDayStart(d) == 4 * d + 1

\* businessTimeSql shifts the instant instead of the bounds.
BusinessTime(t) == t - 1

\* The documents and receipts every report but the last two asks for.
InForce == {d \in Rows : Stands(docs, d) /\ ~docs[d].canceled}
Paid == {r \in receipts : r.active /\ Stands(transfers, r.transfer)}
PaidOn(d) == Sum({r \in Paid : r.doc = d})

\* net_total_with_tax of a sale; an expense has nothing back.
Owed(d) == docs[d].gross - docs[d].back

\* getAccountTransactionHistory.
History(from, until) == {d \in InForce : docs[d].date \in from..until}

\* A transfer that has no instant goes by the day of its document.
Before(r, day) ==
    LET t == transfers[r.transfer] IN
    IF t.at # NoDate THEN t.at < BusinessDayStart(day) ELSE docs[r.doc].date < day

\* getAccountTransfers.
AccountTransfers(from, until) ==
    {r \in Paid : r.doc \in InForce /\ ~Before(r, from) /\ Before(r, until + 1)}

\* getAccountOpeningBalance: sales at their full amount.
OpeningBalance(from) ==
    SumFunction([d \in {x \in InForce : docs[x].date < from} |-> docs[d].gross])
      - Sum({r \in Paid : r.doc \in InForce /\ Before(r, from)})

\* getOrderSalesWithDisparities and getExpensesWithDisparities: even when nothing is
\* owed, a document not paid yet is listed.
WithDisparities ==
    {d \in InForce : PaidOn(d) # Owed(d) \/ {r \in Paid : r.doc = d} = {}}

\* getThirdPartyAccountTransferSummary.
SupplierTotals ==
    LET expenses == {d \in InForce : docs[d].kind = "expense"} IN
    [owed |-> SumFunction([d \in expenses |-> Owed(d)]),
     paid |-> SumFunction([d \in expenses |-> PaidOn(d)])]

\* getOwnAccountsTransferSummary: by the amounts of the transfers.
OwnBalance ==
    LET moved(kind) == SumFunction([t \in {x \in Rows : Stands(transfers, x) /\ transfers[x].kind = kind}
                                      |-> transfers[t].amount])
    IN moved("sale") - moved("expense")

\* getTransfersSummary: receipts in force or not, of expenses canceled or not.
TransfersSummary(from, until) ==
    Sum({r \in receipts :
           LET t == transfers[r.transfer] IN
           /\ Stands(transfers, r.transfer) /\ t.kind = "expense"
           /\ Stands(docs, r.doc)
           /\ t.at # NoDate /\ BusinessTime(t.at) \in (4 * from)..(4 * (until + 1) - 1)})

----------------------------------------------------------------------------
(* What is claimed of them *)

Balance(S) == SumFunction([d \in S |-> Owed(d) - PaidOn(d)])

\* A statement leads from one opening balance to another, but for the returns of
\* the sales it lists.
StatementContinues(from, until) ==
    LET listed == History(from, until) IN
    OpeningBalance(until + 1) =
        OpeningBalance(from) + SumFunction([d \in listed |-> docs[d].gross])
                             - Sum(AccountTransfers(from, until))

\* What the lists of disparities leave out is neither owed nor overpaid.
DisparitiesTellBalance == Balance(WithDisparities) = Balance(InForce)

SupplierTotalsAgree ==
    SupplierTotals.owed - SupplierTotals.paid = Balance({d \in InForce : docs[d].kind = "expense"})

\* The own account's balance is what the receipts in force came to.
OwnBalanceAgrees ==
    LET of(kind) == Sum({r \in Paid : transfers[r.transfer].kind = kind}) IN
    OwnBalance = of("sale") - of("expense")

\* The payments of a period are those the statements of the period list, unless an
\* edit dropped a receipt, an expense was canceled or a payment has no date.
SummaryAgrees(from, until) ==
    /\ \A r \in receipts : Stands(transfers, r.transfer) => r.active
    /\ \A d \in Rows : Stands(docs, d) => ~docs[d].canceled
    => TransfersSummary(from, until) =
         Sum({r \in AccountTransfers(from, until) : docs[r.doc].kind = "expense"})

\* The six reports tell one story, at any moment, even when a delete of a transfer
\* is under way or has failed halfway, each with the exceptions stated.
StatementsReconcile ==
    /\ \A from \in Days : \A until \in from..LastDay :
          StatementContinues(from, until) /\ SummaryAgrees(from, until)
    /\ DisparitiesTellBalance
    /\ SupplierTotalsAgree
    /\ OwnBalanceAgrees

\* "The account's net balance from all activity before `from`", the
\* "carried-forward opening balance", with sales that "report their net total ...
\* so the statement's saldo matches what the client still owes"
\* (accounts.service.ts): the balance a statement ends with is the one the next
\* begins with.  Not so: the opening balance has sales at their full amount.
StatementCarriesForward ==
    \A from \in Days : \A until \in from..LastDay :
        OpeningBalance(until + 1) =
            OpeningBalance(from) + SumFunction([d \in History(from, until) |-> Owed(d)])
                                 - Sum(AccountTransfers(from, until))

=============================================================================
