--------------------------- MODULE DocumentReports ---------------------------
(***************************************************************************)
(* The summaries of sales, order requests and expenses, read from the      *)
(* lines of the documents, which the documents' own totals were stored     *)
(* from: sales-summary, order-request-summary and expenses-summary.        *)
(*                                                                         *)
(* Whether a document is canceled is written by saves and detail edits,    *)
(* whatever else holds of it, and only these reports and deletes read it:  *)
(* here it is an argument, any set of documents.  So is, of sales,         *)
(* reconciliation_only, which the summaries treat in the same way.  Tax    *)
(* goes to lines in proportion and is left out, as prices are.             *)
(***************************************************************************)
EXTENDS OrderSales, Expenses

\* What came back of an item of a sale, summed before it is joined to the line.
\* Mutant: joined line by line, each return makes a row of its own.
BackOf(s, item) == TotalOf(ReturnsOn(s), item)
NetFanned(r) ==
    LET back == {q \in ReturnsOn(r.doc) : q.item = r.item} IN
    IF back = {} THEN r.amount ELSE SumFunction([q \in back |-> r.amount - q.amount])
NetLine(r) == r.amount - BackOf(r.doc, r.item)

\* getSalesSummary: the lines in force of the sales in force, here of one, as
\* every grouping adds up rows of these.
SalesSummary(s) ==
    IF Live(sales, s) THEN SumFunction([r \in ActiveOf(sold, s) |-> NetLine(r)]) ELSE 0

\* getOrderRequestSummary: what an item has in the sales of the request.
FulfilledBy(item, canceled) ==
    TotalOf({r \in SoldLines : r.doc \notin canceled}, item)

\* getExpensesSummary: the lines in force of the expenses in force.
ExpensesSummary(e) == IF LiveExpense(e) THEN Total(ActiveOf(lines, e)) ELSE 0

\* Sales and expenses share no table at the detail they are modelled in, so their steps
\* commute: a behaviour is of the one or of the other.
ReportsSpec ==
    /\ SlotsInit /\ SalesInit /\ ExpensesInit
    /\ \/ [][SalesNext /\ UNCHANGED expenseVars]_<<slotVars, saleVars, expenseVars>>
       \/ [][ExpensesNext /\ UNCHANGED saleVars]_<<slotVars, saleVars, expenseVars>>

----------------------------------------------------------------------------
(* What is claimed of them *)

\* When no rivals overlapped and no request failed halfway, documents and summaries
\* tell the same: the totals stored on a sale and on an expense are those of their
\* lines, less what came back; the summaries, which read the lines, come to the same;
\* and no order request shows as fulfilled beyond what it asks, canceled sales or not.
\* The totals of a sale that were sent and not computed are another matter: what they
\* are above or below the lines, its net total is above or below the summary.
SummariesAddUp ==
    /\ NetTotalsExact
    /\ ExpenseAddsUp
    /\ Idle /\ ~contended /\ ~interrupted =>
          /\ \A s \in Serials : Live(sales, s) =>
                /\ sales[s].auto => SalesSummary(s) = sales[s].net
                /\ sales[s].net - SalesSummary(s) =
                      sales[s].subtotal - Total(ActiveOf(sold, s))
          /\ ~revived => \A e \in DOMAIN expenses :
                LiveExpense(e) => ExpensesSummary(e) = expenses[e].subtotal
          /\ \A r \in ActiveOf(ordered, PEDIDO), canceled \in SUBSET ActiveSales :
                FulfilledBy(r.item, canceled) <= r.amount

=============================================================================
