----------------------------- MODULE OrderSales -----------------------------
(***************************************************************************)
(* An order request (pedido), the sales drawn from it and the returns on   *)
(* those sales: order-requests.service.ts, order-sale.service.ts and       *)
(* order-adjustments.service.ts.                                           *)
(*                                                                         *)
(* A save validates, then begins its transaction: what it checked may have *)
(* changed.  Requests and sales are saved in one REPEATABLE READ           *)
(* transaction, a snapshot and a commit as in TransferTotals.  A return is *)
(* not: each of its statements is a step, and so is each of a delete.      *)
(*                                                                         *)
(* Amounts are kilos at a price of one, so a subtotal is a sum of kilos;   *)
(* tax is in proportion and left out.  A client may also send the totals   *)
(* of a sale as it wants them.  Groups of kilos are checked like kilos.    *)
(* A return is an adjustment of type 6; the other types concern no sale.   *)
(* An update may be refused for more reasons (codes, prices, the account): *)
(* each only takes behaviours away.                                        *)
(***************************************************************************)
EXTENDS RequestSlots, RowDiff

CONSTANTS Products, Kilos, SentSubtotals, NoRow

\* Kilos: the amounts a line of each product may have.  SentSubtotals: what clients may
\* send as the subtotal of a sale.
ASSUME SalesBounds ==
    /\ MaxRequests \in Nat
    /\ Kilos \in [Products -> SUBSET (Nat \ {0})]
    /\ SentSubtotals \subseteq Int

VARIABLES
    request,       \* the order_requests row: [active, open]
    ordered,       \* order_request_products
    sales,         \* order_sales, by the request that created each
    sold,          \* order_sale_products
    returns,       \* order_adjustments: the sale of each and whether it is active
    returned       \* order_adjustment_products

saleVars == <<request, ordered, sales, sold, returns, returned>>

\* `open` stands for status 1: any other locks the document.  `auto` is
\* automatic_tax_calculation, which computes the subtotal as well as the tax.
Request == [active : BOOLEAN, open : BOOLEAN]
Sale == [active : BOOLEAN, open : BOOLEAN, linked : BOOLEAN, auto : BOOLEAN,
         subtotal : Int, net : Int]
Return == [sale : Serials, active : BOOLEAN]
Row == [id : (Serials \cup {0}) \X Products, doc : Serials \cup {0}, item : Products,
        amount : UNION Range(Kilos), active : BOOLEAN]

\* The products are finitely many, and what stands for no id and for no row is
\* neither.
ASSUME SalesNames ==
    /\ IsFiniteSet(Products)
    /\ NoId \notin (Serials \cup {0}) \X Products
    /\ NoRow \notin Sale \cup Return

\* The order request is document 0 of its table.
PEDIDO == 0

SalesTypeOK ==
    /\ request \in Request
    /\ sales \in [Serials -> Sale \cup {NoRow}]
    /\ returns \in [Serials -> Return \cup {NoRow}]
    /\ \A rows \in {ordered, sold, returned} :
          rows \subseteq Row /\ \A r, q \in rows : r.id = q.id => r = q

\* The order request as an accepted quotation or a first save leaves it.
SalesInit ==
    /\ request = [active |-> TRUE, open |-> TRUE]
    /\ \E form \in Forms({}, Products, Kilos) \ {{}} :
          ordered = {NewRow(l, PEDIDO, 0) : l \in form}
    /\ sales = [s \in Serials |-> NoRow]
    /\ returns = [s \in Serials |-> NoRow]
    /\ sold = {}
    /\ returned = {}

----------------------------------------------------------------------------
(* What is in force *)

Live(docs, d) == docs[d] # NoRow /\ docs[d].active

ActiveSales == {s \in Serials : Live(sales, s) /\ sales[s].linked}

\* getOrderRequestSoldProducts: lines in force of sales in force.
SoldLines == {r \in Active(sold) : r.doc \in ActiveSales}

\* getOrderRequestRemainingProducts, by line of the request.
Remaining(r) == r.amount - TotalOf(SoldLines, r.item)

\* getOrderAdjustmentProducts: the returns in force on a sale in force.
ReturnsOn(s) == {r \in Active(returned) : Live(returns, r.doc) /\ returns[r.doc].sale = s}

\* getOrderSaleAdjustmentProducts: whether the adjustment is active is not asked.
ReturnLinesOn(s) == {r \in Active(returned) : returns[r.doc].sale = s}

\* A line of the sale and item, if any: `find` takes one.
LineKilos(lines, item) ==
    IF item \in Items(lines) THEN (CHOOSE l \in lines : l.item = item).amount ELSE 0

\* Mutant: what the sale held before is not given back first.
FitsTwice(s, form) ==
    /\ \A r \in ActiveOf(ordered, PEDIDO) : Remaining(r) >= 0
    /\ Items(form) \subseteq Items(ActiveOf(ordered, PEDIDO))

\* validateOrderSale, against the order request: each line of the request covers
\* what the form asks beyond what the sale holds, and has every item of it.
Fits(s, form) ==
    /\ \A r \in ActiveOf(ordered, PEDIDO) :
          Remaining(r) + LineKilos(ActiveOf(sold, s), r.item) >= LineKilos(form, r.item)
    /\ Items(form) \subseteq Items(ActiveOf(ordered, PEDIDO))

\* validateOrderSale, against the returns: no line falls under what came back.
CoversReturns(s, form) ==
    Live(sales, s) => \A i \in Items(ReturnsOn(s)) :
                         /\ i \in Items(form)
                         /\ LineKilos(form, i) >= TotalOf(ReturnsOn(s), i)

\* A deleted document is not found, and passes as one not saved yet.
IsEditable(docs, d) == Live(docs, d) => docs[d].open

\* computeOrderSaleNetTotals: what came back is taken off at the price of its line.
NetOf(subtotal, lines, back) ==
    subtotal - Total({r \in back : r.item \in Items(lines)})

\* The requests in flight that write the quantities of each document.  Two that
\* overlap are rivals if either validates or sums what the other writes.
SaleSaves == InFlight({"sale_tx", "sale_commit"})
DeletesOf(s) == {q \in InFlight({"sale_delete"}) : job[q].target = s}
SavesOf(s) == {q \in SaleSaves : job[q].target = s}
RequestWrites ==
    InFlight({"request_tx", "request_commit", "request_delete_lines", "request_delete"})
ReturnSaves == InFlight({"return_header", "return_lines", "return_net"})
ReturnWritesOn(s) ==
    {q \in ReturnSaves \cup InFlight({"return_delete"}) : job[q].sale = s}

----------------------------------------------------------------------------
(* upsertOrderSale *)

\* The totals of a sale: of its lines or, as the client may choose, those sent, which
\* nothing compares with the lines.
SaleTotals(form) ==
    {[auto |-> TRUE, subtotal |-> Total(form)]}
    \cup {[auto |-> FALSE, subtotal |-> t] : t \in SentSubtotals}

\* A link to the request can be dropped but, on a sale in force, not taken up.
BeginSale(p, s, linked) ==
    /\ Free(p)
    /\ s = NextSerial \/ sales[s] # NoRow
    /\ IsEditable(sales, s)
    /\ Live(sales, s) /\ linked => sales[s].linked
    /\ \E form \in Forms(RowsOf(sold, s), Products, Kilos) : \E totals \in SaleTotals(form) :
         /\ linked => Fits(s, form)
         /\ CoversReturns(s, form)
         /\ Start(p, "sale_tx", [n |-> NextSerial, target |-> s, linked |-> linked,
                                 auto |-> totals.auto, subtotal |-> totals.subtotal,
                                 form |-> form, lines |-> {}, back |-> {}],
                  SaleSaves \cup RequestWrites \cup ReturnWritesOn(s))
    /\ UNCHANGED saleVars

\* Within the transaction the old lines are read in force or not.
SnapshotSale(p) ==
    /\ phase[p] = "sale_tx"
    /\ Goto(p, "sale_commit", [job[p] EXCEPT !.lines = RowsOf(sold, job[p].target),
                                             !.back = ReturnsOn(job[p].target)])
    /\ UNCHANGED saleVars

\* Mutant: the net totals are computed from the stored subtotal.
NetOfStored(j) == IF sales[j.target] = NoRow THEN 0 ELSE sales[j.target].net

\* updateOrderSaleNetTotals on the transaction: its own lines, the snapshot's returns.
NetInside(j) ==
    NetOf(j.subtotal, Active(Saved(j.lines, j.lines, j.form, j.target, j.n)), j.back)

CommitSale(p) ==
    /\ phase[p] = "sale_commit"
    /\ LET j == job[p] IN
       /\ sold' = Saved(sold, j.lines, j.form, j.target, j.n)
       /\ sales' = [sales EXCEPT ![j.target] =
             IF @ = NoRow
             THEN [active |-> TRUE, open |-> TRUE, linked |-> j.linked, auto |-> j.auto,
                   subtotal |-> j.subtotal, net |-> NetInside(j)]
             ELSE [@ EXCEPT !.linked = j.linked, !.auto = j.auto, !.subtotal = j.subtotal,
                            !.net = NetInside(j)]]
    /\ Finish(p)
    /\ UNCHANGED <<request, ordered, returns, returned>>

----------------------------------------------------------------------------
(* updateOrderSaleStatus and updateOrderRequestStatus: any status, any time *)

UpdateOrderSaleStatus(p, s) ==
    /\ Live(sales, s)
    /\ Instant(p)
    /\ sales' = [sales EXCEPT ![s].open = ~@]
    /\ UNCHANGED <<request, ordered, sold, returns, returned>>

UpdateOrderRequestStatus(p) ==
    /\ request.active
    /\ Instant(p)
    /\ request' = [request EXCEPT !.open = ~@]
    /\ UNCHANGED <<ordered, sales, sold, returns, returned>>

----------------------------------------------------------------------------
(* deleteOrderSale: its lines one by one, its header last *)

\* isDeletable, and the lines to delete.
BeginDeleteSale(p, s) ==
    /\ Live(sales, s)
    /\ sales[s].open
    /\ {a \in Serials : Live(returns, a) /\ returns[a].sale = s} = {}
    /\ Start(p, "sale_delete", [target |-> s, left |-> Ids(ActiveOf(sold, s))],
             ReturnSaves \cap ReturnWritesOn(s))
    /\ UNCHANGED saleVars

DeleteSaleLine(p) ==
    /\ phase[p] = "sale_delete"
    /\ \E id \in job[p].left :
         /\ sold' = {IF r.id = id THEN Deleted(r) ELSE r : r \in sold}
         /\ Goto(p, "sale_delete", [job[p] EXCEPT !.left = @ \ {id}])
    /\ UNCHANGED <<request, ordered, sales, returns, returned>>

DeleteSaleHeader(p) ==
    /\ phase[p] = "sale_delete"
    /\ job[p].left = {}
    /\ sales' = [sales EXCEPT ![job[p].target].active = FALSE]
    /\ Finish(p)
    /\ UNCHANGED <<request, ordered, sold, returns, returned>>

----------------------------------------------------------------------------
(* upsertOrderRequest and deleteOrderRequest *)

\* Mutant: only the lines that stay are compared with what was sold.
CoversKept(form) ==
    \A i \in Items(form) : LineKilos(form, i) >= TotalOf(SoldLines, i)

\* validateOrderRequest: nothing sold is removed, and no line falls under it.
CoversSold(form) ==
    \A i \in Items(SoldLines) \cap (Items(ordered) \cup Items(form)) :
        i \in Items(form) /\ LineKilos(form, i) >= TotalOf(SoldLines, i)

BeginRequestSave(p) ==
    /\ Free(p)
    /\ request.active => request.open
    /\ \E form \in Forms(ordered, Products, Kilos) \ {{}} :
         /\ CoversSold(form)
         /\ Start(p, "request_tx", [n |-> NextSerial, form |-> form, lines |-> {}],
                  SaleSaves \cup RequestWrites)
    /\ UNCHANGED saleVars

SnapshotRequest(p) ==
    /\ phase[p] = "request_tx"
    /\ Goto(p, "request_commit", [job[p] EXCEPT !.lines = ordered])
    /\ UNCHANGED saleVars

CommitRequest(p) ==
    /\ phase[p] = "request_commit"
    /\ ordered' = Saved(ordered, job[p].lines, job[p].form, PEDIDO, job[p].n)
    /\ Finish(p)
    /\ UNCHANGED <<request, sales, sold, returns, returned>>

BeginDeleteRequest(p) ==
    /\ request.active /\ request.open
    /\ ActiveSales = {}
    /\ Start(p, "request_delete_lines", [target |-> PEDIDO], SaleSaves \cup RequestWrites)
    /\ UNCHANGED saleVars

DeleteRequestLines(p) ==
    /\ phase[p] = "request_delete_lines"
    /\ ordered' = {Deleted(r) : r \in ordered}
    /\ Goto(p, "request_delete", job[p])
    /\ UNCHANGED <<request, sales, sold, returns, returned>>

DeleteRequestHeader(p) ==
    /\ phase[p] = "request_delete"
    /\ request' = [request EXCEPT !.active = FALSE]
    /\ Finish(p)
    /\ UNCHANGED <<ordered, sales, sold, returns, returned>>

----------------------------------------------------------------------------
(* upsertOrderAdjustment and deleteOrderAdjustment, of type 6 *)

\* validateOrderAdjustment: with the other returns of the sale, no more comes
\* back of a product than the sale has; the sale of a return is fixed.
ReturnFits(a, s, form) ==
    /\ Items(form) \subseteq Items(ActiveOf(sold, s))
    /\ \A r \in ActiveOf(sold, s) :
          LineKilos(form, r.item)
            + TotalOf({q \in ReturnLinesOn(s) : q.doc # a}, r.item) <= r.amount

BeginReturn(p, a, s) ==
    /\ Free(p)
    /\ sales[s] # NoRow
    /\ a = NextSerial \/ (returns[a] # NoRow /\ returns[a].sale = s)
    /\ \E form \in Forms(RowsOf(returned, a), Products, Kilos) :
         /\ ReturnFits(a, s, form)
         /\ Start(p, "return_header", [n |-> NextSerial, target |-> a, sale |-> s,
                                       form |-> form, old |-> {}, net |-> 0],
                  SavesOf(s) \cup DeletesOf(s) \cup ReturnWritesOn(s))
    /\ UNCHANGED saleVars

\* The header, and the old lines, which no other statement of the save precedes.
ReturnHeader(p) ==
    /\ phase[p] = "return_header"
    /\ LET j == job[p] IN
       /\ returns' = [returns EXCEPT ![j.target] =
             IF @ = NoRow THEN [sale |-> j.sale, active |-> TRUE] ELSE @]
       /\ Goto(p, "return_lines", [j EXCEPT !.old = RowsOf(returned, j.target)])
    /\ UNCHANGED <<request, ordered, sales, sold, returned>>

\* One statement a line.
ReturnLine(p) ==
    /\ phase[p] = "return_lines"
    /\ LET j == job[p] IN
       \E w \in NextWrites(j.old, j.form) :
          /\ returned' = Saved(returned, w[1], w[2], j.target, j.n)
          /\ Goto(p, "return_lines", [j EXCEPT !.old = @ \ w[1], !.form = @ \ w[2]])
    /\ UNCHANGED <<request, ordered, sales, sold, returns>>

NetNow(s) == NetOf(sales[s].subtotal, ActiveOf(sold, s), ReturnsOn(s))

\* updateOrderSaleNetTotals on the default client reads, then writes.
ReadNet(p) ==
    /\ phase[p] = "return_lines"
    /\ job[p].old = {} /\ job[p].form = {}
    /\ Goto(p, "return_net", [job[p] EXCEPT !.net = NetNow(job[p].sale)])
    /\ UNCHANGED saleVars

WriteNet(p) ==
    /\ phase[p] = "return_net"
    /\ sales' = [sales EXCEPT ![job[p].sale].net = job[p].net]
    /\ Finish(p)
    /\ UNCHANGED <<request, ordered, sold, returns, returned>>

\* deleteOrderAdjustment checks nothing: the header is its first statement.
DeleteReturn(p, a) ==
    /\ returns[a] # NoRow
    /\ Start(p, "return_delete", [n |-> NextSerial, target |-> a, sale |-> returns[a].sale,
                                  form |-> {}, old |-> {}, net |-> 0],
             SavesOf(returns[a].sale) \cup ReturnWritesOn(returns[a].sale))
    /\ returns' = [returns EXCEPT ![a].active = FALSE]
    /\ UNCHANGED <<request, ordered, sales, sold, returned>>

DeleteReturnLines(p) ==
    /\ phase[p] = "return_delete"
    /\ returned' = {IF r.doc = job[p].target THEN Deleted(r) ELSE r : r \in returned}
    /\ Goto(p, "return_lines", job[p])
    /\ UNCHANGED <<request, ordered, sales, sold, returns>>

----------------------------------------------------------------------------
\* A transaction that fails leaves nothing; anything else what it has done.
FailSale(p) ==
    /\ Fail(p, phase[p] \in {"return_lines", "return_net", "return_delete",
                             "sale_delete", "request_delete"})
    /\ UNCHANGED saleVars

SalesNext ==
    \E p \in Procs :
        \/ \E s \in Serials, linked \in BOOLEAN : BeginSale(p, s, linked)
        \/ SnapshotSale(p) \/ CommitSale(p)
        \/ UpdateOrderRequestStatus(p)
        \/ \E s \in Serials : UpdateOrderSaleStatus(p, s) \/ BeginDeleteSale(p, s)
        \/ DeleteSaleLine(p) \/ DeleteSaleHeader(p)
        \/ BeginRequestSave(p) \/ SnapshotRequest(p) \/ CommitRequest(p)
        \/ BeginDeleteRequest(p) \/ DeleteRequestLines(p) \/ DeleteRequestHeader(p)
        \/ \E a, s \in Serials : BeginReturn(p, a, s)
        \/ ReturnHeader(p) \/ ReturnLine(p) \/ ReadNet(p) \/ WriteNet(p)
        \/ \E a \in Serials : DeleteReturn(p, a)
        \/ DeleteReturnLines(p)
        \/ FailSale(p)

\* The component by itself.
SalesSpec == SlotsInit /\ SalesInit /\ [][SalesNext]_<<slotVars, saleVars>>

----------------------------------------------------------------------------
(* What is claimed of it *)

\* Of no product does more come back than a sale delivered, nor is more
\* delivered than the order request has, unless rival requests overlapped,
\* whatever is created, edited from an old form, unlinked, returned or deleted,
\* whatever else overlaps and wherever a request fails.
QuantitiesNested ==
    ~contended =>
        \A i \in Products :
            /\ TotalOf(SoldLines, i) <= TotalOf(Active(ordered), i)
            /\ \A s \in {t \in Serials : Live(sales, t)} :
                  TotalOf(ReturnsOn(s), i) <= TotalOf(ActiveOf(sold, s), i)

\* The net total stored on a sale in force is its subtotal less what came back, and
\* a subtotal computed automatically is the sum of its lines, when no rivals
\* overlapped and no request failed halfway.  A subtotal that was sent is as it was
\* sent, whatever the lines are.
NetTotalsExact ==
    Idle /\ ~contended /\ ~interrupted =>
        \A s \in {t \in Serials : Live(sales, t)} :
            /\ sales[s].auto => sales[s].subtotal = Total(ActiveOf(sold, s))
            /\ sales[s].net = sales[s].subtotal - Total(ReturnsOn(s))

=============================================================================
