------------------------ MODULE QuotationAcceptance ------------------------
(***************************************************************************)
(* One quotation (cotizacion), its acceptance, and the catalog of its      *)
(* client: order-quotations.service.ts, with the parts of                  *)
(* accounts.service.ts and order-requests.service.ts it calls.             *)
(*                                                                         *)
(* Acceptance writes the client's catalog, creates the order request       *)
(* (pedido) and sets the status, in three transactions; it may stop after  *)
(* any of them and be asked for again, by several people at once, while    *)
(* others edit the quotation or save the account.                          *)
(*                                                                         *)
(* A row of the catalog is named by the request that inserted it and its   *)
(* product; a line by the request that added it.  A save of an account is  *)
(* a snapshot and a commit, as TransferTotals explains.                    *)
(***************************************************************************)
EXTENDS Integers, FiniteSets

CONSTANTS
    Procs,         \* request slots: in-flight requests
    Products,
    Prices,        \* prices of a line: its unit is left out
    MaxRequests,   \* bound: requests ever started
    NoId, NoProduct, NoJob

ASSUME AcceptanceBounds == MaxRequests \in Nat /\ NoId \notin Nat

VARIABLES
    quotation,
    lines,           \* order_quotation_products with active = 1
    catalog,         \* account_products of the client with active = 1
    pedido,          \* the lines of the order request of this quotation: at least one
    phase, job,      \* where each request stands, and what it holds
    started,         \* history: requests started
    overlapped,      \* history: a catalog has changed between snapshot and commit
    disturbed        \* history: an ordinary write has landed during or after acceptance

dataVars == <<quotation, lines, catalog, pedido>>
vars == <<dataVars, phase, job, started, overlapped, disturbed>>

Serials == 0..MaxRequests
Statuses == {"Borrador", "Enviada", "Aceptada", "Rechazada"}

\* The two stamps are dates in the code; here, whether they are set.
Quotation == [active : BOOLEAN, status : Statuses,
              account_products_updated_at : BOOLEAN,
              order_request_completed_at : BOOLEAN]
Line == [id : Serials, product : Products \cup {NoProduct}, price : Prices]
Row == [serial : Serials, product : Products, price : Prices]
\* A line of an account form: its id is null on a new row.
FormRow == [serial : Serials \cup {NoId}, product : Products, price : Prices]
RowIds == Serials \X Products

\* An order request has at least one line.
NoPedido == {}

AcceptPhases == {"check", "merge", "catalog_tx", "catalog_commit",
                 "pedido", "pedido_commit", "mark"}
OrdinaryPhases == {"status_write", "edit_commit", "link_write", "delete_lines", "delete_header"}
AccountPhases == {"save_tx", "save_commit"}

\* What a request holds: the acceptance keeps the quotation as it read it.  seen
\* (the catalog at the merge) and late (whether acceptance of a live quotation had
\* started when the request came) are history.
AcceptJob == [n : Serials, late : BOOLEAN, quotation : Quotation,
              form : SUBSET FormRow, seen : SUBSET Row, view : SUBSET RowIds,
              lines : SUBSET Line]
SaveJob == [n : Serials, late : BOOLEAN, form : SUBSET FormRow, view : SUBSET RowIds]
OrdinaryJob ==
    [late : BOOLEAN, status : Statuses] \cup [late : BOOLEAN, lines : SUBSET Line]
    \cup [late : BOOLEAN, line : Serials, product : Products] \cup [late : BOOLEAN]

TypeOK ==
    /\ quotation \in Quotation
    /\ lines \subseteq Line
    /\ catalog \subseteq Row
    /\ pedido \subseteq Line
    /\ phase \in [Procs -> {"idle"} \cup AcceptPhases \cup OrdinaryPhases \cup AccountPhases]
    /\ \A p \in Procs : CASE phase[p] = "idle" -> job[p] = NoJob
                          [] phase[p] \in AcceptPhases -> job[p] \in AcceptJob
                          [] phase[p] \in OrdinaryPhases -> job[p] \in OrdinaryJob
                          [] phase[p] \in AccountPhases -> job[p] \in SaveJob
    /\ started \in Serials
    /\ {overlapped, disturbed} \subseteq BOOLEAN

\* A quotation of one line, in Borrador or already sent, and a catalog of at most
\* one product.
Init ==
    /\ quotation \in [active : {TRUE}, status : {"Borrador", "Enviada"},
                      account_products_updated_at : {FALSE},
                      order_request_completed_at : {FALSE}]
    /\ \E l \in [id : {0}, product : Products \cup {NoProduct}, price : Prices] : lines = {l}
    /\ \E r \in [serial : {0}, product : Products, price : Prices] : catalog \in {{}, {r}}
    /\ pedido = NoPedido
    /\ phase = [p \in Procs |-> "idle"]
    /\ job = [p \in Procs |-> NoJob]
    /\ started = 0
    /\ overlapped = FALSE
    /\ disturbed = FALSE

----------------------------------------------------------------------------
(* Requests *)

UniqueProducts(rows) == \A r, s \in rows : r.product = s.product => r = s

Linked(ls) == {l \in ls : l.product # NoProduct}

\* Mutant: the lock looks at the final status only.
StartedIfAccepted(q) == q.status = "Aceptada"

HasAcceptanceStarted(q) ==
    \/ q.account_products_updated_at
    \/ q.order_request_completed_at
    \/ q.status = "Aceptada"
    \/ pedido # NoPedido

\* Whether acceptance has in fact started, whatever the code asks.
AcceptanceStarted ==
    \/ quotation.account_products_updated_at
    \/ quotation.order_request_completed_at
    \/ pedido # NoPedido

Late == AcceptanceStarted /\ quotation.active

\* A deleted quotation is no longer found, and passes as one not saved yet.
IsEditable ==
    quotation.active =>
        /\ quotation.status = "Borrador"
        /\ ~HasAcceptanceStarted(quotation)

Start(p, ph, j) ==
    /\ phase[p] = "idle"
    /\ started < MaxRequests
    /\ started' = started + 1
    /\ phase' = [phase EXCEPT ![p] = ph]
    /\ job' = [job EXCEPT ![p] = j]
    /\ UNCHANGED <<dataVars, overlapped, disturbed>>

Goto(p, ph, j) ==
    /\ phase' = [phase EXCEPT ![p] = ph]
    /\ job' = [job EXCEPT ![p] = j]
    /\ UNCHANGED started

Done(p) == Goto(p, "idle", NoJob)

\* A refusal, an error, a deadlock or timeout in the database, or a crash: what
\* was committed stays.
Abort(p) ==
    /\ phase[p] # "idle"
    /\ Done(p)
    /\ UNCHANGED <<dataVars, overlapped, disturbed>>

----------------------------------------------------------------------------
(* Acceptance: acceptOrderQuotation *)

BeginAccept(p) ==
    /\ quotation.active
    /\ quotation.status # "Aceptada"
    /\ Start(p, "check",
             [n |-> started + 1, late |-> Late, quotation |-> quotation,
              form |-> {}, seen |-> {}, view |-> {}, lines |-> {}])

\* Mutant: free lines no longer block.
FreeLinesPass == FALSE

HasFreeLine == Linked(lines) # lines

\* The blocking reasons that the state of this model decides.
IsAcceptable(q) ==
    /\ q.status = "Enviada"
    /\ lines # {}
    /\ ~HasFreeLine
    /\ q.order_request_completed_at \/ pedido = NoPedido

\* Mutant: a resumed acceptance goes from the catalog to the status.
PedidoSkipped(q) == IF q.account_products_updated_at THEN "mark" ELSE "merge"

\* The first step not done yet, as the row read at the start tells.
NextStep(q) == CASE ~q.account_products_updated_at -> "merge"
                 [] q.account_products_updated_at /\ ~q.order_request_completed_at -> "pedido"
                 [] OTHER -> "mark"

CheckAcceptance(p) ==
    /\ phase[p] = "check"
    /\ IsAcceptable(job[p].quotation)
    /\ Goto(p, NextStep(job[p].quotation), job[p])
    /\ UNCHANGED <<dataVars, overlapped, disturbed>>

QuotedProducts(ls) == {l.product : l \in Linked(ls)}

\* Of two lines with one product the later wins.
QuotedPrice(ls, prod) ==
    (CHOOSE l \in ls : /\ l.product = prod
                       /\ \A k \in ls : k.product = prod => k.id <= l.id).price

Added(ls, rows) ==
    {[serial |-> NoId, product |-> prod, price |-> QuotedPrice(ls, prod)] :
        prod \in QuotedProducts(ls) \ {r.product : r \in rows}}

Repriced(ls, rows) ==
    {[r EXCEPT !.price = QuotedPrice(ls, r.product)] :
        r \in {s \in rows : s.product \in QuotedProducts(ls)}}

\* Mutant: the form carries the quoted products only, and the save drops the rest.
QuotedOnly(ls, rows) == Added(ls, rows) \cup Repriced(ls, rows)

\* buildMergedAccountInput: the whole catalog, quoted prices applied, quoted
\* products added.
Merged(ls, rows) ==
    Added(ls, rows) \cup Repriced(ls, rows)
    \cup {r \in rows : r.product \notin QuotedProducts(ls)}

MergeCatalog(p) ==
    /\ phase[p] = "merge"
    /\ UniqueProducts(Merged(lines, catalog))
    /\ Goto(p, "catalog_tx", [job[p] EXCEPT !.form = Merged(lines, catalog),
                                            !.seen = catalog])
    /\ UNCHANGED <<dataVars, overlapped, disturbed>>

CatalogIds == {<<r.serial, r.product>> : r \in catalog}

\* The first statement of the transaction of upsertAccount.
SnapshotCatalog(p, from, to) ==
    /\ phase[p] = from
    /\ Goto(p, to, [job[p] EXCEPT !.view = CatalogIds])
    /\ UNCHANGED <<dataVars, overlapped, disturbed>>

Kept(form, view) == {r \in form : <<r.serial, r.product>> \in view}

Created(form, view, n) == {[r EXCEPT !.serial = n] : r \in form \ Kept(form, view)}

Unseen(view) == {r \in catalog : <<r.serial, r.product>> \notin view}

\* Mutant: rows that left the form are not removed.
SyncedWithoutRemoval(form, view, n) ==
    {r \in catalog : \A k \in Kept(form, view) : k.product # r.product \/ k.serial # r.serial}
    \cup Kept(form, view) \cup Created(form, view, n)

\* Mutant: new rows keep the null id of the form.
SyncedAsSent(form, view, n) == Unseen(view) \cup form

\* syncAccountProducts: rows of the snapshot missing from the form go, rows it
\* names are written (and active again), the others are created.
Synced(form, view, n) == Unseen(view) \cup Kept(form, view) \cup Created(form, view, n)

SyncCatalog(p) ==
    /\ catalog' = Synced(job[p].form, job[p].view, job[p].n)
    /\ overlapped' = (overlapped \/ job[p].view # CatalogIds)

\* The catalog and its stamp, in one transaction.
CommitCatalog(p) ==
    /\ phase[p] = "catalog_commit"
    /\ SyncCatalog(p)
    /\ quotation' = [quotation EXCEPT !.account_products_updated_at = TRUE]
    /\ Goto(p, IF job[p].quotation.order_request_completed_at THEN "mark" ELSE "pedido", job[p])
    /\ UNCHANGED <<lines, pedido, disturbed>>

\* validateOrderRequest: each line as the catalog has it.  Of two rows with one
\* product the later counts.
CatalogAllows(ls) ==
    /\ ls # {}
    /\ UniqueProducts(ls)
    /\ \A l \in ls : \E r \in catalog :
          /\ r.product = l.product /\ r.price = l.price
          /\ \A s \in catalog : s.product = l.product => s.serial <= r.serial

ReadPedido(p) ==
    /\ phase[p] = "pedido"
    /\ CatalogAllows(Linked(lines))
    /\ Goto(p, "pedido_commit", [job[p] EXCEPT !.lines = Linked(lines)])
    /\ UNCHANGED <<dataVars, overlapped, disturbed>>

\* The pedido and its stamp, in one transaction; order_quotation_id is unique.
CommitPedido(p) ==
    /\ phase[p] = "pedido_commit"
    /\ pedido = NoPedido
    /\ pedido' = job[p].lines
    /\ quotation' = [quotation EXCEPT !.order_request_completed_at = TRUE]
    /\ Goto(p, "mark", job[p])
    /\ UNCHANGED <<lines, catalog, overlapped, disturbed>>

MarkAccepted(p) ==
    /\ phase[p] = "mark"
    /\ quotation' = [quotation EXCEPT !.status = "Aceptada"]
    /\ Done(p)
    /\ UNCHANGED <<lines, catalog, pedido, overlapped, disturbed>>

----------------------------------------------------------------------------
(* Ordinary writes of the quotation: each checks, then writes *)

AcceptanceUnderWay == AcceptanceStarted \/ \E p \in Procs : phase[p] \in AcceptPhases

\* What every ordinary write does besides its change.
OrdinaryWrite ==
    /\ disturbed' = (disturbed \/ AcceptanceUnderWay)
    /\ UNCHANGED <<catalog, pedido, overlapped>>

BeginStatus(p, s) ==
    /\ quotation.active
    /\ s # "Aceptada"
    /\ ~HasAcceptanceStarted(quotation)
    /\ Start(p, "status_write", [late |-> Late, status |-> s])

WriteStatus(p) ==
    /\ phase[p] = "status_write"
    /\ quotation' = [quotation EXCEPT !.status = job[p].status]
    /\ Done(p)
    /\ OrdinaryWrite
    /\ UNCHANGED lines

\* The forms an editor may send: one line added, rewritten or removed.
Forms == LET new == [id : {started + 1}, product : Products \cup {NoProduct}, price : Prices]
             rewritten(l) == [id : {l.id}, product : Products \cup {NoProduct}, price : Prices]
         IN {lines \cup {l} : l \in new}
            \cup {lines \ {l} : l \in lines}
            \cup UNION {{(lines \ {l}) \cup {k} : k \in rewritten(l)} : l \in lines}

\* validateOrderQuotation
BeginEdit(p, form) ==
    /\ IsEditable
    /\ form # {}
    /\ UniqueProducts(Linked(form))
    /\ Start(p, "edit_commit", [late |-> Late, lines |-> form])

\* upsertOrderQuotation keeps the status and the stamps.
CommitEdit(p) ==
    /\ phase[p] = "edit_commit"
    /\ lines' = job[p].lines
    /\ Done(p)
    /\ OrdinaryWrite
    /\ UNCHANGED quotation

BeginLink(p, l, prod) ==
    /\ l.product = NoProduct
    /\ quotation.active
    /\ quotation.status \in {"Borrador", "Enviada"}
    /\ ~HasAcceptanceStarted(quotation)
    /\ Start(p, "link_write", [late |-> Late, line |-> l.id, product |-> prod])

WriteLink(p) ==
    /\ phase[p] = "link_write"
    /\ lines' = {IF l.id = job[p].line THEN [l EXCEPT !.product = job[p].product] ELSE l :
                    l \in lines}
    /\ Done(p)
    /\ OrdinaryWrite
    /\ UNCHANGED quotation

BeginDelete(p) ==
    /\ quotation.active
    /\ pedido = NoPedido
    /\ IsEditable
    /\ Start(p, "delete_lines", [late |-> Late])

DeleteLines(p) ==
    /\ phase[p] = "delete_lines"
    /\ lines' = {}
    /\ Goto(p, "delete_header", job[p])
    /\ OrdinaryWrite
    /\ UNCHANGED quotation

DeleteHeader(p) ==
    /\ phase[p] = "delete_header"
    /\ quotation' = [quotation EXCEPT !.active = FALSE]
    /\ Done(p)
    /\ OrdinaryWrite
    /\ UNCHANGED lines

----------------------------------------------------------------------------
(* The account form: upsertAccount called for itself *)

\* One row repriced, removed or added.
AccountForms ==
    {catalog \ {r} : r \in catalog}
    \cup {(catalog \ {r}) \cup {[r EXCEPT !.price = c]} : r \in catalog, c \in Prices}
    \cup {catalog \cup {r} : r \in [serial : {NoId}, product : Products, price : Prices]}

BeginSave(p, form) ==
    /\ UniqueProducts(form)
    /\ Start(p, "save_tx", [n |-> started + 1, late |-> Late,
                            form |-> form, view |-> {}])

CommitSave(p) ==
    /\ phase[p] = "save_commit"
    /\ SyncCatalog(p)
    /\ Done(p)
    /\ UNCHANGED <<quotation, lines, pedido, disturbed>>

----------------------------------------------------------------------------

Accept(p) ==
    \/ BeginAccept(p)
    \/ CheckAcceptance(p)
    \/ MergeCatalog(p)
    \/ SnapshotCatalog(p, "catalog_tx", "catalog_commit")
    \/ CommitCatalog(p)
    \/ ReadPedido(p)
    \/ CommitPedido(p)
    \/ MarkAccepted(p)

Ordinary(p) ==
    \/ \E s \in Statuses : BeginStatus(p, s)
    \/ WriteStatus(p)
    \/ \E form \in Forms : BeginEdit(p, form)
    \/ CommitEdit(p)
    \/ \E l \in lines, prod \in Products : BeginLink(p, l, prod)
    \/ WriteLink(p)
    \/ BeginDelete(p)
    \/ DeleteLines(p)
    \/ DeleteHeader(p)

AccountSave(p) ==
    \/ \E form \in AccountForms : BeginSave(p, form)
    \/ SnapshotCatalog(p, "save_tx", "save_commit")
    \/ CommitSave(p)

Next == \E p \in Procs : Accept(p) \/ Ordinary(p) \/ AccountSave(p) \/ Abort(p)

Spec == Init /\ [][Next]_vars

----------------------------------------------------------------------------
(* Properties *)

\* Whatever overlaps or fails, the stamps tell the truth: the pedido exists exactly
\* when its stamp is set (there is no half-made pedido), the pedido is never made
\* before the catalog, and Aceptada, written last, means all three steps are done.
StepsInOrder ==
    /\ pedido # NoPedido <=> quotation.order_request_completed_at
    /\ quotation.order_request_completed_at => quotation.account_products_updated_at
    /\ quotation.status = "Aceptada" => quotation.order_request_completed_at

\* A product is repeated in the catalog of an account only if two saves of that
\* catalog have overlapped: merges of stale catalogs alone never do it.
RepeatsNeedOverlap == ~overlapped => UniqueProducts(catalog)

\* While no ordinary write slips in during or after acceptance, a quotation whose
\* acceptance has started is live and sent (or accepted), and its pedido, once made,
\* has exactly its lines.
UndisturbedAcceptance ==
    AcceptanceStarted /\ ~disturbed =>
        /\ quotation.active
        /\ quotation.status \in {"Enviada", "Aceptada"}
        /\ pedido # NoPedido => pedido = lines

StepOf(p) == phase'[p] # phase[p]

\* A request that comes when acceptance of a live quotation has started, and is no
\* account save (which may write the catalog), writes no line, deletes nothing, and
\* sets no status but Aceptada; a second acceptance does not write the catalog
\* again, and makes no second pedido.
OnlyAcceptanceFinishes ==
    [][\A p \in Procs :
          StepOf(p) /\ job[p] # NoJob /\ job[p].late /\ phase[p] \notin AccountPhases =>
             /\ UNCHANGED <<lines, catalog>>
             /\ quotation'.active = quotation.active
             /\ quotation'.status \in {quotation.status, "Aceptada"}
             /\ pedido # NoPedido => pedido' = pedido]_vars

\* If catalog and lines are still what acceptance read when it merged the one into
\* the other, the save puts every quoted product in the catalog once, at the quoted
\* price, and leaves every other product as it was.
MergeKeepsCatalog ==
    [][\A p \in Procs :
          phase[p] = "catalog_commit" /\ StepOf(p) /\ phase'[p] # "idle"
          /\ job[p].seen = catalog /\ job[p].view = CatalogIds /\ ~disturbed =>
             \A prod \in Products :
                LET at(rows) == {r \in rows : r.product = prod}
                IN IF prod \in QuotedProducts(lines)
                   THEN /\ Cardinality(at(catalog')) = 1
                        /\ {r.price : r \in at(catalog')} = {QuotedPrice(lines, prod)}
                   ELSE at(catalog') = at(catalog)]_vars

\* Stated by the comment on acceptOrderQuotation, that an acceptance applied in part
\* can be resumed: its lines are ones that some catalog allows.
StartedAcceptanceCanFinish ==
    quotation.account_products_updated_at /\ ~quotation.order_request_completed_at =>
        /\ lines # {}
        /\ ~HasFreeLine
        /\ UniqueProducts(lines)

=============================================================================
