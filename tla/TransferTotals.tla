--------------------------- MODULE TransferTotals ---------------------------
(***************************************************************************)
(* Transfers, their receipts, and the totals of its receipts that every    *)
(* sale and every expense stores: transfers.service.ts.                    *)
(*                                                                         *)
(* A save is one REPEATABLE READ transaction.  Its first statement fixes   *)
(* the snapshot its reads see; its writes fall on the rows as they are, and*)
(* keep them locked until it commits.  So it is two steps, the snapshot and*)
(* the commit: what it writes depends on the snapshot and on its own rows, *)
(* and it wins every row it writes.  A delete is not a transaction, and    *)
(* each of its statements is a step.                                       *)
(*                                                                         *)
(* Documents are the sales and expenses of one account.  "payment" stands  *)
(* for the transfer types 2 and 3, "adjustment" for 4; a transfer between  *)
(* own accounts has no receipts and is left out.                           *)
(***************************************************************************)
EXTENDS Integers, FiniteSets, Functions

CONSTANTS
    Procs,         \* request slots: in-flight requests
    Docs,          \* the rows of order_sales and expenses
    Amounts,       \* amounts of a receipt
    MaxRequests,   \* bound: requests ever started
    NoRow, NoJob

\* Requests are numbered; a row is named by the request that inserts it, and a
\* receipt by its document too, of which a save accepts one line each.
Serials == 1..MaxRequests
Receipts == Serials \X Docs

ASSUME TransferBounds == MaxRequests \in Nat /\ Amounts \subseteq Int
ASSUME TransferSets == IsFiniteSet(Procs) /\ IsFiniteSet(Docs)

VARIABLES
    transfers,
    receipts,        \* transfer_receipts
    total,           \* transfer_receipts_total and ..._no_adjustments, by document
    phase, job,      \* where each request stands, and what it holds
    started,         \* history: requests started
    contended,       \* history: two requests have been in flight together
    interrupted,     \* history: a delete has failed halfway
    revived          \* history: a deleted transfer has been saved

requestVars == <<phase, job, started, contended>>
vars == <<transfers, receipts, total, requestVars, interrupted, revived>>

Types == {"payment", "adjustment"}

Transfer == [active : BOOLEAN, type : Types, amount : Int]
Receipt == [transfer : Serials, doc : Docs, amount : Amounts, active : BOOLEAN]
Totals == [all : Int, no_adjustments : Int]

FormLine == [id : Receipts \cup {NoRow}, amount : Amounts]

ASSUME TransferRows ==
    NoRow \notin Receipts /\ NoRow \notin Transfer /\ NoRow \notin Receipt /\ NoRow \notin FormLine

Transfers == [Serials -> Transfer \cup {NoRow}]
ReceiptTable == [Receipts -> Receipt \cup {NoRow}]

\* The lines of a save, by document, with the id of the receipt each stands for.
Lines == [Docs -> FormLine \cup {NoRow}]

Save == [n : Serials, target : Serials, type : Types, lines : Lines,
         seen_transfers : Transfers, seen_receipts : ReceiptTable]
Delete == [target : Serials, docs : SUBSET Docs, doc : Docs \cup {NoRow},
           sums : Totals]

Phases == {"idle", "save", "delete_header", "delete_receipts", "recompute", "recompute_write"}

TypeOK ==
    /\ transfers \in Transfers
    /\ receipts \in ReceiptTable
    /\ total \in [Docs -> Totals]
    /\ phase \in [Procs -> Phases]
    /\ job \in [Procs -> Save \cup Delete \cup {NoJob}]
    /\ started \in 0..MaxRequests
    /\ {contended, interrupted, revived} \subseteq BOOLEAN

ZeroTotals == [all |-> 0, no_adjustments |-> 0]

Init ==
    /\ transfers = [t \in Serials |-> NoRow]
    /\ receipts = [r \in Receipts |-> NoRow]
    /\ total = [d \in Docs |-> ZeroTotals]
    /\ phase = [p \in Procs |-> "idle"]
    /\ job = [p \in Procs |-> NoJob]
    /\ started = 0
    /\ contended = FALSE
    /\ interrupted = FALSE
    /\ revived = FALSE

----------------------------------------------------------------------------
(* Sums *)

IsActive(rows, r) == rows[r] # NoRow /\ rows[r].active

\* Mutant: the sum of no rows is null.
SumOrNull(rows, S) == IF S = {} THEN NoRow ELSE SumFunction([r \in S |-> rows[r].amount])

SumOf(rows, S) == SumFunction([r \in S |-> rows[r].amount])

ActiveOn(rows, d) == {r \in Receipts : IsActive(rows, r) /\ rows[r].doc = d}

ActiveOf(rows, t) == {r \in Receipts : IsActive(rows, r) /\ rows[r].transfer = t}

\* updateOrderSalesTransfersTotal and updateExpensesTransfersTotal: whether the
\* transfer of a receipt is active is not asked.
SumsOf(ts, rows, d) ==
    [all |-> SumOf(rows, ActiveOn(rows, d)),
     no_adjustments |-> SumOf(rows, {r \in ActiveOn(rows, d) :
                                        ts[rows[r].transfer].type # "adjustment"})]

----------------------------------------------------------------------------
(* Requests *)

Start(p, ph, j) ==
    /\ phase[p] = "idle"
    /\ started < MaxRequests
    /\ started' = started + 1
    /\ phase' = [phase EXCEPT ![p] = ph]
    /\ job' = [job EXCEPT ![p] = j]
    /\ contended' = (contended \/ \E q \in Procs \ {p} : phase[q] # "idle")

Goto(p, ph, j) ==
    /\ phase' = [phase EXCEPT ![p] = ph]
    /\ job' = [job EXCEPT ![p] = j]
    /\ UNCHANGED <<started, contended>>

Finish(p) == Goto(p, "idle", NoJob)

----------------------------------------------------------------------------
(* upsertTransfer *)

LineIds(lines) == {lines[d].id : d \in {e \in Docs : lines[e] # NoRow}} \ {NoRow}

\* The lines of a form that edits t.  The id of a receipt no longer active names
\* nothing (vennDiagram creates the row again), so an old form's is NoRow here;
\* no two lines name the same receipt.
FormLines(t) ==
    {lines \in [Docs -> [id : ActiveOf(receipts, t) \cup {NoRow}, amount : Amounts] \cup {NoRow}] :
        \A d, e \in Docs :
            /\ lines[d] # NoRow /\ lines[e] # NoRow
            /\ lines[d].id = lines[e].id /\ lines[d].id # NoRow
            => d = e}

\* validateUpsertTransfer, then the snapshot.  The type of a transfer cannot be
\* changed, but a deleted transfer is not found and not compared.
BeginSave(p, t, type) ==
    /\ phase[p] = "idle"
    /\ t = started + 1 \/ transfers[t] # NoRow
    /\ transfers[t] # NoRow /\ transfers[t].active => type = transfers[t].type
    /\ \E lines \in FormLines(t) :
         /\ type = "payment" => \E d \in Docs : lines[d] # NoRow
         /\ Start(p, "save", [n |-> started + 1, target |-> t, type |-> type, lines |-> lines,
                              seen_transfers |-> transfers, seen_receipts |-> receipts])
    /\ UNCHANGED <<transfers, receipts, total, interrupted, revived>>

\* vennDiagram by id, over the snapshot's rows and the lines.
Old(j) == ActiveOf(j.seen_receipts, j.target)
Kept(j) == Old(j) \cap LineIds(j.lines)

\* Mutant: the rows the form has dropped stay.
NoneRemoved(j) == {}

Removed(j) == Old(j) \ Kept(j)
Created(j) == {<<j.n, d>> : d \in {e \in Docs : /\ j.lines[e] # NoRow
                                                /\ j.lines[e].id \notin Old(j)}}

DocOfLine(j, r) == CHOOSE d \in Docs : j.lines[d] # NoRow /\ j.lines[d].id = r

\* A payment's amount is its lines', checked; an adjustment's is not looked at.
Header(j) ==
    [active |-> IF transfers[j.target] = NoRow THEN TRUE ELSE transfers[j.target].active,
     type |-> j.type,
     amount |-> IF j.type = "payment"
                THEN SumFunctionOnSet([d \in Docs |-> IF j.lines[d] = NoRow THEN 0
                                                      ELSE j.lines[d].amount], Docs)
                ELSE 0]

\* The rows, each as it is now, with the save's columns; `active` is not one of
\* those of an update.
WrittenReceipts(j) ==
    LET removed == Removed(j)
        kept == Kept(j)
        created == Created(j)
    IN [r \in Receipts |->
          CASE r \in removed -> [receipts[r] EXCEPT !.active = FALSE]
            [] r \in kept -> LET d == DocOfLine(j, r) IN
                             [receipts[r] EXCEPT !.transfer = j.target, !.doc = d,
                                                 !.amount = j.lines[d].amount]
            [] r \in created -> [transfer |-> j.target, doc |-> r[2],
                                 amount |-> j.lines[r[2]].amount, active |-> TRUE]
            [] OTHER -> receipts[r]]

\* Mutant: the totals are computed by the default client, outside the transaction.
SnapshotOnly(j) == j.seen_receipts

\* What the transaction reads after its writes: its own rows, and the snapshot's.
View(j) ==
    LET own == Old(j) \cup Created(j)
        written == WrittenReceipts(j)
    IN [r \in Receipts |-> IF r \in own THEN written[r] ELSE j.seen_receipts[r]]

\* Mutant: a receipt moved to another document leaves the old one's total alone.
OnlyNewTargets(j) ==
    {j.seen_receipts[r].doc : r \in Removed(j)} \cup {d \in Docs : j.lines[d] # NoRow}

\* The documents whose totals a save writes.  Each is recomputed after every
\* row that concerns it, so the last recomputation sees them all.
Recomputed(j) ==
    {j.seen_receipts[r].doc : r \in Old(j)} \cup {d \in Docs : j.lines[d] # NoRow}

CommitSave(p) ==
    /\ phase[p] = "save"
    /\ LET j == job[p]
           header == Header(j)
           view == View(j)
           recomputed == Recomputed(j)
       IN
       /\ transfers' = [transfers EXCEPT ![j.target] = header]
       /\ receipts' = WrittenReceipts(j)
       /\ total' = [d \in Docs |->
             IF d \in recomputed
             THEN SumsOf([j.seen_transfers EXCEPT ![j.target] = header], view, d)
             ELSE total[d]]
       /\ revived' = (revived \/ ~header.active)
    /\ Finish(p)
    /\ UNCHANGED interrupted

----------------------------------------------------------------------------
(* deleteTransfer *)

\* The transfer and its receipts are read; an inactive transfer is answered 404.
BeginDelete(p, t) ==
    /\ transfers[t] # NoRow /\ transfers[t].active
    /\ Start(p, "delete_header",
             [target |-> t, docs |-> {receipts[r].doc : r \in ActiveOf(receipts, t)},
              doc |-> NoRow, sums |-> ZeroTotals])
    /\ UNCHANGED <<transfers, receipts, total, interrupted, revived>>

DeleteHeader(p) ==
    /\ phase[p] = "delete_header"
    /\ transfers' = [transfers EXCEPT ![job[p].target].active = FALSE]
    /\ Goto(p, "delete_receipts", job[p])
    /\ UNCHANGED <<receipts, total, interrupted, revived>>

\* Mutant: the receipts stay active under a transfer that is not.
ReceiptsLeft(t) == receipts

ReceiptsDeleted(t) ==
    [r \in Receipts |-> IF receipts[r] # NoRow /\ receipts[r].transfer = t
                        THEN [receipts[r] EXCEPT !.active = FALSE] ELSE receipts[r]]

DeleteReceipts(p) ==
    /\ phase[p] = "delete_receipts"
    /\ receipts' = ReceiptsDeleted(job[p].target)
    /\ IF job[p].docs = {} THEN Finish(p) ELSE Goto(p, "recompute", job[p])
    /\ UNCHANGED <<transfers, total, interrupted, revived>>

RecomputeRead(p, d) ==
    /\ phase[p] = "recompute"
    /\ d \in job[p].docs
    /\ Goto(p, "recompute_write", [job[p] EXCEPT !.doc = d,
                                                 !.sums = SumsOf(transfers, receipts, d)])
    /\ UNCHANGED <<transfers, receipts, total, interrupted, revived>>

DocsLeft(j) == j.docs \ {j.doc}

RecomputeWrite(p) ==
    /\ phase[p] = "recompute_write"
    /\ total' = [total EXCEPT ![job[p].doc] = job[p].sums]
    /\ IF DocsLeft(job[p]) = {} THEN Finish(p)
       ELSE Goto(p, "recompute", [job[p] EXCEPT !.docs = DocsLeft(job[p]), !.doc = NoRow])
    /\ UNCHANGED <<transfers, receipts, interrupted, revived>>

----------------------------------------------------------------------------
\* A request fails.  A save leaves nothing; a delete leaves what it has done.
Abort(p) ==
    /\ phase[p] # "idle"
    /\ interrupted' = (interrupted \/ phase[p] \notin {"save", "delete_header"})
    /\ Finish(p)
    /\ UNCHANGED <<transfers, receipts, total, revived>>

Next ==
    \E p \in Procs :
        \/ \E t \in Serials, type \in Types : BeginSave(p, t, type)
        \/ CommitSave(p)
        \/ \E t \in Serials : BeginDelete(p, t)
        \/ DeleteHeader(p) \/ DeleteReceipts(p)
        \/ \E d \in Docs : RecomputeRead(p, d)
        \/ RecomputeWrite(p)
        \/ Abort(p)

Spec == Init /\ [][Next]_vars

----------------------------------------------------------------------------
(* What is claimed of it *)

Idle == \A p \in Procs : phase[p] = "idle"

Exact(d) == total[d] = SumsOf(transfers, receipts, d)

\* The save of p is undisturbed: nothing has been committed since its snapshot.
Undisturbed(p) ==
    /\ phase[p] = "save"
    /\ job[p].seen_transfers = transfers
    /\ job[p].seen_receipts = receipts

\* The stored totals of every document are the sums of its active receipts, with
\* and without adjustments, as long as requests do not overlap and no delete
\* fails halfway, whatever is created, moved between documents, edited from an
\* old form or deleted.
TotalsSettled == Idle /\ ~contended /\ ~interrupted => \A d \in Docs : Exact(d)

\* The same whatever overlaps, as upsertTransfer has it: header, receipts and
\* "the derived parent totals must land atomically" and must not be computed
\* from stale sums.  Not so: of two saves on one document that overlap, the
\* second sums the receipts of its snapshot, without the first's.
TotalsMatchReceipts == Idle /\ ~interrupted => \A d \in Docs : Exact(d)

\* A save that nothing disturbs leaves exact the totals of every document its
\* transfer concerns or concerned, however wrong they were: drift is repaired by
\* saving again.
SaveSettlesTotals ==
    [][\A p \in Procs :
         Undisturbed(p) /\ CommitSave(p) =>
            \A d \in Recomputed(job[p]) \cup {receipts[r].doc : r \in ActiveOf(receipts, job[p].target)} :
                Exact(d)']_vars

\* After a save that nothing disturbs, the receipts of a payment in force add up
\* to its amount, even when its form was opened before other saves of it.
SaveBalances ==
    [][\A p \in Procs :
         Undisturbed(p) /\ CommitSave(p) /\ job[p].type = "payment" =>
            LET t == job[p].target IN
            transfers'[t].amount = SumOf(receipts', ActiveOf(receipts', t))]_vars

\* The reports (disparities, account statements) sum the active receipts of
\* active transfers, the stored totals all active receipts.  They agree unless
\* requests overlap, a delete fails halfway or a deleted transfer is saved.
ReportsAgree ==
    Idle /\ ~contended /\ ~interrupted /\ ~revived =>
        \A d \in Docs :
            total[d].all = SumOf(receipts, {r \in ActiveOn(receipts, d) :
                                              transfers[receipts[r].transfer].active})

=============================================================================
