----------------------------- MODULE SpareStock -----------------------------
(***************************************************************************)
(* Spares, the operations that add and withdraw them, and the machine      *)
(* parts they fit: spare-operations.service.ts, spare-inventory.service.ts,*)
(* machine-parts.service.ts and spares.service.ts.                         *)
(*                                                                         *)
(* Rows are really deleted, and nothing here is a transaction: every       *)
(* statement is a step.  The database refuses a row that refers to a spare *)
(* or an operation that is not there, and the removal of one that is       *)
(* referred to; the request fails.  A machine part and its compatible      *)
(* spares have the shape of an operation and its transactions, with a      *)
(* current spare besides; an adjustment and a withdrawal differ in a flag. *)
(* The spares of a part are checked to be named once each; nothing checks  *)
(* those of an operation, and each line for a spare that is not there yet  *)
(* becomes a row of its own.                                               *)
(***************************************************************************)
EXTENDS RequestSlots, RowDiff

CONSTANTS
    Spares, Quantities, NoSpare,
    MaxLines       \* bound: lines of a form of an operation

VARIABLES
    spares,        \* spares that exist
    operations,    \* documents that exist, operations and parts, and what each is
    current,       \* the spare a part has, or NoSpare
    transactions,  \* spare_transactions and machine_compatibilities
    asked          \* history: the form of the last save of each document that ended

stockVars == <<spares, operations, current, transactions, asked>>

Operations == {d \in Serials : operations[d] = "operation"}
Parts == {d \in Serials : operations[d] = "part"}

StockTypeOK ==
    /\ spares \subseteq Spares
    /\ operations \in [Serials -> {"none", "operation", "part"}]
    /\ current \in [Serials -> Spares \cup {NoSpare}]
    /\ \A r \in transactions : r.item \in spares /\ operations[r.doc] # "none"
    /\ \A d \in Serials : current[d] # NoSpare => current[d] \in spares

StockInit ==
    /\ spares = Spares
    /\ operations = [d \in Serials |-> "none"]
    /\ current = [d \in Serials |-> NoSpare]
    /\ transactions = {}
    /\ asked = [d \in Serials |-> NoSpare]

\* A line is the nth of its form that names the spare.  A compatible spare of a part
\* has no quantity.
OperationForms ==
    {form \in SUBSET [item : Spares, amount : Quantities, nth : 1..MaxLines] :
        /\ Cardinality(form) <= MaxLines
        /\ \A l, m \in form : l.item = m.item /\ l.nth = m.nth => l = m
        /\ \A l \in form : \A k \in 1..l.nth : \E m \in form : m.item = l.item /\ m.nth = k}
PartForms == {{[item |-> s, amount |-> NoSpare, nth |-> 1] : s \in S} : S \in SUBSET Spares}
SpareForms(kind) == IF kind = "part" THEN PartForms ELSE OperationForms

\* The line vennDiagram finds for a row: the first that names its spare.
First(form, spare) == CHOOSE l \in form : l.item = spare /\ l.nth = 1

SavesOfStock(d) == {q \in InFlight({"header", "old", "rows"}) : job[q].target = d}
DeletesOfStock(d) == {q \in InFlight({"rows_gone"}) : job[q].target = d}

----------------------------------------------------------------------------
(* upsertSpareAdjustment, upsertSpareWithdrawal and upsertMachinePart *)

\* A part is checked to have its spare among the compatible ones.
BeginStock(p, d, kind, spare) ==
    /\ Free(p)
    /\ operations[d] = kind \/ (d = NextSerial /\ operations[d] = "none")
    /\ \E form \in SpareForms(kind) :
         /\ IF kind = "part" THEN spare \in Items(form) ELSE spare = NoSpare
         /\ Start(p, "header", [n |-> NextSerial, target |-> d, kind |-> kind, spare |-> spare,
                                form |-> form, drop |-> {}, add |-> {}, keep |-> {}],
                  SavesOfStock(d) \cup DeletesOfStock(d))
    /\ UNCHANGED stockVars

\* An upsert: one that was deleted meanwhile is created under a new number.
StockHeader(p) ==
    /\ phase[p] = "header"
    /\ LET j == job[p]
           d == IF operations[j.target] = "none" THEN j.n ELSE j.target
       IN
       /\ j.spare # NoSpare => j.spare \in spares
       /\ operations' = [operations EXCEPT ![d] = j.kind]
       /\ current' = [current EXCEPT ![d] = j.spare]
       /\ asked' = [asked EXCEPT ![d] = NoSpare]
       /\ Goto(p, "old", [j EXCEPT !.target = d])
    /\ UNCHANGED <<spares, transactions>>

\* vennDiagram by spare: the rows no line names, all the lines of spares that have no
\* row, and the rows that keep one.  A part's compatible spares are not updated.
StockOld(p) ==
    /\ phase[p] = "old"
    /\ LET j == job[p]
           rows == RowsOf(transactions, j.target)
       IN Goto(p, "rows",
               [j EXCEPT !.drop = {r \in rows : r.item \notin Items(j.form)},
                         !.add = {l \in j.form : l.item \notin Items(rows)},
                         !.keep = {r \in rows : r.item \in Items(j.form) /\ j.kind = "operation"}])
    /\ UNCHANGED stockVars

\* Mutant: rows to delete are looked for by spare alone.
DeletedEverywhere(doc, spare) == {r \in transactions : r.item # spare}

\* deleteTransaction, createTransaction and updateTransaction: by spare and operation,
\* every row of the two.
DeleteTransactions(doc, spare) == {r \in transactions : r.doc # doc \/ r.item # spare}
CreateTransaction(doc, l, n) ==
    transactions \cup {[id |-> <<n, l.item, l.nth>>, doc |-> doc, item |-> l.item,
                        amount |-> l.amount]}
UpdateTransactions(doc, l) ==
    {IF r.doc = doc /\ r.item = l.item THEN [r EXCEPT !.amount = l.amount] ELSE r :
        r \in transactions}

\* Those of an operation insist that the spare is there.
Insists(j, spare) == j.kind = "operation" => spare \in spares

DropStockRow(p) ==
    /\ phase[p] = "rows"
    /\ \E r \in job[p].drop :
         /\ Insists(job[p], r.item)
         /\ transactions' = DeleteTransactions(job[p].target, r.item)
         /\ Goto(p, "rows", [job[p] EXCEPT !.drop = @ \ {r}])
    /\ UNCHANGED <<spares, operations, current, asked>>

AddStockRow(p) ==
    /\ phase[p] = "rows"
    /\ job[p].drop = {}
    /\ operations[job[p].target] # "none"
    /\ \E l \in job[p].add :
         /\ l.item \in spares
         /\ transactions' = CreateTransaction(job[p].target, l, job[p].n)
         /\ Goto(p, "rows", [job[p] EXCEPT !.add = @ \ {l}])
    /\ UNCHANGED <<spares, operations, current, asked>>

KeepStockRow(p) ==
    /\ phase[p] = "rows"
    /\ job[p].drop = {} /\ job[p].add = {}
    /\ \E r \in job[p].keep :
         /\ Insists(job[p], r.item)
         /\ transactions' = UpdateTransactions(job[p].target, First(job[p].form, r.item))
         /\ Goto(p, "rows", [job[p] EXCEPT !.keep = @ \ {r}])
    /\ UNCHANGED <<spares, operations, current, asked>>

StockSaved(p) ==
    /\ phase[p] = "rows"
    /\ job[p].drop = {} /\ job[p].add = {} /\ job[p].keep = {}
    /\ asked' = [asked EXCEPT ![job[p].target] = job[p].form]
    /\ Finish(p)
    /\ UNCHANGED <<spares, operations, current, transactions>>

----------------------------------------------------------------------------
(* deleteSpareOperation and deleteMachinePart: what fails is swallowed *)

DeleteStockRows(p, d) ==
    /\ operations[d] # "none"
    /\ transactions' = transactions \ RowsOf(transactions, d)
    /\ asked' = [asked EXCEPT ![d] = NoSpare]
    /\ Start(p, "rows_gone", [n |-> NextSerial, target |-> d], SavesOfStock(d))
    /\ UNCHANGED <<spares, operations, current>>

\* Rows inserted meanwhile keep the document.
DeleteStock(p) ==
    /\ phase[p] = "rows_gone"
    /\ LET d == job[p].target IN
       IF RowsOf(transactions, d) = {}
       THEN /\ operations' = [operations EXCEPT ![d] = "none"]
            /\ current' = [current EXCEPT ![d] = NoSpare]
       ELSE UNCHANGED <<operations, current>>
    /\ Finish(p)
    /\ UNCHANGED <<spares, transactions, asked>>

----------------------------------------------------------------------------
(* deleteSpare: counted, then removed, unless something refers to it by now *)

\* Mutant: only the spare a part has now is looked at.
ReferredByParts(s) == \E d \in Serials : current[d] = s

Referred(s) == s \in Items(transactions) \/ \E d \in Serials : current[d] = s

BeginDeleteSpare(p, s) ==
    /\ s \in spares
    /\ ~Referred(s)
    /\ Start(p, "spare", [n |-> NextSerial, target |-> s], {})
    /\ UNCHANGED stockVars

DeleteSpare(p) ==
    /\ phase[p] = "spare"
    /\ spares' = IF Referred(job[p].target) THEN spares ELSE spares \ {job[p].target}
    /\ Finish(p)
    /\ UNCHANGED <<operations, current, transactions, asked>>

----------------------------------------------------------------------------

FailStock(p) ==
    /\ Fail(p, FALSE)
    /\ UNCHANGED stockVars

StockNext ==
    \E p \in Procs :
        \/ \E d \in Serials, kind \in {"operation", "part"}, spare \in Spares \cup {NoSpare} :
              BeginStock(p, d, kind, spare)
        \/ StockHeader(p) \/ StockOld(p) \/ DropStockRow(p) \/ AddStockRow(p)
        \/ KeepStockRow(p) \/ StockSaved(p)
        \/ \E d \in Serials : DeleteStockRows(p, d)
        \/ DeleteStock(p)
        \/ \E s \in Spares : BeginDeleteSpare(p, s)
        \/ DeleteSpare(p)
        \/ FailStock(p)

StockSpec == SlotsInit /\ StockInit /\ [][StockNext]_<<slotVars, stockVars>>

----------------------------------------------------------------------------
(* What is claimed of it *)

\* A row as the line it was created for.
AsLine(r) == [item |-> r.item, amount |-> r.amount, nth |-> r.id[3]]

\* The spares of a document are those its last save that ended named, whatever failed
\* halfway before.  The rows of each are the lines of that save for it, if the save
\* created them, and have the amount of the first of those lines otherwise; they are
\* of one request, for different lines of it, and for one of each spare in a part,
\* which has its own among them.  So a spare that no save named twice has one row,
\* with what was last asked; one that a save named twice has two, and keeps both, with
\* the full amount each, when a later save names it once.  Not if two saves of the
\* document overlapped: both insert.
StockAsAsked ==
    ~contended =>
        \A d \in Serials : operations[d] # "none" /\ asked[d] # NoSpare =>
            LET rows == RowsOf(transactions, d) IN
            /\ Items(rows) = Items(asked[d])
            /\ \A s \in Items(rows) :
                  LET there == {r \in rows : r.item = s} IN
                  \/ {AsLine(r) : r \in there} = {l \in asked[d] : l.item = s}
                  \/ \A r \in there : r.amount = First(asked[d], s).amount
            /\ \A r, q \in rows : r.item = q.item =>
                  r.id[1] = q.id[1] /\ (r.id[3] = q.id[3] => r = q)
            /\ operations[d] = "part" =>
                  current[d] \in Items(rows) /\ \A r \in rows : r.id[3] = 1

=============================================================================
