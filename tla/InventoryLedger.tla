-------------------------- MODULE InventoryLedger --------------------------
(***************************************************************************)
(* The ledger of a product: product-inventory-movements.service.ts, over   *)
(* the sales, adjustments and productions that move its stock.             *)
(*                                                                         *)
(* The stock is not stored.  The ledger reads its present level and the    *)
(* rows last edited in a window, in eight statements and no transaction,   *)
(* and unwinds the level row by row, newest edit first.  What it tells     *)
(* depends on updated_at, which every save, status change and delete       *)
(* stamps itself, before it commits, and DATETIME(0) rounds to a second.   *)
(*                                                                         *)
(* A document is its header and one line of the product.  A production     *)
(* makes the product or consumes it: these are two kinds here.  Time is in *)
(* halves of a second.  Groups are counted as kilos are.                   *)
(***************************************************************************)
EXTENDS RequestSlots, Sequences, TLC

CONSTANTS
    Kilos,       \* of a line: positive
    MaxClock,    \* bound
    NoDoc

VARIABLES
    clock,         \* bound: MaxClock
    tables,        \* those that ever hold a row of the product
    docs,          \* each document, by the request that created it
    past           \* history: the stock as each document's last write left it, what else
                   \* moved it then, and whether none of that has been written since

ledgerVars == <<clock, tables, docs, past>>

Doc == Serials \cup {0}
Order == <<"sale", "adjustment", "production", "consumption">>
Kinds == Range(Order)
Instants == 0..MaxClock + 1

Row == [active : BOOLEAN, at : Instants]
Line == [active : BOOLEAN, at : Instants, kilos : Int]
Document == [kind : Kinds, header : Row, line : Line, delivered : BOOLEAN]
Past == [level : Int, standing : SUBSET Doc, intact : BOOLEAN]

\* Weights are positive, and what stands for no document is none.
LedgerNames ==
    /\ Kilos \subseteq Nat \ {0}
    /\ MaxClock \in Nat /\ MaxClock >= 2
    /\ NoDoc \notin Document

Entered(d) == docs[d] # NoDoc

LedgerTypeOK ==
    /\ clock \in 0..MaxClock
    /\ tables \subseteq Kinds
    /\ docs \in [Doc -> Document \cup {NoDoc}]
    /\ past \in [Doc -> Past]

\* A sale is already there, so some table holds one.
LedgerInit ==
    /\ clock = 2
    /\ tables \in {t \in SUBSET Kinds : "sale" \in t}
    /\ \E k \in Kilos, delivered \in BOOLEAN :
         LET sale == [kind |-> "sale", delivered |-> delivered,
                      header |-> [active |-> TRUE, at |-> 0],
                      line |-> [active |-> TRUE, at |-> 0, kilos |-> k]]
         IN /\ docs = [d \in Doc |-> IF d = 0 THEN sale ELSE NoDoc]
            /\ past = [d \in Doc |-> [level |-> IF d = 0 /\ delivered THEN -k ELSE 0,
                                      standing |-> {}, intact |-> TRUE]]

----------------------------------------------------------------------------
(* What a document does to the stock *)

\* Only adjustments are signed as they are stored.
KilosOf(kind) == IF kind = "adjustment" THEN Kilos \cup {-k : k \in Kilos} ELSE Kilos

Signed(doc) ==
    IF doc.kind \in {"sale", "consumption"} THEN -doc.line.kilos ELSE doc.line.kilos

InEffect(doc) == doc # NoDoc /\ doc.header.active /\ doc.line.active
AffectsInventory(doc) == doc.kind = "sale" => doc.delivered

StockMove(doc) == IF InEffect(doc) /\ AffectsInventory(doc) THEN Signed(doc) ELSE 0

\* getProductsInventory and currentBalance, of the documents given.
Balance(table) == SumFunction([d \in DOMAIN table |-> StockMove(table[d])])

\* DATETIME(0) rounds half a second up.
Stored(t) == 2 * ((t + 1) \div 2)

\* Mutant: a change of the header alone is not an edit of its line.
LineEdit(doc) == doc.line.at

LastEdit(doc) == IF doc.header.at > doc.line.at THEN doc.header.at ELSE doc.line.at

----------------------------------------------------------------------------
(* Writers *)

Writing == InFlight({"save", "commit", "line", "header", "drop"})

\* One committed write of d, which leaves it as doc.
Write(d, doc) ==
    /\ docs' = [docs EXCEPT ![d] = doc]
    /\ LET standing == {x \in Doc \ {d} : StockMove(docs[x]) # 0} IN
       past' = [x \in Doc |->
                  IF x = d THEN [level |-> Balance(docs'), standing |-> standing, intact |-> TRUE]
                  ELSE [past[x] EXCEPT !.intact = @ /\ d \notin past[x].standing]]
    /\ UNCHANGED <<clock, tables>>

\* The line as a form has it: kilos, or 0 for a form that does not name the product.
LineAsked(d, kilos, t) ==
    IF kilos # 0 THEN [active |-> TRUE, at |-> Stored(t), kilos |-> kilos]
    ELSE [docs[d].line EXCEPT !.active = FALSE, !.at = Stored(t)]

NewDoc(kind, t) ==
    [kind |-> kind, delivered |-> FALSE, header |-> [active |-> TRUE, at |-> Stored(t)],
     line |-> [active |-> FALSE, at |-> Stored(t), kilos |-> 0]]

\* A save of the header writes neither active nor the status.
Header(d, kind, t) ==
    IF Entered(d) THEN [docs[d] EXCEPT !.header.at = Stored(t)] ELSE NewDoc(kind, t)

\* A delivered sale is locked; a deleted one is not found and passes as new.
IsEditable(d) ==
    docs[d].kind = "sale" /\ docs[d].header.active => ~docs[d].delivered

\* Sales and productions are saved in a transaction, stamped within it; here, at its
\* start, a later stamp being that of a later start.
BeginSave(p, d, kind, kilos) ==
    /\ \/ d = NextSerial /\ kilos # 0
       \/ Entered(d) /\ docs[d].kind = kind /\ IsEditable(d)
    /\ Start(p, IF kind = "adjustment" THEN "save" ELSE "commit",
             [n |-> NextSerial, target |-> d, kind |-> kind, kilos |-> kilos, at |-> clock], Writing)
    /\ UNCHANGED ledgerVars

CommitSave(p) ==
    /\ phase[p] = "commit"
    /\ LET j == job[p]
           doc == Header(j.target, j.kind, j.at)
       IN Write(j.target, [doc EXCEPT !.line = LineAsked(j.target, j.kilos, j.at)])
    /\ Finish(p)

\* An adjustment is not: first its header, then its line.
SaveHeader(p) ==
    /\ phase[p] = "save"
    /\ Write(job[p].target, Header(job[p].target, job[p].kind, clock))
    /\ Goto(p, "line", job[p])

SaveLine(p) ==
    /\ phase[p] = "line"
    /\ LET d == job[p].target IN
       Write(d, [docs[d] EXCEPT !.line = LineAsked(d, job[p].kilos, clock)])
    /\ Finish(p)

\* updateOrderSaleStatus and updateOrderSaleDetails: the header alone.
BeginHeader(p, d, change) ==
    /\ Entered(d) /\ docs[d].kind = "sale" /\ docs[d].header.active
    /\ Start(p, "header", [n |-> NextSerial, target |-> d, change |-> change], Writing)
    /\ UNCHANGED ledgerVars

WriteHeader(p) ==
    /\ phase[p] = "header"
    /\ LET d == job[p].target
           change == job[p].change
       IN Write(d, [docs[d] EXCEPT !.header.at = Stored(clock),
                                   !.delivered = IF change = "details" THEN @
                                                 ELSE change = "delivered"])
    /\ Finish(p)

\* What a delete marks, in turn; a production's consumed lines are left as they are.
DropOrder ==
    [sale |-> <<"line", "header">>, adjustment |-> <<"header", "line">>,
     production |-> <<"header", "line">>, consumption |-> <<"header">>]

\* A sale once delivered is not deletable; deleteOrderAdjustment alone does not ask
\* whether the document was deleted already.
BeginDrop(p, d) ==
    /\ Entered(d) /\ IsEditable(d)
    /\ docs[d].header.active \/ docs[d].kind = "adjustment"
    /\ Start(p, "drop", [n |-> NextSerial, target |-> d, left |-> DropOrder[docs[d].kind]], Writing)
    /\ UNCHANGED ledgerVars

Drop(p) ==
    /\ phase[p] = "drop"
    /\ LET d == job[p].target
           part == Head(job[p].left)
       IN /\ Write(d, [docs EXCEPT ![d][part].active = FALSE, ![d][part].at = Stored(clock)][d])
          /\ IF Len(job[p].left) = 1 THEN Finish(p)
             ELSE Goto(p, "drop", [job[p] EXCEPT !.left = Tail(@)])

----------------------------------------------------------------------------
(* getProductInventoryMovements *)

\* Eight statements at once, the level and the rows of each table; those of a table
\* without rows of the product can come at any time and are left out.
Statements == {"level", "rows"} \X tables

TableOf(t) == [d \in {x \in Doc : Entered(x) /\ docs[x].kind = t} |-> docs[d]]

\* One at a time: a reading changes nothing that another could see.
BeginReading(p) ==
    /\ InFlight({"read"}) = {}
    /\ Start(p, "read", [n |-> NextSerial, to |-> clock, found |-> <<>>], {})
    /\ UNCHANGED ledgerVars

\* What a statement selects depends on its table and on arguments that do not
\* change: the table is kept, and selected from in AnswerReading.
ReadTable(p, s) ==
    /\ phase[p] = "read" /\ s \in Statements \ DOMAIN job[p].found
    /\ Goto(p, "read", [job[p] EXCEPT !.found = (s :> TableOf(s[2])) @@ @])
    /\ UNCHANGED ledgerVars

\* updatedInWindow, and of sales the delivered ones unless all are asked for.
InWindow(doc, from, to) == doc.header.at \in from..to \/ doc.line.at \in from..to
Listed(doc, from, to, all) ==
    InEffect(doc) /\ InWindow(doc, from, to) /\ (all \/ AffectsInventory(doc))

\* Newest edit first; then as the tables were appended, and by row.
Rank(doc) == CHOOSE i \in DOMAIN Order : Order[i] = doc.kind
Above(table, d, e) ==
    LET x == table[d]  y == table[e] IN
    \/ LastEdit(x) > LastEdit(y)
    \/ LastEdit(x) = LastEdit(y) /\ Rank(x) < Rank(y)
    \/ LastEdit(x) = LastEdit(y) /\ Rank(x) = Rank(y) /\ d < e

\* The level before each movement: the level read, without it and all above it.
Unwound(level, table, shown) ==
    [d \in {x \in shown : AffectsInventory(table[x])} |->
        level - SumFunction([e \in {x \in shown : x = d \/ Above(table, x, d)} |-> StockMove(table[e])])]

Merged(parts) == [d \in UNION {DOMAIN t : t \in parts} |-> (CHOOSE t \in parts : d \in DOMAIN t)[d]]

Complete(p) == phase[p] = "read" /\ DOMAIN job[p].found = Statements

\* The answer, for a window that opens at from and the sales asked for.
Ledger(p, from, all) ==
    LET read(what) == Merged({job[p].found[<<what, t>>] : t \in tables})
        level == Balance(read("level"))
        table == read("rows")
        shown == {d \in DOMAIN table : Listed(table[d], from, job[p].to, all)}
    IN [level |-> level, shown |-> shown, before |-> Unwound(level, table, shown)]

AnswerReading(p) ==
    /\ Complete(p)
    /\ Finish(p)
    /\ UNCHANGED ledgerVars

----------------------------------------------------------------------------

FailLedger(p) ==
    /\ Fail(p, FALSE)
    /\ UNCHANGED ledgerVars

ClockTicks ==
    /\ clock < MaxClock
    /\ clock' = clock + 1
    /\ UNCHANGED <<slotVars, tables, docs, past>>

LedgerNext ==
    \/ \E p \in Procs :
         \/ \E d \in Serials \cup {0}, kind \in tables : \E kilos \in KilosOf(kind) \cup {0} :
               BeginSave(p, d, kind, kilos)
         \/ CommitSave(p) \/ SaveHeader(p) \/ SaveLine(p)
         \/ \E d \in Serials \cup {0}, change \in {"delivered", "committed", "details"} :
               BeginHeader(p, d, change)
         \/ WriteHeader(p)
         \/ \E d \in Serials \cup {0} : BeginDrop(p, d)
         \/ Drop(p)
         \/ BeginReading(p) \/ (\E s \in Statements : ReadTable(p, s)) \/ AnswerReading(p)
         \/ FailLedger(p)
    \/ ClockTicks

LedgerSpec == SlotsInit /\ LedgerInit /\ [][LedgerNext]_<<slotVars, ledgerVars>>

----------------------------------------------------------------------------
(* What is claimed of it *)

\* The statements of a reading saw one state, the present one.
Consistent(p) == Complete(p) /\ \A s \in Statements : job[p].found[s] = TableOf(s[2])

Counted == {d \in Doc : InEffect(docs[d])}

\* "Inv" of a row, with the row itself, is the stock as the last edit of the row
\* left it, for whatever window and sales are asked: if no two writes overlapped,
\* no row was edited in its second or after the window, and no document that
\* moved the stock then has been edited since.
LedgerTellsHistory ==
    ~contended =>
        \A p \in Procs : Consistent(p) =>
            \A from \in 0..job[p].to, all \in BOOLEAN :
                LET ledger == Ledger(p, from, all) IN
                \A d \in DOMAIN ledger.before :
                    /\ past[d].intact
                    /\ \A e \in Counted :
                          /\ LastEdit(docs[e]) <= job[p].to
                          /\ e # d => LastEdit(docs[e]) # LastEdit(docs[d])
                    => ledger.before[d] + Signed(docs[d]) = past[d].level

=============================================================================
