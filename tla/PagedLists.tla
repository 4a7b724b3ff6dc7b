------------------------------ MODULE PagedLists ------------------------------
(***************************************************************************)
(* The lists of the application: each paginated... function counts the     *)
(* rows that match and then reads one page of them, two statements with    *)
(* nothing to hold the table between them, and a client turns the pages    *)
(* while others write.  A page is an offset into an order, so a row may    *)
(* come under the reader's hand twice, or slip past it.                    *)
(*                                                                         *)
(* A row's value is its day, by which it is in the days picked or not, and *)
(* what it is sorted by when that is not its stamp.  Text filters are left *)
(* out: they too take a row in or out.  A descending sort by a field is    *)
(* the ascending one with the values reversed.                             *)
(***************************************************************************)
EXTENDS Integers, Sequences, FiniteSets, Functions

CONSTANTS
    MaxRows,       \* bound: rows ever inserted
    MaxNow,        \* bound: seconds that pass
    MaxWrites,     \* bound: updates and deletions
    PageSize

VARIABLES
    list,          \* which list it is: how it is sorted, and what days it takes
    table,         \* the rows inserted so far
    now,           \* the second it is: stamps are kept to the second
    writes,        \* updates and deletions so far
    reading,       \* where the reader stands: idle, counted, paged or done
    page, count,   \* pages read, and the count that came with the last
    shown,         \* how often each row was shown
    touched,       \* history: rows inserted, updated or deleted since the first page
    upset          \* history: what happened to the order since then

\* A page takes a row at least.
ListBounds == MaxRows \in Nat /\ PageSize \in Nat \ {0}

listVars == <<list, table, now, writes, reading, page, count, shown, touched, upset>>

Rows == 1..MaxRows
Days == 1..3
Picked == 1..2

\* Of what a list is sorted by, what matters is if it changes and if it has ties.
KeyOf(sort) ==
    IF sort \in {"id", "updated_at"} THEN sort
    ELSE IF sort = "transferred_date" THEN "field, updated_at" ELSE "field"

\* sorts: what a client may ask for, the first when it does not ask.
List(sorts, days) == {[key |-> KeyOf(sort), days |-> days, grows |-> FALSE] : sort \in sorts}

----------------------------------------------------------------------------
(* The lists.  The end day is taken in, as the end of it in UTC or as the   *)
(* start of the next business day, or is not, or no day is asked for        *)

OrderQuotationsList ==
    List({"updated_at", "order_code", "estimated_delivery_date", "expiration_date", "date"}, "through end")
OrderRequestsList == List({"updated_at", "order_code", "estimated_delivery_date", "date"}, "through end")
OrderSalesList == List({"updated_at", "order_request", "order_code", "date"}, "through end")
ExpensesList == List({"updated_at", "date"}, "before end")
TransfersList == List({"updated_at", "transferred_date"}, "through end")
AdjustmentsList == List({"updated_at"}, "through end")
ProductionsList == List({"updated_at"}, "through end")
AccountsList == List({"updated_at", "name", "abbreviation"}, "any")
ResourcesList == List({"updated_at", "name"}, "any")
ExpenseResourcesList == List({"updated_at", "name"}, "any")
EmployeesList == List({"updated_at", "first_name", "last_name"}, "any")
ProductsList ==
    List({"updated_at", "external_description", "internal_description", "order_production_type_id",
          "product_category_id"}, "any")
MachinesList == List({"updated_at"}, "any")

\* Activities are only ever added.
ActivitiesList == {[key |-> "id", days |-> "through end", grows |-> TRUE]}

Lists ==
    UNION {OrderQuotationsList, OrderRequestsList, OrderSalesList, ExpensesList, TransfersList,
           AdjustmentsList, ProductionsList, AccountsList, ResourcesList, ExpenseResourcesList,
           EmployeesList, ProductsList, MachinesList, ActivitiesList}

----------------------------------------------------------------------------

ListsInit ==
    /\ list \in Lists
    /\ table = <<>>
    /\ now = 0
    /\ writes = 0
    /\ reading = "idle"
    /\ page = 0 /\ count = 0
    /\ shown = [r \in Rows |-> 0]
    /\ touched = {} /\ upset = {}

ListsTypeOK ==
    /\ Len(table) <= MaxRows
    /\ \A r \in DOMAIN table : table[r].stamp <= now /\ table[r].value \in Days
    /\ touched \subseteq Rows
    /\ upset \subseteq {"came", "came between", "left", "moved", "tied"}
    /\ page <= MaxRows + 1

Matches(row) ==
    /\ row.active
    /\ CASE list.days = "through end" -> row.value \in Picked
         [] list.days = "before end" -> row.value \in Picked /\ row.value # 2
         [] list.days = "any" -> TRUE

Matching == {r \in DOMAIN table : Matches(table[r])}

Later(a, b) == table[a].stamp > table[b].stamp

ByField(a, b) ==
    \/ table[a].value < table[b].value
    \/ list.key = "field, updated_at" /\ table[a].value = table[b].value /\ Later(a, b)

\* Mutant: the list starts with what was written longest ago.
OldestFirst(a, b) ==
    CASE list.key = "id" -> a < b
      [] list.key = "updated_at" -> Later(b, a)
      [] OTHER -> ByField(a, b)

\* orderBy.
Precedes(a, b) ==
    CASE list.key = "id" -> a > b
      [] list.key = "updated_at" -> Later(a, b)
      [] OTHER -> ByField(a, b)

\* The orders the database may answer in: rows that tie come as they will.
Orders ==
    {s \in [1..Cardinality(Matching) -> Matching] :
        \A i, j \in DOMAIN s : i < j => s[i] # s[j] /\ ~Precedes(s[j], s[i])}

Tied == \E a, b \in Matching : a # b /\ ~Precedes(a, b) /\ ~Precedes(b, a)

----------------------------------------------------------------------------

\* The first statement of a page: the first page begins a reading.
CountRows ==
    /\ reading \in {"idle", "paged"}
    /\ count' = Cardinality(Matching)
    /\ reading' = "counted"
    /\ IF reading = "idle" THEN touched' = {} /\ upset' = {} ELSE UNCHANGED <<touched, upset>>
    /\ UNCHANGED <<list, table, now, writes, page, shown>>

\* The second: skip the pages read, and take one.  The reader goes on while the count
\* that came with it says there is more.
FetchPage ==
    /\ reading = "counted"
    /\ \E s \in Orders :
          shown' = [r \in Rows |-> shown[r] +
                      Cardinality({i \in DOMAIN s : s[i] = r /\ i > page * PageSize
                                                            /\ i <= (page + 1) * PageSize})]
    /\ page' = page + 1
    /\ reading' = IF page' * PageSize < count THEN "paged" ELSE "done"
    /\ upset' = IF Tied THEN upset \cup {"tied"} ELSE upset
    /\ UNCHANGED <<list, table, now, writes, count, touched>>

InReading == reading \in {"counted", "paged"}

\* What a write does to the readers' order: the row comes to the list, leaves it or moves.
Upsets(r, new) ==
    LET was == r \in Matching
        is == Matches(new)
    IN upset \cup (IF ~was /\ is THEN {IF reading = "counted" THEN "came between" ELSE "came"} ELSE {})
             \cup (IF was /\ ~is THEN {"left"} ELSE {})
             \cup (IF was /\ is /\ list.key # "updated_at" /\ table[r].value # new.value
                   THEN {"moved"} ELSE {})

Noticed(r, new) ==
    IF InReading THEN touched' = touched \cup {r} /\ upset' = Upsets(r, new)
    ELSE UNCHANGED <<touched, upset>>

InsertRow(value) ==
    LET new == [active |-> TRUE, value |-> value, stamp |-> now] IN
    /\ Len(table) < MaxRows /\ reading # "done"
    /\ table' = Append(table, new)
    /\ Noticed(Len(table) + 1, new)
    /\ UNCHANGED <<list, now, writes, reading, page, count, shown>>

WriteRow(r, new) ==
    /\ writes < MaxWrites /\ reading # "done" /\ ~list.grows
    /\ table[r].active
    /\ table' = [table EXCEPT ![r] = new]
    /\ writes' = writes + 1
    /\ Noticed(r, new)
    /\ UNCHANGED <<list, now, reading, page, count, shown>>

UpdateRow(r, value) == WriteRow(r, [active |-> TRUE, value |-> value, stamp |-> now])
RemoveRow(r) == WriteRow(r, [table[r] EXCEPT !.active = FALSE, !.stamp = now])

\* Stamps are only compared: a second in which nothing is written changes nothing.
Second ==
    /\ now < MaxNow /\ reading # "done"
    /\ \E r \in DOMAIN table : table[r].stamp = now
    /\ now' = now + 1
    /\ UNCHANGED <<list, table, writes, reading, page, count, shown, touched, upset>>

ListsNext ==
    \/ CountRows \/ FetchPage \/ Second
    \/ \E value \in Days : InsertRow(value)
    \/ \E r \in DOMAIN table : RemoveRow(r) \/ \E value \in Days : UpdateRow(r, value)

ListsSpec == ListsInit /\ [][ListsNext]_listVars

----------------------------------------------------------------------------
(* What is claimed of it *)

\* Whoever turns all the pages of a list sees every row that nobody wrote meanwhile, even
\* though others are added and updated, unless another left the list, or moved in it, or
\* came to it between the two statements of a page, or rows tied; and sees each just once
\* if none came either.  So it is because a row that is written goes to the front.
PagesTell ==
    reading = "done" =>
        LET calm == upset \cap {"left", "moved", "came between", "tied"} = {}
            still == Matching \ touched
        IN /\ calm => \A r \in still : shown[r] >= 1
           /\ upset = {} /\ touched = {} =>
                 /\ \A r \in Rows : shown[r] = IF r \in Matching THEN 1 ELSE 0
                 /\ count = Cardinality(Matching)

=============================================================================
