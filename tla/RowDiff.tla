------------------------------ MODULE RowDiff ------------------------------
(***************************************************************************)
(* The lines of a document: vennDiagram compares the stored rows with the  *)
(* lines of a form by id, and the save deletes, creates and updates rows   *)
(* accordingly.  A row is named by the request that inserted it and its    *)
(* product; the id of a line is NoId when the line is new.                 *)
(***************************************************************************)
EXTENDS Integers, FiniteSets, Functions

CONSTANTS NoId

Ids(lines) == {l.id : l \in lines} \ {NoId}

\* aMinusB, bMinusA and the intersection.
Removed(old, form) == {r \in old : r.id \notin Ids(form)}
Created(old, form) == {l \in form : l.id \notin Ids(old)}
Kept(old, form) == {r \in old : r.id \in Ids(form)}

LineOf(form, id) == CHOOSE l \in form : l.id = id

\* The row a new line becomes, and a row with the columns of its line.  An
\* update writes active too: a row the form has kept from before comes back.
\* Mutant (AddedUp): the amount of the line is added.
NewRow(l, doc, n) ==
    [id |-> <<n, l.item>>, doc |-> doc, item |-> l.item, amount |-> l.amount, active |-> TRUE]
AddedUp(r, form) == [r EXCEPT !.amount = @ + LineOf(form, r.id).amount, !.active = TRUE]
Updated(r, form) == [r EXCEPT !.amount = LineOf(form, r.id).amount, !.active = TRUE]
Deleted(r) == [r EXCEPT !.active = FALSE]

\* The table after these writes of a save of doc: they fall on the rows as they
\* are, and were decided on the rows in old.
Saved(rows, old, form, doc, n) ==
    LET removed == Ids(Removed(old, form))
        kept == Ids(Kept(old, form))
    IN {IF r.id \in removed THEN Deleted(r)
        ELSE IF r.id \in kept THEN Updated(r, form) ELSE r : r \in rows}
       \cup {NewRow(l, doc, n) : l \in Created(old, form)}

\* Of a save that is no transaction, the statements that may come next, each with
\* the old rows and the lines it disposes of: deletes, then creates, then updates.
NextWrites(old, form) ==
    IF Removed(old, form) # {} THEN {<<{r}, {}>> : r \in Removed(old, form)}
    ELSE IF Created(old, form) # {} THEN {<<{}, {l}>> : l \in Created(old, form)}
    ELSE {<<{r}, {LineOf(form, r.id)}>> : r \in old}

RowsOf(rows, doc) == {r \in rows : r.doc = doc}
Active(rows) == {r \in rows : r.active}
ActiveOf(rows, doc) == Active(RowsOf(rows, doc))

Total(lines) == SumFunction([l \in lines |-> l.amount])
TotalOf(lines, item) == Total({l \in lines : l.item = item})
Items(lines) == {l.item : l \in lines}

\* The forms of a document with these rows: any subset of items, one line each,
\* new or for a row of that item, in force or not (the form may be an old one).
\* amounts gives those an item may have.  A line keeps the item of its row: one that
\* changes it leaves in force what a new line and a dropped row would.
Forms(rows, items, amounts) ==
    LET lines == {l \in [id : Ids(rows) \cup {NoId}, item : items,
                        amount : UNION Range(amounts)] :
                    l.amount \in amounts[l.item] /\ (l.id # NoId => l.id[2] = l.item)}
    IN UNION {{{f[i] : i \in S} : f \in {g \in [S -> lines] : \A i \in S : g[i].item = i}} :
                S \in SUBSET items}

=============================================================================
