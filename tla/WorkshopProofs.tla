--------------------------- MODULE WorkshopProofs ---------------------------
(***************************************************************************)
(* Proofs about Workshop and each of its components, for any machines,     *)
(* employees, spares, users, keys and number of requests: productions and  *)
(* plans, over the tables of lines they share; user roles; spares; the     *)
(* batch loader; all of them together; and, beside them, the ledger of a   *)
(* product.  Each component has an invariant that says, besides what is    *)
(* claimed, what every request in flight still has to write; that of the   *)
(* ledger says what else the stock is made of than the last row written.   *)
(***************************************************************************)
EXTENDS Workshop, InventoryLedger, Sums, TLAPS

(* Tables of lines, what RowDiff writes to them, and their forms *)

\* What the row of a table is made of.
AsRow(r) ==
    r = [id |-> r.id, doc |-> r.doc, item |-> r.item, amount |-> r.amount, active |-> r.active]

\* A row is named by the request that inserted it, one of the first n, and by its item.
NamedRow(r, items, n) ==
    /\ AsRow(r)
    /\ r.id = <<r.id[1], r.item>> /\ r.id[1] \in 1..n
    /\ r.item \in items /\ r.active \in BOOLEAN

\* A table of lines: no two rows have one id.
Table(table, items, n) ==
    /\ \A r \in table : NamedRow(r, items, n)
    /\ \A r, q \in table : r.id = q.id => r = q

\* A form has a line for each of some items, new or for one of these rows.
FormOK(form, table, items) ==
    /\ \A l \in form : /\ l.item \in items
                       /\ l.id # NoId => l.id \in Ids(table) /\ l.id[2] = l.item
    /\ \A l, m \in form : l.item = m.item => l = m

LEMMA FormsOK ==
  ASSUME NEW table, NEW items, NEW amounts, NEW form \in Forms(table, items, amounts)
  PROVE  FormOK(form, table, items)
<1> DEFINE Lines == {l \in [id : Ids(table) \cup {NoId}, item : items,
                             amount : UNION Range(amounts)] :
                        l.amount \in amounts[l.item] /\ (l.id # NoId => l.id[2] = l.item)}
<1>1. PICK S \in SUBSET items :
        form \in {{f[i] : i \in S} : f \in {g \in [S -> Lines] : \A i \in S : g[i].item = i}}
  BY DEF Forms
<1>2. PICK f \in [S -> Lines] : (\A i \in S : f[i].item = i) /\ form = {f[i] : i \in S}
  BY <1>1
<1>3. \A l \in form : l \in Lines
  BY <1>2
<1>4. \A l, m \in form : l.item = m.item => l = m
  BY <1>2
<1>5. \A l \in form : l.item \in items /\ (l.id # NoId => l.id \in Ids(table) /\ l.id[2] = l.item)
  BY <1>3
<1> QED
  BY <1>4, <1>5 DEF FormOK

\* What becomes of a row in a save.
Fate(r, old, form) ==
    IF r.id \in Ids(Removed(old, form)) THEN Deleted(r)
    ELSE IF r.id \in Ids(Kept(old, form)) THEN Updated(r, form) ELSE r

LEMMA SavedIs ==
  ASSUME NEW table, NEW old, NEW form, NEW doc, NEW n
  PROVE  Saved(table, old, form, doc, n) =
            {Fate(r, old, form) : r \in table} \cup {NewRow(l, doc, n) : l \in Created(old, form)}
BY DEF Saved, Fate

\* A row keeps all but its amount and whether it is in force, and that it is if it was
\* read and has a line, and not if it was read and has none.
Became(w, r, old, form) ==
    /\ AsRow(w) /\ w.id = r.id /\ w.doc = r.doc /\ w.item = r.item
    /\ r.id \notin Ids(old) => w = r
    /\ r.id \in Ids(old) /\ r.id \in Ids(form) => w.active = TRUE
    /\ r.id \in Ids(old) /\ r.id \notin Ids(form) => w.active = FALSE

LEMMA RowFate ==
  ASSUME NEW old, NEW form, NEW r, AsRow(r), NEW w, w = Fate(r, old, form)
  PROVE  Became(w, r, old, form)
<1>1. /\ r.id \in Ids(Removed(old, form)) <=> r.id \in Ids(old) /\ r.id \notin Ids(form)
      /\ r.id \in Ids(Kept(old, form)) <=> r.id \in Ids(old) /\ r.id \in Ids(form)
  BY DEF Ids, Removed, Kept
<1>2. CASE r.id \notin Ids(old)
  BY <1>1, <1>2 DEF Fate, Became
<1>3. CASE r.id \in Ids(old) /\ r.id \notin Ids(form)
  <2>1. w = Deleted(r)
    BY <1>1, <1>3 DEF Fate
  <2> QED
    BY <1>3, <2>1 DEF Deleted, Became, AsRow
<1>4. CASE r.id \in Ids(old) /\ r.id \in Ids(form)
  <2>1. w = Updated(r, form)
    BY <1>1, <1>4 DEF Fate
  <2> QED
    BY <1>4, <2>1 DEF Updated, Became, AsRow
<1> QED
  BY <1>2, <1>3, <1>4

LEMMA NewRowIs ==
  ASSUME NEW l, NEW doc, NEW n, NEW w, w = NewRow(l, doc, n)
  PROVE  AsRow(w) /\ w.id = <<n, l.item>> /\ w.doc = doc /\ w.item = l.item /\ w.active = TRUE
BY DEF NewRow, AsRow

\* The id of the row that a line has after the save.
IdOf(l, old, n) == IF l.id \in Ids(old) THEN l.id ELSE <<n, l.item>>

\* A save of doc, number n, may write the rows in old, which are of doc, and the lines
\* of the form: those that are not for one of these get rows with ids that are free.
WriteOK(table, items, m, old, form, doc, n) ==
    /\ m \in Nat /\ n \in 1..m
    /\ Table(table, items, m)
    /\ \A i \in items : <<n, i>> # NoId
    /\ \A w \in old : w.id \in Ids(table)
    /\ \A w \in old : \A r \in table : r.id = w.id => r.doc = doc
    /\ \A l \in form : l.item \in items /\ (l.id # NoId => l.id[2] = l.item)
    /\ \A l, k \in form : l.item = k.item => l = k
    /\ \A l \in Created(old, form) : \A r \in table : r.id # <<n, l.item>>

\* Every row is still there, those of other documents as they were; what is in force of
\* the document is of a line or was not read; and every line has a row in force.
SavedAs(W, table, old, form, doc, n) ==
    /\ \A r \in table : r.doc # doc \/ r.id \notin Ids(old) => r \in W
    /\ \A w \in W : w.doc # doc => w \in table
    /\ \A r \in table : \E w \in W : w.id = r.id /\ w.doc = r.doc
    /\ \A w \in W : \/ \E r \in table : w.id = r.id /\ w.doc = r.doc
                    \/ w.doc = doc /\ w.active /\ \E l \in Created(old, form) : w.id = <<n, l.item>>
    /\ \A w \in W : w.active /\ w.doc = doc =>
                      \/ \E l \in form : w.item = l.item /\ w.id = IdOf(l, old, n)
                      \/ w \in table /\ w.id \notin Ids(old)
    /\ \A l \in form : \E w \in W : /\ w.active /\ w.doc = doc
                                    /\ w.item = l.item /\ w.id = IdOf(l, old, n)

LEMMA SavedTable ==
  ASSUME NEW table, NEW items, NEW m, NEW old, NEW form, NEW doc, NEW n,
         WriteOK(table, items, m, old, form, doc, n),
         NEW W, W = Saved(table, old, form, doc, n)
  PROVE  Table(W, items, m) /\ SavedAs(W, table, old, form, doc, n)
<1> DEFINE O == {Fate(r, old, form) : r \in table}
           N == {NewRow(l, doc, n) : l \in Created(old, form)}
<1>1. W = O \cup N
  BY SavedIs
<1>2. ASSUME NEW w \in O PROVE \E r \in table : w = Fate(r, old, form)
  BY <1>2
<1>3. ASSUME NEW w \in N PROVE \E l \in Created(old, form) : w = NewRow(l, doc, n)
  BY <1>3
<1>4. \A r \in table : Fate(r, old, form) \in O
  OBVIOUS
<1>5. \A l \in Created(old, form) : NewRow(l, doc, n) \in N
  OBVIOUS
<1> HIDE DEF O, N
<1>6. \A r \in table : NamedRow(r, items, m)
  BY DEF WriteOK, Table
<1>7. \A r, q \in table : r.id = q.id => r = q
  BY DEF WriteOK, Table
<1>8. \A r \in table : AsRow(r)
  BY <1>6 DEF NamedRow
<1>9. ASSUME NEW w \in O
      PROVE  \E r \in table : Became(w, r, old, form) /\ w = Fate(r, old, form)
  BY <1>2, <1>8, <1>9, RowFate
<1>10. ASSUME NEW r \in table
       PROVE  \E w \in O : Became(w, r, old, form) /\ w = Fate(r, old, form)
  BY <1>4, <1>8, RowFate
<1>11. \A l \in Created(old, form) : l \in form /\ l.item \in items /\ l.id \notin Ids(old)
  BY DEF Created, WriteOK
<1>12. ASSUME NEW w \in N
       PROVE  \E l \in Created(old, form) :
                /\ AsRow(w) /\ w.id = <<n, l.item>> /\ w.doc = doc /\ w.item = l.item
                /\ w.active = TRUE /\ w = NewRow(l, doc, n)
  <2>1. PICK l \in Created(old, form) : w = NewRow(l, doc, n)
    BY <1>3, <1>12
  <2>2. AsRow(w) /\ w.id = <<n, l.item>> /\ w.doc = doc /\ w.item = l.item /\ w.active = TRUE
    BY <2>1 DEF NewRow, AsRow
  <2> QED
    BY <2>1, <2>2
<1>13. ASSUME NEW l \in Created(old, form)
       PROVE  \E w \in N : /\ w.id = <<n, l.item>> /\ w.doc = doc /\ w.item = l.item
                           /\ w.active = TRUE
  <2>1. PICK w : w = NewRow(l, doc, n)
    OBVIOUS
  <2>2. w \in N
    BY <1>5, <2>1
  <2>3. w.id = <<n, l.item>> /\ w.doc = doc /\ w.item = l.item /\ w.active = TRUE
    BY <2>1 DEF NewRow
  <2> QED
    BY <2>2, <2>3
<1>14. ASSUME NEW r \in table, r.id \in Ids(old) PROVE r.doc = doc
  BY <1>14 DEF WriteOK, Ids
<1>15. ASSUME NEW w \in O PROVE NamedRow(w, items, m)
  <2>1. PICK r \in table : Became(w, r, old, form)
    BY <1>9
  <2>2. w.active \in BOOLEAN
    BY <1>6, <2>1 DEF Became, NamedRow
  <2> QED
    BY <1>6, <2>1, <2>2 DEF Became, NamedRow
<1>16. ASSUME NEW w \in N PROVE NamedRow(w, items, m)
  <2>1. PICK l \in Created(old, form) :
           /\ AsRow(w) /\ w.id = <<n, l.item>> /\ w.doc = doc /\ w.item = l.item
           /\ w.active = TRUE
    BY <1>12
  <2>2. w.id[1] = n /\ n \in 1..m
    BY <2>1 DEF WriteOK
  <2> QED
    BY <1>11, <2>1, <2>2 DEF NamedRow
<1>17. ASSUME NEW w \in W, NEW v \in W, w.id = v.id PROVE w = v
  <2>1. CASE w \in O /\ v \in O
    <3>1. PICK r \in table : Became(w, r, old, form) /\ w = Fate(r, old, form)
      BY <1>9, <2>1
    <3>2. PICK q \in table : Became(v, q, old, form) /\ v = Fate(q, old, form)
      BY <1>9, <2>1
    <3>3. r = q
      BY <1>7, <1>17, <3>1, <3>2 DEF Became
    <3> QED
      BY <3>1, <3>2, <3>3
  <2>2. CASE w \in N /\ v \in N
    <3>1. PICK l \in Created(old, form) :
             w.id = <<n, l.item>> /\ w = NewRow(l, doc, n)
      BY <1>12, <2>2
    <3>2. PICK k \in Created(old, form) :
             v.id = <<n, k.item>> /\ v = NewRow(k, doc, n)
      BY <1>12, <2>2
    <3>3. <<n, l.item>> = <<n, k.item>>
      BY <1>17, <3>1, <3>2
    <3>4. l.item = k.item
      BY <3>3
    <3>5. l = k
      BY <1>11, <3>4 DEF WriteOK
    <3> QED
      BY <3>1, <3>2, <3>5
  <2>3. ASSUME NEW x \in O, NEW y \in N PROVE x.id # y.id
    <3>1. PICK r \in table : Became(x, r, old, form)
      BY <1>9
    <3>2. PICK l \in Created(old, form) : y.id = <<n, l.item>>
      BY <1>12
    <3> QED
      BY <3>1, <3>2 DEF Became, WriteOK
  <2> QED
    BY <1>1, <1>17, <2>1, <2>2, <2>3
<1>18. Table(W, items, m)
  BY <1>1, <1>15, <1>16, <1>17 DEF Table
<1>19. ASSUME NEW r \in table, r.doc # doc \/ r.id \notin Ids(old) PROVE r \in W
  <2>1. PICK w \in O : Became(w, r, old, form)
    BY <1>10
  <2> QED
    BY <1>1, <1>14, <1>19, <2>1 DEF Became
<1>20. ASSUME NEW w \in W, w.doc # doc PROVE w \in table
  <2>1. w \in O
    BY <1>1, <1>12, <1>20
  <2>2. PICK r \in table : Became(w, r, old, form)
    BY <1>9, <2>1
  <2> QED
    BY <1>14, <1>20, <2>2 DEF Became
<1>21. \A r \in table : \E w \in W : w.id = r.id /\ w.doc = r.doc
  BY <1>1, <1>10 DEF Became
<1>22. ASSUME NEW w \in W
       PROVE  \/ \E r \in table : w.id = r.id /\ w.doc = r.doc
              \/ w.doc = doc /\ w.active /\ \E l \in Created(old, form) : w.id = <<n, l.item>>
  BY <1>1, <1>9, <1>12 DEF Became
<1>23. ASSUME NEW w \in W, w.active, w.doc = doc
       PROVE  \/ \E l \in form : w.item = l.item /\ w.id = IdOf(l, old, n)
              \/ w \in table /\ w.id \notin Ids(old)
  <2>1. CASE w \in N
    <3>1. PICK l \in Created(old, form) : w.id = <<n, l.item>> /\ w.item = l.item
      BY <1>12, <2>1
    <3> QED
      BY <1>11, <3>1 DEF IdOf
  <2>2. CASE w \in O
    <3>1. PICK r \in table : Became(w, r, old, form)
      BY <1>9, <2>2
    <3>2. CASE r.id \notin Ids(old)
      BY <3>1, <3>2 DEF Became
    <3>3. CASE r.id \in Ids(old)
      <4>1. r.id \in Ids(form)
        BY <1>23, <3>1, <3>3 DEF Became
      <4>2. PICK l \in form : l.id = r.id /\ l.id # NoId
        BY <4>1 DEF Ids
      <4>3. l.id[2] = l.item /\ r.id[2] = r.item
        BY <1>6, <4>2 DEF WriteOK, NamedRow
      <4> QED
        BY <3>1, <3>3, <4>2, <4>3 DEF Became, IdOf
    <3> QED
      BY <3>2, <3>3
  <2> QED
    BY <1>1, <2>1, <2>2
<1>24. ASSUME NEW l \in form
       PROVE  \E w \in W : w.active /\ w.doc = doc /\ w.item = l.item /\ w.id = IdOf(l, old, n)
  <2>1. CASE l.id \notin Ids(old)
    <3>1. l \in Created(old, form)
      BY <2>1 DEF Created
    <3> QED
      BY <1>1, <1>13, <2>1, <3>1 DEF IdOf
  <2>2. CASE l.id \in Ids(old)
    <3>1. PICK o \in old : o.id = l.id /\ l.id # NoId
      BY <2>2 DEF Ids
    <3>2. PICK r \in table : r.id = l.id
      BY <3>1 DEF WriteOK, Ids
    <3>3. PICK w \in O : Became(w, r, old, form)
      BY <1>10
    <3>4. r.id \in Ids(form)
      BY <3>1, <3>2 DEF Ids
    <3>5. l.id[2] = l.item /\ r.id[2] = r.item
      BY <1>6, <3>1 DEF WriteOK, NamedRow
    <3> QED
      BY <1>1, <1>14, <2>2, <3>2, <3>3, <3>4, <3>5 DEF Became, IdOf
  <2> QED
    BY <2>1, <2>2
<1> QED
  BY <1>18, <1>19, <1>20, <1>21, <1>22, <1>23, <1>24 DEF SavedAs

----------------------------------------------------------------------------
(* Rows taken off, and rows added *)

\* The table with the rows of G marked deleted.
Marked(table, G) == {IF r \in G THEN Deleted(r) ELSE r : r \in table}

\* A row is as before, but for those of G, which are not in force.
MarkedRow(w, r, G) ==
    /\ w.id = r.id /\ w.doc = r.doc /\ w.item = r.item
    /\ r \in G => w.active = FALSE
    /\ r \notin G => w = r

LEMMA MarkedTable ==
  ASSUME NEW table, NEW items, NEW n, Table(table, items, n), NEW G,
         NEW W, W = Marked(table, G)
  PROVE  /\ Table(W, items, n)
         /\ \A w \in W : \E r \in table : MarkedRow(w, r, G)
         /\ \A r \in table : \E w \in W : MarkedRow(w, r, G)
<1> DEFINE mark(r) == IF r \in G THEN Deleted(r) ELSE r
<1>1. W = {mark(r) : r \in table}
  BY DEF Marked
<1>2. \A r \in table : NamedRow(r, items, n)
  BY DEF Table
<1>3. ASSUME NEW r \in table, NEW w, w = mark(r)
      PROVE  NamedRow(w, items, n) /\ MarkedRow(w, r, G)
  <2>1. NamedRow(r, items, n)
    BY <1>2
  <2>2. CASE r \in G
    <3>1. w = [r EXCEPT !.active = FALSE]
      BY <1>3, <2>2 DEF Deleted
    <3>2. /\ AsRow(w) /\ w.id = r.id /\ w.doc = r.doc /\ w.item = r.item
          /\ w.active = FALSE
      BY <2>1, <3>1 DEF AsRow, NamedRow
    <3> QED
      BY <2>1, <2>2, <3>2 DEF MarkedRow, NamedRow
  <2>3. CASE r \notin G
    BY <1>3, <2>1, <2>3 DEF MarkedRow
  <2> QED
    BY <2>2, <2>3
<1>4. \A r \in table : mark(r) \in W
  BY <1>1
<1>5. ASSUME NEW w \in W
      PROVE  \E r \in table : w = mark(r)
  BY <1>1
<1> HIDE DEF mark
<1>6. ASSUME NEW w \in W
      PROVE  \E r \in table : w = mark(r) /\ NamedRow(w, items, n) /\ MarkedRow(w, r, G)
  BY <1>3, <1>5
<1>7. \A r \in table : \E w \in W : MarkedRow(w, r, G)
  BY <1>3, <1>4
<1>8. ASSUME NEW w \in W, NEW v \in W, w.id = v.id PROVE w = v
  <2>1. PICK r \in table : w = mark(r) /\ MarkedRow(w, r, G)
    BY <1>6
  <2>2. PICK q \in table : v = mark(q) /\ MarkedRow(v, q, G)
    BY <1>6
  <2>3. r = q
    BY <1>8, <2>1, <2>2 DEF MarkedRow, Table
  <2> QED
    BY <2>1, <2>2, <2>3
<1>9. Table(W, items, n)
  BY <1>6, <1>8 DEF Table
<1> QED
  BY <1>6, <1>7, <1>9

\* A row of doc for each of some items, by request n.
AddedRows(E, doc, n) == {NewRow([item |-> e, amount |-> 1], doc, n) : e \in E}

AddedRow(w, e, doc, n) ==
    AsRow(w) /\ w.id = <<n, e>> /\ w.doc = doc /\ w.item = e /\ w.active = TRUE

\* Rows of request n for these items may be added: their ids are free.
CanAdd(table, items, m, E, n) ==
    /\ Table(table, items, m) /\ E \subseteq items /\ n \in 1..m
    /\ \A r \in table : \A e \in E : r.id # <<n, e>>

LEMMA AddedTable ==
  ASSUME NEW table, NEW items, NEW m, NEW E, NEW doc, NEW n, CanAdd(table, items, m, E, n),
         NEW W, W = table \cup AddedRows(E, doc, n)
  PROVE  /\ Table(W, items, m)
         /\ \A w \in W : w \in table \/ \E e \in E : AddedRow(w, e, doc, n)
         /\ table \subseteq W
         /\ \A e \in E : \E w \in W : AddedRow(w, e, doc, n)
<1> USE DEF CanAdd
<1> DEFINE new(e) == NewRow([item |-> e, amount |-> 1], doc, n)
           N == {new(e) : e \in E}
<1>1. W = table \cup N
  BY DEF AddedRows
<1>2. \A e \in E : new(e) \in N
  OBVIOUS
<1>3. ASSUME NEW w \in N PROVE \E e \in E : w = new(e)
  BY <1>3
<1>4. ASSUME NEW e, NEW w, w = new(e) PROVE AddedRow(w, e, doc, n)
  BY <1>4 DEF NewRow, AddedRow, AsRow
<1> HIDE DEF new, N
<1>5. ASSUME NEW w \in N PROVE \E e \in E : w = new(e) /\ AddedRow(w, e, doc, n)
  BY <1>3, <1>4
<1>6. ASSUME NEW e \in E PROVE \E w \in N : AddedRow(w, e, doc, n)
  BY <1>2, <1>4
<1>7. ASSUME NEW w \in N PROVE NamedRow(w, items, m)
  <2>1. PICK e \in E : AddedRow(w, e, doc, n)
    BY <1>5
  <2>2. w.id[1] = n /\ w.item \in items
    BY <2>1 DEF AddedRow
  <2> QED
    BY <2>1, <2>2 DEF AddedRow, NamedRow
<1>8. ASSUME NEW w \in W, NEW v \in W, w.id = v.id PROVE w = v
  <2>1. CASE w \in table /\ v \in table
    BY <1>8, <2>1 DEF Table
  <2>2. CASE w \in N /\ v \in N
    <3>1. PICK e \in E : w = new(e) /\ w.id = <<n, e>>
      BY <1>5, <2>2 DEF AddedRow
    <3>2. PICK f \in E : v = new(f) /\ v.id = <<n, f>>
      BY <1>5, <2>2 DEF AddedRow
    <3>3. e = f
      BY <1>8, <3>1, <3>2
    <3> QED
      BY <3>1, <3>2, <3>3
  <2>3. ASSUME NEW x \in table, NEW y \in N PROVE x.id # y.id
    BY <1>5 DEF AddedRow
  <2> QED
    BY <1>1, <1>8, <2>1, <2>2, <2>3
<1>9. \A w \in W : NamedRow(w, items, m)
  BY <1>1, <1>7 DEF Table
<1>10. Table(W, items, m)
  BY <1>8, <1>9 DEF Table
<1> QED
  BY <1>1, <1>5, <1>6, <1>10

\* A table keeps its ids as requests are numbered on.
LEMMA TableGrows ==
  ASSUME NEW table, NEW items, NEW n \in Nat, NEW m \in Nat, n <= m, Table(table, items, n)
  PROVE  Table(table, items, m)
BY DEF Table, NamedRow

----------------------------------------------------------------------------
(* Productions *)

ProductionPhases ==
    {"idle", "staff", "staff_delete", "validated", "commit", "delete_rows", "delete_roster"}
Saving == {"validated", "commit"}
Deleting == {"delete_rows", "delete_roster"}

ProductionShape ==
    /\ phase \in [Procs -> ProductionPhases]
    /\ job = [p \in Procs |-> job[p]]
    /\ started \in 0..MaxRequests
    /\ contended \in BOOLEAN
    /\ readded \in BOOLEAN
    /\ placed = [d \in Serials |-> placed[d]]
    /\ staff \in [Staff -> [type : Types, active : BOOLEAN]]
    /\ productions \in [Serials -> [type : Types \cup {NoType}, active : BOOLEAN]]

\* A production there is was made by a request there was.
Numbered ==
    \A d \in Serials :
        /\ productions[d].active => productions[d].type # NoType
        /\ productions[d].type # NoType => d <= started

TablesOK ==
    /\ Table(rows, Machines, started)
    /\ Table(roster, Employees, started)
    /\ \A r \in rows \cup roster : r.doc \in Serials /\ productions[r.doc].type # NoType

\* What a save of a machine or an employee found of its type is so.
StaffJob(j) == j.target \in Staff /\ j.type \in Types /\ TypeKept(j.target, j.type)

\* A save writes lines of machines and employees that are of its type as long as
\* they are active, to a production of that type; its own rows are new.
SaveJob(ph, j) ==
    /\ j = [n |-> j.n, target |-> j.target, type |-> j.type, form |-> j.form,
            crew |-> j.crew, rows |-> j.rows, roster |-> j.roster]
    /\ j.n \in 1..started /\ j.target \in Serials /\ j.type \in Types
    /\ FormOK(j.form, RowsOf(rows, j.target), Machines)
    /\ j.crew \subseteq Employees
    /\ \A r \in rows \cup roster : r.id[1] # j.n
    /\ \A s \in Items(j.form) \cup j.crew : TypeKept(s, j.type)
    /\ productions[j.target].type = NoType => j.target = j.n
    /\ productions[j.target].type # NoType => productions[j.target].type = j.type
    /\ ph = "commit" =>
          /\ \A w \in j.rows : w.id # NoId /\ \E r \in rows : r.id = w.id /\ r.doc = j.target
          /\ \A l \in j.form : l.id # NoId => l.id \in Ids(j.rows)

DeleteJob(j) ==
    j.target \in Serials /\ productions[j.target].type # NoType /\ ~productions[j.target].active

JobOK(ph, j) ==
    /\ ph = "staff" => StaffJob(j)
    /\ ph = "staff_delete" => j.target \in Staff
    /\ ph \in Saving => SaveJob(ph, j)
    /\ ph \in Deleting => DeleteJob(j)

ProductionJobs ==
    /\ \A p \in Procs : JobOK(phase[p], job[p])
    /\ \A p, q \in Procs :
          phase[p] \in Saving /\ phase[q] \in Saving /\ job[p].n = job[q].n => p = q

TypesInv == ProductionShape /\ Numbered /\ TablesOK /\ ProductionJobs /\ TypesAgree

----------------------------------------------------------------------------
(* What every step leaves of what the others rely on *)

\* Types of active records and of productions stay; rows stay where they are, and new
\* ones have the number of the save.
Keeps(p) ==
    /\ started' \in started..MaxRequests
    /\ \A s \in Staff : staff'[s].active => staff[s].active /\ staff'[s].type = staff[s].type
    /\ \A r \in rows : \E w \in rows' : w.id = r.id /\ w.doc = r.doc
    /\ \A w \in rows' \cup roster' :
          \/ \E r \in rows \cup roster : w.id = r.id
          \/ phase[p] \in Saving /\ w.id[1] = job[p].n
    /\ \A d \in Serials :
          /\ productions[d].type # NoType =>
                /\ productions'[d].type = productions[d].type
                /\ productions'[d].active => productions[d].active
          /\ productions[d].type = NoType =>
                productions'[d].type = NoType \/ (phase[p] \in Saving /\ d = job[p].n)

\* The slots after a step: the request is in phase ph and holds j.
Moves(p, ph, j) ==
    /\ ph \in ProductionPhases
    /\ phase' = [phase EXCEPT ![p] = ph]
    /\ job' = [job EXCEPT ![p] = j]

LEMMA SavesStay ==
  ASSUME TypesInv, NEW p \in Procs, Keeps(p), NEW ph, NEW j, SaveJob(ph, j),
         phase[p] \in Saving => j.n # job[p].n
  PROVE  SaveJob(ph, j)'
<1>1. j.n \in 1..started' /\ started' \in Int
  BY DEF SaveJob, Keeps, TypesInv, ProductionShape
<1>2. \A r \in rows' \cup roster' : r.id[1] # j.n
  BY DEF SaveJob, Keeps
<1>3. FormOK(j.form, RowsOf(rows', j.target), Machines)
  <2>1. ASSUME NEW l \in j.form, l.id # NoId
        PROVE  l.id \in Ids(RowsOf(rows', j.target))
    <3>1. PICK r \in rows : r.id = l.id /\ r.doc = j.target
      BY <2>1 DEF SaveJob, FormOK, Ids, RowsOf
    <3>2. PICK w \in rows' : w.id = r.id /\ w.doc = r.doc
      BY DEF Keeps
    <3> QED
      BY <2>1, <3>1, <3>2 DEF Ids, RowsOf
  <2> QED
    BY <2>1 DEF SaveJob, FormOK
<1>4. \A s \in Items(j.form) \cup j.crew : TypeKept(s, j.type)'
  <2>1. ASSUME NEW s \in Items(j.form) \cup j.crew PROVE s \in Staff
    BY DEF SaveJob, FormOK, Items, Staff
  <2> QED
    BY <2>1 DEF SaveJob, Keeps, TypeKept
<1>5. /\ productions'[j.target].type = NoType => j.target = j.n
      /\ productions'[j.target].type # NoType => productions'[j.target].type = j.type
  BY DEF SaveJob, Keeps
<1>6. ASSUME ph = "commit", NEW w \in j.rows
      PROVE  w.id # NoId /\ \E r \in rows' : r.id = w.id /\ r.doc = j.target
  <2>1. PICK r \in rows : r.id = w.id /\ r.doc = j.target
    BY <1>6 DEF SaveJob
  <2>2. PICK v \in rows' : v.id = r.id /\ v.doc = r.doc
    BY DEF Keeps
  <2> QED
    BY <1>6, <2>1, <2>2 DEF SaveJob
<1> QED
  BY <1>1, <1>2, <1>3, <1>4, <1>5, <1>6 DEF SaveJob

LEMMA JobStays ==
  ASSUME TypesInv, NEW p \in Procs, Keeps(p), NEW ph, NEW j, JobOK(ph, j),
         ph \in Saving /\ phase[p] \in Saving => j.n # job[p].n
  PROVE  JobOK(ph, j)'
<1>1. ph = "staff" => StaffJob(j)'
  BY DEF JobOK, StaffJob, Keeps, TypeKept
<1>2. ph \in Saving => SaveJob(ph, j)'
  BY SavesStay DEF JobOK
<1>3. ph \in Deleting => DeleteJob(j)'
  BY DEF JobOK, DeleteJob, Keeps
<1> QED
  BY <1>1, <1>2, <1>3 DEF JobOK

\* A save keeps its number, or takes the next.
LEMMA JobsStep ==
  ASSUME TypesInv, NEW p \in Procs, Keeps(p), NEW ph, NEW j, Moves(p, ph, j), JobOK(ph, j)',
         ph \in Saving => \/ phase[p] \in Saving /\ j.n = job[p].n
                          \/ j.n = started + 1
  PROVE  ProductionJobs'
<1>1. /\ phase'[p] = ph /\ job'[p] = j
      /\ \A q \in Procs \ {p} : phase'[q] = phase[q] /\ job'[q] = job[q]
  BY DEF Moves, TypesInv, ProductionShape
<1>2. \A q \in Procs : phase[q] \in Saving => job[q].n \in 1..started
  BY DEF TypesInv, ProductionJobs, JobOK, SaveJob
<1>3. started \in Nat
  BY DEF TypesInv, ProductionShape
<1>4. ASSUME NEW q \in Procs \ {p} PROVE JobOK(phase[q], job[q])'
  <2>1. JobOK(phase[q], job[q])
    BY DEF TypesInv, ProductionJobs
  <2>2. phase[q] \in Saving /\ phase[p] \in Saving => job[q].n # job[p].n
    BY DEF TypesInv, ProductionJobs
  <2>3. PICK x : x = phase'[q]
    OBVIOUS
  <2>4. PICK k : k = job'[q]
    OBVIOUS
  <2>5. JobOK(x, k)'
    BY <1>1, <2>1, <2>2, <2>3, <2>4, JobStays
  <2> QED
    BY <2>3, <2>4, <2>5
<1>5. \A q \in Procs : JobOK(phase[q], job[q])'
  BY <1>1, <1>4
<1>6. ASSUME NEW q \in Procs, NEW t \in Procs, phase'[q] \in Saving, phase'[t] \in Saving,
             job'[q].n = job'[t].n
      PROVE  q = t
  BY <1>1, <1>2, <1>3, <1>6 DEF TypesInv, ProductionJobs
<1> QED
  BY <1>5, <1>6 DEF ProductionJobs

\* A step that writes nothing.
LEMMA NothingWritten ==
  ASSUME TypesInv, NEW p \in Procs, UNCHANGED productionVars, started' \in started..MaxRequests
  PROVE  Keeps(p) /\ Numbered' /\ TablesOK' /\ TypesAgree'
<1>1. Keeps(p)
  BY DEF Keeps, productionVars
<1>2. started \in Nat /\ started' \in Nat /\ started <= started'
  BY DEF TypesInv, ProductionShape
<1>3. TablesOK'
  BY <1>2, TableGrows DEF TypesInv, TablesOK, productionVars
<1>4. Numbered'
  BY <1>2 DEF TypesInv, Numbered, productionVars, Serials
<1>5. TypesAgree'
  BY DEF TypesInv, TypesAgree, Active, LiveProduction, productionVars
<1> QED
  BY <1>1, <1>3, <1>4, <1>5

\* A request begins, with nothing written but its slot.
LEMMA StartStep ==
  ASSUME TypesInv, NEW p \in Procs, NEW ph \in ProductionPhases, NEW j, NEW rivals,
         Start(p, ph, j, rivals)
  PROVE  /\ Moves(p, ph, j) /\ started' = started + 1 /\ started' \in started..MaxRequests
         /\ contended' \in BOOLEAN
         /\ started + 1 \in Serials /\ started \in Nat /\ phase[p] = "idle"
BY RequestBounds DEF TypesInv, ProductionShape, Start, Free, NextSerial, Moves, Serials

LEMMA GotoStep ==
  ASSUME TypesInv, NEW p \in Procs, NEW ph \in ProductionPhases, NEW j, Goto(p, ph, j)
  PROVE  /\ Moves(p, ph, j) /\ started' = started /\ contended' = contended
         /\ started' \in started..MaxRequests
BY DEF TypesInv, ProductionShape, Goto, Moves

\* What is left to show of a step.
LEMMA ShapeStep ==
  ASSUME TypesInv, NEW p \in Procs, NEW ph, NEW j, Moves(p, ph, j), started' \in started..MaxRequests,
         contended' \in BOOLEAN, readded' \in BOOLEAN,
         placed' = [d \in Serials |-> placed'[d]],
         staff' \in [Staff -> [type : Types, active : BOOLEAN]],
         productions' \in [Serials -> [type : Types \cup {NoType}, active : BOOLEAN]]
  PROVE  ProductionShape'
<1>1. phase' \in [Procs -> ProductionPhases]
  BY DEF TypesInv, ProductionShape, Moves
<1>2. job' = [q \in Procs |-> job'[q]]
  BY DEF TypesInv, ProductionShape, Moves
<1>3. started' \in 0..MaxRequests
  BY DEF TypesInv, ProductionShape
<1> QED
  BY <1>1, <1>2, <1>3 DEF ProductionShape

LEMMA QuietStep ==
  ASSUME TypesInv, NEW p \in Procs, NEW ph, NEW j, Moves(p, ph, j), UNCHANGED productionVars,
         started' \in started..MaxRequests, contended' \in BOOLEAN, JobOK(ph, j)',
         ph \in Saving => \/ phase[p] \in Saving /\ j.n = job[p].n
                          \/ j.n = started + 1
  PROVE  TypesInv'
<1>1. Keeps(p) /\ Numbered' /\ TablesOK' /\ TypesAgree'
  BY NothingWritten
<1>2. ProductionJobs'
  BY <1>1, JobsStep
<1>3. /\ readded' \in BOOLEAN /\ placed' = [d \in Serials |-> placed'[d]]
      /\ staff' \in [Staff -> [type : Types, active : BOOLEAN]]
      /\ productions' \in [Serials -> [type : Types \cup {NoType}, active : BOOLEAN]]
  BY DEF TypesInv, ProductionShape, productionVars
<1>4. ProductionShape'
  BY <1>3, ShapeStep
<1> QED
  BY <1>1, <1>2, <1>4 DEF TypesInv

----------------------------------------------------------------------------
(* Machines and employees *)

LEMMA BeginStaffStep ==
  ASSUME TypesInv, NEW p \in Procs, NEW s \in Staff, NEW type \in Types, BeginStaff(p, s, type)
  PROVE  TypesInv'
<1>1. PICK j : j = [target |-> s, type |-> type]
  OBVIOUS
<1>2. Start(p, "staff", j, {}) /\ UNCHANGED productionVars
  BY <1>1 DEF BeginStaff
<1>3. "staff" \in ProductionPhases /\ "staff" \notin Saving /\ "staff" \notin Deleting
  BY DEF ProductionPhases, Saving, Deleting
<1>4. TypeKept(s, type)'
  BY <1>2 DEF BeginStaff, TypeKept, productionVars
<1>5. JobOK("staff", j)'
  BY <1>1, <1>3, <1>4 DEF JobOK, StaffJob
<1> QED
  BY <1>2, <1>3, <1>5, StartStep, QuietStep

LEMMA BeginDeleteStaffStep ==
  ASSUME TypesInv, NEW p \in Procs, NEW s \in Staff, BeginDeleteStaff(p, s)
  PROVE  TypesInv'
<1>1. PICK j : j = [target |-> s]
  OBVIOUS
<1>2. Start(p, "staff_delete", j, {}) /\ UNCHANGED productionVars
  BY <1>1 DEF BeginDeleteStaff
<1>3. "staff_delete" \in ProductionPhases /\ "staff_delete" \notin Saving \cup Deleting
  BY DEF ProductionPhases, Saving, Deleting
<1>5. JobOK("staff_delete", j)'
  BY <1>1, <1>3 DEF JobOK
<1> QED
  BY <1>2, <1>3, <1>5, StartStep, QuietStep

\* A save or a delete of a record: of one that is active the type stays.
LEMMA StaffStep ==
  ASSUME TypesInv, NEW p \in Procs, SaveStaff(p) \/ DeleteStaff(p)
  PROVE  TypesInv'
<1> DEFINE s == job[p].target
<1>1. /\ Goto(p, "idle", NoJob) /\ UNCHANGED <<productions, rows, roster, placed, readded>>
      /\ phase[p] \in {"staff", "staff_delete"}
  BY DEF SaveStaff, DeleteStaff, Finish
<1>2. "idle" \in ProductionPhases /\ "idle" \notin Saving \cup Deleting
  BY DEF ProductionPhases, Saving, Deleting
<1>3. s \in Staff /\ JobOK(phase[p], job[p])
  BY <1>1 DEF TypesInv, ProductionJobs, JobOK, StaffJob
<1> HIDE DEF s
<1>4. /\ staff' \in [Staff -> [type : Types, active : BOOLEAN]]
      /\ \A x \in Staff : staff'[x].active => staff[x].active /\ staff'[x].type = staff[x].type
  <2>1. CASE SaveStaff(p)
    <3>1. staff' = [staff EXCEPT ![s].type = job[p].type] /\ StaffJob(job[p])
      BY <1>1, <1>3, <2>1 DEF SaveStaff, JobOK, s
    <3> QED
      BY <1>3, <3>1 DEF StaffJob, TypeKept, s, TypesInv, ProductionShape
  <2>2. CASE DeleteStaff(p)
    <3>1. staff' = [staff EXCEPT ![s].active = FALSE]
      BY <2>2 DEF DeleteStaff, s
    <3> QED
      BY <1>3, <3>1 DEF TypesInv, ProductionShape
  <2> QED
    BY <2>1, <2>2
<1>5. /\ Moves(p, "idle", NoJob) /\ started' = started /\ contended' = contended
      /\ started' \in started..MaxRequests
  BY <1>1, <1>2, GotoStep
<1>6. Keeps(p)
  BY <1>1, <1>4, <1>5 DEF Keeps
<1>7. JobOK("idle", NoJob)'
  BY <1>2 DEF JobOK
<1>8. ProductionJobs'
  BY <1>2, <1>5, <1>6, <1>7, JobsStep
<1>9. ProductionShape'
  <2>1. contended' \in BOOLEAN /\ readded' \in BOOLEAN /\ placed' = [d \in Serials |-> placed'[d]]
    BY <1>1, <1>5 DEF TypesInv, ProductionShape
  <2>2. productions' \in [Serials -> [type : Types \cup {NoType}, active : BOOLEAN]]
    BY <1>1 DEF TypesInv, ProductionShape
  <2> QED
    BY <1>4, <1>5, <2>1, <2>2, ShapeStep
<1>10. TablesOK' /\ Numbered'
  BY <1>1, <1>5 DEF TypesInv, TablesOK, Numbered
<1>11. TypesAgree'
  <2>1. \A r \in rows \cup roster : r.item \in Staff
    BY DEF TypesInv, TablesOK, Table, NamedRow, Staff
  <2> QED
    BY <1>1, <1>4, <2>1 DEF TypesInv, TypesAgree, Active, LiveProduction
<1> QED
  BY <1>8, <1>9, <1>10, <1>11 DEF TypesInv

----------------------------------------------------------------------------
(* Saves of productions *)

LEMMA BeginProductionStep ==
  ASSUME TypesInv, NEW p \in Procs, NEW d \in Serials, NEW type \in Types,
         BeginProduction(p, d, type)
  PROVE  TypesInv'
<1>1. PICK form \in Forms(RowsOf(rows, d), Machines, Hours), team \in SUBSET Employees :
         /\ \A s \in Items(form) \cup team : staff[s].type = type
         /\ Start(p, "validated", [n |-> NextSerial, target |-> d, type |-> type,
                                   form |-> form, crew |-> team, rows |-> {}, roster |-> {}],
                  SavesOfProduction(d))
  BY DEF BeginProduction
<1>2. PICK j : j = [n |-> NextSerial, target |-> d, type |-> type,
                    form |-> form, crew |-> team, rows |-> {}, roster |-> {}]
  OBVIOUS
<1>3. Start(p, "validated", j, SavesOfProduction(d)) /\ UNCHANGED productionVars
  BY <1>1, <1>2 DEF BeginProduction
<1>4. "validated" \in ProductionPhases /\ "validated" \notin Deleting /\ "validated" \in Saving
  BY DEF ProductionPhases, Saving, Deleting
<1>5. /\ Moves(p, "validated", j) /\ started' = started + 1 /\ started' \in started..MaxRequests
      /\ contended' \in BOOLEAN
      /\ started + 1 \in Serials /\ started \in Nat /\ phase[p] = "idle"
  BY <1>3, <1>4, StartStep
<1>6. FormOK(form, RowsOf(rows, d), Machines)
  BY FormsOK
<1>7. \A r \in rows \cup roster : r.id[1] # started + 1
  <2>1. \A r \in rows \cup roster : r.id[1] \in 1..started
    BY DEF TypesInv, TablesOK, Table, NamedRow
  <2> QED
    BY <1>5, <2>1
<1>8. /\ productions[d].type = NoType => d = started + 1
      /\ productions[d].type # NoType => productions[d].type = type
  <2>1. d = NextSerial \/ (LiveProduction(d) /\ productions[d].type = type)
    BY DEF BeginProduction
  <2>2. CASE d = NextSerial
    <3>1. productions[d].type = NoType
      BY <1>5, <2>2 DEF NextSerial, TypesInv, Numbered
    <3> QED
      BY <2>2, <3>1 DEF NextSerial
  <2>3. CASE LiveProduction(d) /\ productions[d].type = type
    BY <2>3, ProductionNames
  <2> QED
    BY <2>1, <2>2, <2>3
<1>9. \A s \in Items(form) \cup team : TypeKept(s, type)
  BY <1>1 DEF TypeKept
<1>10. SaveJob("validated", j)'
  <2>1. /\ j = [n |-> j.n, target |-> j.target, type |-> j.type, form |-> j.form,
                crew |-> j.crew, rows |-> j.rows, roster |-> j.roster]
        /\ j.n = started + 1 /\ j.target = d /\ j.type = type /\ j.form = form /\ j.crew = team
    BY <1>2 DEF NextSerial
  <2>2. j.n \in 1..started' /\ j.target \in Serials /\ j.type \in Types /\ j.crew \subseteq Employees
    BY <1>5, <2>1
  <2>3. FormOK(j.form, RowsOf(rows', j.target), Machines)
    BY <1>3, <1>6, <2>1 DEF productionVars
  <2>4. \A r \in rows' \cup roster' : r.id[1] # j.n
    BY <1>3, <1>7, <2>1 DEF productionVars
  <2>5. \A s \in Items(j.form) \cup j.crew : TypeKept(s, j.type)'
    BY <1>3, <1>9, <2>1 DEF productionVars, TypeKept
  <2>6. /\ productions'[j.target].type = NoType => j.target = j.n
        /\ productions'[j.target].type # NoType => productions'[j.target].type = j.type
    BY <1>3, <1>8, <2>1 DEF productionVars
  <2> QED
    BY <2>1, <2>2, <2>3, <2>4, <2>5, <2>6 DEF SaveJob
<1>11. JobOK("validated", j)'
  BY <1>4, <1>10 DEF JobOK
<1>12. j.n = started + 1
  BY <1>2 DEF NextSerial
<1> QED
  BY <1>3, <1>4, <1>5, <1>11, <1>12, QuietStep

LEMMA RowIds ==
  ASSUME TypesInv
  PROVE  \A r \in rows : r.id # NoId
<1>1. ASSUME NEW r \in rows PROVE r.id \in Serials \X (Machines \cup Employees)
  <2>1. r.id = <<r.id[1], r.item>> /\ r.id[1] \in 1..started /\ r.item \in Machines
    BY DEF TypesInv, TablesOK, Table, NamedRow
  <2>2. r.id[1] \in Serials
    BY <2>1, RequestBounds DEF TypesInv, ProductionShape, Serials
  <2> QED
    BY <2>1, <2>2
<1> QED
  BY <1>1, ProductionNames

LEMMA SnapshotStep ==
  ASSUME TypesInv, NEW p \in Procs, ProductionSnapshot(p)
  PROVE  TypesInv'
<1>1. PICK k : k = job[p]
  OBVIOUS
<1>2. phase[p] = "validated" /\ phase[p] \in Saving /\ "commit" \in Saving
      /\ "commit" \in ProductionPhases /\ "commit" \notin Deleting
  BY DEF ProductionSnapshot, Saving, ProductionPhases, Deleting
<1>3. SaveJob("validated", k)
  BY <1>1, <1>2 DEF TypesInv, ProductionJobs, JobOK
<1>4. PICK j : j = [k EXCEPT !.rows = RowsOf(rows, k.target), !.roster = RowsOf(roster, k.target)]
  OBVIOUS
<1>5. Goto(p, "commit", j) /\ UNCHANGED productionVars
  BY <1>1, <1>4 DEF ProductionSnapshot
<1>6. j = [n |-> k.n, target |-> k.target, type |-> k.type, form |-> k.form,
           crew |-> k.crew, rows |-> RowsOf(rows, k.target), roster |-> RowsOf(roster, k.target)]
  BY <1>3, <1>4 DEF SaveJob
<1>7. /\ \A w \in j.rows : w.id # NoId /\ \E r \in rows : r.id = w.id /\ r.doc = j.target
      /\ \A l \in j.form : l.id # NoId => l.id \in Ids(j.rows)
  <2>1. \A r \in rows : r.id # NoId
    BY RowIds
  <2>2. FormOK(j.form, RowsOf(rows, j.target), Machines)
    BY <1>3, <1>6 DEF SaveJob
  <2> QED
    BY <1>6, <2>1, <2>2 DEF RowsOf, FormOK
<1>8. SaveJob("commit", j)
  <2>1. /\ j.n = k.n /\ j.target = k.target /\ j.type = k.type /\ j.form = k.form /\ j.crew = k.crew
        /\ j = [n |-> j.n, target |-> j.target, type |-> j.type, form |-> j.form,
                crew |-> j.crew, rows |-> j.rows, roster |-> j.roster]
    BY <1>6
  <2> QED
    BY <1>3, <1>7, <2>1 DEF SaveJob
<1>9. Moves(p, "commit", j) /\ started' = started /\ contended' = contended
      /\ started' \in started..MaxRequests
  BY <1>2, <1>5, GotoStep
<1>10. SaveJob("commit", j)'
  BY <1>5, <1>8, <1>9 DEF SaveJob, productionVars, TypeKept
<1>11. JobOK("commit", j)'
  BY <1>2, <1>10 DEF JobOK
<1>12. contended' \in BOOLEAN
  BY <1>9 DEF TypesInv, ProductionShape
<1> QED
  BY <1>1, <1>2, <1>5, <1>6, <1>9, <1>11, <1>12, QuietStep

\* A row of CrewSaved.
LEMMA CrewSavedRows ==
  ASSUME TypesInv, NEW j, SaveJob("commit", j), NEW W, W = CrewSaved(j)
  PROVE  /\ Table(W, Employees, started)
         /\ \A w \in W :
               \/ \E r \in roster : /\ w.id = r.id /\ w.doc = r.doc /\ w.item = r.item
                                    /\ w.active => w = r
                                    /\ r.doc = j.target /\ r.item \in Items(j.roster) \ j.crew
                                         => ~w.active
               \/ \E e \in j.crew \ Items(j.roster) : AddedRow(w, e, j.target, j.n)
         /\ \A r \in roster :
               r.doc # j.target \/ r.item \notin Items(j.roster) \ j.crew => r \in W
         /\ \A e \in j.crew \ Items(j.roster) : \E w \in W : AddedRow(w, e, j.target, j.n)
<1> DEFINE G == {r \in roster : r.doc = j.target /\ r.item \in Items(j.roster) \ j.crew}
           E == j.crew \ Items(j.roster)
<1>1. PICK M : M = Marked(roster, G)
  OBVIOUS
<1>2. W = M \cup AddedRows(E, j.target, j.n)
  <2>1. M = {IF r.doc = j.target /\ r.item \in Items(j.roster) \ j.crew THEN Deleted(r) ELSE r :
               r \in roster}
    BY <1>1 DEF Marked
  <2> QED
    BY <2>1 DEF CrewSaved, AddedRows
<1>3. Table(roster, Employees, started)
  BY DEF TypesInv, TablesOK
<1>4. \A r \in roster : r \in G <=> r.doc = j.target /\ r.item \in Items(j.roster) \ j.crew
  OBVIOUS
<1> HIDE DEF G
<1>5. /\ Table(M, Employees, started)
      /\ \A w \in M : \E r \in roster : MarkedRow(w, r, G)
      /\ \A r \in roster : \E w \in M : MarkedRow(w, r, G)
  BY <1>1, <1>3, MarkedTable
<1>6. E \subseteq Employees /\ j.n \in 1..started
  BY DEF SaveJob
<1>7. \A r \in M : \A e \in E : r.id # <<j.n, e>>
  <2>1. \A r \in M : r.id[1] # j.n
    BY <1>5 DEF MarkedRow, SaveJob
  <2> QED
    BY <2>1
<1> HIDE DEF E
<1>8. /\ Table(W, Employees, started)
      /\ \A w \in W : w \in M \/ \E e \in E : AddedRow(w, e, j.target, j.n)
      /\ M \subseteq W
      /\ \A e \in E : \E w \in W : AddedRow(w, e, j.target, j.n)
  <2>1. PICK nn : nn = j.n
    OBVIOUS
  <2>2. PICK dd : dd = j.target
    OBVIOUS
  <2>3. PICK m : m = started
    OBVIOUS
  <2>4. PICK F : F = E
    OBVIOUS
  <2>5. W = M \cup AddedRows(F, dd, nn) /\ CanAdd(M, Employees, m, F, nn)
    BY <1>2, <1>5, <1>6, <1>7, <2>1, <2>2, <2>3, <2>4 DEF CanAdd
  <2>6. /\ Table(W, Employees, m)
        /\ \A w \in W : w \in M \/ \E e \in F : AddedRow(w, e, dd, nn)
        /\ M \subseteq W
        /\ \A e \in F : \E w \in W : AddedRow(w, e, dd, nn)
    BY <2>5, AddedTable
  <2> QED
    BY <2>1, <2>2, <2>3, <2>4, <2>6
<1>9. ASSUME NEW w \in M
      PROVE  \E r \in roster : /\ w.id = r.id /\ w.doc = r.doc /\ w.item = r.item
                               /\ w.active => w = r
                               /\ r.doc = j.target /\ r.item \in Items(j.roster) \ j.crew
                                    => ~w.active
  BY <1>4, <1>5 DEF MarkedRow
<1>10. \A r \in roster :
          r.doc # j.target \/ r.item \notin Items(j.roster) \ j.crew => r \in W
  <2>1. ASSUME NEW r \in roster, r \notin G PROVE r \in W
    <3>1. PICK w \in M : MarkedRow(w, r, G)
      BY <1>5
    <3> QED
      BY <1>8, <2>1, <3>1 DEF MarkedRow
  <2> QED
    BY <1>4, <2>1
<1> QED
  BY <1>8, <1>9, <1>10 DEF E

\* What a commit makes of the lines.
LEMMA CommitRows ==
  ASSUME TypesInv, NEW j, SaveJob("commit", j), NEW W, W = Saved(rows, j.rows, j.form, j.target, j.n)
  PROVE  /\ Table(W, Machines, started)
         /\ SavedAs(W, rows, j.rows, j.form, j.target, j.n)
<1>1. Table(rows, Machines, started) /\ started \in Nat /\ j.n \in 1..started
  BY DEF TypesInv, TablesOK, ProductionShape, SaveJob
<1>2. \A i \in Machines : <<j.n, i>> # NoId
  <2>1. j.n \in Serials
    BY <1>1, RequestBounds DEF TypesInv, ProductionShape, Serials
  <2>2. \A i \in Machines : <<j.n, i>> \in Serials \X (Machines \cup Employees)
    BY <2>1
  <2> QED
    BY <2>2, ProductionNames
<1>3. /\ \A w \in j.rows : w.id \in Ids(rows)
      /\ \A w \in j.rows : \A r \in rows : r.id = w.id => r.doc = j.target
  BY <1>1 DEF SaveJob, Ids, Table
<1>4. /\ \A l \in j.form : l.item \in Machines /\ (l.id # NoId => l.id[2] = l.item)
      /\ \A l, k \in j.form : l.item = k.item => l = k
  BY DEF SaveJob, FormOK
<1>5. \A l \in Created(j.rows, j.form) : \A r \in rows : r.id # <<j.n, l.item>>
  <2>1. \A r \in rows : r.id[1] # j.n
    BY DEF SaveJob
  <2> QED
    BY <2>1
<1>6. PICK old : old = j.rows
  OBVIOUS
<1>7. PICK form : form = j.form
  OBVIOUS
<1>8. PICK doc : doc = j.target
  OBVIOUS
<1>9. PICK n : n = j.n
  OBVIOUS
<1>10. WriteOK(rows, Machines, started, old, form, doc, n)
  BY <1>1, <1>2, <1>3, <1>4, <1>5, <1>6, <1>7, <1>8, <1>9 DEF WriteOK
<1> QED
  BY <1>6, <1>7, <1>8, <1>9, <1>10, SavedTable

LEMMA CommitIs ==
  ASSUME TypesInv, NEW p \in Procs, CommitProduction(p), NEW j, j = job[p]
  PROVE  /\ SaveJob("commit", j) /\ phase[p] = "commit" /\ phase[p] \in Saving
         /\ productions' = [productions EXCEPT ![j.target] =
               IF productions[j.target].type = NoType THEN [type |-> j.type, active |-> TRUE]
               ELSE [productions[j.target] EXCEPT !.type = j.type]]
         /\ rows' = Saved(rows, j.rows, j.form, j.target, j.n)
         /\ roster' = CrewSaved(j)
         /\ placed' = [placed EXCEPT ![j.target] = Items(j.form) \cup j.crew]
         /\ readded' = (readded \/ \E r \in j.roster : ~r.active /\ r.item \in j.crew)
         /\ staff' = staff
         /\ Moves(p, "idle", NoJob) /\ started' = started /\ contended' = contended
         /\ started' \in started..MaxRequests
<1>1. phase[p] = "commit" /\ phase[p] \in Saving /\ Goto(p, "idle", NoJob)
  BY DEF CommitProduction, Saving, Finish
<1>2. SaveJob("commit", j)
  BY <1>1 DEF TypesInv, ProductionJobs, JobOK
<1>3. "idle" \in ProductionPhases
  BY DEF ProductionPhases
<1>4. Moves(p, "idle", NoJob) /\ started' = started /\ contended' = contended
      /\ started' \in started..MaxRequests
  BY <1>1, <1>3, GotoStep
<1> QED
  BY <1>1, <1>2, <1>4 DEF CommitProduction

\* Its production has the type of the save, and is in force if it was or is new.
LEMMA CommitType ==
  ASSUME TypesInv, NEW p \in Procs, CommitProduction(p), NEW j, j = job[p]
  PROVE  /\ productions' \in [Serials -> [type : Types \cup {NoType}, active : BOOLEAN]]
         /\ productions'[j.target].type = j.type /\ j.type # NoType
         /\ productions[j.target].type # NoType =>
               productions'[j.target].active = productions[j.target].active
         /\ productions[j.target].type = NoType => productions'[j.target].active
         /\ \A d \in Serials \ {j.target} : productions'[d] = productions[d]
<1>1. /\ SaveJob("commit", j)
      /\ productions' = [productions EXCEPT ![j.target] =
               IF productions[j.target].type = NoType THEN [type |-> j.type, active |-> TRUE]
               ELSE [productions[j.target] EXCEPT !.type = j.type]]
  BY CommitIs
<1>2. j.target \in Serials /\ j.type \in Types /\ j.type # NoType
  BY <1>1, ProductionNames DEF SaveJob
<1>3. productions \in [Serials -> [type : Types \cup {NoType}, active : BOOLEAN]]
  BY DEF TypesInv, ProductionShape
<1> QED
  BY <1>1, <1>2, <1>3

LEMMA CommitStep ==
  ASSUME TypesInv, NEW p \in Procs, CommitProduction(p)
  PROVE  TypesInv'
<1>1. PICK j : j = job[p]
  OBVIOUS
<1>2. /\ SaveJob("commit", j) /\ phase[p] = "commit" /\ phase[p] \in Saving
      /\ rows' = Saved(rows, j.rows, j.form, j.target, j.n)
      /\ roster' = CrewSaved(j)
      /\ placed' = [placed EXCEPT ![j.target] = Items(j.form) \cup j.crew]
      /\ readded' = (readded \/ \E r \in j.roster : ~r.active /\ r.item \in j.crew)
      /\ staff' = staff
      /\ Moves(p, "idle", NoJob) /\ started' = started /\ contended' = contended
      /\ started' \in started..MaxRequests
  BY <1>1, CommitIs
<1>3. /\ productions' \in [Serials -> [type : Types \cup {NoType}, active : BOOLEAN]]
      /\ productions'[j.target].type = j.type /\ j.type # NoType
      /\ productions[j.target].type # NoType =>
            productions'[j.target].active = productions[j.target].active
      /\ productions[j.target].type = NoType => productions'[j.target].active
      /\ \A d \in Serials \ {j.target} : productions'[d] = productions[d]
  BY <1>1, CommitType
<1>4. /\ Table(rows', Machines, started)
      /\ SavedAs(rows', rows, j.rows, j.form, j.target, j.n)
  BY <1>2, CommitRows
<1>5. /\ Table(roster', Employees, started)
      /\ \A w \in roster' :
            \/ \E r \in roster : /\ w.id = r.id /\ w.doc = r.doc /\ w.item = r.item
                                 /\ w.active => w = r
            \/ \E e \in j.crew \ Items(j.roster) : AddedRow(w, e, j.target, j.n)
  BY <1>2, CrewSavedRows
<1>6. j.target \in Serials /\ j.n \in 1..started /\ j.type \in Types
      /\ (productions[j.target].type = NoType => j.target = j.n)
      /\ (productions[j.target].type # NoType => productions[j.target].type = j.type)
      /\ \A s \in Items(j.form) \cup j.crew : TypeKept(s, j.type)
  BY <1>2 DEF SaveJob
<1>7. \A r \in rows \cup roster : r.doc \in Serials /\ productions[r.doc].type # NoType
  BY DEF TypesInv, TablesOK
<1>8. Keeps(p)
  <2>1. \A r \in rows : \E w \in rows' : w.id = r.id /\ w.doc = r.doc
    BY <1>4 DEF SavedAs
  <2>2. ASSUME NEW w \in rows' \cup roster'
        PROVE  (\E r \in rows \cup roster : w.id = r.id) \/ w.id[1] = j.n
    BY <1>4, <1>5 DEF SavedAs, AddedRow
  <2>3. \A d \in Serials :
          /\ productions[d].type # NoType =>
                /\ productions'[d].type = productions[d].type
                /\ productions'[d].active => productions[d].active
          /\ productions[d].type = NoType =>
                productions'[d].type = NoType \/ d = j.n
    BY <1>3, <1>6
  <2> QED
    BY <1>1, <1>2, <2>1, <2>2, <2>3 DEF Keeps
<1>9. ProductionJobs'
  <2>1. "idle" \notin Saving \cup Deleting
    BY DEF Saving, Deleting
  <2>2. JobOK("idle", NoJob)'
    BY <2>1 DEF JobOK
  <2> QED
    BY <1>2, <1>8, <2>1, <2>2, JobsStep
<1>10. ProductionShape'
  <2>1. contended' \in BOOLEAN /\ readded' \in BOOLEAN
    BY <1>2 DEF TypesInv, ProductionShape
  <2>2. placed' = [d \in Serials |-> placed'[d]]
    BY <1>2 DEF TypesInv, ProductionShape
  <2>3. staff' \in [Staff -> [type : Types, active : BOOLEAN]]
    BY <1>2 DEF TypesInv, ProductionShape
  <2> QED
    BY <1>2, <1>3, <2>1, <2>2, <2>3, ShapeStep
<1>11. Numbered'
  <2>1. ASSUME NEW d \in Serials
        PROVE  /\ productions'[d].active => productions'[d].type # NoType
               /\ productions'[d].type # NoType => d <= started
    BY <1>3, <1>6 DEF TypesInv, Numbered
  <2> QED
    BY <1>2, <2>1 DEF Numbered
<1>12. ASSUME NEW w \in rows' \cup roster'
       PROVE  w.doc = j.target \/ \E r \in rows \cup roster : w.doc = r.doc
  BY <1>4, <1>5 DEF SavedAs, AddedRow
<1>13. TablesOK'
  <2>1. ASSUME NEW w \in rows' \cup roster'
        PROVE  w.doc \in Serials /\ productions'[w.doc].type # NoType
    BY <1>3, <1>6, <1>7, <1>12
  <2> QED
    BY <1>2, <1>4, <1>5, <2>1 DEF TablesOK
<1>14. TypesAgree'
  <2>1. SUFFICES ASSUME NEW w \in rows' \cup roster', w.active, productions'[w.doc].active,
                        staff[w.item].active
                 PROVE  staff[w.item].type = productions'[w.doc].type
    BY <1>2 DEF TypesAgree, Active, LiveProduction
  <2>2. CASE w.doc = j.target /\ w.item \in Items(j.form) \cup j.crew
    BY <1>3, <1>6, <2>1, <2>2 DEF TypeKept
  <2>3. CASE w \in rows \cup roster
    <3>1. productions[w.doc].type # NoType /\ w.doc \in Serials
      BY <1>7, <2>3
    <3>2. productions'[w.doc].active => productions[w.doc].active
      BY <1>3, <3>1
    <3>3. productions'[w.doc].type = productions[w.doc].type
      BY <1>3, <1>6, <3>1
    <3> QED
      BY <2>1, <2>3, <3>2, <3>3 DEF TypesInv, TypesAgree, Active, LiveProduction
  <2>4. CASE w \in rows' /\ w \notin rows
    BY <1>4, <2>1, <2>2, <2>4 DEF SavedAs, Items
  <2>5. CASE w \in roster' /\ w \notin roster
    BY <1>5, <2>1, <2>2, <2>5 DEF AddedRow
  <2> QED
    BY <2>1, <2>3, <2>4, <2>5
<1> QED
  BY <1>9, <1>10, <1>11, <1>13, <1>14 DEF TypesInv

----------------------------------------------------------------------------
(* Deletes and failures *)

LEMMA DeleteProductionStep ==
  ASSUME TypesInv, NEW p \in Procs, NEW d \in Serials, DeleteProduction(p, d)
  PROVE  TypesInv'
<1>1. PICK j : j = [target |-> d]
  OBVIOUS
<1>2. /\ Start(p, "delete_rows", j, {}) /\ UNCHANGED <<staff, rows, roster, placed, readded>>
      /\ productions' = [productions EXCEPT ![d].active = FALSE]
  BY <1>1 DEF DeleteProduction
<1>3. productions[d].type # NoType /\ productions[d].active
  BY DEF DeleteProduction, LiveProduction, TypesInv, Numbered
<1>4. "delete_rows" \in ProductionPhases /\ "delete_rows" \in Deleting /\ "delete_rows" \notin Saving
  BY DEF ProductionPhases, Saving, Deleting
<1>5. /\ productions' \in [Serials -> [type : Types \cup {NoType}, active : BOOLEAN]]
      /\ \A c \in Serials : /\ productions'[c].type = productions[c].type
                            /\ productions'[c].active => productions[c].active
      /\ ~productions'[d].active
  BY <1>2 DEF TypesInv, ProductionShape
<1>6. /\ Moves(p, "delete_rows", j) /\ started' \in started..MaxRequests
      /\ contended' \in BOOLEAN /\ started' = started + 1 /\ started \in Nat
  BY <1>2, <1>4, StartStep
<1>7. Keeps(p)
  BY <1>2, <1>5, <1>6 DEF Keeps
<1>8. JobOK("delete_rows", j)'
  BY <1>1, <1>3, <1>4, <1>5 DEF JobOK, DeleteJob
<1>9. ProductionJobs'
  BY <1>4, <1>6, <1>7, <1>8, JobsStep
<1>10. ProductionShape'
  <2>1. /\ readded' \in BOOLEAN /\ placed' = [c \in Serials |-> placed'[c]]
        /\ staff' \in [Staff -> [type : Types, active : BOOLEAN]]
    BY <1>2 DEF TypesInv, ProductionShape
  <2> QED
    BY <1>5, <1>6, <2>1, ShapeStep
<1>11. Numbered'
  <2>1. \A c \in Serials : c \in Int
    BY DEF Serials
  <2> QED
    BY <1>5, <1>6, <2>1 DEF TypesInv, Numbered
<1>12. TablesOK'
  <2>1. Table(rows, Machines, started') /\ Table(roster, Employees, started')
    BY <1>6, TableGrows DEF TypesInv, TablesOK
  <2> QED
    BY <1>2, <1>5, <2>1 DEF TypesInv, TablesOK
<1>13. TypesAgree'
  BY <1>2, <1>5 DEF TypesInv, TypesAgree, TablesOK, Active, LiveProduction
<1> QED
  BY <1>9, <1>10, <1>11, <1>12, <1>13 DEF TypesInv

\* A row is as before, or is one of d and not in force.
TakenOff(w, r, d) ==
    /\ w.id = r.id /\ w.doc = r.doc /\ w.item = r.item
    /\ w = r \/ (r.doc = d /\ w.active = FALSE)

LEMMA WithoutIs ==
  ASSUME NEW table, NEW items, NEW n, Table(table, items, n), NEW d,
         NEW W, W = Without(table, d)
  PROVE  /\ Table(W, items, n)
         /\ \A w \in W : \E r \in table : TakenOff(w, r, d)
         /\ \A r \in table : \E w \in W : TakenOff(w, r, d)
<1>1. PICK G : G = RowsOf(table, d)
  OBVIOUS
<1>2. W = Marked(table, G)
  BY <1>1 DEF Marked, Without, RowsOf
<1>3. /\ Table(W, items, n)
      /\ \A w \in W : \E r \in table : MarkedRow(w, r, G)
      /\ \A r \in table : \E w \in W : MarkedRow(w, r, G)
  BY <1>2, MarkedTable
<1>4. \A r \in table : \A w : MarkedRow(w, r, G) => TakenOff(w, r, d)
  BY <1>1 DEF MarkedRow, TakenOff, RowsOf
<1> QED
  BY <1>3, <1>4

LEMMA DeleteRowsStep ==
  ASSUME TypesInv, NEW p \in Procs, DeleteProductionRows(p) \/ DeleteProductionRoster(p)
  PROVE  TypesInv'
<1>1. PICK k : k = job[p]
  OBVIOUS
<1>2. PICK d : d = k.target
  OBVIOUS
<1>3. phase[p] \in Deleting /\ JobOK(phase[p], k)
  BY <1>1 DEF DeleteProductionRows, DeleteProductionRoster, Deleting, TypesInv, ProductionJobs
<1>4. DeleteJob(k)
  BY <1>3 DEF JobOK
<1>5. UNCHANGED <<staff, productions, placed, readded>>
  BY DEF DeleteProductionRows, DeleteProductionRoster
<1>6. /\ Table(rows', Machines, started)
      /\ Table(roster', Employees, started)
      /\ \A w \in rows' : \E r \in rows : TakenOff(w, r, d)
      /\ \A r \in rows : \E w \in rows' : TakenOff(w, r, d)
      /\ \A w \in roster' : \E r \in roster : TakenOff(w, r, d)
  <2>1. Table(rows, Machines, started) /\ Table(roster, Employees, started)
    BY DEF TypesInv, TablesOK
  <2>2. CASE DeleteProductionRows(p)
    <3>1. rows' = Without(rows, d) /\ roster' = roster
      BY <1>1, <1>2, <2>2 DEF DeleteProductionRows
    <3>2. PICK T : T = rows
      OBVIOUS
    <3>3. PICK W : W = rows'
      OBVIOUS
    <3>4. PICK m : m = started
      OBVIOUS
    <3>5. /\ Table(W, Machines, m)
          /\ \A w \in W : \E r \in T : TakenOff(w, r, d)
          /\ \A r \in T : \E w \in W : TakenOff(w, r, d)
      BY <2>1, <3>1, <3>2, <3>3, <3>4, WithoutIs
    <3>6. \A r : TakenOff(r, r, d)
      BY DEF TakenOff
    <3> QED
      BY <2>1, <3>1, <3>2, <3>3, <3>4, <3>5, <3>6
  <2>3. CASE DeleteProductionRoster(p)
    <3>1. roster' = Without(roster, d) /\ rows' = rows
      BY <1>1, <1>2, <2>3 DEF DeleteProductionRoster
    <3>2. PICK T : T = roster
      OBVIOUS
    <3>3. PICK W : W = roster'
      OBVIOUS
    <3>4. PICK m : m = started
      OBVIOUS
    <3>5. /\ Table(W, Employees, m)
          /\ \A w \in W : \E r \in T : TakenOff(w, r, d)
          /\ \A r \in T : \E w \in W : TakenOff(w, r, d)
      BY <2>1, <3>1, <3>2, <3>3, <3>4, WithoutIs
    <3>6. \A r : TakenOff(r, r, d)
      BY DEF TakenOff
    <3> QED
      BY <2>1, <3>1, <3>2, <3>3, <3>4, <3>5, <3>6
  <2> QED
    BY <2>2, <2>3
<1>7. \E ph \in {"delete_roster", "idle"}, j \in {k, NoJob} :
         /\ Goto(p, ph, j)
         /\ ph = "delete_roster" => j = k
  BY <1>1 DEF DeleteProductionRows, DeleteProductionRoster, Finish
<1>8. PICK ph \in {"delete_roster", "idle"}, j \in {k, NoJob} :
         Goto(p, ph, j) /\ (ph = "delete_roster" => j = k)
  BY <1>7
<1>9. ph \in ProductionPhases /\ ph \notin Saving /\ ph # "staff" /\ ph # "staff_delete"
      /\ (ph \in Deleting => ph = "delete_roster")
  BY DEF ProductionPhases, Saving, Deleting
<1>10. Moves(p, ph, j) /\ started' = started /\ contended' = contended
       /\ started' \in started..MaxRequests
  BY <1>8, <1>9, GotoStep
<1>11. JobOK(ph, j)'
  BY <1>4, <1>5, <1>8, <1>9 DEF JobOK, DeleteJob
<1>12. Keeps(p)
  <2>1. \A r \in rows : \E w \in rows' : w.id = r.id /\ w.doc = r.doc
    BY <1>6 DEF TakenOff
  <2>2. \A w \in rows' \cup roster' : \E r \in rows \cup roster : w.id = r.id
    BY <1>6 DEF TakenOff
  <2> QED
    BY <1>5, <1>10, <2>1, <2>2 DEF Keeps
<1>13. ProductionJobs'
  BY <1>9, <1>10, <1>11, <1>12, JobsStep
<1>14. ProductionShape'
  <2>1. /\ contended' \in BOOLEAN /\ readded' \in BOOLEAN /\ placed' = [c \in Serials |-> placed'[c]]
        /\ staff' \in [Staff -> [type : Types, active : BOOLEAN]]
        /\ productions' \in [Serials -> [type : Types \cup {NoType}, active : BOOLEAN]]
    BY <1>5, <1>10 DEF TypesInv, ProductionShape
  <2> QED
    BY <1>10, <2>1, ShapeStep
<1>15. Numbered'
  BY <1>5, <1>10 DEF TypesInv, Numbered
<1>16. TablesOK'
  BY <1>5, <1>6, <1>10 DEF TypesInv, TablesOK, TakenOff
<1>17. TypesAgree'
  BY <1>5, <1>6 DEF TypesInv, TypesAgree, Active, LiveProduction, TakenOff
<1> QED
  BY <1>13, <1>14, <1>15, <1>16, <1>17 DEF TypesInv

LEMMA FailProductionStep ==
  ASSUME TypesInv, NEW p \in Procs, FailProduction(p)
  PROVE  TypesInv'
<1>1. "idle" \in ProductionPhases /\ "idle" \notin Saving \cup Deleting
  BY DEF ProductionPhases, Saving, Deleting
<1>2. UNCHANGED productionVars /\ Moves(p, "idle", NoJob) /\ started' = started /\ contended' = contended
  BY <1>1 DEF FailProduction, Fail, Moves
<1>3. started' \in started..MaxRequests /\ contended' \in BOOLEAN
  BY <1>2 DEF TypesInv, ProductionShape
<1>4. JobOK("idle", NoJob)'
  BY <1>1 DEF JobOK
<1> QED
  BY <1>1, <1>2, <1>3, <1>4, QuietStep

LEMMA TypesNext ==
  ASSUME TypesInv, [ProductionsNext]_<<slotVars, productionVars>>
  PROVE  TypesInv'
<1>1. CASE UNCHANGED <<slotVars, productionVars>>
  BY <1>1 DEF slotVars, productionVars, TypesInv, ProductionShape, Numbered, TablesOK,
              ProductionJobs, JobOK, StaffJob, SaveJob, DeleteJob, TypeKept, TypesAgree,
              Active, LiveProduction
<1>2. ASSUME NEW p \in Procs,
             \/ \E s \in Staff, type \in Types : BeginStaff(p, s, type)
             \/ SaveStaff(p)
             \/ \E s \in Staff : BeginDeleteStaff(p, s)
             \/ DeleteStaff(p)
             \/ \E d \in Serials, type \in Types : BeginProduction(p, d, type)
             \/ ProductionSnapshot(p) \/ CommitProduction(p)
             \/ \E d \in Serials : DeleteProduction(p, d)
             \/ DeleteProductionRows(p) \/ DeleteProductionRoster(p)
             \/ FailProduction(p)
      PROVE  TypesInv'
  BY <1>2, BeginStaffStep, StaffStep, BeginDeleteStaffStep, BeginProductionStep, SnapshotStep,
     CommitStep, DeleteProductionStep, DeleteRowsStep, FailProductionStep
<1> QED
  BY <1>1, <1>2 DEF ProductionsNext

LEMMA TypesInit ==
  ASSUME SlotsInit, ProductionsInit
  PROVE  TypesInv
<1>1. ProductionShape
  <2>1. staff \in [Staff -> [type : Types, active : BOOLEAN]]
    <3>1. staff \in [Staff -> [type : Types, active : {TRUE}]]
      BY DEF ProductionsInit
    <3>2. [type : Types, active : {TRUE}] \subseteq [type : Types, active : BOOLEAN]
      OBVIOUS
    <3> QED
      BY <3>1, <3>2
  <2>2. productions \in [Serials -> [type : Types \cup {NoType}, active : BOOLEAN]]
    BY DEF ProductionsInit
  <2>3. phase \in [Procs -> ProductionPhases] /\ job = [p \in Procs |-> job[p]]
    BY DEF SlotsInit, ProductionPhases
  <2>4. started \in 0..MaxRequests
    BY RequestBounds DEF SlotsInit
  <2>5. contended \in BOOLEAN /\ readded \in BOOLEAN /\ placed = [d \in Serials |-> placed[d]]
    BY DEF SlotsInit, ProductionsInit
  <2> QED
    BY <2>1, <2>2, <2>3, <2>4, <2>5 DEF ProductionShape
<1>2. Numbered /\ TablesOK /\ TypesAgree
  BY DEF ProductionsInit, SlotsInit, Numbered, TablesOK, Table, TypesAgree, Active
<1>3. ProductionJobs
  BY DEF SlotsInit, ProductionJobs, JobOK, Saving, Deleting
<1> QED
  BY <1>1, <1>2, <1>3 DEF TypesInv

\* For any machines, employees and types, and in every interleaving: a production in
\* force, saved by upsertOrderProduction, has active machines and employees of its own
\* type only, because upsertMachine and upsertEmployee change the type of none that is
\* active.
THEOREM TypesStayAgreed == ProductionsSpec => []TypesAgree
<1>1. SlotsInit /\ ProductionsInit => TypesInv
  BY TypesInit
<1>2. TypesInv /\ [ProductionsNext]_<<slotVars, productionVars>> => TypesInv'
  BY TypesNext
<1>3. TypesInv => TypesAgree
  BY DEF TypesInv
<1> QED
  BY <1>1, <1>2, <1>3, PTL DEF ProductionsSpec

----------------------------------------------------------------------------
(* A production has what its last save asked for *)

\* Saves that do not overlap are each of a production of its own.
ProductionsApart ==
    \A p, q \in Procs :
        phase[p] \in Saving /\ phase[q] \in Saving /\ job[p].target = job[q].target => p = q

\* What a save read is what there is, unless the production was deleted since.
ProductionGone(d) == productions[d].type # NoType /\ ~productions[d].active
Current(j) ==
    \/ ProductionGone(j.target)
    \/ j.rows = RowsOf(rows, j.target) /\ j.roster = RowsOf(roster, j.target)

\* What a production in force has is what was asked for.
Asked(d) ==
    LiveProduction(d) =>
        Items(ActiveOf(rows, d)) \cup Items(ActiveOf(roster, d)) = placed[d]

AskedInv ==
    ~contended /\ ~readded =>
        /\ ProductionsApart
        /\ \A p \in Procs : phase[p] = "commit" => Current(job[p])
        /\ \A d \in Serials : Asked(d)

Untouched(d) ==
    /\ RowsOf(rows', d) = RowsOf(rows, d) /\ RowsOf(roster', d) = RowsOf(roster, d)
    /\ placed'[d] = placed[d] /\ productions'[d] = productions[d]

\* A step touches a production that is gone, or the one that it commits.
Touches(p) ==
    \A d \in Serials :
        \/ Untouched(d)
        \/ ProductionGone(d)'
        \/ phase[p] = "commit" /\ d = job[p].target /\ Asked(d)'

LEMMA UntouchedStays ==
  ASSUME NEW d, Untouched(d)
  PROVE  /\ Asked(d) => Asked(d)'
         /\ ProductionGone(d) => ProductionGone(d)'
         /\ \A j : j.target = d /\ Current(j) => Current(j)'
<1>1. ActiveOf(rows', d) = ActiveOf(rows, d) /\ ActiveOf(roster', d) = ActiveOf(roster, d)
  BY DEF Untouched, ActiveOf
<1>2. Asked(d) => Asked(d)'
  BY <1>1 DEF Asked, LiveProduction, Untouched
<1>3. ProductionGone(d) => ProductionGone(d)'
  BY DEF ProductionGone, Untouched
<1>4. \A j : j.target = d /\ Current(j) => Current(j)'
  BY <1>3 DEF Current, Untouched
<1> QED
  BY <1>2, <1>3, <1>4

LEMMA AskedStep ==
  ASSUME TypesInv, TypesInv', AskedInv, NEW p \in Procs, NEW ph, NEW j, Moves(p, ph, j),
         ~contended' /\ ~readded' => ~contended /\ ~readded /\ Touches(p),
         ph \in Saving /\ ~contended' =>
            \/ phase[p] \in Saving /\ j.target = job[p].target
            \/ SavesOfProduction(j.target) = {},
         ph = "commit" => Current(j)'
  PROVE  AskedInv'
<1> SUFFICES ASSUME ~contended', ~readded'
             PROVE  /\ ProductionsApart'
                    /\ \A q \in Procs : phase'[q] = "commit" => Current(job[q])'
                    /\ \A d \in Serials : Asked(d)'
  BY DEF AskedInv
<1>1. /\ phase'[p] = ph /\ job'[p] = j
      /\ \A q \in Procs \ {p} : phase'[q] = phase[q] /\ job'[q] = job[q]
  BY DEF Moves, TypesInv, ProductionShape
<1>2. /\ ProductionsApart /\ Touches(p)
      /\ \A q \in Procs : phase[q] = "commit" => Current(job[q])
      /\ \A d \in Serials : Asked(d)
  BY DEF AskedInv
<1>3. ProductionsApart'
  <2>1. ASSUME NEW q \in Procs \ {p}, ph \in Saving, phase[q] \in Saving, job[q].target = j.target
        PROVE  FALSE
    <3>1. q \in SavesOfProduction(j.target)
      BY <2>1 DEF SavesOfProduction, InFlight, Saving
    <3>2. phase[p] \in Saving /\ j.target = job[p].target
      BY <2>1, <3>1
    <3> QED
      BY <1>2, <2>1, <3>2 DEF ProductionsApart
  <2> QED
    BY <1>1, <1>2, <2>1 DEF ProductionsApart
<1>4. \A q \in Procs : phase[q] = "commit" => job[q].target \in Serials
  BY DEF TypesInv, ProductionJobs, JobOK, SaveJob, Saving
<1>5. ASSUME NEW q \in Procs \ {p}, phase[q] = "commit"
      PROVE  Current(job[q])'
  <2>1. PICK k : k = job[q]
    OBVIOUS
  <2>2. PICK d : d = k.target
    OBVIOUS
  <2>3. d \in Serials /\ Current(k) /\ job'[q] = k
    BY <1>1, <1>2, <1>4, <1>5, <2>1, <2>2
  <2>4. ~(phase[p] = "commit" /\ d = job[p].target)
    BY <1>2, <1>5, <2>1, <2>2 DEF ProductionsApart, Saving
  <2>5. Untouched(d) \/ ProductionGone(d)'
    BY <1>2, <2>3, <2>4 DEF Touches
  <2>6. Current(k)'
    <3>1. CASE Untouched(d)
      BY <2>2, <2>3, <3>1, UntouchedStays
    <3>2. CASE ProductionGone(d)'
      BY <2>2, <3>2 DEF Current
    <3> QED
      BY <2>5, <3>1, <3>2
  <2> QED
    BY <2>3, <2>6 DEF Current, ProductionGone
<1>6. ASSUME ph = "commit" PROVE Current(job[p])'
  BY <1>1, <1>6 DEF Current, ProductionGone
<1>7. \A q \in Procs : phase'[q] = "commit" => Current(job[q])'
  BY <1>1, <1>5, <1>6
<1>8. ASSUME NEW d \in Serials PROVE Asked(d)'
  <2>1. CASE Untouched(d)
    BY <1>2, <2>1, UntouchedStays
  <2>2. CASE ProductionGone(d)'
    BY <2>2 DEF ProductionGone, Asked, LiveProduction
  <2> QED
    BY <1>2, <2>1, <2>2 DEF Touches
<1> QED
  BY <1>3, <1>7, <1>8

\* Nothing that is asked for is touched by most steps.
LEMMA UntouchedAll ==
  ASSUME NEW p \in Procs, UNCHANGED <<productions, rows, roster, placed>>
  PROVE  Touches(p)
BY DEF Touches, Untouched

LEMMA BeginAsked ==
  ASSUME TypesInv, TypesInv', AskedInv, NEW p \in Procs, NEW d \in Serials, NEW type \in Types,
         BeginProduction(p, d, type)
  PROVE  AskedInv'
<1>1. PICK form \in Forms(RowsOf(rows, d), Machines, Hours), team \in SUBSET Employees :
         Start(p, "validated", [n |-> NextSerial, target |-> d, type |-> type,
                                form |-> form, crew |-> team, rows |-> {}, roster |-> {}],
               SavesOfProduction(d))
  BY DEF BeginProduction
<1>2. PICK j : j = [n |-> NextSerial, target |-> d, type |-> type,
                    form |-> form, crew |-> team, rows |-> {}, roster |-> {}]
  OBVIOUS
<1>3. Start(p, "validated", j, SavesOfProduction(d)) /\ UNCHANGED productionVars
  BY <1>1, <1>2 DEF BeginProduction
<1>4. "validated" \in ProductionPhases /\ "validated" # "commit"
  BY DEF ProductionPhases
<1>5. Moves(p, "validated", j)
  BY <1>3, <1>4, StartStep
<1>6. contended' = (contended \/ SavesOfProduction(d) # {})
  BY <1>3 DEF Start
<1>7. Touches(p)
  BY <1>3, UntouchedAll DEF productionVars
<1>8. ~contended' /\ ~readded' => ~contended /\ ~readded
  BY <1>3, <1>6 DEF productionVars
<1>9. j.target = d
  BY <1>2
<1> QED
  BY <1>4, <1>5, <1>6, <1>7, <1>8, <1>9, AskedStep

LEMMA SnapshotAsked ==
  ASSUME TypesInv, TypesInv', AskedInv, NEW p \in Procs, ProductionSnapshot(p)
  PROVE  AskedInv'
<1>1. PICK k : k = job[p]
  OBVIOUS
<1>2. phase[p] = "validated" /\ phase[p] \in Saving /\ "commit" \in ProductionPhases
  BY DEF ProductionSnapshot, Saving, ProductionPhases
<1>3. SaveJob("validated", k)
  BY <1>1, <1>2 DEF TypesInv, ProductionJobs, JobOK
<1>4. PICK j : j = [k EXCEPT !.rows = RowsOf(rows, k.target), !.roster = RowsOf(roster, k.target)]
  OBVIOUS
<1>5. Goto(p, "commit", j) /\ UNCHANGED productionVars
  BY <1>1, <1>4 DEF ProductionSnapshot
<1>6. /\ j.target = k.target /\ j.rows = RowsOf(rows, k.target)
      /\ j.roster = RowsOf(roster, k.target)
  BY <1>3, <1>4 DEF SaveJob
<1>7. Moves(p, "commit", j) /\ contended' = contended
  BY <1>2, <1>5, GotoStep
<1>8. Current(j)'
  BY <1>5, <1>6 DEF Current, productionVars
<1>9. Touches(p)
  BY <1>5, UntouchedAll DEF productionVars
<1>10. ~contended' /\ ~readded' => ~contended /\ ~readded
  BY <1>5, <1>7 DEF productionVars
<1> QED
  BY <1>1, <1>2, <1>6, <1>7, <1>8, <1>9, <1>10, AskedStep

\* A commit leaves other productions as they were.
LEMMA CommitElsewhere ==
  ASSUME TypesInv, NEW p \in Procs, CommitProduction(p), NEW d \in Serials, d # job[p].target
  PROVE  Untouched(d)
<1>1. PICK j : j = job[p]
  OBVIOUS
<1>2. /\ SaveJob("commit", j)
      /\ rows' = Saved(rows, j.rows, j.form, j.target, j.n)
      /\ roster' = CrewSaved(j)
      /\ placed' = [placed EXCEPT ![j.target] = Items(j.form) \cup j.crew]
  BY <1>1, CommitIs
<1>3. productions'[d] = productions[d]
  BY <1>1, CommitType
<1>4. SavedAs(rows', rows, j.rows, j.form, j.target, j.n)
  BY <1>2, CommitRows
<1>5. RowsOf(rows', d) = RowsOf(rows, d)
  BY <1>1, <1>4 DEF SavedAs, RowsOf
<1>6. /\ \A w \in roster' :
            \/ \E r \in roster : /\ w.id = r.id /\ w.doc = r.doc /\ w.item = r.item
                                 /\ w.active => w = r
                                 /\ r.doc = j.target /\ r.item \in Items(j.roster) \ j.crew
                                      => ~w.active
            \/ \E e \in j.crew \ Items(j.roster) : AddedRow(w, e, j.target, j.n)
      /\ \A r \in roster :
            r.doc # j.target \/ r.item \notin Items(j.roster) \ j.crew => r \in roster'
  BY <1>2, CrewSavedRows
<1>7. Table(roster', Employees, started) /\ Table(roster, Employees, started)
  BY <1>2, CrewSavedRows DEF TypesInv, TablesOK
<1>8. RowsOf(roster', d) = RowsOf(roster, d)
  <2>1. ASSUME NEW r \in roster, r.doc = d PROVE r \in roster'
    BY <1>1, <1>6, <2>1
  <2>2. ASSUME NEW w \in roster', w.doc = d PROVE w \in roster
    <3>1. PICK r \in roster : w.id = r.id /\ w.doc = r.doc
      BY <1>1, <1>6, <2>2 DEF AddedRow
    <3>2. r \in roster'
      BY <2>1, <2>2, <3>1
    <3> QED
      BY <1>7, <3>1, <3>2 DEF Table
  <2> QED
    BY <2>1, <2>2 DEF RowsOf
<1>9. placed'[d] = placed[d]
  BY <1>1, <1>2 DEF TypesInv, ProductionShape
<1> QED
  BY <1>3, <1>5, <1>8, <1>9 DEF Untouched

\* The production it commits has the machines and the crew of the form.
LEMMA CommitHere ==
  ASSUME TypesInv, NEW p \in Procs, CommitProduction(p), NEW j, j = job[p], ~readded',
         j.rows = RowsOf(rows, j.target), j.roster = RowsOf(roster, j.target)
  PROVE  Asked(j.target)'
<1>1. /\ SaveJob("commit", j)
      /\ rows' = Saved(rows, j.rows, j.form, j.target, j.n)
      /\ roster' = CrewSaved(j)
      /\ placed' = [placed EXCEPT ![j.target] = Items(j.form) \cup j.crew]
      /\ readded' = (readded \/ \E r \in j.roster : ~r.active /\ r.item \in j.crew)
  BY CommitIs
<1>2. SavedAs(rows', rows, j.rows, j.form, j.target, j.n)
  BY <1>1, CommitRows
<1>3. Items(ActiveOf(rows', j.target)) = Items(j.form)
  <2>1. ASSUME NEW w \in rows', w.active, w.doc = j.target PROVE w.item \in Items(j.form)
    <3>1. CASE w \in rows /\ w.id \notin Ids(j.rows)
      <4>1. w \in j.rows
        BY <2>1, <3>1 DEF RowsOf
      <4> QED
        BY <3>1, <4>1, RowIds DEF Ids
    <3> QED
      BY <1>2, <2>1, <3>1 DEF SavedAs, Items
  <2>2. ASSUME NEW l \in j.form PROVE \E w \in rows' : w.active /\ w.doc = j.target /\ w.item = l.item
    BY <1>2 DEF SavedAs
  <2> QED
    BY <2>1, <2>2 DEF ActiveOf, Active, RowsOf, Items
<1>4. /\ \A w \in roster' :
            \/ \E r \in roster : /\ w.id = r.id /\ w.doc = r.doc /\ w.item = r.item
                                 /\ w.active => w = r
                                 /\ r.doc = j.target /\ r.item \in Items(j.roster) \ j.crew
                                      => ~w.active
            \/ \E e \in j.crew \ Items(j.roster) : AddedRow(w, e, j.target, j.n)
      /\ \A r \in roster :
            r.doc # j.target \/ r.item \notin Items(j.roster) \ j.crew => r \in roster'
      /\ \A e \in j.crew \ Items(j.roster) : \E w \in roster' : AddedRow(w, e, j.target, j.n)
  BY <1>1, CrewSavedRows
<1>5. Items(ActiveOf(roster', j.target)) = j.crew
  <2>1. ASSUME NEW w \in roster', w.active, w.doc = j.target PROVE w.item \in j.crew
    <3>1. CASE \E e \in j.crew \ Items(j.roster) : AddedRow(w, e, j.target, j.n)
      BY <3>1 DEF AddedRow
    <3>2. CASE \E r \in roster : /\ w.doc = r.doc /\ w.item = r.item
                                 /\ r.doc = j.target /\ r.item \in Items(j.roster) \ j.crew
                                      => ~w.active
      <4>1. PICK r \in roster : /\ w.doc = r.doc /\ w.item = r.item
                                /\ r.doc = j.target /\ r.item \in Items(j.roster) \ j.crew
                                     => ~w.active
        BY <3>2
      <4>2. r.item \in Items(j.roster)
        BY <2>1, <4>1 DEF RowsOf, Items
      <4> QED
        BY <2>1, <4>1, <4>2
    <3> QED
      BY <1>4, <3>1, <3>2
  <2>2. ASSUME NEW e \in j.crew
        PROVE  \E w \in roster' : w.active /\ w.doc = j.target /\ w.item = e
    <3>1. CASE e \in Items(j.roster)
      <4>1. PICK r \in j.roster : r.item = e
        BY <3>1 DEF Items
      <4>2. r.active
        BY <1>1, <4>1
      <4>3. r \in roster /\ r.doc = j.target
        BY <4>1 DEF RowsOf
      <4>4. r \in roster'
        BY <1>4, <4>1, <4>3
      <4> QED
        BY <4>1, <4>2, <4>3, <4>4
    <3>2. CASE e \notin Items(j.roster)
      BY <1>4, <3>2 DEF AddedRow
    <3> QED
      BY <3>1, <3>2
  <2> QED
    BY <2>1, <2>2 DEF ActiveOf, Active, RowsOf, Items
<1>6. placed'[j.target] = Items(j.form) \cup j.crew
  BY <1>1 DEF TypesInv, ProductionShape, SaveJob
<1>7. PICK d : d = j.target
  OBVIOUS
<1>8. Asked(d)'
  BY <1>3, <1>5, <1>6, <1>7 DEF Asked
<1> QED
  BY <1>7, <1>8

LEMMA CommitAsked ==
  ASSUME TypesInv, TypesInv', AskedInv, NEW p \in Procs, CommitProduction(p)
  PROVE  AskedInv'
<1>1. PICK j : j = job[p]
  OBVIOUS
<1>2. PICK d : d = j.target
  OBVIOUS
<1>3. /\ phase[p] = "commit" /\ d \in Serials
      /\ readded' = (readded \/ \E r \in j.roster : ~r.active /\ r.item \in j.crew)
      /\ Moves(p, "idle", NoJob) /\ contended' = contended
  BY <1>1, <1>2, CommitIs DEF SaveJob
<1>4. /\ productions'[d].type # NoType
      /\ productions[d].type # NoType => productions'[d].active = productions[d].active
  BY <1>1, <1>2, CommitType
<1>5. ASSUME ~contended', ~readded' PROVE Touches(p)
  <2>1. Current(j)
    BY <1>1, <1>3, <1>5 DEF AskedInv
  <2>2. ProductionGone(d)' \/ Asked(d)'
    <3>1. CASE ProductionGone(d)
      BY <1>4, <3>1 DEF ProductionGone
    <3>2. CASE j.rows = RowsOf(rows, j.target) /\ j.roster = RowsOf(roster, j.target)
      BY <1>1, <1>2, <1>5, <3>2, CommitHere
    <3> QED
      BY <1>2, <2>1, <3>1, <3>2 DEF Current
  <2>3. \A c \in Serials : c # d => Untouched(c)
    BY <1>1, <1>2, CommitElsewhere
  <2> QED
    BY <1>1, <1>2, <1>3, <2>2, <2>3 DEF Touches
<1>6. "idle" \notin Saving /\ "idle" # "commit"
  BY DEF Saving
<1>7. ~contended' /\ ~readded' => ~contended /\ ~readded
  BY <1>3
<1> QED
  BY <1>3, <1>5, <1>6, <1>7, AskedStep

\* A delete touches a production that is gone.
LEMMA DeleteAsked ==
  ASSUME TypesInv, TypesInv', AskedInv, NEW p \in Procs,
         DeleteProductionRows(p) \/ DeleteProductionRoster(p)
  PROVE  AskedInv'
<1>1. PICK d : d = job[p].target
  OBVIOUS
<1>2. UNCHANGED <<staff, productions, placed, readded>>
  BY DEF DeleteProductionRows, DeleteProductionRoster
<1>3. ProductionGone(d)
  BY <1>1 DEF DeleteProductionRows, DeleteProductionRoster, Deleting, TypesInv, ProductionJobs,
              JobOK, DeleteJob, ProductionGone
<1>4. /\ \A c : c # d => RowsOf(Without(rows, d), c) = RowsOf(rows, c)
      /\ \A c : c # d => RowsOf(Without(roster, d), c) = RowsOf(roster, c)
  <2>1. ASSUME NEW T, NEW items, NEW m, Table(T, items, m), NEW c, c # d
        PROVE  RowsOf(Without(T, d), c) = RowsOf(T, c)
    <3>1. PICK W : W = Without(T, d)
      OBVIOUS
    <3>2. /\ \A w \in W : \E r \in T : TakenOff(w, r, d)
          /\ \A r \in T : \E w \in W : TakenOff(w, r, d)
      BY <2>1, <3>1, WithoutIs
    <3> QED
      BY <2>1, <3>1, <3>2 DEF TakenOff, RowsOf
  <2>2. Table(rows, Machines, started) /\ Table(roster, Employees, started)
    BY DEF TypesInv, TablesOK
  <2> QED
    BY <2>1, <2>2
<1>5. /\ rows' = rows \/ rows' = Without(rows, d)
      /\ roster' = roster \/ roster' = Without(roster, d)
  BY <1>1 DEF DeleteProductionRows, DeleteProductionRoster
<1>6. Touches(p)
  <2>1. ASSUME NEW c \in Serials, c # d PROVE Untouched(c)
    BY <1>2, <1>4, <1>5, <2>1 DEF Untouched
  <2>2. ProductionGone(d)'
    BY <1>2, <1>3 DEF ProductionGone
  <2> QED
    BY <2>1, <2>2 DEF Touches
<1>7. PICK ph \in {"delete_roster", "idle"}, j \in {job[p], NoJob} : Goto(p, ph, j)
  BY DEF DeleteProductionRows, DeleteProductionRoster, Finish
<1>8. ph \in ProductionPhases /\ ph \notin Saving /\ ph # "commit"
  BY DEF ProductionPhases, Saving
<1>9. Moves(p, ph, j) /\ contended' = contended
  BY <1>7, <1>8, GotoStep
<1>10. ~contended' /\ ~readded' => ~contended /\ ~readded
  BY <1>2, <1>9
<1> QED
  BY <1>6, <1>8, <1>9, <1>10, AskedStep

LEMMA DeleteProductionAsked ==
  ASSUME TypesInv, TypesInv', AskedInv, NEW p \in Procs, NEW d \in Serials, DeleteProduction(p, d)
  PROVE  AskedInv'
<1>1. PICK j : j = [target |-> d]
  OBVIOUS
<1>2. /\ Start(p, "delete_rows", j, {}) /\ UNCHANGED <<staff, rows, roster, placed, readded>>
      /\ productions' = [productions EXCEPT ![d].active = FALSE]
  BY <1>1 DEF DeleteProduction
<1>3. productions[d].type # NoType
  BY DEF DeleteProduction, LiveProduction, TypesInv, Numbered
<1>4. "delete_rows" \in ProductionPhases /\ "delete_rows" # "commit" /\ "delete_rows" \notin Saving
  BY DEF ProductionPhases, Saving
<1>5. ProductionGone(d)' /\ \A c \in Serials : c # d => productions'[c] = productions[c]
  BY <1>2, <1>3 DEF TypesInv, ProductionShape, ProductionGone
<1>6. Touches(p)
  BY <1>2, <1>5 DEF Touches, Untouched
<1>7. Moves(p, "delete_rows", j)
  BY <1>2, <1>4, StartStep
<1>8. ~contended' /\ ~readded' => ~contended /\ ~readded
  BY <1>2 DEF Start
<1> QED
  BY <1>4, <1>6, <1>7, <1>8, AskedStep

\* The other steps.
LEMMA StaffAsked ==
  ASSUME TypesInv, TypesInv', AskedInv, NEW p \in Procs,
         \/ \E s \in Staff, type \in Types : BeginStaff(p, s, type)
         \/ SaveStaff(p)
         \/ \E s \in Staff : BeginDeleteStaff(p, s)
         \/ DeleteStaff(p)
         \/ FailProduction(p)
  PROVE  AskedInv'
<1>1. UNCHANGED <<productions, rows, roster, placed, readded>>
  BY DEF BeginStaff, SaveStaff, BeginDeleteStaff, DeleteStaff, FailProduction, productionVars
<1>2. \E ph \in {"idle", "staff", "staff_delete"} : \E j :
         /\ phase' = [phase EXCEPT ![p] = ph] /\ job' = [job EXCEPT ![p] = j]
         /\ ~contended' => ~contended
  <2>1. CASE \E s \in Staff, type \in Types : BeginStaff(p, s, type)
    BY <2>1 DEF BeginStaff, Start
  <2>2. CASE \E s \in Staff : BeginDeleteStaff(p, s)
    BY <2>2 DEF BeginDeleteStaff, Start
  <2>3. CASE SaveStaff(p) \/ DeleteStaff(p)
    BY <2>3 DEF SaveStaff, DeleteStaff, Finish, Goto
  <2>4. CASE FailProduction(p)
    BY <2>4 DEF FailProduction, Fail
  <2> QED
    BY <2>1, <2>2, <2>3, <2>4
<1>3. PICK ph \in {"idle", "staff", "staff_delete"} : \E j :
         /\ phase' = [phase EXCEPT ![p] = ph] /\ job' = [job EXCEPT ![p] = j]
         /\ ~contended' => ~contended
  BY <1>2
<1>4. PICK j : /\ phase' = [phase EXCEPT ![p] = ph] /\ job' = [job EXCEPT ![p] = j]
               /\ ~contended' => ~contended
  BY <1>3
<1>5. ph \in ProductionPhases /\ ph \notin Saving /\ ph # "commit"
  BY DEF ProductionPhases, Saving
<1>6. Moves(p, ph, j)
  BY <1>4, <1>5 DEF Moves
<1>7. Touches(p)
  BY <1>1, UntouchedAll
<1>8. ~contended' /\ ~readded' => ~contended /\ ~readded
  BY <1>1, <1>4
<1> QED
  BY <1>5, <1>6, <1>7, <1>8, AskedStep

ProductionsInv == TypesInv /\ AskedInv

LEMMA ProductionsStart ==
  ASSUME SlotsInit, ProductionsInit
  PROVE  ProductionsInv
<1>1. \A d \in Serials : Asked(d)
  BY DEF ProductionsInit, Asked, LiveProduction
<1>2. AskedInv
  BY <1>1 DEF SlotsInit, AskedInv, ProductionsApart, Saving
<1> QED
  BY <1>2, TypesInit DEF ProductionsInv

LEMMA ProductionsStep ==
  ASSUME ProductionsInv, [ProductionsNext]_<<slotVars, productionVars>>
  PROVE  ProductionsInv'
<1>1. TypesInv /\ TypesInv' /\ AskedInv
  BY TypesNext DEF ProductionsInv
<1>2. CASE UNCHANGED <<slotVars, productionVars>>
  BY <1>1, <1>2 DEF slotVars, productionVars, ProductionsInv, AskedInv, ProductionsApart, Current,
                    ProductionGone, Asked, LiveProduction
<1>3. ASSUME NEW p \in Procs,
             \/ \E s \in Staff, type \in Types : BeginStaff(p, s, type)
             \/ SaveStaff(p)
             \/ \E s \in Staff : BeginDeleteStaff(p, s)
             \/ DeleteStaff(p)
             \/ \E d \in Serials, type \in Types : BeginProduction(p, d, type)
             \/ ProductionSnapshot(p) \/ CommitProduction(p)
             \/ \E d \in Serials : DeleteProduction(p, d)
             \/ DeleteProductionRows(p) \/ DeleteProductionRoster(p)
             \/ FailProduction(p)
      PROVE  AskedInv'
  BY <1>1, <1>3, StaffAsked, BeginAsked, SnapshotAsked, CommitAsked, DeleteProductionAsked, DeleteAsked
<1> QED
  BY <1>1, <1>2, <1>3 DEF ProductionsNext, ProductionsInv

\* What is in force of a production is what its last save asked for.
LEMMA ProductionsClaims ==
  ASSUME ProductionsInv
  PROVE  TypesAgree /\ ProductionsAsAsked
BY DEF ProductionsInv, TypesInv, AskedInv, Asked, ProductionsAsAsked

----------------------------------------------------------------------------
(* Plans *)

PlanPhases ==
    {"idle", "plan_header", "plan_rows", "row_gone", "row_sync", "plan_delete", "plan_row_gone"}
PlanSaving == {"plan_header", "plan_rows", "row_gone", "row_sync"}
PlanDeleting == {"plan_delete", "plan_row_gone"}
PlanRecord == [shift : Shifts, active : BOOLEAN]

PlanShape ==
    /\ phase \in [Procs -> PlanPhases]
    /\ job = [p \in Procs |-> job[p]]
    /\ started \in 0..MaxRequests
    /\ contended \in BOOLEAN
    /\ plans \in [Serials -> PlanRecord \cup {NoPlan}]
    /\ planned = [d \in Serials |-> planned[d]]

PlanTables ==
    /\ Table(planRows, PlanMachines, started)
    /\ \A c \in crew : AsRow(c)
    /\ \A g \in goods : NamedRow(g, Goods, started)

GoodsOK(lines) == \A g \in lines : g.item \in Goods /\ (g.id # NoId => g.id[2] = g.item)

LinesOK(form) ==
    /\ \A l \in form : /\ l.item \in PlanMachines
                       /\ l.id # NoId => l.id[2] = l.item
                       /\ GoodsOK(l.goods)
    /\ \A l, k \in form : l.item = k.item => l = k

\* A row of the plan has the id.
RowThere(id, d) == id # NoId /\ \E r \in planRows : r.id = id /\ r.doc = d

OldOK(old, d) ==
    /\ \A w \in old : RowThere(w.id, d)
    /\ \A w, v \in old : w.id = v.id => w = v

PlanSave(ph, j) ==
    /\ j = [n |-> j.n, target |-> j.target, shift |-> j.shift, asked |-> j.asked,
            form |-> j.form, old |-> j.old, row |-> j.row, line |-> j.line]
    /\ j.n \in 1..started /\ j.target \in Serials /\ j.shift \in Shifts
    /\ LinesOK(j.form)
    /\ \A l \in j.form : \A r \in planRows : r.id # <<j.n, l.item>>
    /\ OldOK(j.old, j.target)
    /\ ph \in {"row_gone", "row_sync"} => RowThere(j.row, j.target) /\ j.row \notin Ids(j.old)
    /\ ph = "row_sync" => j.row[2] = j.line.item /\ GoodsOK(j.line.goods)

PlanDelete(ph, j) ==
    /\ j = [n |-> j.n, target |-> j.target, old |-> j.old, row |-> j.row]
    /\ j.target \in Serials /\ plans[j.target] \in PlanRecord
    /\ OldOK(j.old, j.target)
    /\ ph = "plan_row_gone" => RowThere(j.row, j.target)

PlanJob(ph, j) ==
    /\ ph \in PlanSaving => PlanSave(ph, j)
    /\ ph \in PlanDeleting => PlanDelete(ph, j)

PlanJobs ==
    /\ \A p \in Procs : PlanJob(phase[p], job[p])
    /\ \A p, q \in Procs :
          phase[p] \in PlanSaving /\ phase[q] \in PlanSaving /\ job[p].n = job[q].n => p = q

PlanInv == PlanShape /\ PlanTables /\ PlanJobs

----------------------------------------------------------------------------
(* What every step leaves of what the others rely on *)

PlanKeeps(p) ==
    /\ started' \in started..MaxRequests
    /\ \A r \in planRows : \E w \in planRows' : w.id = r.id /\ w.doc = r.doc
    /\ \A w \in planRows' :
          \/ \E r \in planRows : w.id = r.id
          \/ phase[p] \in PlanSaving /\ w.id[1] = job[p].n
    /\ \A d \in Serials : plans[d] \in PlanRecord => plans'[d] \in PlanRecord

PlanMoves(p, ph, j) ==
    /\ ph \in PlanPhases
    /\ phase' = [phase EXCEPT ![p] = ph]
    /\ job' = [job EXCEPT ![p] = j]

LEMMA RowsStayThere ==
  ASSUME NEW p, PlanKeeps(p), NEW d
  PROVE  /\ \A id : RowThere(id, d) => RowThere(id, d)'
         /\ \A old : OldOK(old, d) => OldOK(old, d)'
<1>1. ASSUME NEW id, RowThere(id, d) PROVE RowThere(id, d)'
  <2>1. PICK r \in planRows : r.id = id /\ r.doc = d
    BY <1>1 DEF RowThere
  <2>2. PICK w \in planRows' : w.id = r.id /\ w.doc = r.doc
    BY DEF PlanKeeps
  <2> QED
    BY <1>1, <2>1, <2>2 DEF RowThere
<1>2. ASSUME NEW old, OldOK(old, d) PROVE OldOK(old, d)'
  <2>1. ASSUME NEW w \in old PROVE RowThere(w.id, d)'
    <3>1. PICK x : x = w.id
      OBVIOUS
    <3>2. RowThere(x, d)
      BY <1>2, <3>1 DEF OldOK
    <3>3. RowThere(x, d)'
      BY <1>1, <3>2
    <3> QED
      BY <3>1, <3>3
  <2> QED
    BY <1>2, <2>1 DEF OldOK
<1> QED
  BY <1>1, <1>2

LEMMA PlanJobStays ==
  ASSUME PlanInv, NEW p \in Procs, PlanKeeps(p), NEW ph, NEW j, PlanJob(ph, j),
         ph \in PlanSaving /\ phase[p] \in PlanSaving => j.n # job[p].n
  PROVE  PlanJob(ph, j)'
<1>1. PICK d : d = j.target
  OBVIOUS
<1>2. PICK old : old = j.old
  OBVIOUS
<1>3. PICK row : row = j.row
  OBVIOUS
<1>4. /\ RowThere(row, d) => RowThere(row, d)'
      /\ OldOK(old, d) => OldOK(old, d)'
  BY RowsStayThere
<1>5. ASSUME ph \in PlanSaving PROVE PlanSave(ph, j)'
  <2>1. PlanSave(ph, j)
    BY <1>5 DEF PlanJob
  <2>2. j.n \in 1..started'
    BY <2>1 DEF PlanSave, PlanKeeps, PlanInv, PlanShape
  <2>3. \A l \in j.form : \A r \in planRows' : r.id # <<j.n, l.item>>
    BY <1>5, <2>1 DEF PlanSave, PlanKeeps
  <2>4. OldOK(j.old, j.target)'
    BY <1>1, <1>2, <1>4, <2>1 DEF PlanSave
  <2>5. RowThere(j.row, j.target) => RowThere(j.row, j.target)'
    BY <1>1, <1>3, <1>4
  <2> QED
    BY <2>1, <2>2, <2>3, <2>4, <2>5 DEF PlanSave
<1>6. ASSUME ph \in PlanDeleting PROVE PlanDelete(ph, j)'
  <2>1. PlanDelete(ph, j)
    BY <1>6 DEF PlanJob
  <2>2. OldOK(j.old, j.target)'
    BY <1>1, <1>2, <1>4, <2>1 DEF PlanDelete
  <2>3. RowThere(j.row, j.target) => RowThere(j.row, j.target)'
    BY <1>1, <1>3, <1>4
  <2>4. plans'[j.target] \in PlanRecord
    BY <2>1 DEF PlanDelete, PlanKeeps
  <2> QED
    BY <2>1, <2>2, <2>3, <2>4 DEF PlanDelete
<1> QED
  BY <1>5, <1>6 DEF PlanJob

\* What is left to show of a step.
LEMMA PlanStep ==
  ASSUME PlanInv, NEW p \in Procs, PlanKeeps(p), NEW ph, NEW j, PlanMoves(p, ph, j),
         PlanJob(ph, j)', PlanTables', contended' \in BOOLEAN,
         plans' \in [Serials -> PlanRecord \cup {NoPlan}],
         planned' = [d \in Serials |-> planned'[d]],
         ph \in PlanSaving => \/ phase[p] \in PlanSaving /\ j.n = job[p].n
                              \/ j.n = started + 1
  PROVE  PlanInv'
<1>1. /\ phase'[p] = ph /\ job'[p] = j
      /\ \A q \in Procs \ {p} : phase'[q] = phase[q] /\ job'[q] = job[q]
  BY DEF PlanMoves, PlanInv, PlanShape
<1>2. \A q \in Procs : phase[q] \in PlanSaving => job[q].n \in 1..started
  BY DEF PlanInv, PlanJobs, PlanJob, PlanSave
<1>3. started \in Nat
  BY DEF PlanInv, PlanShape
<1>4. ASSUME NEW q \in Procs \ {p} PROVE PlanJob(phase[q], job[q])'
  <2>1. PlanJob(phase[q], job[q])
    BY DEF PlanInv, PlanJobs
  <2>2. phase[q] \in PlanSaving /\ phase[p] \in PlanSaving => job[q].n # job[p].n
    BY DEF PlanInv, PlanJobs
  <2>3. PICK x : x = phase'[q]
    OBVIOUS
  <2>4. PICK k : k = job'[q]
    OBVIOUS
  <2>5. PlanJob(x, k)'
    BY <1>1, <2>1, <2>2, <2>3, <2>4, PlanJobStays
  <2> QED
    BY <2>3, <2>4, <2>5
<1>5. \A q \in Procs : PlanJob(phase[q], job[q])'
  BY <1>1, <1>4
<1>6. ASSUME NEW q \in Procs, NEW t \in Procs, phase'[q] \in PlanSaving, phase'[t] \in PlanSaving,
             job'[q].n = job'[t].n
      PROVE  q = t
  BY <1>1, <1>2, <1>3, <1>6 DEF PlanInv, PlanJobs
<1>7. PlanJobs'
  BY <1>5, <1>6 DEF PlanJobs
<1>8. PlanShape'
  <2>1. phase' \in [Procs -> PlanPhases]
    BY DEF PlanInv, PlanShape, PlanMoves
  <2>2. job' = [q \in Procs |-> job'[q]]
    BY DEF PlanInv, PlanShape, PlanMoves
  <2>3. started' \in 0..MaxRequests
    BY DEF PlanInv, PlanShape, PlanKeeps
  <2> QED
    BY <2>1, <2>2, <2>3 DEF PlanShape
<1> QED
  BY <1>7, <1>8 DEF PlanInv

LEMMA PlanStart ==
  ASSUME PlanInv, NEW p \in Procs, NEW ph \in PlanPhases, NEW j, NEW rivals,
         Start(p, ph, j, rivals)
  PROVE  /\ PlanMoves(p, ph, j) /\ started' = started + 1 /\ started' \in started..MaxRequests
         /\ contended' \in BOOLEAN /\ contended' = (contended \/ rivals # {})
         /\ started + 1 \in Serials /\ started \in Nat /\ phase[p] = "idle"
BY RequestBounds DEF PlanInv, PlanShape, Start, Free, NextSerial, PlanMoves, Serials

LEMMA PlanGoto ==
  ASSUME PlanInv, NEW p \in Procs, NEW ph \in PlanPhases, NEW j, Goto(p, ph, j)
  PROVE  /\ PlanMoves(p, ph, j) /\ started' = started /\ contended' = contended
         /\ started' \in started..MaxRequests /\ contended' \in BOOLEAN
BY DEF PlanInv, PlanShape, Goto, PlanMoves

\* A step that writes no row.
LEMMA PlanRowsStay ==
  ASSUME PlanInv, NEW p \in Procs, UNCHANGED <<planRows, crew, goods>>,
         started' \in started..MaxRequests, \A d \in Serials : plans[d] \in PlanRecord => plans'[d] \in PlanRecord
  PROVE  PlanKeeps(p) /\ PlanTables'
<1>1. started \in Nat /\ started' \in Nat /\ started <= started'
  BY DEF PlanInv, PlanShape
<1>2. Table(planRows, PlanMachines, started')
  BY <1>1, TableGrows DEF PlanInv, PlanTables
<1>3. \A g \in goods : NamedRow(g, Goods, started')
  BY <1>1 DEF PlanInv, PlanTables, NamedRow
<1>4. PlanTables'
  BY <1>2, <1>3 DEF PlanInv, PlanTables
<1> QED
  BY <1>4 DEF PlanKeeps

LEMMA PlanRowIds ==
  ASSUME PlanInv
  PROVE  /\ \A r \in planRows : r.id # NoId
         /\ \A g \in goods : g.id # NoId
         /\ \A n \in 1..started : \A i \in PlanMachines : <<n, i>> # NoId
<1>1. 1..started \subseteq Serials
  BY RequestBounds DEF PlanInv, PlanShape, Serials
<1>2. \A n \in 1..started : \A i \in PlanMachines \cup Goods : <<n, i>> # NoId
  <2>1. \A n \in 1..started : \A i \in PlanMachines \cup Goods :
           <<n, i>> \in Serials \X (PlanMachines \cup Goods)
    BY <1>1
  <2> QED
    BY <2>1, PlanNames
<1> QED
  BY <1>2 DEF PlanInv, PlanTables, Table, NamedRow

----------------------------------------------------------------------------
(* What the writes of rows do *)

\* What is in force on other rows is as it was, and on this row nothing is.
ClearedIs(row) ==
    /\ PlanTables'
    /\ Active(crew') \subseteq Active(crew) /\ Active(goods') \subseteq Active(goods)
    /\ \A x : x # row => /\ ActiveOf(crew', x) = ActiveOf(crew, x)
                         /\ ActiveOf(goods', x) = ActiveOf(goods, x)
    /\ \A c \in Active(crew' \cup goods') : c.doc # row

\* A table after what is of the row is marked deleted.
GoneFrom(W, table, row) ==
    /\ \A w \in W : \E r \in table : AsRow(w) /\ w.id = r.id /\ w.item = r.item
                                     /\ w.active \in {r.active, FALSE}
    /\ Active(W) \subseteq Active(table)
    /\ \A x : x # row => ActiveOf(W, x) = ActiveOf(table, x)
    /\ \A w \in Active(W) : w.doc # row

LEMMA GoneIs ==
  ASSUME NEW table, \A r \in table : AsRow(r), NEW row, NEW W, W = Gone(table, row)
  PROVE  GoneFrom(W, table, row)
<1> DEFINE gone(r) == IF r.doc = row THEN Deleted(r) ELSE r
<1>1. W = {gone(r) : r \in table}
  BY DEF Gone
<1>2. ASSUME NEW r \in table, r.doc = row
      PROVE  /\ AsRow(gone(r)) /\ gone(r).id = r.id /\ gone(r).item = r.item
             /\ gone(r).active = FALSE /\ gone(r).doc = row
  <2>1. PICK w : w = gone(r)
    OBVIOUS
  <2>2. w = [r EXCEPT !.active = FALSE] /\ AsRow(r)
    BY <1>2, <2>1 DEF Deleted
  <2>3. AsRow(w) /\ w.id = r.id /\ w.item = r.item /\ w.active = FALSE /\ w.doc = r.doc
    BY <2>2 DEF AsRow
  <2> QED
    BY <1>2, <2>1, <2>3
<1>3. ASSUME NEW r \in table, r.doc # row PROVE gone(r) = r
  BY <1>3
<1>4. ASSUME NEW w \in W PROVE \E r \in table : w = gone(r)
  BY <1>1
<1>5. \A r \in table : gone(r) \in W
  BY <1>1
<1> HIDE DEF gone
<1>6. \A w \in W : \E r \in table : AsRow(w) /\ w.id = r.id /\ w.item = r.item
                                    /\ w.active \in {r.active, FALSE}
  <2>1. ASSUME NEW w \in W PROVE \E r \in table : AsRow(w) /\ w.id = r.id /\ w.item = r.item
                                    /\ w.active \in {r.active, FALSE}
    <3>1. PICK r \in table : w = gone(r)
      BY <1>4
    <3>2. CASE r.doc = row
      BY <1>2, <3>1, <3>2
    <3>3. CASE r.doc # row
      BY <1>3, <3>1, <3>3
    <3> QED
      BY <3>2, <3>3
  <2> QED
    BY <2>1
<1>7. ASSUME NEW w \in Active(W) PROVE w \in Active(table) /\ w.doc # row
  <2>1. w \in W /\ w.active
    BY DEF Active
  <2>2. PICK r \in table : w = gone(r)
    BY <1>4, <2>1
  <2>3. r.doc # row
    BY <1>2, <2>1, <2>2
  <2> QED
    BY <1>3, <2>1, <2>2, <2>3 DEF Active
<1>8. ASSUME NEW x, x # row PROVE ActiveOf(W, x) = ActiveOf(table, x)
  <2>1. \A w \in ActiveOf(W, x) : w \in ActiveOf(table, x)
    BY <1>7 DEF ActiveOf, RowsOf, Active
  <2>2. \A w \in ActiveOf(table, x) : w \in ActiveOf(W, x)
    BY <1>3, <1>5, <1>8 DEF ActiveOf, RowsOf, Active
  <2> QED
    BY <2>1, <2>2
<1> QED
  BY <1>6, <1>7, <1>8 DEF GoneFrom

LEMMA RowClearedIs ==
  ASSUME PlanInv, NEW row, RowCleared(row), started' = started
  PROVE  ClearedIs(row)
<1>1. /\ crew' = Gone(crew, row) /\ goods' = Gone(goods, row) /\ planRows' = planRows
      /\ \A c \in crew : AsRow(c)
      /\ \A g \in goods : AsRow(g)
  BY DEF RowCleared, PlanInv, PlanTables, NamedRow
<1>2. PICK C : C = crew'
  OBVIOUS
<1>3. PICK G : G = goods'
  OBVIOUS
<1>4. GoneFrom(C, crew, row)
  BY <1>1, <1>2, GoneIs
<1>5. GoneFrom(G, goods, row)
  BY <1>1, <1>3, GoneIs
<1>6. ASSUME NEW w \in G PROVE NamedRow(w, Goods, started)
  <2>1. PICK r \in goods : AsRow(w) /\ w.id = r.id /\ w.item = r.item
                           /\ w.active \in {r.active, FALSE}
    BY <1>5 DEF GoneFrom
  <2>2. NamedRow(r, Goods, started)
    BY DEF PlanInv, PlanTables
  <2> QED
    BY <2>1, <2>2 DEF NamedRow
<1>7. PlanTables'
  <2>1. \A w \in C : AsRow(w)
    BY <1>4 DEF GoneFrom
  <2> QED
    BY <1>1, <1>2, <1>3, <1>6, <2>1 DEF PlanInv, PlanTables
<1>8. \A c \in Active(C \cup G) : c.doc # row
  BY <1>4, <1>5 DEF Active, GoneFrom
<1> QED
  BY <1>2, <1>3, <1>4, <1>5, <1>7, <1>8 DEF ClearedIs, GoneFrom

\* The row is not in force, and all else of the rows is as it was.
RowGoneIs(row, d) ==
    /\ Table(planRows', PlanMachines, started)
    /\ \A w \in planRows' : \E r \in planRows : w.id = r.id /\ w.doc = r.doc
    /\ \A r \in planRows : \E w \in planRows' : w.id = r.id /\ w.doc = r.doc
    /\ \A e : e # d => RowsOf(planRows', e) = RowsOf(planRows, e)
    /\ Active(planRows') = {r \in Active(planRows) : r.id # row}

LEMMA RowGoneWrites ==
  ASSUME PlanInv, NEW row, NEW d, RowThere(row, d), planRows' = RowGone(row)
  PROVE  RowGoneIs(row, d)
<1>1. PICK G : G = {r \in planRows : r.id = row}
  OBVIOUS
<1>2. PICK W : W = planRows'
  OBVIOUS
<1>3. W = Marked(planRows, G)
  BY <1>1, <1>2 DEF Marked, RowGone
<1>4. Table(planRows, PlanMachines, started)
  BY DEF PlanInv, PlanTables
<1>5. /\ Table(W, PlanMachines, started)
      /\ \A w \in W : \E r \in planRows : MarkedRow(w, r, G)
      /\ \A r \in planRows : \E w \in W : MarkedRow(w, r, G)
  BY <1>3, <1>4, MarkedTable
<1>6. \A r \in G : r.doc = d
  BY <1>1, <1>4 DEF RowThere, Table
<1>7. ASSUME NEW e, e # d PROVE RowsOf(W, e) = RowsOf(planRows, e)
  <2>1. \A w \in RowsOf(W, e) : w \in RowsOf(planRows, e)
    BY <1>5, <1>6, <1>7 DEF RowsOf, MarkedRow
  <2>2. \A w \in RowsOf(planRows, e) : w \in RowsOf(W, e)
    BY <1>5, <1>6, <1>7 DEF RowsOf, MarkedRow
  <2> QED
    BY <2>1, <2>2
<1>8. Active(W) = {r \in Active(planRows) : r.id # row}
  <2>1. \A w \in Active(W) : w \in Active(planRows) /\ w.id # row
    BY <1>1, <1>5 DEF Active, MarkedRow
  <2>2. \A w \in Active(planRows) : w.id # row => w \in Active(W)
    BY <1>1, <1>5 DEF Active, MarkedRow
  <2> QED
    BY <2>1, <2>2
<1>9. /\ \A w \in W : \E r \in planRows : w.id = r.id /\ w.doc = r.doc
      /\ \A r \in planRows : \E w \in W : w.id = r.id /\ w.doc = r.doc
  BY <1>5 DEF MarkedRow
<1> QED
  BY <1>2, <1>5, <1>7, <1>8, <1>9 DEF RowGoneIs

\* On other rows everything is as it was; on this row what is in force has these items.
SyncedTo(W, table, row, items) ==
    /\ \A w \in W : w.doc = row \/ w \in table
    /\ \A w \in table : w.doc = row \/ w \in W
    /\ Items(ActiveOf(W, row)) = items

LEMMA CrewSyncedIs ==
  ASSUME PlanInv, NEW row, NEW names, NEW n, NEW C, C = CrewSynced(row, names, n)
  PROVE  SyncedTo(C, crew, row, names) /\ \A c \in C : AsRow(c)
<1> DEFINE Old == Items(ActiveOf(crew, row))
           kept(r) == IF r.doc = row /\ r.item \in Old \ names THEN Deleted(r) ELSE r
           new(e) == NewRow([item |-> e, amount |-> 1], row, n)
<1>1. C = {kept(r) : r \in crew} \cup {new(e) : e \in names \ Old}
  BY DEF CrewSynced
<1>2. ASSUME NEW r \in crew
      PROVE  /\ AsRow(kept(r)) /\ kept(r).doc = r.doc
             /\ r.doc # row \/ r.item \notin Old \ names => kept(r) = r
             /\ r.doc = row /\ r.item \in Old \ names => kept(r).active = FALSE
  <2>1. AsRow(r)
    BY DEF PlanInv, PlanTables
  <2>2. CASE r.doc = row /\ r.item \in Old \ names
    <3>1. PICK w : w = kept(r)
      OBVIOUS
    <3>2. w = [r EXCEPT !.active = FALSE]
      BY <2>2, <3>1 DEF Deleted
    <3>3. AsRow(w) /\ w.active = FALSE /\ w.doc = r.doc
      BY <2>1, <3>2 DEF AsRow
    <3> QED
      BY <2>2, <3>1, <3>3
  <2>3. CASE ~(r.doc = row /\ r.item \in Old \ names)
    <3>1. kept(r) = r
      BY <2>3
    <3> QED
      BY <2>1, <2>3, <3>1
  <2> QED
    BY <2>2, <2>3
<1>3. ASSUME NEW e PROVE AsRow(new(e)) /\ new(e).doc = row /\ new(e).item = e /\ new(e).active = TRUE
  BY DEF NewRow, AsRow
<1>4. \A w \in C : \/ \E r \in crew : w = kept(r)
                   \/ \E e \in names \ Old : w = new(e)
  BY <1>1
<1>5. (\A r \in crew : kept(r) \in C) /\ (\A e \in names \ Old : new(e) \in C)
  BY <1>1
<1>6. /\ \A e \in Old : \E r \in crew : r.doc = row /\ r.active /\ r.item = e
      /\ \A r \in crew : r.doc = row /\ r.active => r.item \in Old
  BY DEF ActiveOf, RowsOf, Active, Items
<1> HIDE DEF Old, kept, new
<1>7. \A c \in C : AsRow(c)
  BY <1>2, <1>3, <1>4
<1>8. ASSUME NEW w \in C PROVE w.doc = row \/ w \in crew
  <2>1. ASSUME NEW r \in crew, w = kept(r) PROVE w.doc = row \/ w \in crew
    <3>1. CASE r.doc = row
      BY <1>2, <2>1, <3>1
    <3>2. CASE r.doc # row
      BY <1>2, <2>1, <3>2
    <3> QED
      BY <3>1, <3>2
  <2>2. ASSUME NEW e \in names \ Old, w = new(e) PROVE w.doc = row
    BY <1>3, <2>2
  <2> QED
    BY <1>4, <2>1, <2>2
<1>9. \A w \in crew : w.doc = row \/ w \in C
  BY <1>2, <1>5
<1>10. ASSUME NEW w \in C, w.doc = row, w.active PROVE w.item \in names
  <2>1. ASSUME NEW r \in crew, w = kept(r) PROVE w.item \in names
    BY <1>2, <1>6, <1>10, <2>1
  <2> QED
    BY <1>3, <1>4, <2>1
<1>11. ASSUME NEW e \in names PROVE \E w \in C : w.doc = row /\ w.active /\ w.item = e
  <2>1. CASE e \in Old
    <3>1. PICK r \in crew : r.doc = row /\ r.active /\ r.item = e
      BY <1>6, <2>1
    <3>2. kept(r) = r
      BY <1>2, <1>11, <3>1
    <3> QED
      BY <1>5, <3>1, <3>2
  <2>2. CASE e \notin Old
    BY <1>3, <1>5, <1>11, <2>2
  <2> QED
    BY <2>1, <2>2
<1>12. Items(ActiveOf(C, row)) = names
  <2>1. \A e \in Items(ActiveOf(C, row)) : e \in names
    BY <1>10 DEF ActiveOf, RowsOf, Active, Items
  <2>2. \A e \in names : e \in Items(ActiveOf(C, row))
    BY <1>11 DEF ActiveOf, RowsOf, Active, Items
  <2> QED
    BY <2>1, <2>2
<1> QED
  BY <1>7, <1>8, <1>9, <1>12 DEF SyncedTo

LEMMA GoodsSyncedIs ==
  ASSUME PlanInv, NEW row, NEW lines, GoodsOK(lines), NEW n \in 1..started,
         NEW G, G = GoodsSynced(row, lines, n)
  PROVE  SyncedTo(G, goods, row, Items(lines)) /\ \A g \in G : NamedRow(g, Goods, started)
<1>1. PICK mine : mine = RowsOf(goods, row)
  OBVIOUS
<1>2. PICK old : old = Active(mine)
  OBVIOUS
<1> DEFINE fate(r) == Fate(r, old, lines)
           new(l) == NewRow(l, row, n)
<1>3. PICK S : S = Saved(mine, old, lines, row, n)
  OBVIOUS
<1>4. G = (goods \ mine) \cup S
  BY <1>1, <1>2, <1>3 DEF GoodsSynced
<1>5. S = {fate(r) : r \in mine} \cup {new(l) : l \in Created(old, lines)}
  BY <1>3, SavedIs
<1>6. ASSUME NEW r \in mine PROVE NamedRow(r, Goods, started) /\ r.doc = row /\ r \in goods
  BY <1>1 DEF RowsOf, PlanInv, PlanTables
<1>7. ASSUME NEW r \in mine PROVE r.id # NoId /\ r.id[2] = r.item /\ (r.active => r.id \in Ids(old))
  <2>1. r.id # NoId
    BY <1>6, PlanRowIds
  <2>2. r.id[2] = r.item
    BY <1>6 DEF NamedRow
  <2>3. r.active => r.id \in Ids(old)
    BY <1>2, <2>1 DEF Ids, Active
  <2> QED
    BY <2>1, <2>2, <2>3
<1>8. ASSUME NEW r \in mine PROVE Became(fate(r), r, old, lines)
  <2>1. AsRow(r)
    BY <1>6 DEF NamedRow
  <2> QED
    BY <2>1, RowFate
<1>9. ASSUME NEW l PROVE /\ AsRow(new(l)) /\ new(l).id = <<n, l.item>> /\ new(l).doc = row
                         /\ new(l).item = l.item /\ new(l).active = TRUE
  BY DEF NewRow, AsRow
<1>10. \A w \in S : \/ \E r \in mine : w = fate(r)
                    \/ \E l \in Created(old, lines) : w = new(l)
  BY <1>5
<1>11. /\ \A r \in mine : fate(r) \in S
       /\ \A l \in Created(old, lines) : new(l) \in S
  BY <1>5
<1>12. /\ \A l \in Created(old, lines) : l \in lines /\ l.item \in Goods
       /\ \A l \in lines : l.id \notin Ids(old) => l \in Created(old, lines)
  BY DEF Created, GoodsOK
<1> HIDE DEF fate, new
<1>13. ASSUME NEW w \in S PROVE NamedRow(w, Goods, started) /\ w.doc = row
  <2>1. ASSUME NEW r \in mine, w = fate(r) PROVE NamedRow(w, Goods, started) /\ w.doc = row
    <3>1. Became(w, r, old, lines) /\ NamedRow(r, Goods, started) /\ r.doc = row
      BY <1>6, <1>8, <2>1
    <3>2. w.active \in BOOLEAN
      BY <3>1 DEF Became, NamedRow
    <3> QED
      BY <3>1, <3>2 DEF Became, NamedRow
  <2>2. ASSUME NEW l \in Created(old, lines), w = new(l)
        PROVE  NamedRow(w, Goods, started) /\ w.doc = row
    <3>1. /\ AsRow(w) /\ w.id = <<n, l.item>> /\ w.doc = row /\ w.item = l.item
          /\ w.active = TRUE /\ l.item \in Goods
      BY <1>9, <1>12, <2>2
    <3>2. w.id[1] = n
      BY <3>1
    <3> QED
      BY <3>1, <3>2 DEF NamedRow
  <2> QED
    BY <1>10, <2>1, <2>2
<1>14. \A g \in G : NamedRow(g, Goods, started)
  BY <1>4, <1>13 DEF PlanInv, PlanTables
<1>15. \A w \in G : w.doc = row \/ w \in goods
  BY <1>4, <1>13
<1>16. \A w \in goods : w.doc = row \/ w \in G
  BY <1>4, <1>6
<1>17. ASSUME NEW w \in G, w.doc = row, w.active PROVE w.item \in Items(lines)
  <2>1. w \in S
    BY <1>1, <1>4, <1>17 DEF RowsOf
  <2>2. ASSUME NEW r \in mine, w = fate(r) PROVE w.item \in Items(lines)
    <3>1. Became(w, r, old, lines)
      BY <1>8, <2>2
    <3>2. r.id \in Ids(old)
      BY <1>7, <1>17, <3>1 DEF Became
    <3>3. r.id \in Ids(lines)
      BY <1>17, <3>1, <3>2 DEF Became
    <3>4. PICK l \in lines : l.id = r.id
      BY <3>3 DEF Ids
    <3>5. l.item = r.item
      BY <1>7, <3>4 DEF GoodsOK
    <3> QED
      BY <3>1, <3>5 DEF Became, Items
  <2>3. ASSUME NEW l \in Created(old, lines), w = new(l) PROVE w.item \in Items(lines)
    BY <1>9, <1>12, <2>3 DEF Items
  <2> QED
    BY <1>10, <2>1, <2>2, <2>3
<1>18. ASSUME NEW l \in lines PROVE \E w \in G : w.doc = row /\ w.active /\ w.item = l.item
  <2>1. CASE l.id \notin Ids(old)
    <3>1. new(l) \in G
      BY <1>4, <1>11, <1>12, <1>18, <2>1
    <3> QED
      BY <1>9, <3>1
  <2>2. CASE l.id \in Ids(old)
    <3>1. PICK r \in old : r.id = l.id /\ l.id # NoId
      BY <2>2 DEF Ids
    <3>2. r \in mine
      BY <1>2, <3>1 DEF Active
    <3>3. Became(fate(r), r, old, lines) /\ fate(r) \in G
      BY <1>4, <1>8, <1>11, <3>2
    <3>4. r.id \in Ids(lines)
      BY <1>18, <3>1 DEF Ids
    <3>5. r.item = l.item
      BY <1>7, <1>18, <3>1, <3>2 DEF GoodsOK
    <3> QED
      BY <1>6, <2>2, <3>1, <3>2, <3>3, <3>4, <3>5 DEF Became
  <2> QED
    BY <2>1, <2>2
<1>19. Items(ActiveOf(G, row)) = Items(lines)
  <2>1. \A e \in Items(ActiveOf(G, row)) : e \in Items(lines)
    BY <1>17 DEF ActiveOf, RowsOf, Active, Items
  <2>2. \A e \in Items(lines) : e \in Items(ActiveOf(G, row))
    BY <1>18 DEF ActiveOf, RowsOf, Active, Items
  <2> QED
    BY <2>1, <2>2
<1> QED
  BY <1>14, <1>15, <1>16, <1>19 DEF SyncedTo

\* Of the rows in old, those in gone are written with the line, or a row is made for it.
RowChosen(j, l, gone, row) ==
    /\ l \in j.form /\ gone \subseteq j.old
    /\ row = IdOf(l, gone, j.n)
    /\ \A r \in gone : r.id = row /\ l.id = row
    /\ row \notin Ids(j.old \ gone)
    /\ row[2] = l.item
    /\ gone = {} => row = <<j.n, l.item>>
    /\ \A k \in j.form \ {l} : row # <<j.n, k.item>>

LEMMA RowWrites ==
  ASSUME PlanInv, NEW j, PlanSave("plan_rows", j), Removed(j.old, j.form) = {},
         NEW w \in NextWrites(j.old, j.form), NEW l \in w[2], NEW row,
         row = IF w[1] = {} THEN <<j.n, l.item>> ELSE l.id
  PROVE  RowChosen(j, l, w[1], row)
<1>1. /\ LinesOK(j.form) /\ OldOK(j.old, j.target)
      /\ \A k \in j.form : \A r \in planRows : r.id # <<j.n, k.item>>
  BY DEF PlanSave
<1>2. CASE Created(j.old, j.form) # {}
  <2>1. PICK k \in Created(j.old, j.form) : w = <<{}, {k}>>
    BY <1>2 DEF NextWrites
  <2>2. w[1] = {} /\ l = k /\ l \in j.form /\ row = <<j.n, l.item>>
    BY <2>1 DEF Created
  <2>3. row = IdOf(l, {}, j.n)
    BY <2>2 DEF IdOf, Ids
  <2>4. row \notin Ids(j.old)
    BY <1>1, <2>2 DEF Ids, OldOK, RowThere
  <2>5. \A i \in j.form \ {l} : row # <<j.n, i.item>>
    BY <1>1, <2>2 DEF LinesOK
  <2>6. row[2] = l.item
    BY <2>2
  <2> QED
    BY <2>2, <2>3, <2>4, <2>5, <2>6 DEF RowChosen
<1>3. CASE Created(j.old, j.form) = {}
  <2>1. PICK r \in j.old : w = <<{r}, {LineOf(j.form, r.id)}>>
    BY <1>3 DEF NextWrites
  <2>2. r.id \in Ids(j.form)
    BY DEF Removed
  <2>3. l = LineOf(j.form, r.id) /\ w[1] = {r}
    BY <2>1
  <2>4. l \in j.form /\ l.id = r.id /\ l.id # NoId
    BY <2>2, <2>3 DEF Ids, LineOf
  <2>5. row = l.id
    BY <2>3
  <2>6. l.id[2] = l.item
    BY <1>1, <2>4 DEF LinesOK
  <2>7. row = IdOf(l, {r}, j.n)
    BY <2>4, <2>5 DEF IdOf, Ids
  <2>8. row \notin Ids(j.old \ {r})
    BY <1>1, <2>4, <2>5 DEF OldOK, Ids
  <2>9. \A k \in j.form \ {l} : row # <<j.n, k.item>>
    BY <1>1, <2>4, <2>5 DEF OldOK, RowThere
  <2> QED
    BY <2>3, <2>4, <2>5, <2>6, <2>7, <2>8, <2>9 DEF RowChosen
<1> QED
  BY <1>2, <1>3

\* Of the rows, one of the plan is in force, and all else is as it was.
RowSavedIs(row, d, n, item) ==
    /\ Table(planRows', PlanMachines, started)
    /\ \A r \in planRows : \E w \in planRows' : w.id = r.id /\ w.doc = r.doc
    /\ \A w \in planRows' : \/ \E r \in planRows : w.id = r.id /\ w.doc = r.doc
                            \/ w.id = <<n, item>> /\ w.id = row /\ w.doc = d
    /\ \A e : e # d => RowsOf(planRows', e) = RowsOf(planRows, e)
    /\ \E w \in planRows' : w.id = row /\ w.doc = d /\ w.active
    /\ \A r : r.id # row => (r \in planRows' <=> r \in planRows)

LEMMA RowSavedWrites ==
  ASSUME PlanInv, NEW j, PlanSave("plan_rows", j), NEW l, NEW gone, NEW row,
         RowChosen(j, l, gone, row),
         planRows' = Saved(planRows, gone, {[id |-> l.id, item |-> l.item, amount |-> 1]},
                           j.target, j.n)
  PROVE  RowSavedIs(row, j.target, j.n, l.item)
<1>1. PICK line : line = [id |-> l.id, item |-> l.item, amount |-> 1]
  OBVIOUS
<1>2. PICK W : W = planRows'
  OBVIOUS
<1>3. PICK d : d = j.target
  OBVIOUS
<1>4. PICK n : n = j.n
  OBVIOUS
<1>5. Table(planRows, PlanMachines, started) /\ started \in Nat
  BY DEF PlanInv, PlanTables, PlanShape
<1>6. l \in j.form /\ LinesOK(j.form) /\ n \in 1..started /\ OldOK(j.old, d)
  BY <1>3, <1>4 DEF PlanSave, RowChosen
<1>7. \A w \in gone : RowThere(w.id, d)
  BY <1>6 DEF RowChosen, OldOK
<1>8. \A r \in planRows : r.id # <<n, l.item>>
  BY <1>4, <1>6 DEF PlanSave
<1>9. WriteOK(planRows, PlanMachines, started, gone, {line}, d, n)
  <2>1. \A i \in PlanMachines : <<n, i>> # NoId
    BY <1>6, PlanRowIds
  <2>2. /\ \A w \in gone : w.id \in Ids(planRows)
        /\ \A w \in gone : \A r \in planRows : r.id = w.id => r.doc = d
    BY <1>5, <1>7 DEF RowThere, Ids, Table
  <2>3. \A k \in {line} : k.item \in PlanMachines /\ (k.id # NoId => k.id[2] = k.item)
    BY <1>1, <1>6 DEF LinesOK
  <2>4. \A k \in Created(gone, {line}) : \A r \in planRows : r.id # <<n, k.item>>
    BY <1>1, <1>8 DEF Created
  <2> QED
    BY <1>5, <1>6, <2>1, <2>2, <2>3, <2>4 DEF WriteOK
<1>10. Table(W, PlanMachines, started) /\ SavedAs(W, planRows, gone, {line}, d, n)
  <2>1. W = Saved(planRows, gone, {line}, d, n)
    BY <1>1, <1>2, <1>3, <1>4
  <2> QED
    BY <1>9, <2>1, SavedTable
<1>11. IdOf(line, gone, n) = row
  BY <1>1, <1>4 DEF IdOf, RowChosen
<1>12. /\ \A r \in planRows : r.doc # d \/ r.id # row => r \in W
       /\ \A w \in W : w.doc # d => w \in planRows
       /\ \A r \in planRows : \E w \in W : w.id = r.id /\ w.doc = r.doc
       /\ \E w \in W : w.active /\ w.doc = d /\ w.id = row
  BY <1>10, <1>11 DEF SavedAs, RowChosen, Ids
<1>13. ASSUME NEW w \in W
       PROVE  \/ \E r \in planRows : w.id = r.id /\ w.doc = r.doc
              \/ w.id = <<n, l.item>> /\ w.id = row /\ w.doc = d
  <2>1. ASSUME NEW k \in Created(gone, {line}), w.id = <<n, k.item>>
        PROVE  w.id = <<n, l.item>> /\ w.id = row
    BY <1>1, <1>11, <2>1 DEF Created, IdOf
  <2> QED
    BY <1>10, <2>1 DEF SavedAs
<1>14. ASSUME NEW e, e # d PROVE RowsOf(W, e) = RowsOf(planRows, e)
  BY <1>12, <1>14 DEF RowsOf
<1>15. ASSUME NEW r, r.id # row PROVE r \in W <=> r \in planRows
  <2>1. CASE r \in W
    <3>1. PICK q \in planRows : r.id = q.id /\ r.doc = q.doc
      BY <1>13, <1>15, <2>1
    <3>2. q \in W
      BY <1>12, <1>15, <3>1
    <3> QED
      BY <1>10, <2>1, <3>1, <3>2 DEF Table
  <2> QED
    BY <1>12, <1>15, <2>1
<1> QED
  BY <1>2, <1>3, <1>4, <1>10, <1>12, <1>13, <1>14, <1>15 DEF RowSavedIs

----------------------------------------------------------------------------
(* Every step keeps the tables and what the requests hold *)

LEMMA PlanFormsOK ==
  ASSUME NEW d, NEW form \in PlanForms(d)
  PROVE  LinesOK(form)
<1>1. PICK lines \in Forms(RowsOf(planRows, d), PlanMachines, Each(PlanMachines)) :
        form \in {{f[l] : l \in lines} :
              f \in {g \in [lines -> UNION {RowLines(d, l) : l \in lines}] :
                       \A l \in lines : g[l] \in RowLines(d, l)}}
  BY DEF PlanForms
<1>2. PICK f : form = {f[l] : l \in lines} /\ \A l \in lines : f[l] \in RowLines(d, l)
  BY <1>1
<1>3. PICK was : was = RowsOf(planRows, d)
  OBVIOUS
<1>4. FormOK(lines, was, PlanMachines)
  BY <1>3, FormsOK
<1>5. ASSUME NEW l \in lines, NEW k \in RowLines(d, l)
      PROVE  k.id = l.id /\ k.item = l.item /\ GoodsOK(k.goods)
  <2>1. PICK g \in Forms(RowsOf(goods, l.id), Goods, Each(Goods)) :
          k.id = l.id /\ k.item = l.item /\ k.goods = g
    BY DEF RowLines
  <2>2. PICK table : table = RowsOf(goods, l.id)
    OBVIOUS
  <2>3. FormOK(g, table, Goods)
    BY <2>2, FormsOK
  <2> QED
    BY <2>1, <2>3 DEF FormOK, GoodsOK
<1>6. ASSUME NEW k \in form
      PROVE  \E l \in lines : k = f[l] /\ k.id = l.id /\ k.item = l.item /\ GoodsOK(k.goods)
  BY <1>2, <1>5
<1>7. \A k \in form : k.item \in PlanMachines /\ (k.id # NoId => k.id[2] = k.item) /\ GoodsOK(k.goods)
  BY <1>4, <1>6 DEF FormOK
<1>8. ASSUME NEW k \in form, NEW m \in form, k.item = m.item PROVE k = m
  BY <1>4, <1>6, <1>8 DEF FormOK
<1> QED
  BY <1>7, <1>8 DEF LinesOK

LEMMA BeginPlanStep ==
  ASSUME PlanInv, NEW p \in Procs, NEW d \in Serials, NEW shift \in Shifts, BeginPlan(p, d, shift)
  PROVE  PlanInv'
<1>1. PICK form \in PlanForms(d) :
        Start(p, "plan_header",
               [n |-> NextSerial, target |-> d, shift |-> shift, asked |-> AsForm(form),
                form |-> form, old |-> {}, row |-> NoPlan, line |-> NoPlan],
               PlanSaves \cup DeletesOfPlan(d))
  BY DEF BeginPlan
<1>2. PICK j : j = [n |-> NextSerial, target |-> d, shift |-> shift, asked |-> AsForm(form),
                    form |-> form, old |-> {}, row |-> NoPlan, line |-> NoPlan]
  OBVIOUS
<1>3. PICK rivals : rivals = PlanSaves \cup DeletesOfPlan(d)
  OBVIOUS
<1>4. "plan_header" \in PlanPhases /\ "plan_header" \in PlanSaving
  BY DEF PlanPhases, PlanSaving
<1>5. Start(p, "plan_header", j, rivals)
  BY <1>1, <1>2, <1>3
<1>6. /\ PlanMoves(p, "plan_header", j) /\ started' = started + 1
      /\ started' \in started..MaxRequests /\ contended' \in BOOLEAN /\ started \in Nat
  BY <1>4, <1>5, PlanStart
<1>7. UNCHANGED <<plans, planRows, crew, goods, planned>>
  BY DEF BeginPlan, planVars
<1>8. PlanKeeps(p) /\ PlanTables'
  BY <1>6, <1>7, PlanRowsStay
<1>9. LinesOK(form)
  BY PlanFormsOK
<1>10. ASSUME NEW l, NEW r \in planRows PROVE r.id # <<started + 1, l.item>>
  <2>1. r.id[1] \in 1..started
    BY DEF PlanInv, PlanTables, Table, NamedRow
  <2>2. r.id[1] # started + 1
    BY <1>6, <2>1
  <2> QED
    BY <2>2
<1>11. PlanSave("plan_header", j)'
  <2>1. j.n = started + 1 /\ j.n \in 1..started'
    BY <1>2, <1>6 DEF NextSerial
  <2>2. OldOK(j.old, j.target)'
    BY <1>2 DEF OldOK
  <2> QED
    BY <1>2, <1>7, <1>9, <1>10, <2>1, <2>2 DEF PlanSave
<1>12. PlanJob("plan_header", j)'
  BY <1>11 DEF PlanJob, PlanDeleting
<1>13. j.n = started + 1
  BY <1>2 DEF NextSerial
<1>14. plans' \in [Serials -> PlanRecord \cup {NoPlan}] /\ planned' = [x \in Serials |-> planned'[x]]
  BY <1>7 DEF PlanInv, PlanShape
<1> QED
  BY <1>6, <1>8, <1>12, <1>13, <1>14, PlanStep

LEMMA BeginDeletePlanStep ==
  ASSUME PlanInv, NEW p \in Procs, NEW d \in Serials, BeginDeletePlan(p, d)
  PROVE  PlanInv'
<1>1. PICK j : j = [n |-> NextSerial, target |-> d, old |-> ActiveOf(planRows, d), row |-> NoPlan]
  OBVIOUS
<1>2. PICK rivals : rivals = SavesOfPlan(d)
  OBVIOUS
<1>3. Start(p, "plan_delete", j, rivals) /\ "plan_delete" \in PlanPhases
  BY <1>1, <1>2 DEF BeginDeletePlan, PlanPhases
<1>4. /\ PlanMoves(p, "plan_delete", j) /\ started' = started + 1
      /\ started' \in started..MaxRequests /\ contended' \in BOOLEAN /\ started \in Nat
  BY <1>3, PlanStart
<1>5. /\ UNCHANGED <<plans, planRows, crew, goods>>
      /\ planned' = [planned EXCEPT ![d] = NoPlan]
      /\ plans[d] # NoPlan
  BY DEF BeginDeletePlan, LivePlan
<1>6. PlanKeeps(p) /\ PlanTables'
  BY <1>4, <1>5, PlanRowsStay
<1>7. ASSUME NEW w \in j.old PROVE RowThere(w.id, d)
  <2>1. w \in planRows /\ w.doc = d
    BY <1>1 DEF ActiveOf, RowsOf, Active
  <2> QED
    BY <2>1, PlanRowIds DEF RowThere
<1>8. \A w, v \in j.old : w.id = v.id => w = v
  BY <1>1 DEF ActiveOf, RowsOf, Active, PlanInv, PlanTables, Table
<1>9. OldOK(j.old, d)'
  BY <1>5, <1>7, <1>8 DEF OldOK, RowThere
<1>10. PlanDelete("plan_delete", j)'
  BY <1>1, <1>5, <1>9 DEF PlanDelete, PlanInv, PlanShape
<1>11. PlanJob("plan_delete", j)' /\ "plan_delete" \notin PlanSaving
  BY <1>10 DEF PlanJob, PlanSaving
<1>12. plans' \in [Serials -> PlanRecord \cup {NoPlan}] /\ planned' = [x \in Serials |-> planned'[x]]
  BY <1>5 DEF PlanInv, PlanShape
<1> QED
  BY <1>3, <1>4, <1>6, <1>11, <1>12, PlanStep

\* What a request holds.
LEMMA PlanJobIs ==
  ASSUME PlanInv, NEW p \in Procs, NEW j, j = job[p]
  PROVE  /\ phase[p] \in PlanSaving => PlanSave(phase[p], j)
         /\ phase[p] \in PlanDeleting => PlanDelete(phase[p], j)
BY DEF PlanInv, PlanJobs, PlanJob

\* A step of a save goes on with a save of its number, and one of a delete with no save.
LEMMA PlanGoes ==
  ASSUME PlanInv, NEW p \in Procs, NEW ph \in PlanPhases, NEW k, Goto(p, ph, k),
         PlanKeeps(p), PlanTables', PlanJob(ph, k)',
         plans' \in [Serials -> PlanRecord \cup {NoPlan}],
         planned' = [x \in Serials |-> planned'[x]],
         ph \in PlanSaving => phase[p] \in PlanSaving /\ k.n = job[p].n
  PROVE  PlanInv'
<1>1. /\ PlanMoves(p, ph, k) /\ contended' \in BOOLEAN
  BY PlanGoto
<1> QED
  BY <1>1, PlanStep

LEMMA PlanHeaderStep ==
  ASSUME PlanInv, NEW p \in Procs, PlanHeader(p)
  PROVE  PlanInv'
<1>1. PICK j : j = job[p]
  OBVIOUS
<1>2. PICK d : d = j.target
  OBVIOUS
<1>3. phase[p] = "plan_header" /\ PlanSave("plan_header", j) /\ d \in Serials /\ j.shift \in Shifts
  BY <1>1, <1>2, PlanJobIs DEF PlanHeader, PlanSaving, PlanSave
<1>4. PICK k : k = [j EXCEPT !.old = ActiveOf(planRows, d)]
  OBVIOUS
<1>5. /\ plans' = [plans EXCEPT ![d] =
             [shift |-> j.shift, active |-> (plans[d] = NoPlan \/ plans[d].active)]]
      /\ planned' = [planned EXCEPT ![d] = NoPlan]
      /\ Goto(p, "plan_rows", k) /\ started' = started
      /\ UNCHANGED <<planRows, crew, goods>>
  BY <1>1, <1>2, <1>3, <1>4 DEF PlanHeader, Goto, PlanInv, PlanShape
<1>6. [shift |-> j.shift, active |-> (plans[d] = NoPlan \/ plans[d].active)] \in PlanRecord
  BY <1>3 DEF PlanRecord
<1>7. /\ plans' \in [Serials -> PlanRecord \cup {NoPlan}]
      /\ planned' = [x \in Serials |-> planned'[x]]
      /\ \A x \in Serials : plans[x] \in PlanRecord => plans'[x] \in PlanRecord
  BY <1>5, <1>6 DEF PlanInv, PlanShape
<1>8. PlanKeeps(p) /\ PlanTables'
  <2>1. started' \in started..MaxRequests
    BY <1>5 DEF PlanInv, PlanShape
  <2> QED
    BY <1>5, <1>7, <2>1, PlanRowsStay
<1>9. k = [n |-> j.n, target |-> d, shift |-> j.shift, asked |-> j.asked, form |-> j.form,
           old |-> ActiveOf(planRows, d), row |-> j.row, line |-> j.line]
  BY <1>2, <1>3, <1>4 DEF PlanSave
<1>10. ASSUME NEW w \in k.old PROVE RowThere(w.id, d)
  <2>1. w \in planRows /\ w.doc = d
    BY <1>9 DEF ActiveOf, RowsOf, Active
  <2> QED
    BY <2>1, PlanRowIds DEF RowThere
<1>11. \A w, v \in k.old : w.id = v.id => w = v
  BY <1>9 DEF ActiveOf, RowsOf, Active, PlanInv, PlanTables, Table
<1>12. OldOK(k.old, d)'
  BY <1>5, <1>10, <1>11 DEF OldOK, RowThere
<1>13. PlanSave("plan_rows", k)'
  BY <1>3, <1>5, <1>9, <1>12 DEF PlanSave
<1>14. PlanJob("plan_rows", k)'
  BY <1>13 DEF PlanJob, PlanDeleting
<1>15. "plan_rows" \in PlanPhases /\ phase[p] \in PlanSaving /\ k.n = job[p].n
  BY <1>1, <1>3, <1>9 DEF PlanPhases, PlanSaving
<1> QED
  BY <1>5, <1>7, <1>8, <1>14, <1>15, PlanGoes

\* A row that was read is of the plan, and the rest of them stays so.
LEMMA OldRest ==
  ASSUME NEW old, NEW d, OldOK(old, d), NEW r \in old
  PROVE  /\ RowThere(r.id, d) /\ OldOK(old \ {r}, d)
         /\ r.id \notin Ids(old \ {r}) /\ Ids(old \ {r}) \cup {r.id} = Ids(old)
BY DEF OldOK, Ids, RowThere

LEMMA DropRowIs ==
  ASSUME PlanInv, NEW p \in Procs, DropRow(p), NEW j, j = job[p]
  PROVE  /\ phase[p] = "plan_rows" /\ PlanSave("plan_rows", j)
         /\ UNCHANGED <<plans, planRows, planned, started, contended>>
         /\ \E r \in j.old : /\ ClearedIs(r.id) /\ RowThere(r.id, j.target)
                             /\ OldOK(j.old \ {r}, j.target) /\ r.id \notin Ids(j.old \ {r})
                             /\ Ids(j.old \ {r}) \cup {r.id} = Ids(j.old)
                             /\ Goto(p, "row_gone", [j EXCEPT !.old = j.old \ {r}, !.row = r.id])
<1>1. phase[p] = "plan_rows" /\ PlanSave("plan_rows", j)
  BY PlanJobIs DEF DropRow, PlanSaving
<1>2. PICK r \in Removed(j.old, j.form) :
        /\ RowCleared(r.id)
        /\ Goto(p, "row_gone", [j EXCEPT !.old = j.old \ {r}, !.row = r.id])
  BY DEF DropRow
<1>3. r \in j.old /\ started' = started /\ contended' = contended
  BY <1>2 DEF Removed, Goto
<1>4. PICK row : row = r.id
  OBVIOUS
<1>5. ClearedIs(row)
  BY <1>2, <1>3, <1>4, RowClearedIs
<1>6. PICK old : old = j.old
  OBVIOUS
<1>7. PICK d : d = j.target
  OBVIOUS
<1>8. /\ RowThere(r.id, d) /\ OldOK(old \ {r}, d)
      /\ r.id \notin Ids(old \ {r}) /\ Ids(old \ {r}) \cup {r.id} = Ids(old)
  <2>1. OldOK(old, d)
    BY <1>1, <1>6, <1>7 DEF PlanSave
  <2> QED
    BY <1>3, <1>6, <2>1, OldRest
<1>9. UNCHANGED <<plans, planRows, planned>>
  BY <1>2 DEF DropRow, RowCleared
<1> QED
  BY <1>1, <1>2, <1>3, <1>4, <1>5, <1>6, <1>7, <1>8, <1>9

LEMMA DropRowStep ==
  ASSUME PlanInv, NEW p \in Procs, DropRow(p)
  PROVE  PlanInv'
<1>1. PICK j : j = job[p]
  OBVIOUS
<1>2. /\ phase[p] = "plan_rows" /\ PlanSave("plan_rows", j)
      /\ UNCHANGED <<plans, planRows, planned, started, contended>>
  BY <1>1, DropRowIs
<1>3. PICK r \in j.old : /\ ClearedIs(r.id) /\ RowThere(r.id, j.target)
                         /\ OldOK(j.old \ {r}, j.target) /\ r.id \notin Ids(j.old \ {r})
                         /\ Goto(p, "row_gone", [j EXCEPT !.old = j.old \ {r}, !.row = r.id])
  BY <1>1, DropRowIs
<1>4. PICK k : k = [j EXCEPT !.old = j.old \ {r}, !.row = r.id]
  OBVIOUS
<1>5. k = [n |-> j.n, target |-> j.target, shift |-> j.shift, asked |-> j.asked,
           form |-> j.form, old |-> j.old \ {r}, row |-> r.id, line |-> j.line]
  BY <1>2, <1>4 DEF PlanSave
<1>6. PlanSave("row_gone", k)'
  BY <1>2, <1>3, <1>5 DEF PlanSave, OldOK, RowThere
<1>7. PlanJob("row_gone", k)'
  BY <1>6 DEF PlanJob, PlanDeleting
<1>8. PlanKeeps(p) /\ PlanTables'
  BY <1>2, <1>3 DEF PlanKeeps, PlanInv, PlanShape, ClearedIs
<1>9. /\ plans' \in [Serials -> PlanRecord \cup {NoPlan}]
      /\ planned' = [x \in Serials |-> planned'[x]]
  BY <1>2 DEF PlanInv, PlanShape
<1>10. "row_gone" \in PlanPhases /\ phase[p] \in PlanSaving /\ k.n = job[p].n
  BY <1>1, <1>2, <1>5 DEF PlanPhases, PlanSaving
<1>11. Goto(p, "row_gone", k)
  BY <1>3, <1>4
<1> QED
  BY <1>7, <1>8, <1>9, <1>10, <1>11, PlanGoes

LEMMA DropRowRestIs ==
  ASSUME PlanInv, NEW p \in Procs, DropRowRest(p), NEW j, j = job[p]
  PROVE  /\ phase[p] = "row_gone" /\ PlanSave("row_gone", j)
         /\ UNCHANGED <<plans, crew, goods, planned, started, contended>>
         /\ RowGoneIs(j.row, j.target)
         /\ Goto(p, "plan_rows", [j EXCEPT !.row = NoPlan])
<1>1. phase[p] = "row_gone" /\ PlanSave("row_gone", j)
  BY PlanJobIs DEF DropRowRest, PlanSaving
<1>2. RowThere(j.row, j.target) /\ planRows' = RowGone(j.row)
  BY <1>1 DEF PlanSave, DropRowRest
<1>3. PICK row : row = j.row
  OBVIOUS
<1>4. PICK d : d = j.target
  OBVIOUS
<1>5. RowGoneIs(row, d)
  BY <1>2, <1>3, <1>4, RowGoneWrites
<1> QED
  BY <1>1, <1>3, <1>4, <1>5 DEF DropRowRest, Goto

LEMMA DropRowRestStep ==
  ASSUME PlanInv, NEW p \in Procs, DropRowRest(p)
  PROVE  PlanInv'
<1>1. PICK j : j = job[p]
  OBVIOUS
<1>2. /\ phase[p] = "row_gone" /\ PlanSave("row_gone", j)
      /\ UNCHANGED <<plans, crew, goods, planned, started, contended>>
      /\ RowGoneIs(j.row, j.target)
      /\ Goto(p, "plan_rows", [j EXCEPT !.row = NoPlan])
  BY <1>1, DropRowRestIs
<1>3. PICK k : k = [j EXCEPT !.row = NoPlan]
  OBVIOUS
<1>4. k = [n |-> j.n, target |-> j.target, shift |-> j.shift, asked |-> j.asked,
           form |-> j.form, old |-> j.old, row |-> NoPlan, line |-> j.line]
  BY <1>2, <1>3 DEF PlanSave
<1>5. PlanKeeps(p)
  <2>1. started' \in started..MaxRequests
    BY <1>2 DEF PlanInv, PlanShape
  <2> QED
    BY <1>2, <2>1 DEF PlanKeeps, RowGoneIs
<1>6. PlanTables'
  BY <1>2 DEF RowGoneIs, PlanInv, PlanTables
<1>7. OldOK(k.old, k.target)'
  <2>1. PICK old : old = j.old
    OBVIOUS
  <2>2. PICK d : d = j.target
    OBVIOUS
  <2>3. OldOK(old, d)
    BY <1>2, <2>1, <2>2 DEF PlanSave
  <2>4. OldOK(old, d)'
    BY <1>5, <2>3, RowsStayThere
  <2> QED
    BY <1>4, <2>1, <2>2, <2>4
<1>8. \A l \in k.form : \A r \in planRows' : r.id # <<k.n, l.item>>
  BY <1>2, <1>4 DEF PlanSave, RowGoneIs
<1>9. PlanSave("plan_rows", k)'
  BY <1>2, <1>4, <1>7, <1>8 DEF PlanSave
<1>10. PlanJob("plan_rows", k)'
  BY <1>9 DEF PlanJob, PlanDeleting
<1>11. /\ plans' \in [Serials -> PlanRecord \cup {NoPlan}]
       /\ planned' = [x \in Serials |-> planned'[x]]
  BY <1>2 DEF PlanInv, PlanShape
<1>12. "plan_rows" \in PlanPhases /\ phase[p] \in PlanSaving /\ k.n = job[p].n
  BY <1>1, <1>2, <1>4 DEF PlanPhases, PlanSaving
<1>13. Goto(p, "plan_rows", k)
  BY <1>2, <1>3
<1> QED
  BY <1>5, <1>6, <1>10, <1>11, <1>12, <1>13, PlanGoes

LEMMA SaveRowIs ==
  ASSUME PlanInv, NEW p \in Procs, SaveRow(p), NEW j, j = job[p]
  PROVE  /\ phase[p] = "plan_rows" /\ PlanSave("plan_rows", j)
         /\ UNCHANGED <<plans, crew, goods, planned, started, contended>>
         /\ \E l, gone, row :
               /\ RowChosen(j, l, gone, row) /\ RowSavedIs(row, j.target, j.n, l.item)
               /\ Goto(p, "row_sync", [j EXCEPT !.old = j.old \ gone, !.form = j.form \ {l},
                                                !.line = l, !.row = row])
<1>1. phase[p] = "plan_rows" /\ PlanSave("plan_rows", j)
  BY PlanJobIs DEF SaveRow, PlanSaving
<1>2. Removed(j.old, j.form) = {}
  BY DEF SaveRow
<1>3. PICK w \in NextWrites(j.old, j.form) : \E l \in w[2] :
        /\ planRows' = Saved(planRows, w[1], {[id |-> l.id, item |-> l.item, amount |-> 1]},
                             j.target, j.n)
        /\ Goto(p, "row_sync",
                [j EXCEPT !.old = @ \ w[1], !.form = @ \ {l}, !.line = l,
                          !.row = IF w[1] = {} THEN <<j.n, l.item>> ELSE l.id])
  BY DEF SaveRow
<1> PICK l \in w[2] :
        /\ planRows' = Saved(planRows, w[1], {[id |-> l.id, item |-> l.item, amount |-> 1]},
                             j.target, j.n)
        /\ Goto(p, "row_sync",
                [j EXCEPT !.old = @ \ w[1], !.form = @ \ {l}, !.line = l,
                          !.row = IF w[1] = {} THEN <<j.n, l.item>> ELSE l.id])
  BY <1>3
<1>4. PICK row : row = IF w[1] = {} THEN <<j.n, l.item>> ELSE l.id
  OBVIOUS
<1>5. PICK gone : gone = w[1]
  OBVIOUS
<1>6. RowChosen(j, l, gone, row)
  BY <1>1, <1>2, <1>4, <1>5, RowWrites
<1>7. RowSavedIs(row, j.target, j.n, l.item)
  BY <1>1, <1>3, <1>5, <1>6, RowSavedWrites
<1>8. Goto(p, "row_sync", [j EXCEPT !.old = j.old \ gone, !.form = j.form \ {l},
                                    !.line = l, !.row = row])
  BY <1>3, <1>4, <1>5
<1>9. UNCHANGED <<plans, crew, goods, planned, started, contended>>
  BY <1>8 DEF SaveRow, Goto
<1> QED
  BY <1>1, <1>6, <1>7, <1>8, <1>9

LEMMA SaveRowStep ==
  ASSUME PlanInv, NEW p \in Procs, SaveRow(p)
  PROVE  PlanInv'
<1>1. PICK j : j = job[p]
  OBVIOUS
<1>2. /\ phase[p] = "plan_rows" /\ PlanSave("plan_rows", j)
      /\ UNCHANGED <<plans, crew, goods, planned, started, contended>>
  BY <1>1, SaveRowIs
<1>3. PICK l, gone, row :
        /\ RowChosen(j, l, gone, row) /\ RowSavedIs(row, j.target, j.n, l.item)
        /\ Goto(p, "row_sync", [j EXCEPT !.old = j.old \ gone, !.form = j.form \ {l},
                                         !.line = l, !.row = row])
  BY <1>1, SaveRowIs
<1>4. PICK k : k = [j EXCEPT !.old = j.old \ gone, !.form = j.form \ {l}, !.line = l, !.row = row]
  OBVIOUS
<1>5. k = [n |-> j.n, target |-> j.target, shift |-> j.shift, asked |-> j.asked,
           form |-> j.form \ {l}, old |-> j.old \ gone, row |-> row, line |-> l]
  BY <1>2, <1>4 DEF PlanSave
<1>6. PlanKeeps(p)
  <2>1. started' \in started..MaxRequests
    BY <1>2 DEF PlanInv, PlanShape
  <2>2. ASSUME NEW w \in planRows'
        PROVE  \/ \E r \in planRows : w.id = r.id
               \/ phase[p] \in PlanSaving /\ w.id[1] = job[p].n
    BY <1>1, <1>2, <1>3 DEF RowSavedIs, PlanSaving
  <2> QED
    BY <1>2, <1>3, <2>1, <2>2 DEF PlanKeeps, RowSavedIs
<1>7. PlanTables'
  BY <1>2, <1>3 DEF RowSavedIs, PlanInv, PlanTables
<1>8. OldOK(j.old \ gone, j.target)'
  <2>1. PICK old : old = j.old \ gone
    OBVIOUS
  <2>2. PICK d : d = j.target
    OBVIOUS
  <2>3. OldOK(old, d)
    BY <1>2, <2>1, <2>2 DEF PlanSave, OldOK
  <2>4. OldOK(old, d)'
    BY <1>6, <2>3, RowsStayThere
  <2> QED
    BY <2>1, <2>2, <2>4
<1>9. ASSUME NEW i \in j.form \ {l}, NEW r \in planRows' PROVE r.id # <<j.n, i.item>>
  <2>1. CASE r.id = row
    BY <1>3, <2>1 DEF RowChosen
  <2>2. CASE r.id # row
    <3>1. r \in planRows
      BY <1>3, <2>2 DEF RowSavedIs
    <3> QED
      BY <1>2, <3>1 DEF PlanSave
  <2> QED
    BY <2>1, <2>2
<1>10. RowThere(row, j.target)'
  <2>1. ASSUME NEW r \in planRows' PROVE r.id # NoId
    <3>1. \A n \in 1..started : \A i \in PlanMachines : <<n, i>> # NoId
      BY PlanRowIds
    <3>2. NamedRow(r, PlanMachines, started)
      BY <1>3 DEF RowSavedIs, Table
    <3>3. PICK n : n = r.id[1]
      OBVIOUS
    <3>4. r.id = <<n, r.item>> /\ n \in 1..started /\ r.item \in PlanMachines
      BY <3>2, <3>3 DEF NamedRow
    <3> QED
      BY <3>1, <3>4
  <2> QED
    BY <1>3, <2>1 DEF RowSavedIs, RowThere
<1>11. row[2] = l.item /\ row \notin Ids(j.old \ gone) /\ GoodsOK(l.goods) /\ LinesOK(j.form \ {l})
  BY <1>2, <1>3 DEF RowChosen, PlanSave, LinesOK
<1>12. PlanSave("row_sync", k)'
  BY <1>2, <1>5, <1>8, <1>9, <1>10, <1>11 DEF PlanSave
<1>13. PlanJob("row_sync", k)'
  BY <1>12 DEF PlanJob, PlanDeleting
<1>14. /\ plans' \in [Serials -> PlanRecord \cup {NoPlan}]
       /\ planned' = [x \in Serials |-> planned'[x]]
  BY <1>2 DEF PlanInv, PlanShape
<1>15. "row_sync" \in PlanPhases /\ phase[p] \in PlanSaving /\ k.n = job[p].n
  BY <1>1, <1>2, <1>5 DEF PlanPhases, PlanSaving
<1>16. Goto(p, "row_sync", k)
  BY <1>3, <1>4
<1> QED
  BY <1>6, <1>7, <1>13, <1>14, <1>15, <1>16, PlanGoes

LEMMA SyncRowIs ==
  ASSUME PlanInv, NEW p \in Procs, SyncRow(p), NEW j, j = job[p]
  PROVE  /\ phase[p] = "row_sync" /\ PlanSave("row_sync", j)
         /\ UNCHANGED <<plans, planRows, planned, started, contended>>
         /\ SyncedTo(crew', crew, j.row, j.line.crew)
         /\ SyncedTo(goods', goods, j.row, Items(j.line.goods))
         /\ PlanTables'
         /\ Goto(p, "plan_rows", [j EXCEPT !.row = NoPlan, !.line = NoPlan])
<1>1. phase[p] = "row_sync" /\ PlanSave("row_sync", j)
  BY PlanJobIs DEF SyncRow, PlanSaving
<1>2. GoodsOK(j.line.goods) /\ j.n \in 1..started
  BY <1>1 DEF PlanSave
<1>3. /\ crew' = CrewSynced(j.row, j.line.crew, j.n)
      /\ goods' = GoodsSynced(j.row, j.line.goods, j.n)
      /\ Goto(p, "plan_rows", [j EXCEPT !.row = NoPlan, !.line = NoPlan])
      /\ UNCHANGED <<plans, planRows, planned, started, contended>>
  BY DEF SyncRow, Goto
<1>4. PICK row, names, lines, n : row = j.row /\ names = j.line.crew /\ lines = j.line.goods /\ n = j.n
  OBVIOUS
<1>5. PICK C : C = crew'
  OBVIOUS
<1>6. PICK G : G = goods'
  OBVIOUS
<1>7. SyncedTo(C, crew, row, names) /\ \A c \in C : AsRow(c)
  BY <1>3, <1>4, <1>5, CrewSyncedIs
<1>8. SyncedTo(G, goods, row, Items(lines)) /\ \A g \in G : NamedRow(g, Goods, started)
  BY <1>2, <1>3, <1>4, <1>6, GoodsSyncedIs
<1>9. PlanTables'
  BY <1>3, <1>5, <1>6, <1>7, <1>8 DEF PlanInv, PlanTables
<1> QED
  BY <1>1, <1>3, <1>4, <1>5, <1>6, <1>7, <1>8, <1>9

LEMMA SyncRowStep ==
  ASSUME PlanInv, NEW p \in Procs, SyncRow(p)
  PROVE  PlanInv'
<1>1. PICK j : j = job[p]
  OBVIOUS
<1>2. /\ phase[p] = "row_sync" /\ PlanSave("row_sync", j) /\ PlanTables'
      /\ UNCHANGED <<plans, planRows, planned, started, contended>>
      /\ Goto(p, "plan_rows", [j EXCEPT !.row = NoPlan, !.line = NoPlan])
  BY <1>1, SyncRowIs
<1>3. PICK k : k = [j EXCEPT !.row = NoPlan, !.line = NoPlan]
  OBVIOUS
<1>4. k = [n |-> j.n, target |-> j.target, shift |-> j.shift, asked |-> j.asked,
           form |-> j.form, old |-> j.old, row |-> NoPlan, line |-> NoPlan]
  BY <1>2, <1>3 DEF PlanSave
<1>5. PlanSave("plan_rows", k)'
  BY <1>2, <1>4 DEF PlanSave, OldOK, RowThere
<1>6. PlanJob("plan_rows", k)'
  BY <1>5 DEF PlanJob, PlanDeleting
<1>7. PlanKeeps(p)
  BY <1>2 DEF PlanKeeps, PlanInv, PlanShape
<1>8. /\ plans' \in [Serials -> PlanRecord \cup {NoPlan}]
      /\ planned' = [x \in Serials |-> planned'[x]]
  BY <1>2 DEF PlanInv, PlanShape
<1>9. "plan_rows" \in PlanPhases /\ phase[p] \in PlanSaving /\ k.n = job[p].n
  BY <1>1, <1>2, <1>4 DEF PlanPhases, PlanSaving
<1>10. Goto(p, "plan_rows", k)
  BY <1>2, <1>3
<1> QED
  BY <1>2, <1>6, <1>7, <1>8, <1>9, <1>10, PlanGoes

LEMMA PlanSavedStep ==
  ASSUME PlanInv, NEW p \in Procs, PlanSaved(p)
  PROVE  PlanInv'
<1>1. PICK k : k = NoJob
  OBVIOUS
<1>2. /\ Goto(p, "idle", k) /\ started' = started
      /\ UNCHANGED <<plans, planRows, crew, goods>>
      /\ planned' = [x \in Serials |-> planned'[x]]
  BY <1>1 DEF PlanSaved, Finish, Goto, PlanInv, PlanShape
<1>3. started' \in started..MaxRequests
  BY <1>2 DEF PlanInv, PlanShape
<1>4. PlanKeeps(p) /\ PlanTables'
  BY <1>2, <1>3, PlanRowsStay
<1>5. PlanJob("idle", k)' /\ "idle" \in PlanPhases /\ "idle" \notin PlanSaving
  BY DEF PlanJob, PlanSaving, PlanDeleting, PlanPhases
<1>6. plans' \in [Serials -> PlanRecord \cup {NoPlan}]
  BY <1>2 DEF PlanInv, PlanShape
<1> QED
  BY <1>2, <1>4, <1>5, <1>6, PlanGoes

LEMMA FailPlanStep ==
  ASSUME PlanInv, NEW p \in Procs, FailPlan(p)
  PROVE  PlanInv'
<1>1. PICK k : k = NoJob
  OBVIOUS
<1>2. /\ phase' = [phase EXCEPT ![p] = "idle"] /\ job' = [job EXCEPT ![p] = k]
      /\ started' = started /\ contended' = contended
      /\ UNCHANGED <<plans, planRows, crew, goods, planned>>
  BY <1>1 DEF FailPlan, Fail, planVars
<1>3. started' \in started..MaxRequests
  BY <1>2 DEF PlanInv, PlanShape
<1>4. PlanKeeps(p) /\ PlanTables'
  BY <1>2, <1>3, PlanRowsStay
<1>5. PlanJob("idle", k)' /\ "idle" \in PlanPhases /\ "idle" \notin PlanSaving
  BY DEF PlanJob, PlanSaving, PlanDeleting, PlanPhases
<1>6. /\ plans' \in [Serials -> PlanRecord \cup {NoPlan}] /\ contended' \in BOOLEAN
      /\ planned' = [x \in Serials |-> planned'[x]]
  BY <1>2 DEF PlanInv, PlanShape
<1>7. PlanMoves(p, "idle", k)
  BY <1>2, <1>5 DEF PlanMoves
<1> QED
  BY <1>4, <1>5, <1>6, <1>7, PlanStep

LEMMA DeletePlanRowIs ==
  ASSUME PlanInv, NEW p \in Procs, DeletePlanRow(p), NEW j, j = job[p]
  PROVE  /\ phase[p] = "plan_delete" /\ PlanDelete("plan_delete", j)
         /\ UNCHANGED <<plans, planRows, planned, started, contended>>
         /\ \E r \in j.old : /\ ClearedIs(r.id) /\ RowThere(r.id, j.target)
                             /\ OldOK(j.old \ {r}, j.target)
                             /\ Goto(p, "plan_row_gone", [j EXCEPT !.old = j.old \ {r}, !.row = r.id])
<1>1. phase[p] = "plan_delete" /\ PlanDelete("plan_delete", j)
  BY PlanJobIs DEF DeletePlanRow, PlanDeleting
<1>2. PICK r \in j.old :
        /\ RowCleared(r.id)
        /\ Goto(p, "plan_row_gone", [j EXCEPT !.old = j.old \ {r}, !.row = r.id])
  BY DEF DeletePlanRow
<1>3. started' = started /\ contended' = contended
  BY <1>2 DEF Goto
<1>4. PICK row : row = r.id
  OBVIOUS
<1>5. ClearedIs(row)
  BY <1>2, <1>3, <1>4, RowClearedIs
<1>6. PICK old : old = j.old
  OBVIOUS
<1>7. PICK d : d = j.target
  OBVIOUS
<1>8. RowThere(r.id, d) /\ OldOK(old \ {r}, d)
  <2>1. OldOK(old, d)
    BY <1>1, <1>6, <1>7 DEF PlanDelete
  <2> QED
    BY <1>6, <2>1, OldRest
<1>9. UNCHANGED <<plans, planRows, planned>>
  BY <1>2 DEF DeletePlanRow, RowCleared
<1> QED
  BY <1>1, <1>2, <1>3, <1>4, <1>5, <1>6, <1>7, <1>8, <1>9

LEMMA DeletePlanRowStep ==
  ASSUME PlanInv, NEW p \in Procs, DeletePlanRow(p)
  PROVE  PlanInv'
<1>1. PICK j : j = job[p]
  OBVIOUS
<1>2. /\ phase[p] = "plan_delete" /\ PlanDelete("plan_delete", j)
      /\ UNCHANGED <<plans, planRows, planned, started, contended>>
  BY <1>1, DeletePlanRowIs
<1>3. PICK r \in j.old : /\ ClearedIs(r.id) /\ RowThere(r.id, j.target)
                         /\ OldOK(j.old \ {r}, j.target)
                         /\ Goto(p, "plan_row_gone", [j EXCEPT !.old = j.old \ {r}, !.row = r.id])
  BY <1>1, DeletePlanRowIs
<1>4. PICK k : k = [j EXCEPT !.old = j.old \ {r}, !.row = r.id]
  OBVIOUS
<1>5. k = [n |-> j.n, target |-> j.target, old |-> j.old \ {r}, row |-> r.id]
  BY <1>2, <1>4 DEF PlanDelete
<1>6. PlanDelete("plan_row_gone", k)'
  BY <1>2, <1>3, <1>5 DEF PlanDelete, OldOK, RowThere
<1>7. PlanJob("plan_row_gone", k)'
  BY <1>6 DEF PlanJob, PlanSaving
<1>8. PlanKeeps(p) /\ PlanTables'
  BY <1>2, <1>3 DEF PlanKeeps, PlanInv, PlanShape, ClearedIs
<1>9. /\ plans' \in [Serials -> PlanRecord \cup {NoPlan}]
      /\ planned' = [x \in Serials |-> planned'[x]]
  BY <1>2 DEF PlanInv, PlanShape
<1>10. "plan_row_gone" \in PlanPhases /\ "plan_row_gone" \notin PlanSaving
  BY DEF PlanPhases, PlanSaving
<1>11. Goto(p, "plan_row_gone", k)
  BY <1>3, <1>4
<1> QED
  BY <1>7, <1>8, <1>9, <1>10, <1>11, PlanGoes

LEMMA DeletePlanRowRestIs ==
  ASSUME PlanInv, NEW p \in Procs, DeletePlanRowRest(p), NEW j, j = job[p]
  PROVE  /\ phase[p] = "plan_row_gone" /\ PlanDelete("plan_row_gone", j)
         /\ UNCHANGED <<plans, crew, goods, planned, started, contended>>
         /\ RowGoneIs(j.row, j.target)
         /\ Goto(p, "plan_delete", [j EXCEPT !.row = NoPlan])
<1>1. phase[p] = "plan_row_gone" /\ PlanDelete("plan_row_gone", j)
  BY PlanJobIs DEF DeletePlanRowRest, PlanDeleting
<1>2. RowThere(j.row, j.target) /\ planRows' = RowGone(j.row)
  BY <1>1 DEF PlanDelete, DeletePlanRowRest
<1>3. PICK row : row = j.row
  OBVIOUS
<1>4. PICK d : d = j.target
  OBVIOUS
<1>5. RowGoneIs(row, d)
  BY <1>2, <1>3, <1>4, RowGoneWrites
<1> QED
  BY <1>1, <1>3, <1>4, <1>5 DEF DeletePlanRowRest, Goto

LEMMA DeletePlanRowRestStep ==
  ASSUME PlanInv, NEW p \in Procs, DeletePlanRowRest(p)
  PROVE  PlanInv'
<1>1. PICK j : j = job[p]
  OBVIOUS
<1>2. /\ phase[p] = "plan_row_gone" /\ PlanDelete("plan_row_gone", j)
      /\ UNCHANGED <<plans, crew, goods, planned, started, contended>>
      /\ RowGoneIs(j.row, j.target)
      /\ Goto(p, "plan_delete", [j EXCEPT !.row = NoPlan])
  BY <1>1, DeletePlanRowRestIs
<1>3. PICK k : k = [j EXCEPT !.row = NoPlan]
  OBVIOUS
<1>4. k = [n |-> j.n, target |-> j.target, old |-> j.old, row |-> NoPlan]
  BY <1>2, <1>3 DEF PlanDelete
<1>5. PlanKeeps(p)
  <2>1. started' \in started..MaxRequests
    BY <1>2 DEF PlanInv, PlanShape
  <2> QED
    BY <1>2, <2>1 DEF PlanKeeps, RowGoneIs
<1>6. PlanTables'
  BY <1>2 DEF RowGoneIs, PlanInv, PlanTables
<1>7. OldOK(k.old, k.target)'
  <2>1. PICK old : old = j.old
    OBVIOUS
  <2>2. PICK d : d = j.target
    OBVIOUS
  <2>3. OldOK(old, d)
    BY <1>2, <2>1, <2>2 DEF PlanDelete
  <2>4. OldOK(old, d)'
    BY <1>5, <2>3, RowsStayThere
  <2> QED
    BY <1>4, <2>1, <2>2, <2>4
<1>8. PlanDelete("plan_delete", k)'
  BY <1>2, <1>4, <1>7 DEF PlanDelete
<1>9. PlanJob("plan_delete", k)'
  BY <1>8 DEF PlanJob, PlanSaving
<1>10. /\ plans' \in [Serials -> PlanRecord \cup {NoPlan}]
       /\ planned' = [x \in Serials |-> planned'[x]]
  BY <1>2 DEF PlanInv, PlanShape
<1>11. "plan_delete" \in PlanPhases /\ "plan_delete" \notin PlanSaving
  BY DEF PlanPhases, PlanSaving
<1>12. Goto(p, "plan_delete", k)
  BY <1>2, <1>3
<1> QED
  BY <1>5, <1>6, <1>9, <1>10, <1>11, <1>12, PlanGoes

LEMMA DeletePlanIs ==
  ASSUME PlanInv, NEW p \in Procs, DeletePlan(p), NEW j, j = job[p]
  PROVE  /\ phase[p] = "plan_delete" /\ PlanDelete("plan_delete", j)
         /\ UNCHANGED <<planRows, crew, goods, planned, started, contended>>
         /\ plans' = [plans EXCEPT ![j.target].active = FALSE]
         /\ Goto(p, "idle", NoJob)
<1>1. phase[p] = "plan_delete" /\ PlanDelete("plan_delete", j)
  BY PlanJobIs DEF DeletePlan, PlanDeleting
<1> QED
  BY <1>1 DEF DeletePlan, Finish, Goto

LEMMA DeletePlanStep ==
  ASSUME PlanInv, NEW p \in Procs, DeletePlan(p)
  PROVE  PlanInv'
<1>1. PICK j : j = job[p]
  OBVIOUS
<1>2. /\ phase[p] = "plan_delete" /\ PlanDelete("plan_delete", j)
      /\ UNCHANGED <<planRows, crew, goods, planned, started, contended>>
      /\ plans' = [plans EXCEPT ![j.target].active = FALSE]
      /\ Goto(p, "idle", NoJob)
  BY <1>1, DeletePlanIs
<1>3. PICK k : k = NoJob
  OBVIOUS
<1>4. PICK d : d = j.target
  OBVIOUS
<1>5. d \in Serials /\ plans[d] \in PlanRecord
  BY <1>2, <1>4 DEF PlanDelete
<1>6. [plans[d] EXCEPT !.active = FALSE] \in PlanRecord
  BY <1>5 DEF PlanRecord
<1>7. /\ plans' \in [Serials -> PlanRecord \cup {NoPlan}]
      /\ \A x \in Serials : plans[x] \in PlanRecord => plans'[x] \in PlanRecord
  BY <1>2, <1>4, <1>6 DEF PlanInv, PlanShape
<1>8. started' \in started..MaxRequests
  BY <1>2 DEF PlanInv, PlanShape
<1>9. PlanKeeps(p) /\ PlanTables'
  BY <1>2, <1>7, <1>8, PlanRowsStay
<1>10. PlanJob("idle", k)' /\ "idle" \in PlanPhases /\ "idle" \notin PlanSaving
  BY DEF PlanJob, PlanSaving, PlanDeleting, PlanPhases
<1>11. planned' = [x \in Serials |-> planned'[x]]
  BY <1>2 DEF PlanInv, PlanShape
<1>12. Goto(p, "idle", k)
  BY <1>2, <1>3
<1> QED
  BY <1>7, <1>9, <1>10, <1>11, <1>12, PlanGoes

LEMMA PlanNext ==
  ASSUME PlanInv, PlansNext
  PROVE  PlanInv'
<1>1. PICK p \in Procs :
        \/ \E d \in Serials, shift \in Shifts : BeginPlan(p, d, shift)
        \/ PlanHeader(p) \/ DropRow(p) \/ DropRowRest(p) \/ SaveRow(p)
        \/ SyncRow(p) \/ PlanSaved(p)
        \/ \E d \in Serials : BeginDeletePlan(p, d)
        \/ DeletePlanRow(p) \/ DeletePlanRowRest(p) \/ DeletePlan(p)
        \/ FailPlan(p)
  BY DEF PlansNext
<1> QED
  BY <1>1, BeginPlanStep, PlanHeaderStep, DropRowStep, DropRowRestStep, SaveRowStep,
     SyncRowStep, PlanSavedStep, BeginDeletePlanStep, DeletePlanRowStep,
     DeletePlanRowRestStep, DeletePlanStep, FailPlanStep

----------------------------------------------------------------------------
(* Saves and deletes that do not overlap *)

\* They come one at a time, and none is of a plan that is being deleted.
PlansApart ==
    /\ \A p, q \in Procs : phase[p] \in PlanSaving /\ phase[q] \in PlanSaving => p = q
    /\ \A p, q \in Procs :
          phase[p] \in PlanSaving /\ phase[q] \in PlanDeleting => job[p].target # job[q].target

\* A row with nothing in force on it.
Bare(row) == \A c \in Active(crew \cup goods) : c.doc # row

\* Rows of the plan in force, but for these, as a form would have them.
DoneRows(d, rest) == {RowInForce(r) : r \in {x \in ActiveOf(planRows, d) : x.id \notin rest}}

\* How far a save is: what was asked for is what is done and what is to do.
Progress(ph, j) ==
    /\ ph = "plan_header" => ShiftFree(j.target, j.shift) /\ j.asked = AsForm(j.form)
    /\ ph = "plan_rows" => j.asked = AsForm(j.form) \cup DoneRows(j.target, Ids(j.old))
    /\ ph = "row_gone" => j.asked = AsForm(j.form) \cup DoneRows(j.target, Ids(j.old) \cup {j.row})
    /\ ph = "row_sync" =>
          /\ j.asked = AsForm(j.form \cup {j.line}) \cup DoneRows(j.target, Ids(j.old) \cup {j.row})
          /\ j.row \in Ids(Active(planRows))
    /\ ph \in {"row_gone", "plan_row_gone"} => Bare(j.row)
    /\ ph \notin {"idle", "plan_header"} => planned[j.target] = NoPlan

\* The parts of PlanPerShift, and PlansAsAsked of one plan.
OnePerShift ==
    \A c, d \in Serials : LivePlan(c) /\ LivePlan(d) /\ c # d => plans[c].shift # plans[d].shift
OnRows == \A c \in Active(crew \cup goods) : c.doc \in Ids(Active(planRows))
PlanAsked(d) == LivePlan(d) /\ planned[d] # NoPlan => InForce(d) = planned[d]

PlansQuiet ==
    /\ PlansApart
    /\ \A p \in Procs : Progress(phase[p], job[p])
    /\ OnePerShift /\ OnRows
    /\ \A d \in Serials : PlanAsked(d)

PlansInv == PlanInv /\ (~contended => PlansQuiet)

\* Nothing of the plan or in force on its rows is changed.
PlanUntouched(d) ==
    /\ plans'[d] = plans[d] /\ planned'[d] = planned[d]
    /\ RowsOf(planRows', d) = RowsOf(planRows, d)
    /\ \A r \in RowsOf(planRows, d) : /\ ActiveOf(crew', r.id) = ActiveOf(crew, r.id)
                                      /\ ActiveOf(goods', r.id) = ActiveOf(goods, r.id)

LEMMA PlanUntouchedRows ==
  ASSUME NEW d, PlanUntouched(d)
  PROVE  /\ InForce(d)' = InForce(d)
         /\ \A rest : DoneRows(d, rest)' = DoneRows(d, rest)
         /\ PlanAsked(d) => PlanAsked(d)'
<1>1. ActiveOf(planRows', d) = ActiveOf(planRows, d)
  BY DEF PlanUntouched, ActiveOf
<1>2. ASSUME NEW r \in ActiveOf(planRows, d) PROVE RowInForce(r)' = RowInForce(r)
  <2>1. r \in RowsOf(planRows, d)
    BY DEF ActiveOf, Active
  <2> QED
    BY <2>1 DEF RowInForce, PlanUntouched
<1>3. InForce(d)' = InForce(d)
  BY <1>1, <1>2 DEF InForce
<1>4. ASSUME NEW rest PROVE DoneRows(d, rest)' = DoneRows(d, rest)
  BY <1>1, <1>2 DEF DoneRows
<1>5. PlanAsked(d) => PlanAsked(d)'
  BY <1>3 DEF PlanAsked, LivePlan, PlanUntouched
<1> QED
  BY <1>3, <1>4, <1>5

LEMMA BareStays ==
  ASSUME NEW d, PlanUntouched(d), NEW row, RowThere(row, d), Bare(row)
  PROVE  Bare(row)'
<1>1. PICK r \in RowsOf(planRows, d) : r.id = row
  BY DEF RowThere, RowsOf
<1>2. ActiveOf(crew', row) = ActiveOf(crew, row) /\ ActiveOf(goods', row) = ActiveOf(goods, row)
  BY <1>1 DEF PlanUntouched
<1>3. ASSUME NEW c \in Active(crew' \cup goods'), c.doc = row PROVE FALSE
  <2>1. c \in ActiveOf(crew', row) \/ c \in ActiveOf(goods', row)
    BY <1>3 DEF ActiveOf, RowsOf, Active
  <2>2. c \in Active(crew \cup goods)
    BY <1>2, <2>1 DEF ActiveOf, RowsOf, Active
  <2> QED
    BY <1>3, <2>2 DEF Bare
<1> QED
  BY <1>3 DEF Bare

\* A request of a plan that is not touched is as far as it was.
LEMMA ProgressStays ==
  ASSUME PlanInv, NEW ph, NEW j, PlanJob(ph, j), Progress(ph, j),
         ph \in PlanSaving => PlanUntouched(j.target),
         ph = "plan_row_gone" => Bare(j.row)',
         ph \in PlanDeleting => planned'[j.target] = planned[j.target] \/ planned'[j.target] = NoPlan,
         ph = "plan_header" => ShiftFree(j.target, j.shift)',
         ph \in PlanPhases
  PROVE  Progress(ph, j)'
<1>1. PICK d : d = j.target
  OBVIOUS
<1>2. PICK row : row = j.row
  OBVIOUS
<1>3. CASE ph \in PlanSaving
  <2>1. PlanUntouched(d) /\ PlanSave(ph, j)
    BY <1>1, <1>3 DEF PlanJob
  <2>2. \A rest : DoneRows(d, rest)' = DoneRows(d, rest)
    BY <2>1, PlanUntouchedRows
  <2>3. ASSUME ph = "row_gone" PROVE Bare(row)'
    <3>1. RowThere(row, d) /\ Bare(row)
      BY <1>1, <1>2, <2>1, <2>3 DEF PlanSave, Progress
    <3> QED
      BY <2>1, <3>1, BareStays
  <2>4. ASSUME ph = "row_sync" PROVE row \in Ids(Active(planRows'))
    <3>1. RowThere(row, d) /\ row \in Ids(Active(planRows))
      BY <1>1, <1>2, <2>1, <2>4 DEF PlanSave, Progress
    <3>2. PICK r \in planRows : r.id = row /\ r.active
      BY <3>1 DEF Ids, Active
    <3>3. r.doc = d
      BY <3>1, <3>2 DEF RowThere, PlanInv, PlanTables, Table
    <3>4. r \in RowsOf(planRows', d)
      BY <2>1, <3>2, <3>3 DEF PlanUntouched, RowsOf
    <3> QED
      BY <3>1, <3>2, <3>4 DEF RowsOf, Ids, Active
  <2>5. planned'[d] = planned[d]
    BY <2>1 DEF PlanUntouched
  <2>6. ph # "plan_row_gone" /\ ph # "idle"
    BY <1>3 DEF PlanSaving
  <2>7. ph = "plan_rows" => j.asked = AsForm(j.form) \cup DoneRows(d, Ids(j.old))'
    BY <1>1, <2>2 DEF Progress
  <2>8. ph = "row_gone" => j.asked = AsForm(j.form) \cup DoneRows(d, Ids(j.old) \cup {row})'
    BY <1>1, <1>2, <2>2 DEF Progress
  <2>9. ph = "row_sync" =>
          j.asked = AsForm(j.form \cup {j.line}) \cup DoneRows(d, Ids(j.old) \cup {row})'
    BY <1>1, <1>2, <2>2 DEF Progress
  <2> QED
    BY <1>1, <1>2, <2>3, <2>4, <2>5, <2>6, <2>7, <2>8, <2>9 DEF Progress
<1>4. CASE ph \in PlanDeleting
  <2>1. ph \notin {"idle", "plan_header", "plan_rows", "row_gone", "row_sync"}
    BY <1>4 DEF PlanDeleting
  <2> QED
    BY <1>4, <2>1 DEF Progress
<1>5. CASE ph = "idle"
  BY <1>5 DEF Progress
<1> QED
  BY <1>3, <1>4, <1>5 DEF PlanPhases, PlanSaving, PlanDeleting

\* What a step may touch: one plan, and with it no request but one that is deleting it too.
PlanTouch(p, d) ==
    /\ \A e \in Serials : e # d => PlanUntouched(e)
    /\ \/ PlanUntouched(d)
       \/ phase[p] \in PlanSaving /\ job[p].target = d
       \/ /\ \A q \in Procs \ {p} : phase[q] \in PlanSaving => job[q].target # d
          /\ Active(crew') \subseteq Active(crew) /\ Active(goods') \subseteq Active(goods)
          /\ planned'[d] \in {planned[d], NoPlan}
    /\ phase[p] \notin PlanSaving =>
          \A x \in Serials : LivePlan(x)' => LivePlan(x) /\ plans'[x].shift = plans[x].shift

\* Where the request goes, no other is in its way.
PlanAlone(p, ph, j) ==
    /\ ph \in PlanSaving => \/ phase[p] \in PlanSaving /\ j.target = job[p].target
                            \/ PlanSaves = {} /\ DeletesOfPlan(j.target) = {}
    /\ ph \in PlanDeleting => \/ phase[p] \in PlanDeleting /\ j.target = job[p].target
                              \/ SavesOfPlan(j.target) = {}

LEMMA OthersProgress ==
  ASSUME PlanInv, PlansQuiet, NEW p \in Procs, NEW d \in Serials, PlanTouch(p, d),
         NEW q \in Procs \ {p}
  PROVE  Progress(phase[q], job[q])' \/ phase'[q] # phase[q] \/ job'[q] # job[q]
<1> SUFFICES ASSUME phase'[q] = phase[q], job'[q] = job[q]
             PROVE  Progress(phase[q], job[q])'
  OBVIOUS
<1>1. PICK ph : ph = phase[q]
  OBVIOUS
<1>2. PICK j : j = job[q]
  OBVIOUS
<1>3. PICK t : t = j.target
  OBVIOUS
<1>4. /\ ph \in PlanPhases /\ PlanJob(ph, j) /\ Progress(ph, j)
      /\ ph \in PlanSaving \cup PlanDeleting => t \in Serials
  BY <1>1, <1>2, <1>3 DEF PlanInv, PlanShape, PlanJobs, PlanJob, PlanSave, PlanDelete, PlansQuiet
<1>5. /\ ph \in PlanSaving => phase[p] \notin PlanSaving
      /\ ph \in PlanSaving /\ phase[p] \in PlanDeleting => job[p].target # t
      /\ ph \in PlanDeleting /\ phase[p] \in PlanSaving => job[p].target # t
  BY <1>1, <1>2, <1>3 DEF PlansQuiet, PlansApart
<1>6. ASSUME ph \in PlanSaving PROVE PlanUntouched(t)
  <2>1. CASE t # d
    BY <1>4, <1>6, <2>1 DEF PlanTouch
  <2>2. CASE t = d
    BY <1>1, <1>2, <1>3, <1>5, <1>6, <2>2 DEF PlanTouch
  <2> QED
    BY <2>1, <2>2
<1>7. ASSUME ph \in PlanDeleting
      PROVE  /\ planned'[t] = planned[t] \/ planned'[t] = NoPlan
             /\ ph = "plan_row_gone" => Bare(j.row)'
  <2>1. CASE PlanUntouched(t)
    <3>1. PICK row : row = j.row
      OBVIOUS
    <3>2. ASSUME ph = "plan_row_gone" PROVE Bare(row)'
      <4>1. RowThere(row, t) /\ Bare(row)
        BY <1>3, <1>4, <1>7, <3>1, <3>2 DEF PlanJob, PlanDelete, Progress
      <4> QED
        BY <2>1, <4>1, BareStays
    <3> QED
      BY <2>1, <3>1, <3>2 DEF PlanUntouched
  <2>2. CASE ~PlanUntouched(t)
    <3>1. t = d
      BY <1>4, <1>7, <2>2 DEF PlanTouch
    <3>2. /\ Active(crew') \subseteq Active(crew) /\ Active(goods') \subseteq Active(goods)
          /\ planned'[d] \in {planned[d], NoPlan}
      BY <1>5, <1>7, <2>2, <3>1 DEF PlanTouch
    <3>3. ph = "plan_row_gone" => Bare(j.row)
      BY <1>4 DEF Progress
    <3>4. Active(crew' \cup goods') \subseteq Active(crew \cup goods)
      BY <3>2 DEF Active
    <3> QED
      BY <3>1, <3>2, <3>3, <3>4 DEF Bare
  <2> QED
    BY <2>1, <2>2
<1>8. ASSUME ph = "plan_header" PROVE ShiftFree(j.target, j.shift)'
  <2>1. ShiftFree(j.target, j.shift)
    BY <1>4, <1>8 DEF Progress
  <2>2. \A x \in Serials : LivePlan(x)' => LivePlan(x) /\ plans'[x].shift = plans[x].shift
    BY <1>5, <1>8 DEF PlanTouch, PlanSaving
  <2> QED
    BY <2>1, <2>2 DEF ShiftFree
<1>9. Progress(ph, j)'
  <2>1. ph \in PlanSaving => PlanUntouched(j.target)
    BY <1>3, <1>6
  <2>2. ph = "plan_row_gone" => Bare(j.row)'
    BY <1>7 DEF PlanDeleting
  <2>3. ph \in PlanDeleting => planned'[j.target] = planned[j.target] \/ planned'[j.target] = NoPlan
    BY <1>3, <1>7
  <2>4. ph = "plan_header" => ShiftFree(j.target, j.shift)'
    BY <1>8
  <2> QED
    BY <1>4, <2>1, <2>2, <2>3, <2>4, ProgressStays
<1> QED
  BY <1>1, <1>2, <1>9

LEMMA PlansQuietStep ==
  ASSUME PlanInv, PlansQuiet, NEW p \in Procs, NEW d \in Serials, PlanTouch(p, d),
         NEW ph, NEW j, PlanMoves(p, ph, j), PlanAlone(p, ph, j),
         Progress(ph, j)', OnePerShift', OnRows', PlanAsked(d)'
  PROVE  PlansQuiet'
<1>1. /\ phase'[p] = ph /\ job'[p] = j
      /\ \A q \in Procs \ {p} : phase'[q] = phase[q] /\ job'[q] = job[q]
  BY DEF PlanMoves, PlanInv, PlanShape
<1>2. PlansApart
  BY DEF PlansQuiet
<1>3. ASSUME NEW q \in Procs \ {p}, ph \in PlanSaving, phase[q] \in PlanSaving PROVE FALSE
  <2>1. q \in PlanSaves
    BY <1>3 DEF PlanSaves, InFlight, PlanSaving
  <2>2. phase[p] \in PlanSaving
    BY <1>3, <2>1 DEF PlanAlone
  <2> QED
    BY <1>2, <1>3, <2>2 DEF PlansApart
<1>4. ASSUME NEW q \in Procs \ {p}, ph \in PlanSaving, phase[q] \in PlanDeleting
      PROVE  j.target # job[q].target
  <2>1. CASE phase[p] \in PlanSaving /\ j.target = job[p].target
    BY <1>2, <1>4, <2>1 DEF PlansApart
  <2>2. CASE DeletesOfPlan(j.target) = {}
    BY <1>4, <2>2 DEF DeletesOfPlan, InFlight, PlanDeleting
  <2> QED
    BY <1>4, <2>1, <2>2 DEF PlanAlone
<1>5. ASSUME NEW q \in Procs \ {p}, ph \in PlanDeleting, phase[q] \in PlanSaving
      PROVE  j.target # job[q].target
  <2>1. CASE phase[p] \in PlanDeleting /\ j.target = job[p].target
    BY <1>2, <1>5, <2>1 DEF PlansApart
  <2>2. CASE SavesOfPlan(j.target) = {}
    BY <1>5, <2>2 DEF SavesOfPlan, PlanSaves, InFlight, PlanSaving
  <2> QED
    BY <1>5, <2>1, <2>2 DEF PlanAlone
<1>6. ~(ph \in PlanSaving /\ ph \in PlanDeleting)
  BY DEF PlanSaving, PlanDeleting
<1>7. PlansApart'
  <2>1. ASSUME NEW q \in Procs, NEW s \in Procs, phase'[q] \in PlanSaving, phase'[s] \in PlanSaving
        PROVE  q = s
    BY <1>1, <1>2, <1>3, <2>1 DEF PlansApart
  <2>2. ASSUME NEW q \in Procs, NEW s \in Procs, phase'[q] \in PlanSaving, phase'[s] \in PlanDeleting
        PROVE  job'[q].target # job'[s].target
    BY <1>1, <1>2, <1>4, <1>5, <1>6, <2>2 DEF PlansApart
  <2> QED
    BY <2>1, <2>2 DEF PlansApart
<1>8. \A q \in Procs \ {p} : Progress(phase[q], job[q])'
  BY <1>1, OthersProgress
<1>9. Progress(phase[p], job[p])'
  <2>1. Progress(ph, j)' /\ phase'[p] = ph /\ job'[p] = j
    BY <1>1
  <2> QED
    BY <2>1 DEF Progress, DoneRows, ShiftFree, Bare
<1>10. ASSUME NEW e \in Serials PROVE PlanAsked(e)'
  <2>1. CASE e = d
    BY <2>1
  <2>2. CASE e # d
    <3>1. PlanUntouched(e) /\ PlanAsked(e)
      BY <2>2 DEF PlanTouch, PlansQuiet
    <3> QED
      BY <3>1, PlanUntouchedRows
  <2> QED
    BY <2>1, <2>2
<1>11. \A q \in Procs : Progress(phase[q], job[q])'
  BY <1>8, <1>9
<1> QED
  BY <1>7, <1>10, <1>11 DEF PlansQuiet

\* A step that writes no table.
LEMMA PlansSame ==
  ASSUME PlansQuiet, NEW p \in Procs, NEW d \in Serials,
         UNCHANGED <<plans, planRows, crew, goods, planned>>
  PROVE  PlanTouch(p, d) /\ OnePerShift' /\ OnRows' /\ PlanAsked(d)'
<1>1. \A e \in Serials : PlanUntouched(e)
  BY DEF PlanUntouched
<1>2. \A x \in Serials : LivePlan(x)' => LivePlan(x) /\ plans'[x].shift = plans[x].shift
  BY DEF LivePlan
<1>3. PlanTouch(p, d)
  BY <1>1, <1>2 DEF PlanTouch
<1>4. OnePerShift' /\ OnRows'
  BY DEF PlansQuiet, OnePerShift, OnRows, LivePlan
<1>5. PlanAsked(d)'
  BY <1>1, PlanUntouchedRows DEF PlansQuiet
<1> QED
  BY <1>3, <1>4, <1>5

LEMMA BeginPlanQuiet ==
  ASSUME PlanInv, PlansQuiet, ~contended', NEW p \in Procs, NEW d \in Serials,
         NEW shift \in Shifts, BeginPlan(p, d, shift)
  PROVE  PlansQuiet'
<1>1. PICK form \in PlanForms(d) :
        Start(p, "plan_header",
               [n |-> NextSerial, target |-> d, shift |-> shift, asked |-> AsForm(form),
                form |-> form, old |-> {}, row |-> NoPlan, line |-> NoPlan],
               PlanSaves \cup DeletesOfPlan(d))
  BY DEF BeginPlan
<1>2. PICK j : j = [n |-> NextSerial, target |-> d, shift |-> shift, asked |-> AsForm(form),
                    form |-> form, old |-> {}, row |-> NoPlan, line |-> NoPlan]
  OBVIOUS
<1>3. PICK rivals : rivals = PlanSaves \cup DeletesOfPlan(d)
  OBVIOUS
<1>4. "plan_header" \in PlanPhases /\ "plan_header" \notin PlanDeleting
  BY DEF PlanPhases, PlanDeleting
<1>5. Start(p, "plan_header", j, rivals)
  BY <1>1, <1>2, <1>3
<1>6. PlanMoves(p, "plan_header", j) /\ contended' = (contended \/ rivals # {})
  BY <1>4, <1>5, PlanStart
<1>7. PlanSaves = {} /\ DeletesOfPlan(d) = {}
  BY <1>3, <1>6
<1>8. UNCHANGED <<plans, planRows, crew, goods, planned>> /\ ShiftFree(d, shift)
  BY DEF BeginPlan, planVars
<1>9. PlanTouch(p, d) /\ OnePerShift' /\ OnRows' /\ PlanAsked(d)'
  BY <1>8, PlansSame
<1>10. j.target = d /\ j.shift = shift /\ j.asked = AsForm(j.form)
  BY <1>2
<1>11. PlanAlone(p, "plan_header", j)
  BY <1>4, <1>7, <1>10 DEF PlanAlone
<1>12. ShiftFree(j.target, j.shift)'
  BY <1>8, <1>10 DEF ShiftFree, LivePlan
<1>13. Progress("plan_header", j)'
  BY <1>10, <1>12 DEF Progress
<1> QED
  BY <1>6, <1>9, <1>11, <1>13, PlansQuietStep

LEMMA BeginDeletePlanQuiet ==
  ASSUME PlanInv, PlansQuiet, ~contended', NEW p \in Procs, NEW d \in Serials,
         BeginDeletePlan(p, d)
  PROVE  PlansQuiet'
<1>1. PICK j : j = [n |-> NextSerial, target |-> d, old |-> ActiveOf(planRows, d), row |-> NoPlan]
  OBVIOUS
<1>2. PICK rivals : rivals = SavesOfPlan(d)
  OBVIOUS
<1>3. Start(p, "plan_delete", j, rivals) /\ "plan_delete" \in PlanPhases
  BY <1>1, <1>2 DEF BeginDeletePlan, PlanPhases
<1>4. PlanMoves(p, "plan_delete", j) /\ contended' = (contended \/ rivals # {}) /\ phase[p] = "idle"
  BY <1>3, PlanStart
<1>5. SavesOfPlan(d) = {}
  BY <1>2, <1>4
<1>6. /\ UNCHANGED <<plans, planRows, crew, goods>>
      /\ planned' = [planned EXCEPT ![d] = NoPlan]
  BY DEF BeginDeletePlan
<1>7. /\ \A e \in Serials : e # d => planned'[e] = planned[e]
      /\ planned'[d] = NoPlan
  BY <1>6 DEF PlanInv, PlanShape
<1>8. \A e \in Serials : e # d => PlanUntouched(e)
  BY <1>6, <1>7 DEF PlanUntouched
<1>9. \A q \in Procs \ {p} : phase[q] \in PlanSaving => job[q].target # d
  BY <1>5 DEF SavesOfPlan, PlanSaves, InFlight, PlanSaving
<1>10. \A x \in Serials : LivePlan(x)' => LivePlan(x) /\ plans'[x].shift = plans[x].shift
  BY <1>6 DEF LivePlan
<1>11. PlanTouch(p, d)
  BY <1>6, <1>7, <1>8, <1>9, <1>10 DEF PlanTouch
<1>12. OnePerShift' /\ OnRows'
  BY <1>6 DEF PlansQuiet, OnePerShift, OnRows, LivePlan
<1>13. PlanAsked(d)'
  BY <1>7 DEF PlanAsked
<1>14. PlanAlone(p, "plan_delete", j)
  BY <1>1, <1>5 DEF PlanAlone, PlanSaving
<1>15. Progress("plan_delete", j)'
  BY <1>1, <1>7 DEF Progress
<1> QED
  BY <1>4, <1>11, <1>12, <1>13, <1>14, <1>15, PlansQuietStep

\* A request that goes on alone.
LEMMA PlanGoesAlone ==
  ASSUME NEW p, NEW ph, NEW j, j.target = job[p].target,
         ph \in PlanSaving => phase[p] \in PlanSaving,
         ph \in PlanDeleting => phase[p] \in PlanDeleting
  PROVE  PlanAlone(p, ph, j)
BY DEF PlanAlone

LEMMA PlanHeaderQuiet ==
  ASSUME PlanInv, PlansQuiet, NEW p \in Procs, PlanHeader(p)
  PROVE  PlansQuiet'
<1>1. PICK j : j = job[p]
  OBVIOUS
<1>2. PICK d : d = j.target
  OBVIOUS
<1>3. phase[p] = "plan_header" /\ PlanSave("plan_header", j) /\ d \in Serials /\ j.shift \in Shifts
  BY <1>1, <1>2, PlanJobIs DEF PlanHeader, PlanSaving, PlanSave
<1>4. PICK k : k = [j EXCEPT !.old = ActiveOf(planRows, d)]
  OBVIOUS
<1>5. /\ plans' = [plans EXCEPT ![d] =
             [shift |-> j.shift, active |-> (plans[d] = NoPlan \/ plans[d].active)]]
      /\ planned' = [planned EXCEPT ![d] = NoPlan]
      /\ Goto(p, "plan_rows", k)
      /\ UNCHANGED <<planRows, crew, goods>>
  BY <1>1, <1>2, <1>3, <1>4 DEF PlanHeader, PlanInv, PlanShape
<1>6. k = [n |-> j.n, target |-> d, shift |-> j.shift, asked |-> j.asked, form |-> j.form,
           old |-> ActiveOf(planRows, d), row |-> j.row, line |-> j.line]
  BY <1>2, <1>3, <1>4 DEF PlanSave
<1>7. /\ \A e \in Serials : e # d => plans'[e] = plans[e] /\ planned'[e] = planned[e]
      /\ planned'[d] = NoPlan /\ plans'[d].shift = j.shift
  BY <1>3, <1>5 DEF PlanInv, PlanShape
<1>8. ShiftFree(d, j.shift) /\ j.asked = AsForm(j.form)
  <2>1. Progress("plan_header", j)
    BY <1>1, <1>3 DEF PlansQuiet
  <2> QED
    BY <1>2, <2>1 DEF Progress
<1>9. PlanTouch(p, d)
  <2>1. \A e \in Serials : e # d => PlanUntouched(e)
    BY <1>5, <1>7 DEF PlanUntouched
  <2>2. phase[p] \in PlanSaving /\ job[p].target = d
    BY <1>1, <1>2, <1>3 DEF PlanSaving
  <2> QED
    BY <2>1, <2>2 DEF PlanTouch
<1>10. OnePerShift'
  <2>1. \A x \in Serials : x # d /\ LivePlan(x)' => plans'[x].shift # j.shift
    BY <1>7, <1>8 DEF ShiftFree, LivePlan
  <2>2. \A x \in Serials : x # d /\ LivePlan(x)' => LivePlan(x) /\ plans'[x].shift = plans[x].shift
    BY <1>7 DEF LivePlan
  <2>3. OnePerShift
    BY DEF PlansQuiet
  <2>4. ASSUME NEW x \in Serials, NEW y \in Serials, LivePlan(x)', LivePlan(y)', x # y
        PROVE  plans'[x].shift # plans'[y].shift
    <3>1. CASE x = d
      BY <1>7, <2>1, <2>4, <3>1
    <3>2. CASE y = d
      BY <1>7, <2>1, <2>4, <3>2
    <3>3. CASE x # d /\ y # d
      BY <2>2, <2>3, <2>4, <3>3 DEF OnePerShift
    <3> QED
      BY <3>1, <3>2, <3>3
  <2> QED
    BY <2>4 DEF OnePerShift
<1>11. OnRows'
  BY <1>5 DEF PlansQuiet, OnRows
<1>12. PlanAsked(d)'
  BY <1>7 DEF PlanAsked
<1>13. DoneRows(d, Ids(k.old))' = {}
  <2>1. ASSUME NEW r \in ActiveOf(planRows, d) PROVE r.id \in Ids(k.old)
    <3>1. r \in planRows
      BY DEF ActiveOf, RowsOf, Active
    <3> QED
      BY <1>6, <3>1, PlanRowIds DEF Ids
  <2> QED
    BY <1>5, <2>1 DEF DoneRows
<1>14. Progress("plan_rows", k)'
  BY <1>6, <1>7, <1>8, <1>13 DEF Progress
<1>15. PlanAlone(p, "plan_rows", k)
  <2>1. k.target = job[p].target
    BY <1>1, <1>2, <1>6
  <2> QED
    BY <1>3, <2>1, PlanGoesAlone DEF PlanSaving, PlanDeleting
<1>16. PlanMoves(p, "plan_rows", k)
  BY <1>5, PlanGoto DEF PlanPhases
<1> QED
  BY <1>3, <1>9, <1>10, <1>11, <1>12, <1>14, <1>15, <1>16, PlansQuietStep

LEMMA ClearedQuiet ==
  ASSUME PlanInv, PlansQuiet, NEW row, NEW d, RowThere(row, d), ClearedIs(row),
         UNCHANGED <<plans, planRows, planned>>
  PROVE  /\ \A e \in Serials : e # d => PlanUntouched(e)
         /\ \A rest : row \in rest => DoneRows(d, rest)' = DoneRows(d, rest)
         /\ Active(crew') \subseteq Active(crew) /\ Active(goods') \subseteq Active(goods)
         /\ OnePerShift' /\ OnRows' /\ Bare(row)'
<1>1. \A r \in planRows : r.id = row => r.doc = d
  BY DEF RowThere, PlanInv, PlanTables, Table
<1>2. \A x : x # row => /\ ActiveOf(crew', x) = ActiveOf(crew, x)
                        /\ ActiveOf(goods', x) = ActiveOf(goods, x)
  BY DEF ClearedIs
<1>3. ASSUME NEW e \in Serials, e # d PROVE PlanUntouched(e)
  <2>1. \A r \in RowsOf(planRows, e) : r.id # row
    BY <1>1, <1>3 DEF RowsOf
  <2> QED
    BY <1>2, <2>1 DEF PlanUntouched
<1>4. ASSUME NEW rest, row \in rest PROVE DoneRows(d, rest)' = DoneRows(d, rest)
  <2>1. ASSUME NEW r, r.id \notin rest PROVE RowInForce(r)' = RowInForce(r)
    <3>1. r.id # row
      BY <1>4, <2>1
    <3> QED
      BY <1>2, <3>1 DEF RowInForce
  <2>2. PICK S : S = {x \in ActiveOf(planRows, d) : x.id \notin rest}
    OBVIOUS
  <2>3. S = {x \in ActiveOf(planRows', d) : x.id \notin rest}
    BY <2>2
  <2>4. \A r \in S : RowInForce(r)' = RowInForce(r)
    BY <2>1, <2>2
  <2>5. DoneRows(d, rest) = {RowInForce(r) : r \in S}
    BY <2>2 DEF DoneRows
  <2>6. DoneRows(d, rest)' = {RowInForce(r)' : r \in S}
    BY <2>3 DEF DoneRows
  <2> QED
    BY <2>4, <2>5, <2>6
<1>5. Active(crew') \subseteq Active(crew) /\ Active(goods') \subseteq Active(goods)
  BY DEF ClearedIs
<1>6. Active(crew' \cup goods') \subseteq Active(crew \cup goods)
  BY <1>5 DEF Active
<1>7. OnePerShift' /\ OnRows'
  BY <1>6 DEF PlansQuiet, OnePerShift, OnRows, LivePlan
<1>8. Bare(row)'
  BY DEF ClearedIs, Bare
<1> QED
  BY <1>3, <1>4, <1>5, <1>7, <1>8

LEMMA GoneQuiet ==
  ASSUME PlanInv, PlansQuiet, NEW row, NEW d, RowGoneIs(row, d), Bare(row),
         UNCHANGED <<plans, crew, goods, planned>>
  PROVE  /\ \A e \in Serials : e # d => PlanUntouched(e)
         /\ \A rest : DoneRows(d, rest)' = DoneRows(d, rest \cup {row})
         /\ OnePerShift' /\ OnRows'
<1>1. \A e \in Serials : e # d => PlanUntouched(e)
  BY DEF RowGoneIs, PlanUntouched
<1>2. Active(planRows') = {r \in Active(planRows) : r.id # row}
  BY DEF RowGoneIs
<1>3. ASSUME NEW rest PROVE DoneRows(d, rest)' = DoneRows(d, rest \cup {row})
  <2>1. {x \in ActiveOf(planRows', d) : x.id \notin rest} =
           {x \in ActiveOf(planRows, d) : x.id \notin rest \cup {row}}
    BY <1>2 DEF ActiveOf, RowsOf, Active
  <2>2. \A r : RowInForce(r)' = RowInForce(r)
    BY DEF RowInForce
  <2>3. PICK S : S = {x \in ActiveOf(planRows, d) : x.id \notin rest \cup {row}}
    OBVIOUS
  <2>4. DoneRows(d, rest)' = {RowInForce(r)' : r \in S}
    BY <2>1, <2>3 DEF DoneRows
  <2> QED
    BY <2>2, <2>3, <2>4 DEF DoneRows
<1>4. OnePerShift'
  BY DEF PlansQuiet, OnePerShift, LivePlan
<1>5. ASSUME NEW c \in Active(crew \cup goods) PROVE c.doc \in Ids(Active(planRows'))
  <2>1. c.doc \in Ids(Active(planRows)) /\ c.doc # row
    BY DEF PlansQuiet, OnRows, Bare
  <2> QED
    BY <1>2, <2>1 DEF Ids
<1>6. OnRows'
  BY <1>5 DEF OnRows
<1> QED
  BY <1>1, <1>3, <1>4, <1>6

LEMMA DropRowQuiet ==
  ASSUME PlanInv, PlansQuiet, NEW p \in Procs, DropRow(p)
  PROVE  PlansQuiet'
<1>1. PICK j : j = job[p]
  OBVIOUS
<1>2. PICK d : d = j.target
  OBVIOUS
<1>3. /\ phase[p] = "plan_rows" /\ PlanSave("plan_rows", j)
      /\ UNCHANGED <<plans, planRows, planned, started, contended>>
  BY <1>1, DropRowIs
<1>4. PICK r \in j.old : /\ ClearedIs(r.id) /\ RowThere(r.id, j.target)
                         /\ OldOK(j.old \ {r}, j.target) /\ r.id \notin Ids(j.old \ {r})
                         /\ Ids(j.old \ {r}) \cup {r.id} = Ids(j.old)
                         /\ Goto(p, "row_gone", [j EXCEPT !.old = j.old \ {r}, !.row = r.id])
  BY <1>1, DropRowIs
<1>5. PICK row : row = r.id
  OBVIOUS
<1>6. PICK k : k = [j EXCEPT !.old = j.old \ {r}, !.row = row]
  OBVIOUS
<1>7. k = [n |-> j.n, target |-> d, shift |-> j.shift, asked |-> j.asked,
           form |-> j.form, old |-> j.old \ {r}, row |-> row, line |-> j.line]
  BY <1>2, <1>3, <1>6 DEF PlanSave
<1>8. /\ \A e \in Serials : e # d => PlanUntouched(e)
      /\ \A rest : row \in rest => DoneRows(d, rest)' = DoneRows(d, rest)
      /\ OnePerShift' /\ OnRows' /\ Bare(row)'
  <2>1. ClearedIs(row) /\ RowThere(row, d)
    BY <1>2, <1>4, <1>5
  <2> QED
    BY <1>3, <2>1, ClearedQuiet
<1>9. j.asked = AsForm(j.form) \cup DoneRows(d, Ids(j.old)) /\ planned[d] = NoPlan
  <2>1. Progress("plan_rows", j)
    BY <1>1, <1>3 DEF PlansQuiet
  <2> QED
    BY <1>2, <2>1 DEF Progress
<1>10. PICK rest : rest = Ids(j.old)
  OBVIOUS
<1>11. row \in rest /\ Ids(k.old) \cup {row} = rest
  BY <1>4, <1>5, <1>7, <1>10
<1>12. DoneRows(d, rest)' = DoneRows(d, rest)
  BY <1>8, <1>11
<1>13. Progress("row_gone", k)'
  BY <1>3, <1>7, <1>8, <1>9, <1>10, <1>11, <1>12 DEF Progress
<1>14. PlanTouch(p, d)
  BY <1>1, <1>2, <1>3, <1>8 DEF PlanTouch, PlanSaving
<1>15. PlanAsked(d)'
  BY <1>3, <1>9 DEF PlanAsked
<1>16. PlanAlone(p, "row_gone", k)
  <2>1. k.target = job[p].target
    BY <1>1, <1>2, <1>7
  <2> QED
    BY <1>3, <2>1, PlanGoesAlone DEF PlanSaving, PlanDeleting
<1>17. PlanMoves(p, "row_gone", k)
  BY <1>4, <1>5, <1>6, PlanGoto DEF PlanPhases
<1>18. d \in Serials
  BY <1>2, <1>3 DEF PlanSave
<1> QED
  BY <1>8, <1>13, <1>14, <1>15, <1>16, <1>17, <1>18, PlansQuietStep

LEMMA DropRowRestQuiet ==
  ASSUME PlanInv, PlansQuiet, NEW p \in Procs, DropRowRest(p)
  PROVE  PlansQuiet'
<1>1. PICK j : j = job[p]
  OBVIOUS
<1>2. PICK d : d = j.target
  OBVIOUS
<1>3. /\ phase[p] = "row_gone" /\ PlanSave("row_gone", j)
      /\ UNCHANGED <<plans, crew, goods, planned, started, contended>>
      /\ RowGoneIs(j.row, j.target)
      /\ Goto(p, "plan_rows", [j EXCEPT !.row = NoPlan])
  BY <1>1, DropRowRestIs
<1>4. PICK row : row = j.row
  OBVIOUS
<1>5. PICK k : k = [j EXCEPT !.row = NoPlan]
  OBVIOUS
<1>6. k = [n |-> j.n, target |-> d, shift |-> j.shift, asked |-> j.asked,
           form |-> j.form, old |-> j.old, row |-> NoPlan, line |-> j.line]
  BY <1>2, <1>3, <1>5 DEF PlanSave
<1>7. /\ j.asked = AsForm(j.form) \cup DoneRows(d, Ids(j.old) \cup {row})
      /\ Bare(row) /\ planned[d] = NoPlan
  <2>1. Progress("row_gone", j)
    BY <1>1, <1>3 DEF PlansQuiet
  <2> QED
    BY <1>2, <1>4, <2>1 DEF Progress
<1>8. /\ \A e \in Serials : e # d => PlanUntouched(e)
      /\ \A rest : DoneRows(d, rest)' = DoneRows(d, rest \cup {row})
      /\ OnePerShift' /\ OnRows'
  <2>1. RowGoneIs(row, d)
    BY <1>2, <1>3, <1>4
  <2> QED
    BY <1>3, <1>7, <2>1, GoneQuiet
<1>9. PICK rest : rest = Ids(j.old)
  OBVIOUS
<1>10. DoneRows(d, rest)' = DoneRows(d, rest \cup {row})
  BY <1>8
<1>11. Progress("plan_rows", k)'
  BY <1>3, <1>6, <1>7, <1>9, <1>10 DEF Progress
<1>12. PlanTouch(p, d)
  BY <1>1, <1>2, <1>3, <1>8 DEF PlanTouch, PlanSaving
<1>13. PlanAsked(d)'
  BY <1>3, <1>7 DEF PlanAsked
<1>14. PlanAlone(p, "plan_rows", k)
  <2>1. k.target = job[p].target
    BY <1>1, <1>2, <1>6
  <2> QED
    BY <1>3, <2>1, PlanGoesAlone DEF PlanSaving, PlanDeleting
<1>15. PlanMoves(p, "plan_rows", k)
  BY <1>3, <1>5, PlanGoto DEF PlanPhases
<1>16. d \in Serials
  BY <1>2, <1>3 DEF PlanSave
<1> QED
  BY <1>8, <1>11, <1>12, <1>13, <1>14, <1>15, <1>16, PlansQuietStep

LEMMA SavedQuiet ==
  ASSUME PlanInv, PlansQuiet, NEW row, NEW d, NEW n, NEW item, RowSavedIs(row, d, n, item),
         UNCHANGED <<plans, crew, goods, planned>>
  PROVE  /\ \A e \in Serials : e # d => PlanUntouched(e)
         /\ \A rest : row \in rest => DoneRows(d, rest)' = DoneRows(d, rest)
         /\ OnePerShift' /\ OnRows' /\ (row # NoId => row \in Ids(Active(planRows')))
<1>1. \A e \in Serials : e # d => PlanUntouched(e)
  BY DEF RowSavedIs, PlanUntouched
<1>2. /\ \A r : r.id # row => (r \in planRows' <=> r \in planRows)
      /\ \E w \in planRows' : w.id = row /\ w.doc = d /\ w.active
  BY DEF RowSavedIs
<1>3. ASSUME NEW rest, row \in rest PROVE DoneRows(d, rest)' = DoneRows(d, rest)
  <2>1. PICK S : S = {x \in ActiveOf(planRows, d) : x.id \notin rest}
    OBVIOUS
  <2>2. PICK T : T = {x \in ActiveOf(planRows', d) : x.id \notin rest}
    OBVIOUS
  <2>3. ASSUME NEW x PROVE x \in T <=> x \in S
    <3>1. CASE x.id \in rest
      BY <2>1, <2>2, <3>1
    <3>2. CASE x.id \notin rest
      <4>1. x.id # row
        BY <1>3, <3>2
      <4>2. x \in planRows' <=> x \in planRows
        BY <1>2, <4>1
      <4> QED
        BY <2>1, <2>2, <3>2, <4>2 DEF ActiveOf, RowsOf, Active
    <3> QED
      BY <3>1, <3>2
  <2>4. T = S
    BY <2>3
  <2>5. \A r : RowInForce(r)' = RowInForce(r)
    BY DEF RowInForce
  <2>6. DoneRows(d, rest)' = {RowInForce(r)' : r \in S}
    BY <2>2, <2>4 DEF DoneRows
  <2> QED
    BY <2>1, <2>5, <2>6 DEF DoneRows
<1>4. OnePerShift'
  BY DEF PlansQuiet, OnePerShift, LivePlan
<1>5. row # NoId => row \in Ids(Active(planRows'))
  BY <1>2 DEF Ids, Active
<1>6. ASSUME NEW c \in Active(crew \cup goods) PROVE c.doc \in Ids(Active(planRows'))
  <2>1. PICK x : x = c.doc
    OBVIOUS
  <2>2. x \in Ids(Active(planRows))
    BY <2>1 DEF PlansQuiet, OnRows
  <2>3. PICK r \in planRows : r.id = x /\ r.active /\ x # NoId
    BY <2>2 DEF Ids, Active
  <2>4. CASE x = row
    BY <1>5, <2>1, <2>3, <2>4
  <2>5. CASE x # row
    <3>1. r \in planRows'
      BY <1>2, <2>3, <2>5
    <3> QED
      BY <2>1, <2>3, <3>1 DEF Ids, Active
  <2> QED
    BY <2>4, <2>5
<1>7. OnRows'
  BY <1>6 DEF OnRows
<1> QED
  BY <1>1, <1>3, <1>4, <1>5, <1>7

LEMMA SaveRowQuiet ==
  ASSUME PlanInv, PlanInv', PlansQuiet, NEW p \in Procs, SaveRow(p)
  PROVE  PlansQuiet'
<1>1. PICK j : j = job[p]
  OBVIOUS
<1>2. PICK d : d = j.target
  OBVIOUS
<1>3. /\ phase[p] = "plan_rows" /\ PlanSave("plan_rows", j)
      /\ UNCHANGED <<plans, crew, goods, planned, started, contended>>
  BY <1>1, SaveRowIs
<1>4. PICK l, gone, row :
        /\ RowChosen(j, l, gone, row) /\ RowSavedIs(row, j.target, j.n, l.item)
        /\ Goto(p, "row_sync", [j EXCEPT !.old = j.old \ gone, !.form = j.form \ {l},
                                         !.line = l, !.row = row])
  BY <1>1, SaveRowIs
<1>5. PICK k : k = [j EXCEPT !.old = j.old \ gone, !.form = j.form \ {l}, !.line = l, !.row = row]
  OBVIOUS
<1>6. k = [n |-> j.n, target |-> d, shift |-> j.shift, asked |-> j.asked,
           form |-> j.form \ {l}, old |-> j.old \ gone, row |-> row, line |-> l]
  BY <1>2, <1>3, <1>5 DEF PlanSave
<1>7. PlanMoves(p, "row_sync", k)
  BY <1>4, <1>5, PlanGoto DEF PlanPhases
<1>8. row # NoId
  <2>1. phase'[p] = "row_sync" /\ job'[p] = k
    BY <1>7 DEF PlanMoves, PlanInv, PlanShape
  <2>2. PlanSave("row_sync", k)'
    BY <2>1, PlanJobIs DEF PlanInv, PlanJobs, PlanJob, PlanSaving
  <2> QED
    BY <1>6, <2>2 DEF PlanSave, RowThere
<1>9. PICK n, item : n = j.n /\ item = l.item
  OBVIOUS
<1>10. /\ \A e \in Serials : e # d => PlanUntouched(e)
       /\ \A rest : row \in rest => DoneRows(d, rest)' = DoneRows(d, rest)
       /\ OnePerShift' /\ OnRows' /\ row \in Ids(Active(planRows'))
  <2>1. RowSavedIs(row, d, n, item)
    BY <1>2, <1>4, <1>9
  <2> QED
    BY <1>3, <1>8, <2>1, SavedQuiet
<1>11. j.asked = AsForm(j.form) \cup DoneRows(d, Ids(j.old)) /\ planned[d] = NoPlan
  <2>1. Progress("plan_rows", j)
    BY <1>1, <1>3 DEF PlansQuiet
  <2> QED
    BY <1>2, <2>1 DEF Progress
<1>12. PICK rest : rest = Ids(k.old) \cup {row}
  OBVIOUS
<1>13. DoneRows(d, rest)' = DoneRows(d, rest)
  BY <1>10, <1>12
<1>14. k.form \cup {l} = j.form
  BY <1>4, <1>6 DEF RowChosen
<1>15. DoneRows(d, rest) = DoneRows(d, Ids(j.old))
  <2>1. Ids(k.old) \cup {row} = Ids(j.old) \cup {row}
    BY <1>4, <1>6 DEF RowChosen, Ids
  <2>2. CASE row \in Ids(j.old)
    <3>1. rest = Ids(j.old)
      BY <1>12, <2>1, <2>2
    <3> QED
      BY <3>1
  <2>3. CASE row \notin Ids(j.old)
    <3>1. gone = {}
      BY <1>4, <1>8, <2>3 DEF RowChosen, Ids
    <3>2. row = <<j.n, l.item>> /\ l \in j.form
      BY <1>4, <3>1 DEF RowChosen
    <3>3. \A r \in planRows : r.id # row
      BY <1>3, <3>2 DEF PlanSave
    <3>4. \A r \in ActiveOf(planRows, d) : r.id \notin rest <=> r.id \notin Ids(j.old)
      BY <1>12, <2>1, <3>3 DEF ActiveOf, RowsOf, Active
    <3> QED
      BY <3>4 DEF DoneRows
  <2> QED
    BY <2>2, <2>3
<1>16. Progress("row_sync", k)'
  <2>1. k.asked = AsForm(k.form \cup {k.line}) \cup DoneRows(d, rest)'
    BY <1>6, <1>11, <1>13, <1>14, <1>15
  <2>2. planned'[d] = NoPlan
    BY <1>3, <1>11
  <2> QED
    BY <1>6, <1>10, <1>12, <2>1, <2>2 DEF Progress
<1>17. PlanTouch(p, d)
  BY <1>1, <1>2, <1>3, <1>10 DEF PlanTouch, PlanSaving
<1>18. PlanAsked(d)'
  BY <1>3, <1>11 DEF PlanAsked
<1>19. PlanAlone(p, "row_sync", k)
  <2>1. k.target = job[p].target
    BY <1>1, <1>2, <1>6
  <2> QED
    BY <1>3, <2>1, PlanGoesAlone DEF PlanSaving, PlanDeleting
<1>20. d \in Serials
  BY <1>2, <1>3 DEF PlanSave
<1> QED
  BY <1>7, <1>10, <1>16, <1>17, <1>18, <1>19, <1>20, PlansQuietStep

LEMMA SyncedElsewhere ==
  ASSUME NEW W, NEW table, NEW row, NEW items, SyncedTo(W, table, row, items)
  PROVE  \A x : x # row => ActiveOf(W, x) = ActiveOf(table, x)
BY DEF SyncedTo, ActiveOf, RowsOf, Active

\* The row is as its line has it, and the rest of the plan as it was.
RowDone(d, row, names, items) ==
    \A rest : row \notin rest =>
        DoneRows(d, rest)' = {[machine |-> row[2], crew |-> names, goods |-> items]}
                             \cup DoneRows(d, rest \cup {row})

LEMMA SyncQuiet ==
  ASSUME PlanInv, PlansQuiet, NEW row, NEW d, RowThere(row, d), row \in Ids(Active(planRows)),
         NEW names, NEW items,
         SyncedTo(crew', crew, row, names), SyncedTo(goods', goods, row, items),
         UNCHANGED <<plans, planRows, planned>>
  PROVE  /\ \A e \in Serials : e # d => PlanUntouched(e)
         /\ OnePerShift' /\ OnRows'
         /\ RowDone(d, row, names, items)
<1>1. PICK C : C = crew'
  OBVIOUS
<1>2. PICK G : G = goods'
  OBVIOUS
<1>3. SyncedTo(C, crew, row, names) /\ SyncedTo(G, goods, row, items)
  BY <1>1, <1>2
<1>4. \A x : x # row => ActiveOf(C, x) = ActiveOf(crew, x) /\ ActiveOf(G, x) = ActiveOf(goods, x)
  BY <1>3, SyncedElsewhere
<1>5. \A r \in planRows : r.id = row => r.doc = d
  BY DEF RowThere, PlanInv, PlanTables, Table
<1>6. PICK r \in planRows : r.id = row /\ r.active /\ r.doc = d /\ r.item = row[2]
  <2>1. PICK r \in planRows : r.id = row /\ r.active
    BY DEF Ids, Active
  <2>2. r.item = row[2]
    BY <2>1 DEF PlanInv, PlanTables, Table, NamedRow
  <2> QED
    BY <1>5, <2>1, <2>2
<1>7. \A q \in planRows : q.id = row => q = r
  BY <1>6 DEF PlanInv, PlanTables, Table
<1>8. ASSUME NEW e \in Serials, e # d PROVE PlanUntouched(e)
  <2>1. \A q \in RowsOf(planRows, e) : q.id # row
    BY <1>5, <1>8 DEF RowsOf
  <2> QED
    BY <1>1, <1>2, <1>4, <2>1 DEF PlanUntouched
<1>9. OnePerShift'
  BY DEF PlansQuiet, OnePerShift, LivePlan
<1>10. ASSUME NEW c \in Active(C \cup G) PROVE c.doc \in Ids(Active(planRows))
  <2>1. CASE c.doc = row
    BY <2>1
  <2>2. CASE c.doc # row
    <3>1. c \in Active(crew \cup goods)
      BY <1>3, <2>2 DEF SyncedTo, Active
    <3> QED
      BY <3>1 DEF PlansQuiet, OnRows
  <2> QED
    BY <2>1, <2>2
<1>11. OnRows'
  BY <1>1, <1>2, <1>10 DEF OnRows
<1>12. ASSUME NEW rest, row \notin rest
       PROVE  DoneRows(d, rest)' = {[machine |-> row[2], crew |-> names, goods |-> items]}
                                   \cup DoneRows(d, rest \cup {row})
  <2>1. PICK S : S = {x \in ActiveOf(planRows, d) : x.id \notin rest \cup {row}}
    OBVIOUS
  <2>2. PICK T : T = {x \in ActiveOf(planRows, d) : x.id \notin rest}
    OBVIOUS
  <2>3. r \in T
    BY <1>6, <1>12, <2>2 DEF ActiveOf, RowsOf, Active
  <2>4. ASSUME NEW x \in T, x # r PROVE x \in S
    <3>1. x \in planRows /\ x.id # row
      BY <1>7, <2>2, <2>4 DEF ActiveOf, RowsOf, Active
    <3> QED
      BY <2>1, <2>2, <2>4, <3>1
  <2>5. T = S \cup {r}
    BY <2>1, <2>2, <2>3, <2>4
  <2>6. \A x \in S : RowInForce(x)' = RowInForce(x)
    <3>1. \A x \in S : x.id # row
      BY <2>1
    <3> QED
      BY <1>1, <1>2, <1>4, <3>1 DEF RowInForce
  <2>7. RowInForce(r)' = [machine |-> row[2], crew |-> names, goods |-> items]
    BY <1>1, <1>2, <1>3, <1>6 DEF RowInForce, SyncedTo
  <2>8. DoneRows(d, rest)' = {RowInForce(x)' : x \in T}
    BY <2>2 DEF DoneRows
  <2>9. DoneRows(d, rest \cup {row}) = {RowInForce(x) : x \in S}
    BY <2>1 DEF DoneRows
  <2>10. {RowInForce(x)' : x \in T} = {RowInForce(r)'} \cup {RowInForce(x)' : x \in S}
    BY <2>5
  <2>11. {RowInForce(x)' : x \in S} = {RowInForce(x) : x \in S}
    BY <2>6
  <2> QED
    BY <2>7, <2>8, <2>9, <2>10, <2>11
<1> QED
  BY <1>8, <1>9, <1>11, <1>12 DEF RowDone

LEMMA SyncRowQuiet ==
  ASSUME PlanInv, PlansQuiet, NEW p \in Procs, SyncRow(p)
  PROVE  PlansQuiet'
<1>1. PICK j : j = job[p]
  OBVIOUS
<1>2. PICK d : d = j.target
  OBVIOUS
<1>3. /\ phase[p] = "row_sync" /\ PlanSave("row_sync", j)
      /\ UNCHANGED <<plans, planRows, planned, started, contended>>
      /\ SyncedTo(crew', crew, j.row, j.line.crew)
      /\ SyncedTo(goods', goods, j.row, Items(j.line.goods))
      /\ Goto(p, "plan_rows", [j EXCEPT !.row = NoPlan, !.line = NoPlan])
  BY <1>1, SyncRowIs
<1>4. PICK row, line : row = j.row /\ line = j.line
  OBVIOUS
<1>5. PICK k : k = [j EXCEPT !.row = NoPlan, !.line = NoPlan]
  OBVIOUS
<1>6. k = [n |-> j.n, target |-> d, shift |-> j.shift, asked |-> j.asked,
           form |-> j.form, old |-> j.old, row |-> NoPlan, line |-> NoPlan]
  BY <1>2, <1>3, <1>5 DEF PlanSave
<1>7. /\ j.asked = AsForm(j.form \cup {line}) \cup DoneRows(d, Ids(j.old) \cup {row})
      /\ row \in Ids(Active(planRows)) /\ planned[d] = NoPlan
  <2>1. Progress("row_sync", j)
    BY <1>1, <1>3 DEF PlansQuiet
  <2> QED
    BY <1>2, <1>4, <2>1 DEF Progress
<1>8. RowThere(row, d) /\ row \notin Ids(j.old) /\ row[2] = line.item
  BY <1>2, <1>3, <1>4 DEF PlanSave
<1>9. PICK names, items : names = line.crew /\ items = Items(line.goods)
  OBVIOUS
<1>10. /\ \A e \in Serials : e # d => PlanUntouched(e)
       /\ OnePerShift' /\ OnRows'
       /\ RowDone(d, row, names, items)
  <2>1. SyncedTo(crew', crew, row, names) /\ SyncedTo(goods', goods, row, items)
    BY <1>3, <1>4, <1>9
  <2> QED
    BY <1>3, <1>7, <1>8, <2>1, SyncQuiet
<1>11. PICK rest : rest = Ids(j.old)
  OBVIOUS
<1>12. DoneRows(d, rest)' = {[machine |-> line.item, crew |-> names, goods |-> items]}
                             \cup DoneRows(d, rest \cup {row})
  BY <1>8, <1>10, <1>11 DEF RowDone
<1>13. AsForm(j.form \cup {line}) =
          AsForm(j.form) \cup {[machine |-> line.item, crew |-> names, goods |-> items]}
  BY <1>9 DEF AsForm
<1>14. Progress("plan_rows", k)'
  BY <1>3, <1>6, <1>7, <1>11, <1>12, <1>13 DEF Progress
<1>15. PlanTouch(p, d)
  BY <1>1, <1>2, <1>3, <1>10 DEF PlanTouch, PlanSaving
<1>16. PlanAsked(d)'
  BY <1>3, <1>7 DEF PlanAsked
<1>17. PlanAlone(p, "plan_rows", k)
  <2>1. k.target = job[p].target
    BY <1>1, <1>2, <1>6
  <2> QED
    BY <1>3, <2>1, PlanGoesAlone DEF PlanSaving, PlanDeleting
<1>18. PlanMoves(p, "plan_rows", k)
  BY <1>3, <1>5, PlanGoto DEF PlanPhases
<1>19. d \in Serials
  BY <1>2, <1>3 DEF PlanSave
<1> QED
  BY <1>10, <1>14, <1>15, <1>16, <1>17, <1>18, <1>19, PlansQuietStep

LEMMA PlanSavedQuiet ==
  ASSUME PlanInv, PlansQuiet, NEW p \in Procs, PlanSaved(p)
  PROVE  PlansQuiet'
<1>1. PICK j : j = job[p]
  OBVIOUS
<1>2. PICK d : d = j.target
  OBVIOUS
<1>3. /\ phase[p] = "plan_rows" /\ PlanSave("plan_rows", j) /\ d \in Serials
      /\ j.old = {} /\ j.form = {}
      /\ planned' = [planned EXCEPT ![d] = j.asked]
      /\ Goto(p, "idle", NoJob)
      /\ UNCHANGED <<plans, planRows, crew, goods>>
  BY <1>1, <1>2, PlanJobIs DEF PlanSaved, PlanSaving, PlanSave, Finish
<1>4. PICK k : k = NoJob
  OBVIOUS
<1>5. PlanMoves(p, "idle", k)
  BY <1>3, <1>4, PlanGoto DEF PlanPhases
<1>6. j.asked = AsForm(j.form) \cup DoneRows(d, Ids(j.old))
  <2>1. Progress("plan_rows", j)
    BY <1>1, <1>3 DEF PlansQuiet
  <2> QED
    BY <1>2, <2>1 DEF Progress
<1>7. j.asked = InForce(d)
  <2>1. AsForm(j.form) = {} /\ Ids(j.old) = {}
    BY <1>3 DEF AsForm, Ids
  <2>2. DoneRows(d, {}) = InForce(d)
    BY DEF DoneRows, InForce
  <2> QED
    BY <1>6, <2>1, <2>2
<1>8. planned'[d] = j.asked /\ \A e \in Serials : e # d => planned'[e] = planned[e]
  BY <1>3 DEF PlanInv, PlanShape
<1>9. PlanAsked(d)'
  <2>1. InForce(d)' = InForce(d)
    BY <1>3 DEF InForce, RowInForce
  <2> QED
    BY <1>7, <1>8, <2>1 DEF PlanAsked
<1>10. PlanTouch(p, d)
  <2>1. \A e \in Serials : e # d => PlanUntouched(e)
    BY <1>3, <1>8 DEF PlanUntouched
  <2> QED
    BY <1>1, <1>2, <1>3, <2>1 DEF PlanTouch, PlanSaving
<1>11. OnePerShift' /\ OnRows'
  BY <1>3 DEF PlansQuiet, OnePerShift, OnRows, LivePlan
<1>12. PlanAlone(p, "idle", k) /\ Progress("idle", k)'
  BY DEF PlanAlone, PlanSaving, PlanDeleting, Progress
<1> QED
  BY <1>3, <1>5, <1>9, <1>10, <1>11, <1>12, PlansQuietStep

LEMMA FailPlanQuiet ==
  ASSUME PlanInv, PlansQuiet, NEW p \in Procs, FailPlan(p)
  PROVE  PlansQuiet'
<1>1. PICK k : k = NoJob
  OBVIOUS
<1>2. /\ phase' = [phase EXCEPT ![p] = "idle"] /\ job' = [job EXCEPT ![p] = k]
      /\ UNCHANGED <<plans, planRows, crew, goods, planned>>
  BY <1>1 DEF FailPlan, Fail, planVars
<1>3. PlanMoves(p, "idle", k)
  BY <1>2 DEF PlanMoves, PlanPhases
<1>4. PlanAlone(p, "idle", k) /\ Progress("idle", k)'
  BY DEF PlanAlone, PlanSaving, PlanDeleting, Progress
<1>5. CASE Serials # {}
  <2>1. PICK d \in Serials : TRUE
    BY <1>5
  <2>2. PlanTouch(p, d) /\ OnePerShift' /\ OnRows' /\ PlanAsked(d)'
    BY <1>2, PlansSame
  <2> QED
    BY <1>3, <1>4, <2>2, PlansQuietStep
<1>6. CASE Serials = {}
  <2>1. phase[p] # "idle"
    BY DEF FailPlan, Fail
  <2>2. phase[p] \in PlanSaving \cup PlanDeleting
    BY <2>1 DEF PlanInv, PlanShape, PlanPhases, PlanSaving, PlanDeleting
  <2>3. job[p].target \in Serials
    BY <2>2, PlanJobIs DEF PlanSave, PlanDelete
  <2> QED
    BY <1>6, <2>3
<1> QED
  BY <1>5, <1>6

LEMMA DeletePlanRowQuiet ==
  ASSUME PlanInv, PlansQuiet, NEW p \in Procs, DeletePlanRow(p)
  PROVE  PlansQuiet'
<1>1. PICK j : j = job[p]
  OBVIOUS
<1>2. PICK d : d = j.target
  OBVIOUS
<1>3. /\ phase[p] = "plan_delete" /\ PlanDelete("plan_delete", j)
      /\ UNCHANGED <<plans, planRows, planned, started, contended>>
  BY <1>1, DeletePlanRowIs
<1>4. PICK r \in j.old : /\ ClearedIs(r.id) /\ RowThere(r.id, j.target)
                         /\ OldOK(j.old \ {r}, j.target)
                         /\ Goto(p, "plan_row_gone", [j EXCEPT !.old = j.old \ {r}, !.row = r.id])
  BY <1>1, DeletePlanRowIs
<1>5. PICK row : row = r.id
  OBVIOUS
<1>6. PICK k : k = [j EXCEPT !.old = j.old \ {r}, !.row = row]
  OBVIOUS
<1>7. k = [n |-> j.n, target |-> d, old |-> j.old \ {r}, row |-> row]
  BY <1>2, <1>3, <1>6 DEF PlanDelete
<1>8. /\ \A e \in Serials : e # d => PlanUntouched(e)
      /\ Active(crew') \subseteq Active(crew) /\ Active(goods') \subseteq Active(goods)
      /\ OnePerShift' /\ OnRows' /\ Bare(row)'
  <2>1. ClearedIs(row) /\ RowThere(row, d)
    BY <1>2, <1>4, <1>5
  <2> QED
    BY <1>3, <2>1, ClearedQuiet
<1>9. planned[d] = NoPlan
  <2>1. Progress("plan_delete", j)
    BY <1>1, <1>3 DEF PlansQuiet
  <2> QED
    BY <1>2, <2>1 DEF Progress
<1>10. Progress("plan_row_gone", k)'
  BY <1>3, <1>7, <1>8, <1>9 DEF Progress
<1>11. PlanTouch(p, d)
  <2>1. \A q \in Procs \ {p} : phase[q] \in PlanSaving => job[q].target # d
    BY <1>1, <1>2, <1>3 DEF PlansQuiet, PlansApart, PlanDeleting
  <2> QED
    BY <1>3, <1>8, <2>1 DEF PlanTouch, LivePlan
<1>12. PlanAsked(d)'
  BY <1>3, <1>9 DEF PlanAsked
<1>13. PlanAlone(p, "plan_row_gone", k)
  <2>1. k.target = job[p].target
    BY <1>1, <1>2, <1>7
  <2> QED
    BY <1>3, <2>1, PlanGoesAlone DEF PlanSaving, PlanDeleting
<1>14. PlanMoves(p, "plan_row_gone", k)
  BY <1>4, <1>5, <1>6, PlanGoto DEF PlanPhases
<1>15. d \in Serials
  BY <1>2, <1>3 DEF PlanDelete
<1> QED
  BY <1>8, <1>10, <1>11, <1>12, <1>13, <1>14, <1>15, PlansQuietStep

LEMMA DeletePlanRowRestQuiet ==
  ASSUME PlanInv, PlansQuiet, NEW p \in Procs, DeletePlanRowRest(p)
  PROVE  PlansQuiet'
<1>1. PICK j : j = job[p]
  OBVIOUS
<1>2. PICK d : d = j.target
  OBVIOUS
<1>3. /\ phase[p] = "plan_row_gone" /\ PlanDelete("plan_row_gone", j)
      /\ UNCHANGED <<plans, crew, goods, planned, started, contended>>
      /\ RowGoneIs(j.row, j.target)
      /\ Goto(p, "plan_delete", [j EXCEPT !.row = NoPlan])
  BY <1>1, DeletePlanRowRestIs
<1>4. PICK row : row = j.row
  OBVIOUS
<1>5. PICK k : k = [j EXCEPT !.row = NoPlan]
  OBVIOUS
<1>6. k = [n |-> j.n, target |-> d, old |-> j.old, row |-> NoPlan]
  BY <1>2, <1>3, <1>5 DEF PlanDelete
<1>7. Bare(row) /\ planned[d] = NoPlan
  <2>1. Progress("plan_row_gone", j)
    BY <1>1, <1>3 DEF PlansQuiet
  <2> QED
    BY <1>2, <1>4, <2>1 DEF Progress
<1>8. /\ \A e \in Serials : e # d => PlanUntouched(e)
      /\ OnePerShift' /\ OnRows'
  <2>1. RowGoneIs(row, d)
    BY <1>2, <1>3, <1>4
  <2> QED
    BY <1>3, <1>7, <2>1, GoneQuiet
<1>9. Progress("plan_delete", k)'
  BY <1>3, <1>6, <1>7 DEF Progress
<1>10. PlanTouch(p, d)
  <2>1. \A q \in Procs \ {p} : phase[q] \in PlanSaving => job[q].target # d
    BY <1>1, <1>2, <1>3 DEF PlansQuiet, PlansApart, PlanDeleting
  <2> QED
    BY <1>3, <1>8, <2>1 DEF PlanTouch, LivePlan
<1>11. PlanAsked(d)'
  BY <1>3, <1>7 DEF PlanAsked
<1>12. PlanAlone(p, "plan_delete", k)
  <2>1. k.target = job[p].target
    BY <1>1, <1>2, <1>6
  <2> QED
    BY <1>3, <2>1, PlanGoesAlone DEF PlanSaving, PlanDeleting
<1>13. PlanMoves(p, "plan_delete", k)
  BY <1>3, <1>5, PlanGoto DEF PlanPhases
<1>14. d \in Serials
  BY <1>2, <1>3 DEF PlanDelete
<1> QED
  BY <1>8, <1>9, <1>10, <1>11, <1>12, <1>13, <1>14, PlansQuietStep

LEMMA DeletePlanQuiet ==
  ASSUME PlanInv, PlansQuiet, NEW p \in Procs, DeletePlan(p)
  PROVE  PlansQuiet'
<1>1. PICK j : j = job[p]
  OBVIOUS
<1>2. PICK d : d = j.target
  OBVIOUS
<1>3. /\ phase[p] = "plan_delete" /\ PlanDelete("plan_delete", j)
      /\ UNCHANGED <<planRows, crew, goods, planned, started, contended>>
      /\ plans' = [plans EXCEPT ![j.target].active = FALSE]
      /\ Goto(p, "idle", NoJob)
  BY <1>1, DeletePlanIs
<1>4. PICK k : k = NoJob
  OBVIOUS
<1>5. d \in Serials /\ plans[d] \in PlanRecord
  BY <1>2, <1>3 DEF PlanDelete
<1>6. plans' = [plans EXCEPT ![d] = [plans[d] EXCEPT !.active = FALSE]]
  BY <1>2, <1>3 DEF PlanInv, PlanShape
<1>7. plans'[d].active = FALSE /\ \A e \in Serials : e # d => plans'[e] = plans[e]
  BY <1>5, <1>6 DEF PlanInv, PlanShape, PlanRecord
<1>8. \A x \in Serials : LivePlan(x)' => LivePlan(x) /\ plans'[x].shift = plans[x].shift
  BY <1>7 DEF LivePlan
<1>9. PlanTouch(p, d)
  <2>1. \A q \in Procs \ {p} : phase[q] \in PlanSaving => job[q].target # d
    BY <1>1, <1>2, <1>3 DEF PlansQuiet, PlansApart, PlanDeleting
  <2>2. \A e \in Serials : e # d => PlanUntouched(e)
    BY <1>3, <1>7 DEF PlanUntouched
  <2> QED
    BY <1>3, <1>8, <2>1, <2>2 DEF PlanTouch
<1>10. OnePerShift' /\ OnRows'
  BY <1>3, <1>8 DEF PlansQuiet, OnePerShift, OnRows
<1>11. PlanAsked(d)'
  BY <1>7 DEF PlanAsked, LivePlan
<1>12. PlanAlone(p, "idle", k) /\ Progress("idle", k)'
  BY DEF PlanAlone, PlanSaving, PlanDeleting, Progress
<1>13. PlanMoves(p, "idle", k)
  BY <1>3, <1>4, PlanGoto DEF PlanPhases
<1> QED
  BY <1>5, <1>9, <1>10, <1>11, <1>12, <1>13, PlansQuietStep

----------------------------------------------------------------------------

LEMMA PlansStart ==
  SlotsInit /\ PlansInit => PlansInv
<1> SUFFICES ASSUME SlotsInit, PlansInit PROVE PlansInv
  OBVIOUS
<1>1. PlanShape
  <2>1. started \in 0..MaxRequests
    BY RequestBounds DEF SlotsInit
  <2> contended \in BOOLEAN
    BY DEF SlotsInit
  <2>2. phase \in [Procs -> PlanPhases] /\ job = [p \in Procs |-> job[p]]
    BY DEF SlotsInit, PlanPhases
  <2>3. /\ plans \in [Serials -> PlanRecord \cup {NoPlan}]
        /\ planned = [d \in Serials |-> planned[d]]
    BY DEF PlansInit
  <2> QED
    BY <2>1, <2>2, <2>3 DEF PlanShape
<1>2. PlanTables
  BY DEF PlansInit, PlanTables, Table
<1>3. \A p \in Procs : phase[p] = "idle"
  BY DEF SlotsInit
<1>4. PlanJobs
  BY <1>3 DEF PlanJobs, PlanJob, PlanSaving, PlanDeleting
<1>5. PlansApart /\ \A p \in Procs : Progress(phase[p], job[p])
  BY <1>3 DEF PlansApart, Progress, PlanSaving, PlanDeleting
<1>6. \A d \in Serials : ~LivePlan(d)
  BY DEF PlansInit, LivePlan
<1>7. OnePerShift /\ OnRows /\ \A d \in Serials : PlanAsked(d)
  BY <1>6 DEF OnePerShift, OnRows, PlanAsked, PlansInit, Active
<1> QED
  BY <1>1, <1>2, <1>4, <1>5, <1>7 DEF PlansInv, PlanInv, PlansQuiet

LEMMA PlansStep ==
  PlansInv /\ [PlansNext]_<<slotVars, planVars>> => PlansInv'
<1> SUFFICES ASSUME PlansInv, [PlansNext]_<<slotVars, planVars>> PROVE PlansInv'
  OBVIOUS
<1>1. CASE UNCHANGED <<slotVars, planVars>>
  <2>1. PlanInv'
    BY <1>1 DEF PlansInv, slotVars, planVars, PlanInv, PlanShape, PlanTables, PlanJobs, PlanJob,
                PlanSave, PlanDelete, OldOK, RowThere
  <2>2. ASSUME PlansQuiet PROVE PlansQuiet'
    <3>1. PlansApart' /\ OnePerShift' /\ OnRows'
      BY <1>1, <2>2 DEF slotVars, planVars, PlansQuiet, PlansApart, OnePerShift, OnRows, LivePlan
    <3>2. \A r : RowInForce(r)' = RowInForce(r)
      BY <1>1 DEF planVars, RowInForce
    <3>3. \A d \in Serials : PlanAsked(d)'
      BY <1>1, <2>2, <3>2 DEF planVars, PlansQuiet, PlanAsked, LivePlan, InForce
    <3>4. ASSUME NEW d, NEW rest PROVE DoneRows(d, rest)' = DoneRows(d, rest)
      BY <1>1, <3>2 DEF planVars, DoneRows
    <3>5. ASSUME NEW p \in Procs PROVE Progress(phase[p], job[p])'
      <4>1. PICK ph : ph = phase[p]
        OBVIOUS
      <4>2. PICK j : j = job[p]
        OBVIOUS
      <4>3. Progress(ph, j)
        BY <2>2, <4>1, <4>2 DEF PlansQuiet
      <4>4. ShiftFree(j.target, j.shift)' <=> ShiftFree(j.target, j.shift)
        BY <1>1 DEF planVars, ShiftFree, LivePlan
      <4>5. Bare(j.row)' <=> Bare(j.row)
        BY <1>1 DEF planVars, Bare
      <4>6. planRows' = planRows /\ planned' = planned /\ phase'[p] = ph /\ job'[p] = j
        BY <1>1, <4>1, <4>2 DEF planVars, slotVars
      <4>7. Progress(ph, j)'
        BY <3>4, <4>3, <4>4, <4>5, <4>6 DEF Progress
      <4> QED
        BY <4>1, <4>2, <4>6, <4>7
    <3> QED
      BY <3>1, <3>3, <3>5 DEF PlansQuiet
  <2> QED
    BY <1>1, <2>1, <2>2 DEF PlansInv, slotVars
<1>2. CASE PlansNext
  <2>1. PlanInv /\ PlanInv'
    BY <1>2, PlanNext DEF PlansInv
  <2>2. ASSUME ~contended' PROVE PlansQuiet'
    <3>1. PICK p \in Procs :
            \/ \E d \in Serials, shift \in Shifts : BeginPlan(p, d, shift)
            \/ PlanHeader(p) \/ DropRow(p) \/ DropRowRest(p) \/ SaveRow(p)
            \/ SyncRow(p) \/ PlanSaved(p)
            \/ \E d \in Serials : BeginDeletePlan(p, d)
            \/ DeletePlanRow(p) \/ DeletePlanRowRest(p) \/ DeletePlan(p)
            \/ FailPlan(p)
      BY <1>2 DEF PlansNext
    <3>2. ~contended
      BY <2>2, <3>1 DEF BeginPlan, BeginDeletePlan, Start, PlanHeader, DropRow, DropRowRest,
             SaveRow, SyncRow, PlanSaved, Finish, DeletePlanRow, DeletePlanRowRest, DeletePlan,
             FailPlan, Fail, Goto
    <3>3. PlansQuiet
      BY <3>2 DEF PlansInv
    <3> QED
      BY <2>1, <2>2, <3>1, <3>3, BeginPlanQuiet, PlanHeaderQuiet, DropRowQuiet, DropRowRestQuiet,
         SaveRowQuiet, SyncRowQuiet, PlanSavedQuiet, BeginDeletePlanQuiet, DeletePlanRowQuiet,
         DeletePlanRowRestQuiet, DeletePlanQuiet, FailPlanQuiet
  <2> QED
    BY <2>1, <2>2 DEF PlansInv
<1> QED
  BY <1>1, <1>2

LEMMA PlansClaims ==
  PlansInv => PlanPerShift /\ PlansAsAsked
BY DEF PlansInv, PlansQuiet, PlanPerShift, PlansAsAsked, OnePerShift, OnRows, PlanAsked

\* For any machines, employees, products and shifts: while no two saves of plans, nor a
\* save and a delete of one, have overlapped, one plan in force at most has a shift and
\* nothing is in force on a row that is not, wherever the statements of
\* upsertProductionPlan and deleteProductionPlan fail.
THEOREM PlansStayPerShift == PlansSpec => []PlanPerShift
<1>1. PlansInv => PlanPerShift
  BY PlansClaims
<1> QED
  BY <1>1, PlansStart, PlansStep, PTL DEF PlansSpec

----------------------------------------------------------------------------
(* User roles *)

UserPhases == {"idle", "previous", "user", "roles"}
Editing == {"previous", "user", "roles"}

UserShape ==
    /\ phase \in [Procs -> UserPhases]
    /\ job = [p \in Procs |-> job[p]]
    /\ started \in 0..MaxRequests
    /\ contended \in BOOLEAN
    /\ users = [u \in Serials |-> users[u]]
    /\ granted = [u \in Serials |-> granted[u]]

\* Rows of roles, and users, are of requests there were.
UserTables ==
    /\ \A r \in userRoles : /\ r = [n |-> r.n, user |-> r.user, role |-> r.role, nth |-> r.nth]
                            /\ r.user \in 1..started
    /\ \A u \in Serials : users[u] # NoUser => u <= started

UserJob(j) ==
    /\ j = [n |-> j.n, user |-> j.user, email |-> j.email, roles |-> j.roles,
            drop |-> j.drop, add |-> j.add]
    /\ j.user \in 1..started
    /\ j.add \subseteq Roles \X (1..MaxNamed)
    /\ j.roles \subseteq Roles \X (1..MaxNamed)

OneAddress == \A u, v \in Serials : users[u] = users[v] /\ users[u] # NoUser => u = v

RoleRows(u) == {r \in userRoles : r.user = u}

\* What a save has still to do makes of the roles there are those asked for; the rows of
\* a role it has still to add are its own, of other namings.
RolesToDo(j) ==
    /\ Named(j.roles) = (RolesOf(j.user) \ j.drop) \cup Named(j.add)
    /\ j.drop \cap Named(j.roles) = {}
    /\ \A x \in j.add, r \in RoleRows(j.user) :
          r.role = x[1] => r.n = j.n /\ r.nth # x[2]

OneSave ==
    \A r, q \in userRoles : r.user = q.user /\ r.role = q.role =>
        r.n = q.n /\ (r.nth = q.nth => r = q)

UsersQuiet ==
    /\ \A p, q \in Procs :
          phase[p] \in Editing /\ phase[q] \in Editing /\ job[p].user = job[q].user => p = q
    /\ \A p \in Procs :
          /\ phase[p] \in {"user", "roles"} => RolesToDo(job[p])
          /\ phase[p] = "roles" => granted[job[p].user] = NoUser
    /\ OneSave
    /\ \A u \in Serials : granted[u] # NoUser => RolesOf(u) = granted[u]

UserInv ==
    /\ UserShape /\ UserTables /\ OneAddress
    /\ \A p \in Procs : phase[p] \in Editing => UserJob(job[p])
    /\ ~contended => UsersQuiet

----------------------------------------------------------------------------

UserMoves(p, ph, j) ==
    /\ ph \in UserPhases
    /\ phase' = [phase EXCEPT ![p] = ph]
    /\ job' = [job EXCEPT ![p] = j]

\* The roles of other users, and what was granted them, are as they were.
UserTouch(p, u) ==
    /\ \A v \in Serials : v # u => RoleRows(v)' = RoleRows(v) /\ granted'[v] = granted[v]
    /\ \/ RoleRows(u)' = RoleRows(u) /\ granted'[u] = granted[u]
       \/ phase[p] \in Editing /\ job[p].user = u

LEMMA RolesAre ==
  ASSUME NEW u
  PROVE  /\ RolesOf(u) = {r.role : r \in RoleRows(u)}
         /\ RolesOf(u)' = {r.role : r \in RoleRows(u)'}
         /\ RoleRows(u)' = RoleRows(u) => RolesOf(u)' = RolesOf(u)
<1>1. RolesOf(u) = {r.role : r \in RoleRows(u)} /\ RolesOf(u)' = {r.role : r \in RoleRows(u)'}
  BY DEF RolesOf, RoleRows
<1> QED
  BY <1>1

\* What is left to show of a step.
LEMMA UserStep ==
  ASSUME UserInv, NEW p \in Procs, NEW ph, NEW j, UserMoves(p, ph, j), NEW u \in Serials,
         started' \in started..MaxRequests, contended' \in BOOLEAN, UserTables',
         users' = [v \in Serials |-> users'[v]], granted' = [v \in Serials |-> granted'[v]],
         OneAddress', ph \in Editing => UserJob(j)' /\ j.user = u,
         ~contended' =>
            /\ ~contended /\ UserTouch(p, u)
            /\ ph \in Editing => (phase[p] \in Editing /\ job[p].user = u) \/ EditsOf(u) = {}
            /\ ph \in {"user", "roles"} => RolesToDo(j)'
            /\ ph = "roles" => granted'[u] = NoUser
            /\ OneSave'
            /\ granted'[u] # NoUser => RolesOf(u)' = granted'[u]
  PROVE  UserInv'
<1>1. /\ phase'[p] = ph /\ job'[p] = j
      /\ \A q \in Procs \ {p} : phase'[q] = phase[q] /\ job'[q] = job[q]
  BY DEF UserMoves, UserInv, UserShape
<1>2. UserShape'
  <2>1. phase' \in [Procs -> UserPhases] /\ job' = [q \in Procs |-> job'[q]]
    BY DEF UserInv, UserShape, UserMoves
  <2>2. started' \in 0..MaxRequests
    BY DEF UserInv, UserShape
  <2> QED
    BY <2>1, <2>2 DEF UserShape
<1>3. ASSUME NEW q \in Procs, phase'[q] \in Editing PROVE UserJob(job[q])'
  <2>1. CASE q = p
    <3>1. UserJob(j)' /\ job'[q] = j
      BY <1>1, <1>3, <2>1
    <3> QED
      BY <3>1 DEF UserJob
  <2>2. CASE q # p
    <3>1. PICK k : k = job[q]
      OBVIOUS
    <3>2. UserJob(k) /\ job'[q] = k
      BY <1>1, <1>3, <2>2, <3>1 DEF UserInv
    <3>3. UserJob(k)'
      BY <3>2 DEF UserJob, UserInv, UserShape
    <3> QED
      BY <3>2, <3>3 DEF UserJob
  <2> QED
    BY <2>1, <2>2
<1>4. ASSUME ~contended' PROVE UsersQuiet'
  <2>1. UsersQuiet /\ UserTouch(p, u)
    BY <1>4 DEF UserInv
  <2>2. ASSUME NEW q \in Procs \ {p}, ph \in Editing, phase[q] \in Editing PROVE job[q].user # u
    <3>1. CASE phase[p] \in Editing /\ job[p].user = u
      BY <2>1, <2>2, <3>1 DEF UsersQuiet
    <3>2. CASE EditsOf(u) = {}
      BY <2>2, <3>2 DEF EditsOf, InFlight, Editing
    <3> QED
      BY <1>4, <2>2, <3>1, <3>2
  <2>3. ASSUME NEW q \in Procs, NEW s \in Procs, phase'[q] \in Editing, phase'[s] \in Editing,
               job'[q].user = job'[s].user
        PROVE  q = s
    <3>1. ph \in Editing => j.user = u
      OBVIOUS
    <3> QED
      BY <1>1, <2>1, <2>2, <2>3, <3>1 DEF UsersQuiet
  <2>4. ASSUME NEW q \in Procs \ {p}, phase[q] \in Editing, RolesToDo(job[q]) \/ phase[q] = "previous"
        PROVE  /\ phase[q] # "previous" => RolesToDo(job[q])'
               /\ granted'[job[q].user] = granted[job[q].user]
    <3>1. PICK k : k = job[q]
      OBVIOUS
    <3>2. PICK v : v = k.user
      OBVIOUS
    <3>3. v \in Serials
      <4>1. UserJob(k)
        BY <2>4, <3>1 DEF UserInv
      <4>2. v \in 1..started /\ started \in 0..MaxRequests
        BY <3>2, <4>1 DEF UserJob, UserInv, UserShape
      <4> QED
        BY <4>2, RequestBounds DEF Serials
    <3>4. RoleRows(v)' = RoleRows(v) /\ granted'[v] = granted[v]
      <4>1. ~(phase[p] \in Editing /\ job[p].user = v)
        BY <2>1, <2>4, <3>1, <3>2 DEF UsersQuiet
      <4> QED
        BY <2>1, <3>3, <4>1 DEF UserTouch
    <3>5. RolesOf(v)' = RolesOf(v)
      BY <3>4, RolesAre
    <3>6. RolesToDo(k) => RolesToDo(k)'
      BY <3>2, <3>4, <3>5 DEF RolesToDo, Named
    <3>7. RolesToDo(k)' => RolesToDo(job[q])'
      <4>1. job'[q] = k
        BY <1>1, <3>1
      <4> QED
        BY <4>1 DEF RolesToDo, RolesOf, RoleRows, Named
    <3>8. RolesToDo(k) \/ phase[q] = "previous"
      BY <2>4, <3>1
    <3> QED
      BY <3>1, <3>2, <3>4, <3>6, <3>7, <3>8
  <2>5. ASSUME NEW q \in Procs
        PROVE  /\ phase'[q] \in {"user", "roles"} => RolesToDo(job[q])'
               /\ phase'[q] = "roles" => granted'[job'[q].user] = NoUser
    <3>1. CASE q = p
      <4>1. phase'[q] = ph /\ job'[q] = j
        BY <1>1, <3>1
      <4>2. ph \in {"user", "roles"} => RolesToDo(j)'
        BY <1>4
      <4>3. ph = "roles" => granted'[u] = NoUser /\ j.user = u
        BY <1>4 DEF Editing
      <4> QED
        BY <4>1, <4>2, <4>3 DEF RolesToDo, RolesOf, RoleRows, Named
    <3>2. CASE q # p
      <4>1. phase'[q] = phase[q] /\ job'[q] = job[q]
        BY <1>1, <3>2
      <4>2. phase[q] \in {"user", "roles"} => RolesToDo(job[q]) /\ phase[q] \in Editing
        BY <2>1 DEF UsersQuiet, Editing
      <4>3. phase[q] = "roles" => granted[job[q].user] = NoUser
        BY <2>1 DEF UsersQuiet
      <4> QED
        BY <2>4, <3>2, <4>1, <4>2, <4>3
    <3> QED
      BY <3>1, <3>2
  <2>6. ASSUME NEW v \in Serials, granted'[v] # NoUser PROVE RolesOf(v)' = granted'[v]
    <3>1. CASE v = u
      BY <1>4, <2>6, <3>1
    <3>2. CASE v # u
      BY <2>1, <2>6, <3>2, RolesAre DEF UserTouch, UsersQuiet
    <3> QED
      BY <3>1, <3>2
  <2> QED
    BY <1>4, <2>3, <2>5, <2>6 DEF UsersQuiet
<1> QED
  BY <1>2, <1>3, <1>4 DEF UserInv

\* What a request holds.
LEMMA UserJobIs ==
  ASSUME UserInv, NEW p \in Procs, phase[p] \in Editing, NEW j, j = job[p]
  PROVE  UserJob(j) /\ j.user \in Serials /\ j.user \in 1..started /\ started \in 0..MaxRequests
<1>1. UserJob(j) /\ started \in 0..MaxRequests
  BY DEF UserInv, UserShape
<1>2. j.user \in 1..started
  BY <1>1 DEF UserJob
<1> QED
  BY <1>1, <1>2, RequestBounds DEF Serials

LEMMA UserTablesGrow ==
  ASSUME UserInv, started' \in started..MaxRequests, UNCHANGED <<users, userRoles>>
  PROVE  UserTables' /\ OneAddress'
<1>1. started \in Nat /\ started' \in Nat /\ started <= started'
  BY DEF UserInv, UserShape
<1>2. 1..started \subseteq 1..started'
  BY <1>1
<1>3. \A u \in Serials : users[u] # NoUser => u <= started'
  BY <1>1, RequestBounds DEF UserInv, UserTables, Serials
<1>4. \A r \in userRoles : /\ r = [n |-> r.n, user |-> r.user, role |-> r.role, nth |-> r.nth]
                           /\ r.user \in 1..started
  BY DEF UserInv, UserTables
<1> QED
  BY <1>2, <1>3, <1>4 DEF UserInv, UserTables, OneAddress

LEMMA BeginUserStep ==
  ASSUME UserInv, NEW p \in Procs, NEW u \in Serials, NEW email \in Emails, BeginUser(p, u, email)
  PROVE  UserInv'
<1>1. PICK roles \in RoleForms :
         Start(p, IF u = NextSerial THEN "user" ELSE "previous",
               [n |-> NextSerial, user |-> u, email |-> email, roles |-> roles,
                drop |-> {}, add |-> roles],
               EditsOf(u))
  BY DEF BeginUser
<1>2. PICK ph : ph = IF u = NextSerial THEN "user" ELSE "previous"
  OBVIOUS
<1>3. PICK j : j = [n |-> NextSerial, user |-> u, email |-> email, roles |-> roles,
                    drop |-> {}, add |-> roles]
  OBVIOUS
<1>4. /\ UserMoves(p, ph, j) /\ started' = started + 1 /\ started < MaxRequests
      /\ contended' = (contended \/ EditsOf(u) # {})
  BY <1>1, <1>2, <1>3 DEF Start, Free, NextSerial, UserMoves, UserPhases
<1>5. started \in Nat /\ started' \in started..MaxRequests /\ contended' \in BOOLEAN
  <2>1. started \in 0..MaxRequests
    BY DEF UserInv, UserShape
  <2>2. started' \in started..MaxRequests
    BY <1>4, <2>1, RequestBounds
  <2> QED
    BY <1>4, <2>1, <2>2
<1>6. UNCHANGED <<users, userRoles, granted>>
  BY DEF BeginUser, userVars
<1>7. UserTables' /\ OneAddress'
  BY <1>5, <1>6, UserTablesGrow
<1>8. u \in 1..started'
  <2>1. u \in Nat /\ 1 <= u
    BY DEF Serials
  <2>2. u = started + 1 \/ users[u] # NoUser
    BY DEF BeginUser, NextSerial
  <2>3. u <= started + 1
    BY <1>5, <2>1, <2>2 DEF UserInv, UserTables
  <2> QED
    BY <1>4, <1>5, <2>1, <2>3
<1>9. UserJob(j)' /\ j.user = u
  BY <1>1, <1>3, <1>8 DEF UserJob, RoleForms
<1>10. \A v : RoleRows(v)' = RoleRows(v) /\ RolesOf(v)' = RolesOf(v)
  BY <1>6 DEF RolesOf, RoleRows
<1>11. ASSUME ph \in {"user", "roles"} PROVE RolesToDo(j)'
  <2>1. u = started + 1
    BY <1>2, <1>11 DEF NextSerial
  <2>2. RoleRows(u)' = {} /\ RolesOf(u)' = {}
    <3>1. \A r \in userRoles : r.user # u
      BY <1>5, <2>1 DEF UserInv, UserTables
    <3> QED
      BY <1>10, <3>1 DEF RolesOf, RoleRows
  <2> QED
    BY <1>3, <2>2 DEF RolesToDo
<1>12. ph # "roles"
  BY <1>2
<1>13. ASSUME ~contended' PROVE UserTouch(p, u) /\ OneSave' /\ (granted'[u] # NoUser => RolesOf(u)' = granted'[u])
  <2>1. UsersQuiet
    BY <1>4, <1>13 DEF UserInv
  <2> QED
    BY <1>6, <1>10, <2>1 DEF UserTouch, UsersQuiet, OneSave
<1>14. /\ users' = [v \in Serials |-> users'[v]] /\ granted' = [v \in Serials |-> granted'[v]]
  BY <1>6 DEF UserInv, UserShape
<1> QED
  BY <1>4, <1>5, <1>7, <1>9, <1>11, <1>12, <1>13, <1>14, UserStep

LEMMA UserGoto ==
  ASSUME UserInv, NEW p \in Procs, NEW ph \in UserPhases, NEW j, Goto(p, ph, j)
  PROVE  UserMoves(p, ph, j) /\ started' \in started..MaxRequests /\ contended' = contended
         /\ started' = started /\ contended' \in BOOLEAN
BY DEF UserInv, UserShape, Goto, UserMoves

LEMMA PreviousRolesStep ==
  ASSUME UserInv, NEW p \in Procs, PreviousRoles(p)
  PROVE  UserInv'
<1>1. PICK j : j = job[p]
  OBVIOUS
<1>2. PICK u : u = j.user
  OBVIOUS
<1>3. phase[p] = "previous" /\ phase[p] \in Editing
  BY DEF PreviousRoles, Editing
<1>4. UserJob(j) /\ u \in Serials /\ u \in 1..started
  BY <1>1, <1>2, <1>3, UserJobIs
<1>5. PICK k : k = [j EXCEPT !.drop = RolesOf(u) \ Named(j.roles), !.add = ToAdd(u, j.roles)]
  OBVIOUS
<1>6. Goto(p, "user", k) /\ UNCHANGED <<users, userRoles, granted>>
  BY <1>1, <1>2, <1>5 DEF PreviousRoles, userVars
<1>7. k = [n |-> j.n, user |-> u, email |-> j.email, roles |-> j.roles,
           drop |-> RolesOf(u) \ Named(j.roles), add |-> ToAdd(u, j.roles)]
  BY <1>2, <1>4, <1>5 DEF UserJob
<1>8. /\ UserMoves(p, "user", k) /\ started' \in started..MaxRequests /\ contended' = contended
      /\ started' = started /\ contended' \in BOOLEAN
  BY <1>6, UserGoto DEF UserPhases
<1>9. UserTables' /\ OneAddress'
  BY <1>6, <1>8, UserTablesGrow
<1>10. UserJob(k)' /\ k.user = u
  BY <1>4, <1>7, <1>8 DEF UserJob, ToAdd
<1>11. \A v : RoleRows(v)' = RoleRows(v) /\ RolesOf(v)' = RolesOf(v)
  BY <1>6 DEF RolesOf, RoleRows
<1>12. RolesToDo(k)'
  <2>1. PICK now, mine, add : now = RolesOf(u) /\ mine = RoleRows(u) /\ add = ToAdd(u, j.roles)
    OBVIOUS
  <2>2. now = {r.role : r \in mine}
    BY <2>1, RolesAre
  <2>3. add = {x \in j.roles : x[1] \notin now}
    BY <2>1 DEF ToAdd
  <2>4. Named(j.roles) = (now \ (now \ Named(j.roles))) \cup Named(add)
    BY <2>3 DEF Named
  <2>5. \A x \in add, r \in mine : r.role # x[1]
    BY <2>2, <2>3
  <2>6. k.user = u /\ k.roles = j.roles /\ k.drop = now \ Named(j.roles) /\ k.add = add
    BY <1>7, <2>1
  <2>7. RolesOf(u)' = now /\ RoleRows(u)' = mine
    BY <1>11, <2>1
  <2> QED
    BY <2>4, <2>5, <2>6, <2>7 DEF RolesToDo
<1>13. ASSUME ~contended'
       PROVE  /\ UserTouch(p, u) /\ OneSave'
              /\ granted'[u] # NoUser => RolesOf(u)' = granted'[u]
  <2>1. UsersQuiet
    BY <1>8, <1>13 DEF UserInv
  <2> QED
    BY <1>4, <1>6, <1>11, <2>1 DEF UserTouch, UsersQuiet, OneSave
<1>14. /\ users' = [v \in Serials |-> users'[v]] /\ granted' = [v \in Serials |-> granted'[v]]
  BY <1>6 DEF UserInv, UserShape
<1> QED
  BY <1>1, <1>2, <1>3, <1>4, <1>8, <1>9, <1>10, <1>12, <1>13, <1>14, UserStep

LEMMA SaveUserStep ==
  ASSUME UserInv, NEW p \in Procs, SaveUser(p)
  PROVE  UserInv'
<1>1. PICK j : j = job[p]
  OBVIOUS
<1>2. PICK u : u = j.user
  OBVIOUS
<1>3. phase[p] = "user" /\ phase[p] \in Editing
  BY DEF SaveUser, Editing
<1>4. UserJob(j) /\ u \in Serials /\ u \in 1..started /\ started \in 0..MaxRequests
  BY <1>1, <1>2, <1>3, UserJobIs
<1>5. /\ EmailFree(u, j.email)
      /\ users' = [users EXCEPT ![u] = j.email]
      /\ granted' = [granted EXCEPT ![u] = NoUser]
      /\ Goto(p, "roles", j) /\ UNCHANGED userRoles
  BY <1>1, <1>2 DEF SaveUser
<1>6. /\ users'[u] = j.email /\ granted'[u] = NoUser
      /\ \A v \in Serials : v # u => users'[v] = users[v] /\ granted'[v] = granted[v]
      /\ users' = [v \in Serials |-> users'[v]] /\ granted' = [v \in Serials |-> granted'[v]]
  BY <1>4, <1>5 DEF UserInv, UserShape
<1>7. /\ UserMoves(p, "roles", j) /\ started' \in started..MaxRequests /\ contended' = contended
      /\ started' = started /\ contended' \in BOOLEAN
  BY <1>5, UserGoto DEF UserPhases
<1>8. UserTables'
  <2>1. ASSUME NEW v \in Serials, users'[v] # NoUser PROVE v <= started
    <3>1. CASE v = u
      BY <1>4, <3>1
    <3>2. CASE v # u
      BY <1>6, <2>1, <3>2 DEF UserInv, UserTables
    <3> QED
      BY <3>1, <3>2
  <2> QED
    BY <1>5, <1>7, <2>1 DEF UserInv, UserTables
<1>9. OneAddress'
  <2>1. ASSUME NEW v \in Serials, NEW w \in Serials, users'[v] = users'[w], users'[v] # NoUser
        PROVE  v = w
    <3>1. \A x \in Serials : x # u => users[x] # j.email
      BY <1>5 DEF EmailFree
    <3>2. CASE v = u
      BY <1>6, <2>1, <3>1, <3>2
    <3>3. CASE w = u
      BY <1>6, <2>1, <3>1, <3>3
    <3>4. CASE v # u /\ w # u
      BY <1>6, <2>1, <3>4 DEF UserInv, OneAddress
    <3> QED
      BY <3>2, <3>3, <3>4
  <2> QED
    BY <2>1 DEF OneAddress
<1>10. UserJob(j)' /\ j.user = u
  BY <1>2, <1>4, <1>7 DEF UserJob
<1>11. \A v : RoleRows(v)' = RoleRows(v) /\ RolesOf(v)' = RolesOf(v)
  BY <1>5 DEF RolesOf, RoleRows
<1>12. ASSUME ~contended'
       PROVE  UserTouch(p, u) /\ OneSave' /\ RolesToDo(j)'
  <2>1. UsersQuiet
    BY <1>7, <1>12 DEF UserInv
  <2>2. RolesToDo(j)
    BY <1>1, <1>3, <2>1 DEF UsersQuiet
  <2>3. OneSave'
    BY <1>5, <2>1 DEF UsersQuiet, OneSave
  <2> QED
    BY <1>1, <1>2, <1>3, <1>6, <1>11, <2>2, <2>3 DEF UserTouch, RolesToDo
<1> QED
  BY <1>1, <1>2, <1>3, <1>4, <1>6, <1>7, <1>8, <1>9, <1>10, <1>12, UserStep

\* A step that takes roles of the user away, or adds them, and has nothing else to write.
LEMMA RolesStep ==
  ASSUME UserInv, NEW p \in Procs, phase[p] = "roles", NEW j, j = job[p], NEW k,
         k = [n |-> j.n, user |-> j.user, email |-> j.email, roles |-> j.roles,
              drop |-> k.drop, add |-> k.add],
         Goto(p, "roles", k), k.add \subseteq j.add,
         UNCHANGED <<users, granted>>, UserTables',
         \A v \in Serials : v # j.user => RoleRows(v)' = RoleRows(v),
         ~contended => RolesToDo(k)' /\ OneSave'
  PROVE  UserInv'
<1>1. PICK u : u = j.user
  OBVIOUS
<1>2. phase[p] \in Editing
  BY DEF Editing
<1>3. UserJob(j) /\ u \in Serials /\ u \in 1..started
  BY <1>1, <1>2, UserJobIs
<1>4. k = [n |-> j.n, user |-> u, email |-> j.email, roles |-> j.roles,
           drop |-> k.drop, add |-> k.add]
  BY <1>1
<1>5. /\ UserMoves(p, "roles", k) /\ started' \in started..MaxRequests /\ contended' = contended
      /\ started' = started /\ contended' \in BOOLEAN
  BY UserGoto DEF UserPhases
<1>6. UserJob(k)' /\ k.user = u
  BY <1>3, <1>4, <1>5 DEF UserJob
<1>7. OneAddress'
  BY DEF UserInv, OneAddress
<1>8. ASSUME ~contended'
      PROVE  UserTouch(p, u) /\ granted'[u] = NoUser
  <2>1. UsersQuiet
    BY <1>5, <1>8 DEF UserInv
  <2> QED
    BY <1>1, <1>2, <2>1 DEF UserTouch, UsersQuiet
<1>9. /\ users' = [v \in Serials |-> users'[v]] /\ granted' = [v \in Serials |-> granted'[v]]
  BY DEF UserInv, UserShape
<1> QED
  BY <1>1, <1>2, <1>3, <1>5, <1>6, <1>7, <1>8, <1>9, UserStep

LEMMA DeleteRoleStep ==
  ASSUME UserInv, NEW p \in Procs, DeleteRole(p)
  PROVE  UserInv'
<1>1. PICK j : j = job[p]
  OBVIOUS
<1>2. phase[p] = "roles" /\ UserJob(j)
  BY <1>1, UserJobIs DEF DeleteRole, Editing
<1>3. PICK role \in j.drop :
        /\ userRoles' = {r \in userRoles : r.user # j.user \/ r.role # role}
        /\ Goto(p, "roles", [j EXCEPT !.drop = j.drop \ {role}])
  BY <1>1 DEF DeleteRole
<1>4. PICK k : k = [j EXCEPT !.drop = j.drop \ {role}]
  OBVIOUS
<1>5. k = [n |-> j.n, user |-> j.user, email |-> j.email, roles |-> j.roles,
           drop |-> j.drop \ {role}, add |-> j.add]
  BY <1>2, <1>4 DEF UserJob
<1>6. k = [n |-> j.n, user |-> j.user, email |-> j.email, roles |-> j.roles,
           drop |-> k.drop, add |-> k.add]
  BY <1>5
<1>7. started' = started /\ UNCHANGED <<users, granted>>
  BY <1>3 DEF DeleteRole, Goto
<1>8. UserTables'
  BY <1>3, <1>7 DEF UserInv, UserTables
<1>9. /\ RolesOf(j.user)' = RolesOf(j.user) \ {role}
      /\ RoleRows(j.user)' \subseteq RoleRows(j.user)
      /\ \A v : v # j.user => RoleRows(v)' = RoleRows(v)
  BY <1>3 DEF RolesOf, RoleRows
<1>10. ASSUME ~contended PROVE RolesToDo(k)' /\ OneSave'
  <2>1. RolesToDo(j) /\ OneSave
    BY <1>1, <1>2, <1>10 DEF UserInv, UsersQuiet
  <2>2. PICK now : now = RolesOf(j.user)'
    OBVIOUS
  <2>3. PICK roles, add : roles = Named(j.roles) /\ add = Named(j.add)
    OBVIOUS
  <2>4. /\ roles = (now \ (j.drop \ {role})) \cup add
        /\ (j.drop \ {role}) \cap roles = {}
    BY <1>3, <1>9, <2>1, <2>2, <2>3 DEF RolesToDo
  <2>5. \A x \in j.add, r \in RoleRows(j.user)' : r.role = x[1] => r.n = j.n /\ r.nth # x[2]
    BY <1>9, <2>1 DEF RolesToDo
  <2>6. OneSave'
    BY <1>3, <2>1 DEF OneSave
  <2>7. k.n = j.n /\ k.user = j.user /\ k.roles = j.roles /\ k.drop = j.drop \ {role} /\ k.add = j.add
    BY <1>5
  <2> QED
    BY <2>2, <2>3, <2>4, <2>5, <2>6, <2>7 DEF RolesToDo
<1>11. Goto(p, "roles", k) /\ k.add \subseteq j.add
  BY <1>3, <1>4, <1>5
<1> QED
  BY <1>1, <1>2, <1>6, <1>7, <1>8, <1>9, <1>10, <1>11, RolesStep

LEMMA CreateRoleStep ==
  ASSUME UserInv, NEW p \in Procs, CreateRole(p)
  PROVE  UserInv'
<1>1. PICK j : j = job[p]
  OBVIOUS
<1>2. phase[p] = "roles" /\ UserJob(j) /\ j.user \in 1..started
  BY <1>1, UserJobIs DEF CreateRole, Editing
<1>3. j.drop = {}
  BY <1>1 DEF CreateRole
<1>4. PICK x \in j.add :
        /\ userRoles' = userRoles \cup {[n |-> j.n, user |-> j.user, role |-> x[1], nth |-> x[2]]}
        /\ Goto(p, "roles", [j EXCEPT !.add = j.add \ {x}])
  BY <1>1 DEF CreateRole
<1>5. PICK k : k = [j EXCEPT !.add = j.add \ {x}]
  OBVIOUS
<1>6. k = [n |-> j.n, user |-> j.user, email |-> j.email, roles |-> j.roles,
           drop |-> {}, add |-> j.add \ {x}]
  BY <1>2, <1>3, <1>5 DEF UserJob
<1>7. k = [n |-> j.n, user |-> j.user, email |-> j.email, roles |-> j.roles,
           drop |-> k.drop, add |-> k.add]
  BY <1>6
<1>8. started' = started /\ UNCHANGED <<users, granted>>
  BY <1>4 DEF CreateRole, Goto
<1>9. PICK row : row = [n |-> j.n, user |-> j.user, role |-> x[1], nth |-> x[2]]
  OBVIOUS
<1>10. /\ userRoles' = userRoles \cup {row} /\ row.user = j.user /\ row.role = x[1]
       /\ row.n = j.n /\ row.nth = x[2]
       /\ row = [n |-> row.n, user |-> row.user, role |-> row.role, nth |-> row.nth]
  BY <1>4, <1>9
<1>11. UserTables'
  BY <1>2, <1>8, <1>10 DEF UserInv, UserTables
<1>12. /\ RolesOf(j.user)' = RolesOf(j.user) \cup {x[1]}
       /\ RoleRows(j.user)' = RoleRows(j.user) \cup {row}
       /\ \A v : v # j.user => RoleRows(v)' = RoleRows(v)
  BY <1>10 DEF RolesOf, RoleRows
<1>13. ASSUME ~contended PROVE RolesToDo(k)' /\ OneSave'
  <2>1. RolesToDo(j) /\ OneSave
    BY <1>1, <1>2, <1>13 DEF UserInv, UsersQuiet
  <2>2. PICK now, mine, rest : now = RolesOf(j.user)' /\ mine = RoleRows(j.user)' /\ rest = j.add \ {x}
    OBVIOUS
  <2>3. Named(j.add) = Named(rest) \cup {x[1]}
    BY <2>2 DEF Named
  <2>4. Named(j.roles) = (now \ {}) \cup Named(rest)
    BY <1>3, <1>12, <2>1, <2>2, <2>3 DEF RolesToDo
  <2>5. \A y \in j.add, r \in RoleRows(j.user) : r.role = y[1] => r.n = j.n /\ r.nth # y[2]
    BY <2>1 DEF RolesToDo
  <2>6. ASSUME NEW y \in rest, NEW r \in mine, r.role = y[1] PROVE r.n = j.n /\ r.nth # y[2]
    <3>1. CASE r = row
      <4>1. \A z \in j.add : z \in Roles \X (1..MaxNamed)
        BY <1>2 DEF UserJob
      <4>2. x = <<x[1], x[2]>> /\ y = <<y[1], y[2]>>
        BY <2>2, <4>1
      <4> QED
        BY <1>10, <2>2, <2>6, <3>1, <4>2
    <3>2. CASE r \in RoleRows(j.user)
      BY <2>2, <2>5, <2>6, <3>2
    <3> QED
      BY <1>12, <2>2, <3>1, <3>2
  <2>7. \A r \in userRoles : r.user = row.user /\ r.role = row.role => r.n = row.n /\ r.nth # row.nth
    BY <1>10, <2>5 DEF RoleRows
  <2>8. OneSave'
    BY <1>10, <2>1, <2>7 DEF OneSave
  <2>9. k.n = j.n /\ k.user = j.user /\ k.roles = j.roles /\ k.drop = {} /\ k.add = rest
    BY <1>6, <2>2
  <2> QED
    BY <2>2, <2>4, <2>6, <2>8, <2>9 DEF RolesToDo
<1>14. Goto(p, "roles", k) /\ k.add \subseteq j.add
  BY <1>4, <1>5, <1>6
<1> QED
  BY <1>1, <1>2, <1>7, <1>8, <1>11, <1>12, <1>13, <1>14, RolesStep

LEMMA UserSavedStep ==
  ASSUME UserInv, NEW p \in Procs, UserSaved(p)
  PROVE  UserInv'
<1>1. PICK j : j = job[p]
  OBVIOUS
<1>2. PICK u : u = j.user
  OBVIOUS
<1>3. phase[p] = "roles" /\ phase[p] \in Editing /\ j.drop = {} /\ j.add = {}
  BY <1>1 DEF UserSaved, Editing
<1>4. UserJob(j) /\ u \in Serials
  BY <1>1, <1>2, <1>3, UserJobIs
<1>5. PICK k : k = NoJob
  OBVIOUS
<1>6. /\ granted' = [granted EXCEPT ![u] = Named(j.roles)]
      /\ Goto(p, "idle", k) /\ UNCHANGED <<users, userRoles>>
  BY <1>1, <1>2, <1>5 DEF UserSaved, Finish
<1>7. /\ UserMoves(p, "idle", k) /\ started' \in started..MaxRequests /\ contended' = contended
      /\ started' = started /\ contended' \in BOOLEAN
  BY <1>6, UserGoto DEF UserPhases
<1>8. UserTables' /\ OneAddress'
  BY <1>6, <1>7, UserTablesGrow
<1>9. /\ granted'[u] = Named(j.roles) /\ \A v \in Serials : v # u => granted'[v] = granted[v]
      /\ users' = [v \in Serials |-> users'[v]] /\ granted' = [v \in Serials |-> granted'[v]]
  BY <1>4, <1>6 DEF UserInv, UserShape
<1>10. \A v : RoleRows(v)' = RoleRows(v) /\ RolesOf(v)' = RolesOf(v)
  BY <1>6 DEF RolesOf, RoleRows
<1>11. ASSUME ~contended'
       PROVE  UserTouch(p, u) /\ OneSave' /\ RolesOf(u)' = granted'[u]
  <2>1. UsersQuiet
    BY <1>7, <1>11 DEF UserInv
  <2>2. RolesToDo(j)
    BY <1>1, <1>3, <2>1 DEF UsersQuiet
  <2>3. RolesOf(u) = Named(j.roles)
    BY <1>2, <1>3, <2>2 DEF RolesToDo, Named
  <2>4. OneSave'
    BY <1>6, <2>1 DEF UsersQuiet, OneSave
  <2> QED
    BY <1>1, <1>2, <1>3, <1>9, <1>10, <2>3, <2>4 DEF UserTouch
<1>12. "idle" \notin Editing
  BY DEF Editing
<1> QED
  BY <1>4, <1>7, <1>8, <1>9, <1>11, <1>12, UserStep

LEMMA FailUserStep ==
  ASSUME UserInv, NEW p \in Procs, FailUser(p)
  PROVE  UserInv'
<1>1. PICK u : u = job[p].user
  OBVIOUS
<1>2. phase[p] \in Editing
  BY DEF FailUser, Fail, UserInv, UserShape, UserPhases, Editing
<1>3. u \in Serials
  BY <1>1, <1>2, UserJobIs
<1>4. PICK k : k = NoJob
  OBVIOUS
<1>5. /\ phase' = [phase EXCEPT ![p] = "idle"] /\ job' = [job EXCEPT ![p] = k]
      /\ UNCHANGED <<users, userRoles, granted, started, contended>>
  BY <1>4 DEF FailUser, Fail, userVars
<1>6. /\ UserMoves(p, "idle", k) /\ started' \in started..MaxRequests /\ contended' \in BOOLEAN
  BY <1>5 DEF UserMoves, UserPhases, UserInv, UserShape
<1>7. UserTables' /\ OneAddress'
  BY <1>5, <1>6, UserTablesGrow
<1>8. \A v : RoleRows(v)' = RoleRows(v) /\ RolesOf(v)' = RolesOf(v)
  BY <1>5 DEF RolesOf, RoleRows
<1>9. ASSUME ~contended'
      PROVE  /\ UserTouch(p, u) /\ OneSave' /\ ~contended
             /\ granted'[u] # NoUser => RolesOf(u)' = granted'[u]
  <2>1. UsersQuiet
    BY <1>5, <1>9 DEF UserInv
  <2> QED
    BY <1>3, <1>5, <1>8, <1>9, <2>1 DEF UserTouch, UsersQuiet, OneSave
<1>10. /\ users' = [v \in Serials |-> users'[v]] /\ granted' = [v \in Serials |-> granted'[v]]
  BY <1>5 DEF UserInv, UserShape
<1>11. "idle" \notin Editing
  BY DEF Editing
<1> QED
  BY <1>3, <1>6, <1>7, <1>9, <1>10, <1>11, UserStep

----------------------------------------------------------------------------

LEMMA UsersStart ==
  SlotsInit /\ UsersInit => UserInv
<1> SUFFICES ASSUME SlotsInit, UsersInit PROVE UserInv
  OBVIOUS
<1>1. UserShape
  <2>1. started \in 0..MaxRequests
    BY RequestBounds DEF SlotsInit
  <2>2. phase \in [Procs -> UserPhases] /\ job = [p \in Procs |-> job[p]] /\ contended \in BOOLEAN
    BY DEF SlotsInit, UserPhases
  <2>3. users = [u \in Serials |-> users[u]] /\ granted = [u \in Serials |-> granted[u]]
    BY DEF UsersInit
  <2> QED
    BY <2>1, <2>2, <2>3 DEF UserShape
<1>2. UserTables /\ OneAddress
  BY DEF UsersInit, UserTables, OneAddress
<1>3. \A p \in Procs : phase[p] = "idle"
  BY DEF SlotsInit
<1> QED
  BY <1>1, <1>2, <1>3 DEF UserInv, UsersQuiet, UsersInit, Editing, OneSave

LEMMA UsersStep ==
  UserInv /\ [UsersNext]_<<slotVars, userVars>> => UserInv'
<1> SUFFICES ASSUME UserInv, [UsersNext]_<<slotVars, userVars>> PROVE UserInv'
  OBVIOUS
<1>1. CASE UNCHANGED <<slotVars, userVars>>
  <2>1. UserShape' /\ UserTables' /\ OneAddress'
    BY <1>1 DEF UserInv, slotVars, userVars, UserShape, UserTables, OneAddress
  <2>2. \A p \in Procs : phase'[p] \in Editing => UserJob(job[p])'
    BY <1>1 DEF UserInv, slotVars, userVars, UserJob
  <2>3. UsersQuiet => UsersQuiet'
    BY <1>1 DEF slotVars, userVars, UsersQuiet, RolesToDo, RolesOf, RoleRows, Named, OneSave
  <2> QED
    BY <1>1, <2>1, <2>2, <2>3 DEF UserInv, slotVars
<1>2. CASE UsersNext
  BY <1>2, BeginUserStep, PreviousRolesStep, SaveUserStep, DeleteRoleStep, CreateRoleStep,
     UserSavedStep, FailUserStep DEF UsersNext
<1> QED
  BY <1>1, <1>2

LEMMA UsersClaims ==
  UserInv => RolesAsAsked
BY DEF UserInv, UsersQuiet, OneAddress, OneSave, RolesAsAsked

----------------------------------------------------------------------------
(* Spares, their documents and their transactions *)

StockPhases == {"idle", "header", "old", "rows", "rows_gone", "spare"}
StockSaving == {"header", "old", "rows"}
StockHolding == {"header", "old", "rows", "rows_gone"}

StockShape ==
    /\ contended \in BOOLEAN
    /\ phase \in [Procs -> StockPhases]
    /\ job = [p \in Procs |-> job[p]]
    /\ operations = [d \in Serials |-> operations[d]]
    /\ current = [d \in Serials |-> current[d]]
    /\ asked = [d \in Serials |-> asked[d]]

\* Two requests that hold one document both delete it.
StockApart ==
    \A p, q \in Procs :
        p # q /\ phase[p] \in StockHolding /\ phase[q] \in StockHolding /\ job[p].target = job[q].target
            => phase[p] = "rows_gone" /\ phase[q] = "rows_gone"

\* Rows of a spare in a document are of one request, for different lines of it; those
\* of a part are the first of each.
SpareRow(r) ==
    /\ r = [id |-> r.id, doc |-> r.doc, item |-> r.item, amount |-> r.amount]
    /\ r.doc \in Serials
StockRows ==
    /\ \A r \in transactions : SpareRow(r)
    /\ \A r, q \in transactions : r.doc = q.doc /\ r.item = q.item =>
          r.id[1] = q.id[1] /\ (r.id[3] = q.id[3] => r = q)
    /\ \A r \in transactions : operations[r.doc] # "operation" => r.id[3] = 1 /\ r.amount = NoSpare

\* The rows of a spare are the lines of the form for it but those in add, or have the
\* amount of the first of them.
There(lines, s) == {r \in lines : r.item = s}
Made(form, add, lines, s) == {AsLine(r) : r \in There(lines, s)} = There(form, s) \ add
AsFirst(form, lines, s) == \A r \in There(lines, s) : r.amount = First(form, s).amount

StockDone(d) ==
    /\ Items(RowsOf(transactions, d)) = Items(asked[d])
    /\ \A s \in Items(asked[d]) : \/ Made(asked[d], {}, RowsOf(transactions, d), s)
                                 \/ AsFirst(asked[d], RowsOf(transactions, d), s)
    /\ operations[d] = "part" => current[d] \in Items(RowsOf(transactions, d))

\* What a save was asked.
SpareForm(form, kind) ==
    /\ \A l \in form : l = [item |-> l.item, amount |-> l.amount, nth |-> l.nth]
    /\ \A l, m \in form : l.item = m.item /\ l.nth = m.nth => l = m
    /\ \A l \in form : \E m \in form : m.item = l.item /\ m.nth = 1
    /\ kind = "part" => \A l \in form : l.nth = 1 /\ l.amount = NoSpare

\* What a save has still to do of the rows its document has.
ItemToDo(form, add, keep, lines, s) ==
    \/ s \in Items(keep)
    \/ Made(form, add, lines, s)
    \/ s \notin Items(add) /\ AsFirst(form, lines, s)
StockToDo(form, drop, add, keep, n, lines) ==
    /\ \A r \in lines : r.item \in Items(form) \/ r.item \in Items(drop)
    /\ \A r \in drop : r.item \notin Items(form)
    /\ \A r \in keep : r.item \in Items(form)
    /\ add \subseteq form
    /\ \A l \in add, r \in keep : l.item # r.item
    /\ \A l \in add, r \in lines : r.item = l.item => r.id[1] = n
    /\ \A s \in Items(form) : s \in Items(lines) \/ s \in Items(add)
    /\ \A s \in Items(form) : ItemToDo(form, add, keep, lines, s)

HeaderWritten(j) ==
    /\ asked[j.target] = NoSpare
    /\ operations[j.target] = j.kind
    /\ current[j.target] = j.spare

StockSave(ph, j) ==
    /\ j.target \in Serials
    /\ j = [n |-> j.n, target |-> j.target, kind |-> j.kind, spare |-> j.spare,
            form |-> j.form, drop |-> j.drop, add |-> j.add, keep |-> j.keep]
    /\ j.kind \in {"operation", "part"}
    /\ j.kind = "part" => j.spare \in Items(j.form)
    /\ SpareForm(j.form, j.kind)
    /\ ph = "header" => \/ operations[j.target] = j.kind
                        \/ j.target = j.n /\ operations[j.target] = "none"
    /\ ph # "header" => HeaderWritten(j)
    /\ ph = "rows" => StockToDo(j.form, j.drop, j.add, j.keep, j.n, RowsOf(transactions, j.target))

StockQuiet ==
    /\ StockApart
    /\ StockRows
    /\ \A d \in Serials : operations[d] # "none" /\ asked[d] # NoSpare => StockDone(d)
    /\ \A p \in Procs : phase[p] \in StockSaving => StockSave(phase[p], job[p])

StockInv == StockShape /\ (~contended => StockQuiet)

\* A step of a request that holds d leaves the other documents as they are.
StockTouch(d) ==
    /\ \A e \in Serials :
          e # d => operations'[e] = operations[e] /\ current'[e] = current[e] /\ asked'[e] = asked[e]
    /\ \A r : r.doc # d => (r \in transactions' <=> r \in transactions)

LEMMA StockClaims == StockInv => StockAsAsked
<1> SUFFICES ASSUME StockInv, ~contended, NEW d \in Serials, operations[d] # "none", asked[d] # NoSpare,
                    NEW lines, lines = RowsOf(transactions, d)
             PROVE  /\ Items(lines) = Items(asked[d])
                    /\ \A s \in Items(lines) :
                          \/ {AsLine(r) : r \in {x \in lines : x.item = s}} = {l \in asked[d] : l.item = s}
                          \/ \A r \in {x \in lines : x.item = s} : r.amount = First(asked[d], s).amount
                    /\ \A r, q \in lines : r.item = q.item =>
                          r.id[1] = q.id[1] /\ (r.id[3] = q.id[3] => r = q)
                    /\ operations[d] = "part" =>
                          current[d] \in Items(lines) /\ \A r \in lines : r.id[3] = 1
  BY DEF StockAsAsked
<1>1. StockRows /\ StockDone(d)
  BY DEF StockInv, StockQuiet
<1>2. \A r \in lines : r \in transactions /\ r.doc = d
  BY DEF RowsOf
<1>3. \A r, q \in lines : r.item = q.item => r.id[1] = q.id[1] /\ (r.id[3] = q.id[3] => r = q)
  BY <1>1, <1>2 DEF StockRows
<1>4. operations[d] = "part" => \A r \in lines : r.id[3] = 1
  BY <1>1, <1>2 DEF StockRows
<1>5. PICK form : form = asked[d]
  OBVIOUS
<1>6. \A s \in Items(form) : Made(form, {}, lines, s) \/ AsFirst(form, lines, s)
  BY <1>1, <1>5 DEF StockDone
<1>7. ASSUME NEW s \in Items(form)
      PROVE  \/ {AsLine(r) : r \in {x \in lines : x.item = s}} = {l \in form : l.item = s}
             \/ \A r \in {x \in lines : x.item = s} : r.amount = First(form, s).amount
  <2>1. There(form, s) \ {} = There(form, s)
    OBVIOUS
  <2> QED
    BY <1>6, <2>1 DEF Made, AsFirst, There
<1>8. Items(lines) = Items(form) /\ (operations[d] = "part" => current[d] \in Items(lines))
  BY <1>1, <1>5 DEF StockDone
<1> QED
  BY <1>3, <1>4, <1>5, <1>7, <1>8

----------------------------------------------------------------------------

LEMMA StockRowsKept ==
  ASSUME NEW d, NEW e \in Serials, d # e, StockTouch(d)
  PROVE  RowsOf(transactions, e)' = RowsOf(transactions, e)
<1>1. \A r : r.doc # d => (r \in transactions' <=> r \in transactions)
  BY DEF StockTouch
<1>2. \A r \in transactions' : r.doc = e => r \in transactions
  BY <1>1
<1>3. \A r \in transactions : r.doc = e => r \in transactions'
  BY <1>1
<1> QED
  BY <1>2, <1>3 DEF RowsOf

LEMMA StockDoneKept ==
  ASSUME NEW d, NEW e \in Serials, d # e, StockTouch(d), StockDone(e)
  PROVE  StockDone(e)'
<1>1. RowsOf(transactions, e)' = RowsOf(transactions, e)
  BY StockRowsKept
<1>2. operations'[e] = operations[e] /\ current'[e] = current[e] /\ asked'[e] = asked[e]
  BY DEF StockTouch
<1> QED
  BY <1>1, <1>2 DEF StockDone

LEMMA StockSaveKept ==
  ASSUME NEW d, NEW ph, NEW j, j.target # d, StockTouch(d), StockSave(ph, j)
  PROVE  StockSave(ph, j)'
<1>1. PICK e : e = j.target
  OBVIOUS
<1>2. e \in Serials /\ e # d
  BY <1>1 DEF StockSave
<1>3. operations'[e] = operations[e] /\ current'[e] = current[e] /\ asked'[e] = asked[e]
  BY <1>2 DEF StockTouch
<1>4. RowsOf(transactions, e)' = RowsOf(transactions, e)
  BY <1>2, StockRowsKept
<1>5. HeaderWritten(j) => HeaderWritten(j)'
  BY <1>1, <1>3 DEF HeaderWritten
<1>6. ph = "rows" => StockToDo(j.form, j.drop, j.add, j.keep, j.n, RowsOf(transactions, e)')
  BY <1>1, <1>4 DEF StockSave
<1>7. ph # "header" => HeaderWritten(j)'
  BY <1>5 DEF StockSave
<1>8. operations'[j.target] = operations[j.target]
  BY <1>1, <1>3
<1> QED
  BY <1>1, <1>6, <1>7, <1>8 DEF StockSave

\* What a step of request p that holds d, and goes to phase ph with k, must show.
StockMoves(p, ph, k, d) ==
    /\ StockTouch(d)
    /\ ph \in StockHolding => k.target = d
    /\ \A q \in Procs : q # p /\ phase[q] \in StockHolding /\ job[q].target = d =>
          phase[q] = "rows_gone" /\ ph \notin StockSaving
    /\ StockRows'
    /\ d \in Serials /\ operations'[d] # "none" /\ asked'[d] # NoSpare => StockDone(d)'
    /\ ph \in StockSaving => StockSave(ph, k)'

LEMMA StockStep ==
  ASSUME StockInv, NEW p \in Procs, NEW ph \in StockPhases, NEW k, NEW d,
         phase' = [phase EXCEPT ![p] = ph], job' = [job EXCEPT ![p] = k],
         StockShape', ~contended' => ~contended /\ StockMoves(p, ph, k, d)
  PROVE  StockInv'
<1> SUFFICES ASSUME ~contended' PROVE StockQuiet'
  BY DEF StockInv
<1>1. StockQuiet /\ StockShape
  BY DEF StockInv
<1>2. StockMoves(p, ph, k, d)
  OBVIOUS
<1>3. /\ phase'[p] = ph /\ job'[p] = k
      /\ \A q \in Procs : q # p => phase'[q] = phase[q] /\ job'[q] = job[q]
  BY <1>1 DEF StockShape
<1>4. \A x \in StockSaving : x \in StockHolding /\ x # "rows_gone"
  BY DEF StockSaving, StockHolding
<1>5. \A q \in Procs : q # p /\ phase'[q] \in StockHolding /\ ph \in StockHolding /\ job'[q].target = k.target
         => phase'[q] = "rows_gone" /\ ph = "rows_gone"
  <2>1. ph \in StockHolding /\ ph \notin StockSaving => ph = "rows_gone"
    BY DEF StockSaving, StockHolding
  <2> QED
    BY <1>2, <1>3, <2>1 DEF StockMoves
<1>6. StockApart'
  <2> SUFFICES ASSUME NEW x \in Procs, NEW y \in Procs, x # y, phase'[x] \in StockHolding,
                      phase'[y] \in StockHolding, job'[x].target = job'[y].target
               PROVE  phase'[x] = "rows_gone" /\ phase'[y] = "rows_gone"
    BY DEF StockApart
  <2>1. CASE x = p
    BY <1>3, <1>5, <2>1
  <2>2. CASE y = p
    BY <1>3, <1>5, <2>2
  <2>3. CASE x # p /\ y # p
    BY <1>1, <1>3, <2>3 DEF StockQuiet, StockApart
  <2> QED
    BY <2>1, <2>2, <2>3
<1>7. ASSUME NEW e \in Serials, operations'[e] # "none", asked'[e] # NoSpare PROVE StockDone(e)'
  <2>1. CASE e = d
    BY <1>2, <1>7, <2>1 DEF StockMoves
  <2>2. CASE e # d
    <3>1. operations[e] # "none" /\ asked[e] # NoSpare /\ StockTouch(d)
      BY <1>2, <1>7, <2>2 DEF StockMoves, StockTouch
    <3>2. StockDone(e)
      BY <1>1, <3>1 DEF StockQuiet
    <3> QED
      BY <2>2, <3>1, <3>2, StockDoneKept
  <2> QED
    BY <2>1, <2>2
<1>8. ASSUME NEW q \in Procs, phase'[q] \in StockSaving PROVE StockSave(phase[q], job[q])'
  <2>1. PICK f, j : f = phase'[q] /\ j = job'[q]
    OBVIOUS
  <2>2. StockSave(f, j)'
    <3>1. CASE q = p
      BY <1>2, <1>3, <1>8, <2>1, <3>1 DEF StockMoves
    <3>2. CASE q # p
      <4>1. f = phase[q] /\ j = job[q] /\ f \in StockSaving
        BY <1>3, <1>8, <2>1, <3>2
      <4>2. StockSave(f, j)
        BY <1>1, <4>1 DEF StockQuiet
      <4>3. j.target # d /\ StockTouch(d)
        BY <1>2, <1>4, <3>2, <4>1 DEF StockMoves
      <4> QED
        BY <4>2, <4>3, StockSaveKept
    <3> QED
      BY <3>1, <3>2
  <2> QED
    BY <2>1, <2>2
<1> QED
  BY <1>2, <1>6, <1>7, <1>8 DEF StockQuiet, StockMoves

----------------------------------------------------------------------------

\* A step that leaves the three tables of documents functions leaves the shape.
LEMMA StockGoto ==
  ASSUME StockInv, NEW p \in Procs, NEW ph \in StockPhases, NEW k, Goto(p, ph, k),
         operations' = [d \in Serials |-> operations'[d]],
         current' = [d \in Serials |-> current'[d]],
         asked' = [d \in Serials |-> asked'[d]]
  PROVE  /\ phase' = [phase EXCEPT ![p] = ph] /\ job' = [job EXCEPT ![p] = k]
         /\ contended' = contended /\ StockShape'
<1>1. /\ phase' = [phase EXCEPT ![p] = ph] /\ job' = [job EXCEPT ![p] = k]
      /\ contended' = contended
  BY DEF Goto
<1>2. phase' \in [Procs -> StockPhases] /\ job' = [q \in Procs |-> job'[q]]
  BY <1>1 DEF StockInv, StockShape
<1>3. contended' \in BOOLEAN
  BY <1>1 DEF StockInv, StockShape
<1> QED
  BY <1>1, <1>2, <1>3 DEF StockShape

\* A request that begins under no rivals.
LEMMA StockStart ==
  ASSUME StockInv, NEW p \in Procs, NEW ph \in StockPhases, NEW k, NEW rivals,
         Start(p, ph, k, rivals),
         operations' = [d \in Serials |-> operations'[d]],
         current' = [d \in Serials |-> current'[d]],
         asked' = [d \in Serials |-> asked'[d]]
  PROVE  /\ phase' = [phase EXCEPT ![p] = ph] /\ job' = [job EXCEPT ![p] = k]
         /\ StockShape' /\ (~contended' => ~contended /\ rivals = {})
<1>1. /\ phase' = [phase EXCEPT ![p] = ph] /\ job' = [job EXCEPT ![p] = k]
      /\ contended' = (contended \/ rivals # {})
  BY DEF Start
<1>2. phase' \in [Procs -> StockPhases] /\ job' = [q \in Procs |-> job'[q]]
  BY <1>1 DEF StockInv, StockShape
<1>3. contended' \in BOOLEAN /\ (~contended' => ~contended /\ rivals = {})
  BY <1>1
<1> QED
  BY <1>1, <1>2, <1>3 DEF StockShape

\* What a save holds, in the form the lemmas above ask for.
LEMMA StockJobIs ==
  ASSUME StockInv, ~contended, NEW p \in Procs, phase[p] \in StockSaving, NEW j, j = job[p]
  PROVE  /\ StockQuiet /\ StockSave(phase[p], j)
         /\ \A q \in Procs : q # p => ~(phase[q] \in StockHolding /\ job[q].target = j.target)
<1>1. StockQuiet
  BY DEF StockInv
<1>2. StockSave(phase[p], j)
  BY <1>1 DEF StockQuiet
<1>3. phase[p] \in StockHolding /\ phase[p] # "rows_gone"
  BY DEF StockSaving, StockHolding
<1>4. \A q \in Procs : q # p => ~(phase[q] \in StockHolding /\ job[q].target = j.target)
  BY <1>1, <1>3 DEF StockQuiet, StockApart
<1> QED
  BY <1>1, <1>2, <1>4

LEMMA StockTouchNone ==
  ASSUME UNCHANGED stockVars, NEW d
  PROVE  /\ StockTouch(d)
         /\ \A e \in Serials : operations'[e] = operations[e] /\ current'[e] = current[e]
                               /\ asked'[e] = asked[e]
         /\ (StockRows => StockRows')
         /\ \A e : StockDone(e) => StockDone(e)'
<1>1. UNCHANGED <<operations, current, asked, transactions>>
  BY DEF stockVars
<1>2. StockTouch(d)
  BY <1>1 DEF StockTouch
<1>3. StockRows => StockRows'
  BY <1>1 DEF StockRows, SpareRow
<1>4. \A e : StockDone(e) => StockDone(e)'
  BY <1>1 DEF StockDone, RowsOf
<1> QED
  BY <1>1, <1>2, <1>3, <1>4

\* A step of a request that holds no document afterwards, nor changes any.
LEMMA StockIdle ==
  ASSUME StockInv, NEW p \in Procs, NEW ph \in {"idle", "spare"}, NEW k,
         phase' = [phase EXCEPT ![p] = ph], job' = [job EXCEPT ![p] = k],
         StockShape', ~contended' => ~contended,
         UNCHANGED <<operations, current, transactions, asked>>
  PROVE  StockInv'
<1>1. ASSUME ~contended' PROVE StockMoves(p, ph, k, 0)
  <2>1. StockQuiet
    BY <1>1 DEF StockInv
  <2>2. ph \notin StockHolding /\ ph \notin StockSaving /\ 0 \notin Serials
    BY DEF StockHolding, StockSaving, Serials
  <2>3. StockTouch(0)
    BY DEF StockTouch
  <2>4. StockRows'
    BY <2>1 DEF StockQuiet, StockRows, SpareRow
  <2>5. ASSUME NEW q \in Procs, phase[q] \in StockHolding, job[q].target = 0
        PROVE  phase[q] = "rows_gone"
    <3>1. phase[q] \in StockSaving \/ phase[q] = "rows_gone"
      BY <2>5 DEF StockSaving, StockHolding
    <3>2. phase[q] \in StockSaving => StockSave(phase[q], job[q])
      BY <2>1 DEF StockQuiet
    <3> QED
      BY <2>2, <2>5, <3>1, <3>2 DEF StockSave
  <2> QED
    BY <2>2, <2>3, <2>4, <2>5 DEF StockMoves
<1>2. ph \in StockPhases
  BY DEF StockPhases
<1> QED
  BY <1>1, <1>2, StockStep

LEMMA FailStockStep ==
  ASSUME StockInv, NEW p \in Procs, FailStock(p)
  PROVE  StockInv'
<1>1. PICK k : k = NoJob
  OBVIOUS
<1>2. /\ phase' = [phase EXCEPT ![p] = "idle"] /\ job' = [job EXCEPT ![p] = k]
      /\ contended' = contended /\ UNCHANGED <<operations, current, transactions, asked>>
  BY <1>1 DEF FailStock, Fail, stockVars
<1>3. phase' \in [Procs -> StockPhases] /\ job' = [q \in Procs |-> job'[q]]
  BY <1>2 DEF StockInv, StockShape, StockPhases
<1>4. StockShape'
  BY <1>2, <1>3 DEF StockInv, StockShape
<1> QED
  BY <1>2, <1>4, StockIdle

LEMMA DeleteSpareStep ==
  ASSUME StockInv, NEW p \in Procs, DeleteSpare(p)
  PROVE  StockInv'
<1>1. PICK k : k = NoJob
  OBVIOUS
<1>2. Goto(p, "idle", k) /\ UNCHANGED <<operations, current, transactions, asked>>
  BY <1>1 DEF DeleteSpare, Finish
<1>3. "idle" \in StockPhases
  BY DEF StockPhases
<1>4. /\ operations' = [d \in Serials |-> operations'[d]]
      /\ current' = [d \in Serials |-> current'[d]]
      /\ asked' = [d \in Serials |-> asked'[d]]
  BY <1>2 DEF StockInv, StockShape
<1>5. /\ phase' = [phase EXCEPT ![p] = "idle"] /\ job' = [job EXCEPT ![p] = k]
      /\ contended' = contended /\ StockShape'
  BY <1>2, <1>3, <1>4, StockGoto
<1> QED
  BY <1>2, <1>5, StockIdle

LEMMA BeginDeleteSpareStep ==
  ASSUME StockInv, NEW p \in Procs, NEW s \in Spares, BeginDeleteSpare(p, s)
  PROVE  StockInv'
<1>1. PICK k : k = [n |-> NextSerial, target |-> s]
  OBVIOUS
<1>2. PICK none : none = {}
  OBVIOUS
<1>3. Start(p, "spare", k, none) /\ UNCHANGED <<operations, current, transactions, asked>>
  BY <1>1, <1>2 DEF BeginDeleteSpare, stockVars
<1>4. "spare" \in StockPhases
  BY DEF StockPhases
<1>5. /\ operations' = [d \in Serials |-> operations'[d]]
      /\ current' = [d \in Serials |-> current'[d]]
      /\ asked' = [d \in Serials |-> asked'[d]]
  BY <1>3 DEF StockInv, StockShape
<1>6. /\ phase' = [phase EXCEPT ![p] = "spare"] /\ job' = [job EXCEPT ![p] = k]
      /\ StockShape' /\ (~contended' => ~contended)
  BY <1>3, <1>4, <1>5, StockStart
<1> QED
  BY <1>3, <1>6, StockIdle

----------------------------------------------------------------------------

LEMMA SpareFormsAre ==
  ASSUME NEW kind, NEW form \in SpareForms(kind)
  PROVE  SpareForm(form, kind)
<1>1. CASE kind = "part"
  <2>1. PICK S \in SUBSET Spares : form = {[item |-> s, amount |-> NoSpare, nth |-> 1] : s \in S}
    BY <1>1 DEF SpareForms, PartForms
  <2>2. \A l \in form : \E s \in S : l = [item |-> s, amount |-> NoSpare, nth |-> 1]
    BY <2>1
  <2>3. \A l \in form : l = [item |-> l.item, amount |-> NoSpare, nth |-> 1]
    BY <2>2
  <2>4. \A l \in form : l.amount = NoSpare /\ l.nth = 1
    BY <2>2
  <2>5. \A l \in form : l = [item |-> l.item, amount |-> l.amount, nth |-> l.nth]
    BY <2>3, <2>4
  <2>6. \A l, m \in form : l.item = m.item => l = m
    BY <2>3
  <2> QED
    BY <2>4, <2>5, <2>6 DEF SpareForm
<1>2. CASE kind # "part"
  <2>1. form \in OperationForms
    BY <1>2 DEF SpareForms
  <2>2. /\ form \subseteq [item : Spares, amount : Quantities, nth : 1..MaxLines]
        /\ \A l, m \in form : l.item = m.item /\ l.nth = m.nth => l = m
        /\ \A l \in form : \A k \in 1..l.nth : \E m \in form : m.item = l.item /\ m.nth = k
    BY <2>1 DEF OperationForms
  <2>3. \A l \in form : /\ l = [item |-> l.item, amount |-> l.amount, nth |-> l.nth]
                        /\ l.nth \in 1..MaxLines
    BY <2>2
  <2>4. \A l \in form : 1 \in 1..l.nth
    BY <2>3
  <2>5. \A l \in form : \E m \in form : m.item = l.item /\ m.nth = 1
    BY <2>2, <2>4
  <2> QED
    BY <1>2, <2>2, <2>3, <2>5 DEF SpareForm
<1> QED
  BY <1>1, <1>2

LEMMA FirstIs ==
  ASSUME NEW form, NEW kind, SpareForm(form, kind), NEW s \in Items(form)
  PROVE  First(form, s) \in form /\ First(form, s).item = s
<1>1. PICK l \in form : l.item = s
  BY DEF Items
<1>2. \E m \in form : m.item = s /\ m.nth = 1
  BY <1>1 DEF SpareForm
<1> QED
  BY <1>2 DEF First

LEMMA BeginStockStep ==
  ASSUME StockInv, NEW p \in Procs, NEW d \in Serials, NEW kind \in {"operation", "part"},
         NEW spare, BeginStock(p, d, kind, spare)
  PROVE  StockInv'
<1>1. PICK form \in SpareForms(kind) :
         /\ IF kind = "part" THEN spare \in Items(form) ELSE spare = NoSpare
         /\ Start(p, "header", [n |-> NextSerial, target |-> d, kind |-> kind, spare |-> spare,
                                form |-> form, drop |-> {}, add |-> {}, keep |-> {}],
                  SavesOfStock(d) \cup DeletesOfStock(d))
  BY DEF BeginStock
<1>3. PICK n : n = NextSerial
  OBVIOUS
<1>4. PICK k : k = [n |-> n, target |-> d, kind |-> kind, spare |-> spare,
                    form |-> form, drop |-> {}, add |-> {}, keep |-> {}]
  OBVIOUS
<1>5. PICK rivals : rivals = SavesOfStock(d) \cup DeletesOfStock(d)
  OBVIOUS
<1>6. Start(p, "header", k, rivals)
  BY <1>1, <1>3, <1>4, <1>5
<1>7. UNCHANGED <<operations, current, transactions, asked>> /\ UNCHANGED stockVars
  BY DEF BeginStock, stockVars
<1>8. "header" \in StockPhases
  BY DEF StockPhases
<1>9. /\ operations' = [x \in Serials |-> operations'[x]]
      /\ current' = [x \in Serials |-> current'[x]]
      /\ asked' = [x \in Serials |-> asked'[x]]
  BY <1>7 DEF StockInv, StockShape
<1>10. /\ phase' = [phase EXCEPT ![p] = "header"] /\ job' = [job EXCEPT ![p] = k]
       /\ StockShape' /\ (~contended' => ~contended /\ rivals = {})
  BY <1>6, <1>8, <1>9, StockStart
<1>11. SpareForm(form, kind)
  BY SpareFormsAre
<1>13. operations'[d] = kind \/ (d = n /\ operations'[d] = "none")
  BY <1>3, <1>7 DEF BeginStock
<1>14. StockSave("header", k)'
  <2>1. kind = "part" => spare \in Items(form)
    BY <1>1
  <2>2. k = [n |-> k.n, target |-> k.target, kind |-> k.kind, spare |-> k.spare,
             form |-> k.form, drop |-> k.drop, add |-> k.add, keep |-> k.keep]
    BY <1>4
  <2>3. k.n = n /\ k.target = d /\ k.kind = kind /\ k.spare = spare /\ k.form = form
    BY <1>4
  <2> QED
    BY <1>11, <1>13, <2>1, <2>2, <2>3 DEF StockSave
<1>15. ASSUME ~contended' PROVE StockMoves(p, "header", k, d)
  <2>1. StockQuiet /\ rivals = {}
    BY <1>10, <1>15 DEF StockInv
  <2>2. \A q \in Procs : ~(phase[q] \in StockHolding /\ job[q].target = d)
    BY <1>5, <2>1 DEF SavesOfStock, DeletesOfStock, InFlight, StockHolding
  <2>3. StockTouch(d) /\ StockRows'
    BY <1>7, <2>1, StockTouchNone DEF StockQuiet
  <2>4. operations'[d] # "none" /\ asked'[d] # NoSpare => StockDone(d)'
    BY <1>7, <2>1, StockTouchNone DEF StockQuiet
  <2>5. k.target = d
    BY <1>4
  <2> QED
    BY <1>14, <2>2, <2>3, <2>4, <2>5 DEF StockMoves
<1> QED
  BY <1>8, <1>10, <1>15, StockStep

LEMMA StockHeaderStep ==
  ASSUME StockInv, NEW p \in Procs, StockHeader(p)
  PROVE  StockInv'
<1>1. PICK j : j = job[p]
  OBVIOUS
<1>2. PICK d : d = IF operations[j.target] = "none" THEN j.n ELSE j.target
  OBVIOUS
<1>3. PICK k : k = [j EXCEPT !.target = d]
  OBVIOUS
<1>4. /\ phase[p] = "header"
      /\ operations' = [operations EXCEPT ![d] = j.kind]
      /\ current' = [current EXCEPT ![d] = j.spare]
      /\ asked' = [asked EXCEPT ![d] = NoSpare]
      /\ Goto(p, "old", k)
      /\ transactions' = transactions
  BY <1>1, <1>2, <1>3 DEF StockHeader
<1>5. /\ operations' = [x \in Serials |-> operations'[x]]
      /\ current' = [x \in Serials |-> current'[x]]
      /\ asked' = [x \in Serials |-> asked'[x]]
  BY <1>4 DEF StockInv, StockShape
<1>6. "old" \in StockPhases
  BY DEF StockPhases
<1>7. /\ phase' = [phase EXCEPT ![p] = "old"] /\ job' = [job EXCEPT ![p] = k]
      /\ contended' = contended /\ StockShape'
  BY <1>4, <1>5, <1>6, StockGoto
<1>8. ASSUME ~contended PROVE StockMoves(p, "old", k, d)
  <2>1. phase[p] \in StockSaving
    BY <1>4 DEF StockSaving
  <2>2. /\ StockQuiet /\ StockSave("header", j)
        /\ \A q \in Procs : q # p => ~(phase[q] \in StockHolding /\ job[q].target = j.target)
    BY <1>1, <1>4, <1>8, <2>1, StockJobIs
  <2>3. d = j.target /\ d \in Serials
    <3>1. operations[j.target] = "none" => j.target = j.n
      BY <2>2 DEF StockSave
    <3> QED
      BY <1>2, <2>2, <3>1 DEF StockSave
  <2>4. k = j
    BY <1>3, <2>2, <2>3 DEF StockSave
  <2>5. /\ operations'[d] = j.kind /\ current'[d] = j.spare /\ asked'[d] = NoSpare
        /\ \A e \in Serials : e # d => /\ operations'[e] = operations[e]
                                       /\ current'[e] = current[e] /\ asked'[e] = asked[e]
    BY <1>4, <2>3 DEF StockInv, StockShape
  <2>6. StockTouch(d)
    BY <1>4, <2>5 DEF StockTouch
  <2>7. StockRows'
    <3>1. StockRows
      BY <2>2 DEF StockQuiet
    <3>2. \A r \in transactions : SpareRow(r) /\ r.doc \in Serials
      BY <3>1 DEF StockRows, SpareRow
    <3>3. operations[d] = j.kind \/ operations[d] = "none"
      BY <2>2, <2>3 DEF StockSave
    <3>4. \A r \in transactions : operations'[r.doc] # "operation" => operations[r.doc] # "operation"
      BY <2>5, <3>2, <3>3
    <3> QED
      BY <1>4, <3>1, <3>2, <3>4 DEF StockRows, SpareRow
  <2>8. StockSave("old", j)'
    <3>1. HeaderWritten(j)'
      BY <2>3, <2>5 DEF HeaderWritten
    <3> QED
      BY <2>2, <3>1 DEF StockSave
  <2> QED
    BY <2>2, <2>3, <2>4, <2>5, <2>6, <2>7, <2>8 DEF StockMoves
<1> QED
  BY <1>6, <1>7, <1>8, StockStep

LEMMA StockCompared ==
  ASSUME NEW form, NEW kind \in {"operation", "part"}, SpareForm(form, kind), NEW lines, NEW n,
         kind = "part" => \A r \in lines : r.amount = NoSpare
  PROVE  StockToDo(form, {r \in lines : r.item \notin Items(form)},
                   {l \in form : l.item \notin Items(lines)},
                   {r \in lines : r.item \in Items(form) /\ kind = "operation"}, n, lines)
<1>1. PICK drop, add, keep :
        /\ drop = {r \in lines : r.item \notin Items(form)}
        /\ add = {l \in form : l.item \notin Items(lines)}
        /\ keep = {r \in lines : r.item \in Items(form) /\ kind = "operation"}
  OBVIOUS
<1>2. \A r \in lines : r.item \in Items(form) \/ r.item \in Items(drop)
  BY <1>1 DEF Items
<1>3. \A l \in add, r \in lines : l.item # r.item
  BY <1>1 DEF Items
<1>4. \A s \in Items(form) : s \in Items(lines) \/ s \in Items(add)
  BY <1>1 DEF Items
<1>5. ASSUME NEW s \in Items(form) PROVE ItemToDo(form, add, keep, lines, s)
  <2>1. CASE s \notin Items(lines)
    <3>1. There(lines, s) = {}
      BY <2>1 DEF There, Items
    <3>2. There(form, s) \ add = {}
      BY <1>1, <2>1 DEF There
    <3>3. {AsLine(r) : r \in There(lines, s)} = {}
      BY <3>1
    <3> QED
      BY <3>2, <3>3 DEF Made, ItemToDo
  <2>2. CASE s \in Items(lines) /\ kind = "operation"
    <3>1. PICK r \in lines : r.item = s
      BY <2>2 DEF Items
    <3>2. r \in keep
      BY <1>1, <2>2, <3>1
    <3> QED
      BY <3>1, <3>2 DEF ItemToDo, Items
  <2>3. CASE s \in Items(lines) /\ kind = "part"
    <3>1. s \notin Items(add)
      BY <1>1, <2>3 DEF Items
    <3>2. First(form, s) \in form
      BY FirstIs
    <3>3. First(form, s).amount = NoSpare
      BY <2>3, <3>2 DEF SpareForm
    <3>4. AsFirst(form, lines, s)
      BY <2>3, <3>3 DEF AsFirst, There
    <3> QED
      BY <3>1, <3>4 DEF ItemToDo
  <2> QED
    BY <2>1, <2>2, <2>3
<1>6. StockToDo(form, drop, add, keep, n, lines)
  BY <1>1, <1>2, <1>3, <1>4, <1>5 DEF StockToDo
<1> QED
  BY <1>1, <1>6

LEMMA StockOldStep ==
  ASSUME StockInv, NEW p \in Procs, StockOld(p)
  PROVE  StockInv'
<1>1. PICK j : j = job[p]
  OBVIOUS
<1>2. PICK d, lines : d = j.target /\ lines = RowsOf(transactions, d)
  OBVIOUS
<1>3. PICK drop, add, keep :
        /\ drop = {r \in lines : r.item \notin Items(j.form)}
        /\ add = {l \in j.form : l.item \notin Items(lines)}
        /\ keep = {r \in lines : r.item \in Items(j.form) /\ j.kind = "operation"}
  OBVIOUS
<1>4. PICK k : k = [j EXCEPT !.drop = drop, !.add = add, !.keep = keep]
  OBVIOUS
<1>5. phase[p] = "old" /\ Goto(p, "rows", k) /\ UNCHANGED stockVars
  BY <1>1, <1>2, <1>3, <1>4 DEF StockOld
<1>6. UNCHANGED <<operations, current, transactions, asked>>
  BY <1>5 DEF stockVars
<1>7. /\ operations' = [x \in Serials |-> operations'[x]]
      /\ current' = [x \in Serials |-> current'[x]]
      /\ asked' = [x \in Serials |-> asked'[x]]
  BY <1>6 DEF StockInv, StockShape
<1>8. "rows" \in StockPhases
  BY DEF StockPhases
<1>9. /\ phase' = [phase EXCEPT ![p] = "rows"] /\ job' = [job EXCEPT ![p] = k]
      /\ contended' = contended /\ StockShape'
  BY <1>5, <1>7, <1>8, StockGoto
<1>10. ASSUME ~contended PROVE StockMoves(p, "rows", k, d)
  <2>1. phase[p] \in StockSaving
    BY <1>5 DEF StockSaving
  <2>2. /\ StockQuiet /\ StockSave("old", j)
        /\ \A q \in Procs : q # p => ~(phase[q] \in StockHolding /\ job[q].target = j.target)
    BY <1>1, <1>5, <1>10, <2>1, StockJobIs
  <2>3. StockTouch(d) /\ StockRows'
    BY <1>5, <2>2, StockTouchNone DEF StockQuiet
  <2>4. d \in Serials /\ (operations'[d] # "none" /\ asked'[d] # NoSpare => StockDone(d)')
    BY <1>2, <1>5, <2>2, StockTouchNone DEF StockQuiet, StockSave
  <2>5. k = [n |-> j.n, target |-> d, kind |-> j.kind, spare |-> j.spare,
             form |-> j.form, drop |-> drop, add |-> add, keep |-> keep]
    BY <1>2, <1>4, <2>2 DEF StockSave
  <2>6. SpareForm(j.form, j.kind) /\ j.kind \in {"operation", "part"} /\ HeaderWritten(j)
    BY <2>2 DEF StockSave
  <2>7. j.kind = "part" => \A r \in lines : r.amount = NoSpare
    <3>1. operations[d] = j.kind
      BY <1>2, <2>6 DEF HeaderWritten
    <3>2. \A r \in lines : r \in transactions /\ r.doc = d
      BY <1>2 DEF RowsOf
    <3>3. StockRows
      BY <2>2 DEF StockQuiet
    <3> QED
      BY <3>1, <3>2, <3>3 DEF StockRows
  <2>8. StockToDo(j.form, drop, add, keep, j.n, lines)
    BY <1>3, <2>6, <2>7, StockCompared
  <2>9. RowsOf(transactions, d)' = lines
    BY <1>2, <1>6 DEF RowsOf
  <2>10. /\ k.n = j.n /\ k.target = d /\ k.kind = j.kind /\ k.spare = j.spare /\ k.form = j.form
         /\ k.drop = drop /\ k.add = add /\ k.keep = keep
         /\ k = [n |-> k.n, target |-> k.target, kind |-> k.kind, spare |-> k.spare,
                 form |-> k.form, drop |-> k.drop, add |-> k.add, keep |-> k.keep]
    BY <2>5
  <2>11. HeaderWritten(k)'
    BY <1>2, <1>6, <2>6, <2>10 DEF HeaderWritten
  <2>12. StockSave("rows", k)'
    BY <2>2, <2>4, <2>6, <2>8, <2>9, <2>10, <2>11 DEF StockSave
  <2> QED
    BY <1>2, <2>2, <2>3, <2>4, <2>10, <2>12 DEF StockMoves
<1> QED
  BY <1>8, <1>9, <1>10, StockStep

----------------------------------------------------------------------------

LEMMA StockRowDropped ==
  ASSUME NEW form, NEW drop, NEW add, NEW keep, NEW n, NEW lines,
         StockToDo(form, drop, add, keep, n, lines), NEW o \in drop,
         NEW later, later = {r \in lines : r.item # o.item}, NEW left, left = drop \ {o}
  PROVE  StockToDo(form, left, add, keep, n, later)
<1>1. o.item \notin Items(form)
  BY DEF StockToDo
<1>2. ASSUME NEW r \in later PROVE r.item \in Items(form) \/ r.item \in Items(left)
  <2>1. r \in lines /\ r.item # o.item
    OBVIOUS
  <2>2. r.item \in Items(form) \/ r.item \in Items(drop)
    BY <2>1 DEF StockToDo
  <2> QED
    BY <2>1, <2>2 DEF Items
<1>3. \A s \in Items(form) : There(later, s) = There(lines, s)
  BY <1>1 DEF There
<1>4. \A s \in Items(form) : s \in Items(lines) => s \in Items(later)
  BY <1>1 DEF Items
<1>5. ASSUME NEW s \in Items(form) PROVE ItemToDo(form, add, keep, later, s)
  <2>1. ItemToDo(form, add, keep, lines, s)
    BY DEF StockToDo
  <2> QED
    BY <1>3, <2>1 DEF ItemToDo, Made, AsFirst
<1>6. \A l \in add, r \in later : r.item = l.item => r.id[1] = n
  BY DEF StockToDo
<1>7. \A s \in Items(form) : s \in Items(later) \/ s \in Items(add)
  BY <1>4 DEF StockToDo
<1>8. \A r \in left : r.item \notin Items(form)
  BY DEF StockToDo
<1> QED
  BY <1>2, <1>5, <1>6, <1>7, <1>8 DEF StockToDo

LEMMA StockRowAdded ==
  ASSUME NEW form, NEW kind, SpareForm(form, kind),
         NEW drop, NEW add, NEW keep, NEW n, NEW lines,
         StockToDo(form, drop, add, keep, n, lines), NEW l \in add,
         NEW row, row.item = l.item, row.id[1] = n, AsLine(row) = l,
         NEW later, later = lines \cup {row}, NEW rest, rest = add \ {l}
  PROVE  /\ StockToDo(form, drop, rest, keep, n, later)
         /\ \A r \in lines : r.item = l.item => r.id[1] = n /\ r.id[3] # l.nth
<1>1. l \in form /\ l.item \in Items(form)
  BY DEF StockToDo, Items
<1>2. Made(form, add, lines, l.item)
  <2>1. ItemToDo(form, add, keep, lines, l.item)
    BY <1>1 DEF StockToDo
  <2>2. l.item \notin Items(keep)
    BY DEF StockToDo, Items
  <2>3. l.item \in Items(add)
    BY DEF Items
  <2> QED
    BY <2>1, <2>2, <2>3 DEF ItemToDo
<1>3. ASSUME NEW r \in lines, r.item = l.item PROVE r.id[1] = n /\ r.id[3] # l.nth
  <2>1. r.id[1] = n
    BY <1>3 DEF StockToDo
  <2>2. AsLine(r) \in There(form, l.item) \ add
    BY <1>2, <1>3 DEF Made, There
  <2>3. AsLine(r).item = l.item /\ AsLine(r).nth = r.id[3]
    BY <1>3 DEF AsLine
  <2>4. AsLine(r) \in form /\ AsLine(r) # l
    BY <2>2 DEF There
  <2>5. AsLine(r).nth # l.nth
    BY <1>1, <2>3, <2>4 DEF SpareForm
  <2> QED
    BY <2>1, <2>3, <2>5
<1>4. ASSUME NEW s \in Items(form) PROVE ItemToDo(form, rest, keep, later, s)
  <2>1. CASE s = l.item
    <3>1. There(later, s) = There(lines, s) \cup {row}
      BY <2>1 DEF There
    <3>2. {AsLine(r) : r \in There(later, s)} = {AsLine(r) : r \in There(lines, s)} \cup {l}
      BY <3>1
    <3>3. {AsLine(r) : r \in There(lines, s)} = There(form, s) \ add
      BY <1>2, <2>1 DEF Made
    <3>4. (There(form, s) \ add) \cup {l} = There(form, s) \ rest
      BY <1>1, <2>1 DEF There
    <3> QED
      BY <3>2, <3>3, <3>4 DEF ItemToDo, Made
  <2>2. CASE s # l.item
    <3>1. There(later, s) = There(lines, s)
      BY <2>2 DEF There
    <3>2. There(form, s) \ rest = There(form, s) \ add
      BY <2>2 DEF There
    <3>3. s \notin Items(add) => s \notin Items(rest)
      BY DEF Items
    <3>4. ItemToDo(form, add, keep, lines, s)
      BY DEF StockToDo
    <3> QED
      BY <3>1, <3>2, <3>3, <3>4 DEF ItemToDo, Made, AsFirst
  <2> QED
    BY <2>1, <2>2
<1>5. \A r \in later : r.item \in Items(form) \/ r.item \in Items(drop)
  BY <1>1 DEF StockToDo
<1>6. \A m \in rest, r \in later : r.item = m.item => r.id[1] = n
  BY DEF StockToDo
<1>7. ASSUME NEW s \in Items(form) PROVE s \in Items(later) \/ s \in Items(rest)
  <2>1. s \in Items(lines) \/ s \in Items(add)
    BY DEF StockToDo
  <2> QED
    BY <2>1 DEF Items
<1>8. rest \subseteq form /\ \A m \in rest, r \in keep : m.item # r.item
  BY DEF StockToDo
<1>9. StockToDo(form, drop, rest, keep, n, later)
  BY <1>4, <1>5, <1>6, <1>7, <1>8 DEF StockToDo
<1> QED
  BY <1>3, <1>9

Amended(lines, f) == {IF r.item = f.item THEN [r EXCEPT !.amount = f.amount] ELSE r : r \in lines}

LEMMA StockRowKept ==
  ASSUME NEW form, NEW kind, SpareForm(form, kind),
         NEW drop, NEW add, NEW keep, NEW n, NEW lines,
         StockToDo(form, drop, add, keep, n, lines), NEW o \in keep,
         \A r \in lines : SpareRow(r),
         NEW f, f = First(form, o.item),
         NEW later, later = Amended(lines, f),
         NEW left, left = keep \ {o}
  PROVE  StockToDo(form, drop, add, left, n, later)
<1>1. o.item \in Items(form)
  BY DEF StockToDo
<1>2. f.item = o.item
  BY <1>1, FirstIs
<1>3. \A r \in lines : r.item # o.item => r \in later
  BY <1>2 DEF Amended
<1>4. \A r \in lines : r.item = o.item => \E x \in later : x.item = o.item
  <2> TAKE r \in lines
  <2>1. HAVE r.item = o.item
  <2>2. PICK x : x = [r EXCEPT !.amount = f.amount]
    OBVIOUS
  <2>3. x \in later
    BY <1>2, <2>1, <2>2 DEF Amended
  <2>4. x.item = r.item
    BY <2>2 DEF SpareRow
  <2> QED
    BY <2>1, <2>3, <2>4
<1>5. ASSUME NEW x \in later
      PROVE  \/ x \in lines /\ x.item # o.item
             \/ x.item = o.item /\ x.amount = f.amount /\ \E r \in lines : r.item = o.item
  <2>1. PICK r \in lines : x = IF r.item = f.item THEN [r EXCEPT !.amount = f.amount] ELSE r
    BY DEF Amended
  <2>2. CASE r.item = o.item
    <3>1. x = [r EXCEPT !.amount = f.amount]
      BY <1>2, <2>1, <2>2
    <3>2. r = [id |-> r.id, doc |-> r.doc, item |-> r.item, amount |-> r.amount]
      BY DEF SpareRow
    <3>3. x.item = r.item /\ x.amount = f.amount
      BY <3>1, <3>2
    <3> QED
      BY <2>2, <3>3
  <2>3. CASE r.item # o.item
    BY <1>2, <2>1, <2>3
  <2> QED
    BY <2>2, <2>3
<1>6. \A r \in later : r.item \in Items(form) \/ r.item \in Items(drop)
  BY <1>1, <1>5 DEF StockToDo
<1>7. \A l \in add : l.item # o.item
  BY DEF StockToDo
<1>8. \A l \in add, r \in later : r.item = l.item => r.id[1] = n
  BY <1>5, <1>7 DEF StockToDo
<1>9. ASSUME NEW s \in Items(form) PROVE s \in Items(later) \/ s \in Items(add)
  <2>1. s \in Items(lines) \/ s \in Items(add)
    BY DEF StockToDo
  <2>2. s \in Items(lines) => s \in Items(later)
    <3>1. s = o.item /\ s \in Items(lines) => \E x \in later : x.item = s
      BY <1>4 DEF Items
    <3>2. s # o.item /\ s \in Items(lines) => \E x \in later : x.item = s
      BY <1>3 DEF Items
    <3> QED
      BY <3>1, <3>2 DEF Items
  <2> QED
    BY <2>1, <2>2
<1>10. ASSUME NEW s \in Items(form) PROVE ItemToDo(form, add, left, later, s)
  <2>1. CASE s = o.item
    <3>1. s \notin Items(add)
      BY <1>7, <2>1 DEF Items
    <3>2. AsFirst(form, later, s)
      BY <1>5, <2>1 DEF AsFirst, There
    <3> QED
      BY <3>1, <3>2 DEF ItemToDo
  <2>2. CASE s # o.item
    <3>1. There(later, s) = There(lines, s)
      BY <1>3, <1>5, <2>2 DEF There
    <3>2. s \in Items(keep) => s \in Items(left)
      BY <2>2 DEF Items
    <3>3. ItemToDo(form, add, keep, lines, s)
      BY DEF StockToDo
    <3> QED
      BY <3>1, <3>2, <3>3 DEF ItemToDo, Made, AsFirst
  <2> QED
    BY <2>1, <2>2
<1>11. \A r \in left : r.item \in Items(form) /\ \A l \in add : l.item # r.item
  BY DEF StockToDo
<1> QED
  BY <1>6, <1>8, <1>9, <1>10, <1>11 DEF StockToDo

\* A write of a save of d, and what it leaves the save to do.
LEMMA StockRowStep ==
  ASSUME StockInv, NEW p \in Procs, phase[p] = "rows", NEW j, j = job[p], NEW d, d = j.target,
         NEW k, Goto(p, "rows", k),
         UNCHANGED <<operations, current, asked>>,
         ~contended => /\ k = [n |-> j.n, target |-> d, kind |-> j.kind, spare |-> j.spare,
                              form |-> j.form, drop |-> k.drop, add |-> k.add, keep |-> k.keep]
                       /\ StockToDo(j.form, k.drop, k.add, k.keep, j.n, RowsOf(transactions, d)')
                       /\ StockRows'
                       /\ \A r : r.doc # d => (r \in transactions' <=> r \in transactions)
  PROVE  StockInv'
<1>1. /\ operations' = [x \in Serials |-> operations'[x]]
      /\ current' = [x \in Serials |-> current'[x]]
      /\ asked' = [x \in Serials |-> asked'[x]]
  BY DEF StockInv, StockShape
<1>2. "rows" \in StockPhases
  BY DEF StockPhases
<1>3. /\ phase' = [phase EXCEPT ![p] = "rows"] /\ job' = [job EXCEPT ![p] = k]
      /\ contended' = contended /\ StockShape'
  BY <1>1, <1>2, StockGoto
<1>4. ASSUME ~contended PROVE StockMoves(p, "rows", k, d)
  <2>1. phase[p] \in StockSaving
    BY DEF StockSaving
  <2>2. /\ StockQuiet /\ StockSave("rows", j)
        /\ \A q \in Procs : q # p => ~(phase[q] \in StockHolding /\ job[q].target = j.target)
    BY <1>4, <2>1, StockJobIs
  <2>3. StockTouch(d)
    BY <1>4 DEF StockTouch
  <2>4. /\ k.n = j.n /\ k.target = d /\ k.kind = j.kind /\ k.spare = j.spare /\ k.form = j.form
        /\ k = [n |-> k.n, target |-> k.target, kind |-> k.kind, spare |-> k.spare,
                form |-> k.form, drop |-> k.drop, add |-> k.add, keep |-> k.keep]
    BY <1>4
  <2>5. HeaderWritten(k)' /\ asked'[d] = NoSpare
    BY <2>2, <2>4 DEF StockSave, HeaderWritten
  <2>6. StockToDo(k.form, k.drop, k.add, k.keep, k.n, RowsOf(transactions, k.target)')
    BY <1>4, <2>4
  <2>7. StockSave("rows", k)'
    BY <2>2, <2>4, <2>5, <2>6 DEF StockSave
  <2> QED
    BY <1>4, <2>2, <2>3, <2>4, <2>5, <2>7 DEF StockMoves
<1> QED
  BY <1>2, <1>3, <1>4, StockStep

\* What an undisturbed save that writes rows holds.
LEMMA StockHolds ==
  ASSUME StockInv, ~contended, NEW p \in Procs, phase[p] = "rows", NEW j, j = job[p],
         NEW lines, lines = RowsOf(transactions, j.target)
  PROVE  /\ StockRows /\ SpareForm(j.form, j.kind) /\ operations[j.target] = j.kind
         /\ j.target \in Serials /\ j.kind \in {"operation", "part"}
         /\ StockToDo(j.form, j.drop, j.add, j.keep, j.n, lines)
         /\ j = [n |-> j.n, target |-> j.target, kind |-> j.kind, spare |-> j.spare,
                 form |-> j.form, drop |-> j.drop, add |-> j.add, keep |-> j.keep]
<1>1. phase[p] \in StockSaving
  BY DEF StockSaving
<1>2. StockQuiet /\ StockSave("rows", j)
  BY <1>1, StockJobIs
<1> QED
  BY <1>2 DEF StockQuiet, StockSave, HeaderWritten

LEMMA DropStockRowStep ==
  ASSUME StockInv, NEW p \in Procs, DropStockRow(p)
  PROVE  StockInv'
<1>1. PICK j : j = job[p]
  OBVIOUS
<1>2. PICK d, lines : d = j.target /\ lines = RowsOf(transactions, d)
  OBVIOUS
<1>3. PICK o \in j.drop :
        /\ transactions' = {r \in transactions : r.doc # d \/ r.item # o.item}
        /\ Goto(p, "rows", [j EXCEPT !.drop = j.drop \ {o}])
  BY <1>1, <1>2 DEF DropStockRow, DeleteTransactions
<1>4. phase[p] = "rows" /\ UNCHANGED <<operations, current, asked>>
  BY DEF DropStockRow
<1>5. PICK k : k = [j EXCEPT !.drop = j.drop \ {o}]
  OBVIOUS
<1>6. ASSUME ~contended
      PROVE  /\ k = [n |-> j.n, target |-> d, kind |-> j.kind, spare |-> j.spare,
                     form |-> j.form, drop |-> k.drop, add |-> k.add, keep |-> k.keep]
             /\ StockToDo(j.form, k.drop, k.add, k.keep, j.n, RowsOf(transactions, d)')
             /\ StockRows'
             /\ \A r : r.doc # d => (r \in transactions' <=> r \in transactions)
  <2>1. /\ StockRows /\ StockToDo(j.form, j.drop, j.add, j.keep, j.n, lines)
        /\ j = [n |-> j.n, target |-> j.target, kind |-> j.kind, spare |-> j.spare,
                form |-> j.form, drop |-> j.drop, add |-> j.add, keep |-> j.keep]
    BY <1>1, <1>2, <1>4, <1>6, StockHolds
  <2>2. PICK later : later = RowsOf(transactions, d)'
    OBVIOUS
  <2>3. later = {r \in lines : r.item # o.item}
    BY <1>2, <1>3, <2>2 DEF RowsOf
  <2>4. StockToDo(j.form, j.drop \ {o}, j.add, j.keep, j.n, later)
    BY <2>1, <2>3, StockRowDropped
  <2>5. StockRows'
    BY <1>3, <1>4, <2>1 DEF StockRows, SpareRow
  <2>6. k = [n |-> j.n, target |-> d, kind |-> j.kind, spare |-> j.spare,
             form |-> j.form, drop |-> j.drop \ {o}, add |-> j.add, keep |-> j.keep]
    BY <1>2, <1>5, <2>1
  <2>7. k.drop = j.drop \ {o} /\ k.add = j.add /\ k.keep = j.keep
    BY <2>6
  <2>8. \A r : r.doc # d => (r \in transactions' <=> r \in transactions)
    BY <1>3
  <2> QED
    BY <2>2, <2>4, <2>5, <2>6, <2>7, <2>8
<1> QED
  <2>1. Goto(p, "rows", k)
    BY <1>3, <1>5
  <2> QED
    BY <1>1, <1>2, <1>4, <1>6, <2>1, StockRowStep

LEMMA AddStockRowStep ==
  ASSUME StockInv, NEW p \in Procs, AddStockRow(p)
  PROVE  StockInv'
<1>1. PICK j : j = job[p]
  OBVIOUS
<1>2. PICK d, lines : d = j.target /\ lines = RowsOf(transactions, d)
  OBVIOUS
<1>3. PICK l \in j.add :
        /\ transactions' = transactions \cup {[id |-> <<j.n, l.item, l.nth>>, doc |-> d,
                                              item |-> l.item, amount |-> l.amount]}
        /\ Goto(p, "rows", [j EXCEPT !.add = j.add \ {l}])
  BY <1>1, <1>2 DEF AddStockRow, CreateTransaction
<1>4. phase[p] = "rows" /\ UNCHANGED <<operations, current, asked>>
  BY DEF AddStockRow
<1>5. PICK k : k = [j EXCEPT !.add = j.add \ {l}]
  OBVIOUS
<1>6. ASSUME ~contended
      PROVE  /\ k = [n |-> j.n, target |-> d, kind |-> j.kind, spare |-> j.spare,
                     form |-> j.form, drop |-> k.drop, add |-> k.add, keep |-> k.keep]
             /\ StockToDo(j.form, k.drop, k.add, k.keep, j.n, RowsOf(transactions, d)')
             /\ StockRows'
             /\ \A r : r.doc # d => (r \in transactions' <=> r \in transactions)
  <2>1. /\ StockRows /\ SpareForm(j.form, j.kind) /\ operations[d] = j.kind
        /\ d \in Serials /\ j.kind \in {"operation", "part"}
        /\ StockToDo(j.form, j.drop, j.add, j.keep, j.n, lines)
        /\ j = [n |-> j.n, target |-> j.target, kind |-> j.kind, spare |-> j.spare,
                form |-> j.form, drop |-> j.drop, add |-> j.add, keep |-> j.keep]
    BY <1>1, <1>2, <1>4, <1>6, StockHolds
  <2>2. PICK n, later : n = j.n /\ later = RowsOf(transactions, d)'
    OBVIOUS
  <2>3. PICK id : id = <<n, l.item, l.nth>>
    OBVIOUS
  <2>4. PICK row : row = [id |-> id, doc |-> d, item |-> l.item, amount |-> l.amount]
    OBVIOUS
  <2>5. /\ row.id = id /\ row.doc = d /\ row.item = l.item /\ row.amount = l.amount
        /\ row = [id |-> row.id, doc |-> row.doc, item |-> row.item, amount |-> row.amount]
    BY <2>4
  <2>6. row.id[1] = n /\ row.id[3] = l.nth
    BY <2>3, <2>5
  <2>7. l \in j.form /\ l = [item |-> l.item, amount |-> l.amount, nth |-> l.nth]
    BY <2>1 DEF StockToDo, SpareForm
  <2>8. AsLine(row) = l
    BY <2>5, <2>6, <2>7 DEF AsLine
  <2>9. transactions' = transactions \cup {row}
    BY <1>3, <2>2, <2>3, <2>4
  <2>10. later = lines \cup {row}
    BY <1>2, <2>2, <2>5, <2>9 DEF RowsOf
  <2>11. PICK rest : rest = j.add \ {l}
    OBVIOUS
  <2>12. StockToDo(j.form, j.drop, j.add, j.keep, n, lines)
    BY <2>1, <2>2
  <2>13. /\ StockToDo(j.form, j.drop, rest, j.keep, n, later)
         /\ \A r \in lines : r.item = l.item => r.id[1] = n /\ r.id[3] # l.nth
    BY <2>1, <2>5, <2>6, <2>8, <2>10, <2>11, <2>12, StockRowAdded
  <2>14. StockRows'
    <3>1. \A r \in transactions' : SpareRow(r)
      BY <2>1, <2>5, <2>9 DEF StockRows, SpareRow
    <3>2. \A r \in transactions : r.doc = row.doc /\ r.item = row.item =>
             r.id[1] = row.id[1] /\ r.id[3] # row.id[3]
      BY <1>2, <2>5, <2>6, <2>13 DEF RowsOf
    <3>3. \A r, q \in transactions' : r.doc = q.doc /\ r.item = q.item =>
             r.id[1] = q.id[1] /\ (r.id[3] = q.id[3] => r = q)
      BY <2>1, <2>9, <3>2 DEF StockRows
    <3>4. operations'[row.doc] # "operation" => row.id[3] = 1 /\ row.amount = NoSpare
      BY <1>4, <2>1, <2>5, <2>6, <2>7 DEF SpareForm
    <3>5. \A r \in transactions' : operations'[r.doc] # "operation" => r.id[3] = 1 /\ r.amount = NoSpare
      BY <1>4, <2>1, <2>9, <3>4 DEF StockRows
    <3> QED
      BY <3>1, <3>3, <3>5 DEF StockRows, SpareRow
  <2>15. \A r : r.doc # d => (r \in transactions' <=> r \in transactions)
    BY <2>5, <2>9
  <2>16. k = [n |-> j.n, target |-> d, kind |-> j.kind, spare |-> j.spare,
              form |-> j.form, drop |-> j.drop, add |-> j.add \ {l}, keep |-> j.keep]
    BY <1>2, <1>5, <2>1
  <2>17. k.drop = j.drop /\ k.add = rest /\ k.keep = j.keep
    BY <2>11, <2>16
  <2> QED
    BY <2>2, <2>13, <2>14, <2>15, <2>16, <2>17
<1> QED
  <2>1. Goto(p, "rows", k)
    BY <1>3, <1>5
  <2> QED
    BY <1>1, <1>2, <1>4, <1>6, <2>1, StockRowStep

LEMMA KeepStockRowStep ==
  ASSUME StockInv, NEW p \in Procs, KeepStockRow(p)
  PROVE  StockInv'
<1>1. PICK j : j = job[p]
  OBVIOUS
<1>2. PICK d, lines : d = j.target /\ lines = RowsOf(transactions, d)
  OBVIOUS
<1>3. PICK o \in j.keep :
        /\ transactions' = UpdateTransactions(d, First(j.form, o.item))
        /\ Goto(p, "rows", [j EXCEPT !.keep = j.keep \ {o}])
  BY <1>1, <1>2 DEF KeepStockRow
<1>4. phase[p] = "rows" /\ UNCHANGED <<operations, current, asked>>
  BY DEF KeepStockRow
<1>5. PICK k : k = [j EXCEPT !.keep = j.keep \ {o}]
  OBVIOUS
<1>6. ASSUME ~contended
      PROVE  /\ k = [n |-> j.n, target |-> d, kind |-> j.kind, spare |-> j.spare,
                     form |-> j.form, drop |-> k.drop, add |-> k.add, keep |-> k.keep]
             /\ StockToDo(j.form, k.drop, k.add, k.keep, j.n, RowsOf(transactions, d)')
             /\ StockRows'
             /\ \A r : r.doc # d => (r \in transactions' <=> r \in transactions)
  <2>1. /\ StockRows /\ SpareForm(j.form, j.kind) /\ operations[d] = j.kind
        /\ d \in Serials /\ j.kind \in {"operation", "part"}
        /\ StockToDo(j.form, j.drop, j.add, j.keep, j.n, lines)
        /\ j = [n |-> j.n, target |-> j.target, kind |-> j.kind, spare |-> j.spare,
                form |-> j.form, drop |-> j.drop, add |-> j.add, keep |-> j.keep]
    BY <1>1, <1>2, <1>4, <1>6, StockHolds
  <2>2. PICK f, later : f = First(j.form, o.item) /\ later = RowsOf(transactions, d)'
    OBVIOUS
  <2>3. transactions' = {IF r.doc = d /\ r.item = f.item THEN [r EXCEPT !.amount = f.amount] ELSE r :
                            r \in transactions}
    BY <1>3, <2>2 DEF UpdateTransactions
  <2>4. /\ \A r \in transactions : SpareRow(r)
        /\ \A r, q \in transactions : r.doc = q.doc /\ r.item = q.item =>
              r.id[1] = q.id[1] /\ (r.id[3] = q.id[3] => r = q)
    BY <2>1 DEF StockRows
  <2>5. ASSUME NEW r \in transactions, NEW x,
               x = IF r.doc = d /\ r.item = f.item THEN [r EXCEPT !.amount = f.amount] ELSE r
        PROVE  /\ SpareRow(x) /\ x.id = r.id /\ x.doc = r.doc /\ x.item = r.item
               /\ r.doc # d \/ r.item # f.item => x = r
               /\ r.doc = d /\ r.item = f.item => x.amount = f.amount
    <3>1. r = [id |-> r.id, doc |-> r.doc, item |-> r.item, amount |-> r.amount] /\ r.doc \in Serials
      BY <2>4 DEF SpareRow
    <3>2. CASE r.doc = d /\ r.item = f.item
      <4>1. x = [id |-> r.id, doc |-> r.doc, item |-> r.item, amount |-> f.amount]
        BY <2>5, <3>1, <3>2
      <4>2. x.id = r.id /\ x.doc = r.doc /\ x.item = r.item /\ x.amount = f.amount
        BY <4>1
      <4> QED
        BY <3>1, <3>2, <4>1, <4>2 DEF SpareRow
    <3>3. CASE ~(r.doc = d /\ r.item = f.item)
      BY <2>4, <2>5, <3>3
    <3> QED
      BY <3>2, <3>3
  <2>6. \A x \in transactions' : \E r \in transactions :
           x = IF r.doc = d /\ r.item = f.item THEN [r EXCEPT !.amount = f.amount] ELSE r
    BY <2>3
  <2>7. later = Amended(lines, f)
    <3>1. ASSUME NEW x \in later
          PROVE  \E r \in lines : x = IF r.item = f.item THEN [r EXCEPT !.amount = f.amount] ELSE r
      <4>1. x \in transactions' /\ x.doc = d
        BY <2>2 DEF RowsOf
      <4>2. PICK r \in transactions :
               x = IF r.doc = d /\ r.item = f.item THEN [r EXCEPT !.amount = f.amount] ELSE r
        BY <2>6, <4>1
      <4>3. r.doc = d
        BY <2>5, <4>1, <4>2
      <4>4. r \in lines
        BY <1>2, <4>3 DEF RowsOf
      <4> QED
        BY <4>2, <4>3, <4>4
    <3>2. ASSUME NEW r \in lines, NEW x, x = IF r.item = f.item THEN [r EXCEPT !.amount = f.amount] ELSE r
          PROVE  x \in later
      <4>1. r \in transactions /\ r.doc = d
        BY <1>2 DEF RowsOf
      <4>2. x = IF r.doc = d /\ r.item = f.item THEN [r EXCEPT !.amount = f.amount] ELSE r
        BY <3>2, <4>1
      <4>3. x \in transactions'
        BY <2>3, <4>1, <4>2
      <4>4. x.doc = d
        BY <2>5, <4>1, <4>2
      <4> QED
        BY <2>2, <4>3, <4>4 DEF RowsOf
    <3> QED
      BY <3>1, <3>2 DEF Amended
  <2>8. \A r \in lines : SpareRow(r)
    BY <1>2, <2>4 DEF RowsOf
  <2>9. PICK left : left = j.keep \ {o}
    OBVIOUS
  <2>10. StockToDo(j.form, j.drop, j.add, left, j.n, later)
    BY <2>1, <2>2, <2>7, <2>8, <2>9, StockRowKept
  <2>11. StockRows'
    <3>1. \A x \in transactions' : SpareRow(x)
      BY <2>5, <2>6
    <3>2. ASSUME NEW x \in transactions', NEW y \in transactions', x.doc = y.doc, x.item = y.item
          PROVE  x.id[1] = y.id[1] /\ (x.id[3] = y.id[3] => x = y)
      <4>1. PICK r \in transactions :
               x = IF r.doc = d /\ r.item = f.item THEN [r EXCEPT !.amount = f.amount] ELSE r
        BY <2>6
      <4>2. PICK q \in transactions :
               y = IF q.doc = d /\ q.item = f.item THEN [q EXCEPT !.amount = f.amount] ELSE q
        BY <2>6
      <4>3. x.id = r.id /\ x.doc = r.doc /\ x.item = r.item /\ y.id = q.id /\ y.doc = q.doc /\ y.item = q.item
        BY <2>5, <4>1, <4>2
      <4>4. r.doc = q.doc /\ r.item = q.item
        BY <3>2, <4>3
      <4>5. r.id[1] = q.id[1] /\ (r.id[3] = q.id[3] => r = q)
        BY <2>4, <4>4
      <4>6. r = q => x = y
        BY <4>1, <4>2, Zenon
      <4> QED
        BY <4>3, <4>5, <4>6
    <3>3. ASSUME NEW x \in transactions', operations[x.doc] # "operation"
          PROVE  x.id[3] = 1 /\ x.amount = NoSpare
      <4>1. PICK r \in transactions :
               x = IF r.doc = d /\ r.item = f.item THEN [r EXCEPT !.amount = f.amount] ELSE r
        BY <2>6
      <4>2. /\ x.id = r.id /\ x.doc = r.doc
            /\ r.doc # d \/ r.item # f.item => x = r
            /\ r.doc = d /\ r.item = f.item => x.amount = f.amount
        BY <2>5, <4>1
      <4>3. operations[r.doc] # "operation"
        BY <3>3, <4>2
      <4>4. r.id[3] = 1 /\ r.amount = NoSpare
        BY <2>1, <4>3 DEF StockRows
      <4>5. x.doc = d => f.amount = NoSpare
        <5>1. o.item \in Items(j.form)
          BY <2>1 DEF StockToDo
        <5>2. f \in j.form
          BY <2>1, <2>2, <5>1, FirstIs
        <5> QED
          BY <2>1, <3>3, <5>2 DEF SpareForm
      <4> QED
        BY <4>2, <4>4, <4>5
    <3> QED
      BY <1>4, <3>1, <3>2, <3>3 DEF StockRows, SpareRow
  <2>12. \A r : r.doc # d => (r \in transactions' <=> r \in transactions)
    <3>1. ASSUME NEW r, r.doc # d, r \in transactions PROVE r \in transactions'
      BY <2>3, <3>1
    <3>2. ASSUME NEW r, r.doc # d, r \in transactions' PROVE r \in transactions
      <4>1. PICK q \in transactions :
               r = IF q.doc = d /\ q.item = f.item THEN [q EXCEPT !.amount = f.amount] ELSE q
        BY <2>6, <3>2
      <4> QED
        BY <2>5, <3>2, <4>1
    <3> QED
      BY <3>1, <3>2
  <2>13. k = [n |-> j.n, target |-> d, kind |-> j.kind, spare |-> j.spare,
              form |-> j.form, drop |-> j.drop, add |-> j.add, keep |-> j.keep \ {o}]
    BY <1>2, <1>5, <2>1
  <2>14. k.drop = j.drop /\ k.add = j.add /\ k.keep = left
    BY <2>9, <2>13
  <2> QED
    BY <2>2, <2>10, <2>11, <2>12, <2>13, <2>14
<1> QED
  <2>1. Goto(p, "rows", k)
    BY <1>3, <1>5
  <2> QED
    BY <1>1, <1>2, <1>4, <1>6, <2>1, StockRowStep

LEMMA StockSavedStep ==
  ASSUME StockInv, NEW p \in Procs, StockSaved(p)
  PROVE  StockInv'
<1>1. PICK j : j = job[p]
  OBVIOUS
<1>2. PICK d, lines : d = j.target /\ lines = RowsOf(transactions, d)
  OBVIOUS
<1>3. PICK k : k = NoJob
  OBVIOUS
<1>4. /\ phase[p] = "rows" /\ j.drop = {} /\ j.add = {} /\ j.keep = {}
      /\ asked' = [asked EXCEPT ![d] = j.form]
      /\ Goto(p, "idle", k)
      /\ UNCHANGED <<operations, current, transactions>>
  BY <1>1, <1>2, <1>3 DEF StockSaved, Finish
<1>5. /\ operations' = [x \in Serials |-> operations'[x]]
      /\ current' = [x \in Serials |-> current'[x]]
      /\ asked' = [x \in Serials |-> asked'[x]]
  BY <1>4 DEF StockInv, StockShape
<1>6. "idle" \in StockPhases /\ "idle" \notin StockHolding /\ "idle" \notin StockSaving
  BY DEF StockPhases, StockHolding, StockSaving
<1>7. /\ phase' = [phase EXCEPT ![p] = "idle"] /\ job' = [job EXCEPT ![p] = k]
      /\ contended' = contended /\ StockShape'
  BY <1>4, <1>5, <1>6, StockGoto
<1>8. ASSUME ~contended PROVE StockMoves(p, "idle", k, d)
  <2>1. phase[p] \in StockSaving
    BY <1>4 DEF StockSaving
  <2>2. /\ StockQuiet /\ StockSave("rows", j)
        /\ \A q \in Procs : q # p => ~(phase[q] \in StockHolding /\ job[q].target = j.target)
    BY <1>1, <1>4, <1>8, <2>1, StockJobIs
  <2>3. /\ StockRows /\ d \in Serials
        /\ StockToDo(j.form, {}, {}, {}, j.n, lines) /\ HeaderWritten(j)
        /\ j.kind = "part" => j.spare \in Items(j.form)
    BY <1>2, <1>4, <2>2 DEF StockQuiet, StockSave
  <2>4. /\ asked'[d] = j.form
        /\ \A e \in Serials : e # d => asked'[e] = asked[e]
    BY <1>4, <2>3 DEF StockInv, StockShape
  <2>5. StockTouch(d)
    BY <1>4, <2>4 DEF StockTouch
  <2>6. StockRows'
    BY <1>4, <2>3 DEF StockRows, SpareRow
  <2>7. \A s : s \notin Items({})
    BY DEF Items
  <2>8. Items(lines) = Items(j.form)
    <3>1. \A s \in Items(j.form) : s \in Items(lines)
      BY <2>3, <2>7 DEF StockToDo
    <3>2. \A r \in lines : r.item \in Items(j.form)
      BY <2>3, <2>7 DEF StockToDo
    <3>3. \A s \in Items(lines) : \E r \in lines : r.item = s
      BY DEF Items
    <3> QED
      BY <3>1, <3>2, <3>3
  <2>9. \A s \in Items(j.form) : Made(j.form, {}, lines, s) \/ AsFirst(j.form, lines, s)
    BY <2>3, <2>7 DEF StockToDo, ItemToDo
  <2>10. operations'[d] = "part" => current'[d] \in Items(lines)
    BY <1>2, <1>4, <2>3, <2>8 DEF HeaderWritten
  <2>11. RowsOf(transactions, d)' = lines
    BY <1>2, <1>4 DEF RowsOf
  <2>12. StockDone(d)'
    BY <2>4, <2>8, <2>9, <2>10, <2>11 DEF StockDone
  <2> QED
    BY <1>2, <1>6, <2>2, <2>5, <2>6, <2>12 DEF StockMoves
<1> QED
  BY <1>6, <1>7, <1>8, StockStep

LEMMA DeleteStockRowsStep ==
  ASSUME StockInv, NEW p \in Procs, NEW d \in Serials, DeleteStockRows(p, d)
  PROVE  StockInv'
<1>1. PICK k : k = [n |-> NextSerial, target |-> d]
  OBVIOUS
<1>2. PICK rivals : rivals = SavesOfStock(d)
  OBVIOUS
<1>3. /\ transactions' = transactions \ RowsOf(transactions, d)
      /\ asked' = [asked EXCEPT ![d] = NoSpare]
      /\ Start(p, "rows_gone", k, rivals)
      /\ UNCHANGED <<operations, current>>
  BY <1>1, <1>2 DEF DeleteStockRows
<1>4. /\ operations' = [x \in Serials |-> operations'[x]]
      /\ current' = [x \in Serials |-> current'[x]]
      /\ asked' = [x \in Serials |-> asked'[x]]
  BY <1>3 DEF StockInv, StockShape
<1>5. "rows_gone" \in StockPhases /\ "rows_gone" \notin StockSaving
  BY DEF StockPhases, StockSaving
<1>6. /\ phase' = [phase EXCEPT ![p] = "rows_gone"] /\ job' = [job EXCEPT ![p] = k]
      /\ StockShape' /\ (~contended' => ~contended /\ rivals = {})
  BY <1>3, <1>4, <1>5, StockStart
<1>7. ASSUME ~contended' PROVE StockMoves(p, "rows_gone", k, d)
  <2>1. StockQuiet /\ rivals = {}
    BY <1>6, <1>7 DEF StockInv
  <2>2. \A q \in Procs : phase[q] \in StockHolding /\ job[q].target = d => phase[q] = "rows_gone"
    BY <1>2, <2>1 DEF SavesOfStock, InFlight, StockHolding
  <2>3. /\ asked'[d] = NoSpare
        /\ \A e \in Serials : e # d => asked'[e] = asked[e]
    BY <1>3 DEF StockInv, StockShape
  <2>4. \A r : r \in transactions' <=> (r \in transactions /\ r.doc # d)
    BY <1>3 DEF RowsOf
  <2>5. StockTouch(d)
    BY <1>3, <2>3, <2>4 DEF StockTouch
  <2>6. StockRows'
    BY <1>3, <2>1, <2>4 DEF StockQuiet, StockRows, SpareRow
  <2>7. k.target = d
    BY <1>1
  <2> QED
    BY <1>5, <2>2, <2>3, <2>5, <2>6, <2>7 DEF StockMoves
<1> QED
  BY <1>5, <1>6, <1>7, StockStep

LEMMA DeleteStockStep ==
  ASSUME StockInv, NEW p \in Procs, DeleteStock(p)
  PROVE  StockInv'
<1>1. PICK d : d = job[p].target
  OBVIOUS
<1>2. PICK k : k = NoJob
  OBVIOUS
<1>3. /\ phase[p] = "rows_gone"
      /\ IF RowsOf(transactions, d) = {}
         THEN /\ operations' = [operations EXCEPT ![d] = "none"]
              /\ current' = [current EXCEPT ![d] = NoSpare]
         ELSE UNCHANGED <<operations, current>>
      /\ Goto(p, "idle", k) /\ UNCHANGED <<transactions, asked>>
  BY <1>1, <1>2 DEF DeleteStock, Finish
<1>4. /\ operations' = [x \in Serials |-> operations'[x]]
      /\ current' = [x \in Serials |-> current'[x]]
      /\ asked' = [x \in Serials |-> asked'[x]]
  BY <1>3 DEF StockInv, StockShape
<1>5. "idle" \in StockPhases /\ "idle" \notin StockHolding /\ "idle" \notin StockSaving
  BY DEF StockPhases, StockHolding, StockSaving
<1>6. /\ phase' = [phase EXCEPT ![p] = "idle"] /\ job' = [job EXCEPT ![p] = k]
      /\ contended' = contended /\ StockShape'
  BY <1>3, <1>4, <1>5, StockGoto
<1>7. ASSUME ~contended PROVE StockMoves(p, "idle", k, d)
  <2>1. StockQuiet
    BY <1>7 DEF StockInv
  <2>2. phase[p] \in StockHolding
    BY <1>3 DEF StockHolding
  <2>3. \A q \in Procs : q # p /\ phase[q] \in StockHolding /\ job[q].target = d => phase[q] = "rows_gone"
    BY <1>1, <2>1, <2>2 DEF StockQuiet, StockApart
  <2>4. \A e \in Serials : e # d => operations'[e] = operations[e] /\ current'[e] = current[e]
    BY <1>3 DEF StockInv, StockShape
  <2>5. StockTouch(d)
    BY <1>3, <2>4 DEF StockTouch
  <2>7. StockRows'
    <3>1. StockRows /\ transactions' = transactions
      BY <1>3, <2>1 DEF StockQuiet
    <3>2. \A r \in transactions : r.doc \in Serials
      BY <3>1 DEF StockRows, SpareRow
    <3>3. \A r \in transactions : operations'[r.doc] = operations[r.doc]
      <4>1. CASE RowsOf(transactions, d) = {}
        BY <2>4, <3>2, <4>1 DEF RowsOf
      <4>2. CASE RowsOf(transactions, d) # {}
        BY <1>3, <4>2
      <4> QED
        BY <4>1, <4>2
    <3> QED
      BY <3>1, <3>3 DEF StockRows, SpareRow
  <2>6. ASSUME d \in Serials, operations'[d] # "none", asked'[d] # NoSpare PROVE StockDone(d)'
    <3>1. operations' = operations /\ current' = current
      BY <1>3, <1>4, <2>6 DEF StockInv, StockShape
    <3>2. StockDone(d)
      BY <1>3, <2>1, <2>6, <3>1 DEF StockQuiet
    <3> QED
      BY <1>3, <3>1, <3>2 DEF StockDone, RowsOf
  <2> QED
    BY <1>5, <2>3, <2>5, <2>6, <2>7 DEF StockMoves
<1> QED
  BY <1>5, <1>6, <1>7, StockStep

----------------------------------------------------------------------------

LEMMA StockBegins ==
  SlotsInit /\ StockInit => StockInv
<1> SUFFICES ASSUME SlotsInit, StockInit PROVE StockInv
  OBVIOUS
<1>1. phase = [p \in Procs |-> "idle"] /\ job = [p \in Procs |-> NoJob] /\ contended = FALSE
  BY DEF SlotsInit
<1>2. /\ operations = [d \in Serials |-> "none"]
      /\ current = [d \in Serials |-> NoSpare]
      /\ asked = [d \in Serials |-> NoSpare]
      /\ transactions = {}
  BY DEF StockInit
<1>3. \A p \in Procs : phase[p] = "idle"
  BY <1>1
<1>4. StockShape
  <2>1. phase \in [Procs -> StockPhases] /\ job = [p \in Procs |-> job[p]] /\ contended \in BOOLEAN
    BY <1>1 DEF StockPhases
  <2> QED
    BY <1>2, <2>1 DEF StockShape
<1>5. StockQuiet
  <2>1. "idle" \notin StockHolding /\ "idle" \notin StockSaving
    BY DEF StockHolding, StockSaving
  <2>2. StockApart /\ \A p \in Procs : phase[p] \in StockSaving => StockSave(phase[p], job[p])
    BY <1>3, <2>1 DEF StockApart
  <2>3. \A d \in Serials : operations[d] = "none"
    BY <1>2
  <2> QED
    BY <1>2, <2>2, <2>3 DEF StockQuiet, StockRows
<1> QED
  BY <1>4, <1>5 DEF StockInv

LEMMA StockStays ==
  ASSUME StockInv, [StockNext]_<<slotVars, stockVars>>
  PROVE  StockInv'
<1>1. CASE StockNext
  <2>1. PICK p \in Procs :
        \/ \E d \in Serials, kind \in {"operation", "part"}, spare \in Spares \cup {NoSpare} :
              BeginStock(p, d, kind, spare)
        \/ StockHeader(p) \/ StockOld(p) \/ DropStockRow(p) \/ AddStockRow(p)
        \/ KeepStockRow(p) \/ StockSaved(p)
        \/ \E d \in Serials : DeleteStockRows(p, d)
        \/ DeleteStock(p)
        \/ \E s \in Spares : BeginDeleteSpare(p, s)
        \/ DeleteSpare(p)
        \/ FailStock(p)
    BY <1>1 DEF StockNext
  <2>2. ASSUME NEW d \in Serials, NEW kind \in {"operation", "part"},
               NEW spare \in Spares \cup {NoSpare}, BeginStock(p, d, kind, spare)
        PROVE  StockInv'
    BY <2>2, BeginStockStep
  <2>3. CASE StockHeader(p)
    BY <2>3, StockHeaderStep
  <2>4. CASE StockOld(p)
    BY <2>4, StockOldStep
  <2>5. CASE DropStockRow(p) \/ AddStockRow(p) \/ KeepStockRow(p)
    BY <2>5, DropStockRowStep, AddStockRowStep, KeepStockRowStep
  <2>6. CASE StockSaved(p)
    BY <2>6, StockSavedStep
  <2>7. ASSUME NEW d \in Serials, DeleteStockRows(p, d) PROVE StockInv'
    BY <2>7, DeleteStockRowsStep
  <2>8. CASE DeleteStock(p)
    BY <2>8, DeleteStockStep
  <2>9. ASSUME NEW s \in Spares, BeginDeleteSpare(p, s) PROVE StockInv'
    BY <2>9, BeginDeleteSpareStep
  <2>10. CASE DeleteSpare(p)
    BY <2>10, DeleteSpareStep
  <2>11. CASE FailStock(p)
    BY <2>11, FailStockStep
  <2> QED
    BY <2>1, <2>2, <2>3, <2>4, <2>5, <2>6, <2>7, <2>8, <2>9, <2>10, <2>11
<1>2. CASE UNCHANGED <<slotVars, stockVars>>
  <2>1. UNCHANGED <<phase, job, contended, operations, current, transactions, asked>>
    BY <1>2 DEF slotVars, stockVars
  <2>2. StockShape'
    BY <2>1 DEF StockInv, StockShape
  <2>3. ASSUME ~contended' PROVE StockQuiet'
    <3>1. StockQuiet
      BY <2>1, <2>3 DEF StockInv
    <3>2. StockApart' /\ StockRows'
      BY <2>1, <3>1 DEF StockQuiet, StockApart, StockRows, SpareRow
    <3>3. \A d \in Serials : operations'[d] # "none" /\ asked'[d] # NoSpare => StockDone(d)'
      BY <2>1, <3>1 DEF StockQuiet, StockDone, RowsOf
    <3>4. ASSUME NEW ph, NEW j, StockSave(ph, j) PROVE StockSave(ph, j)'
      <4>1. HeaderWritten(j) => HeaderWritten(j)'
        BY <2>1 DEF HeaderWritten
      <4>2. RowsOf(transactions, j.target)' = RowsOf(transactions, j.target)
        BY <2>1 DEF RowsOf
      <4> QED
        BY <2>1, <3>4, <4>1, <4>2 DEF StockSave
    <3>5. ASSUME NEW q \in Procs, phase'[q] \in StockSaving PROVE StockSave(phase[q], job[q])'
      <4>1. PICK f, j : f = phase[q] /\ j = job[q]
        OBVIOUS
      <4>2. StockSave(f, j)
        BY <2>1, <3>1, <3>5, <4>1 DEF StockQuiet
      <4>3. StockSave(f, j)' /\ f = phase'[q] /\ j = job'[q]
        BY <2>1, <3>4, <4>1, <4>2
      <4> QED
        BY <4>3
    <3> QED
      BY <3>2, <3>3, <3>5 DEF StockQuiet
  <2> QED
    BY <2>2, <2>3 DEF StockInv
<1> QED
  BY <1>1, <1>2

\* For any spares, quantities and lengths of forms: while no two saves of one document,
\* nor a save and a delete of it, have overlapped, the spares of an operation or of a
\* machine part are those its last save that ended named, the rows of each as that save
\* created or last updated them, of one request and of different lines of it, wherever
\* a save failed before; a part has one row of each, and its own spare among them.
THEOREM StockStaysAsAsked == StockSpec => []StockAsAsked
<1>1. SlotsInit /\ StockInit => StockInv
  BY StockBegins
<1>2. StockInv /\ [StockNext]_<<slotVars, stockVars>> => StockInv'
  BY StockStays
<1>3. StockInv => StockAsAsked
  BY StockClaims
<1> QED
  BY <1>1, <1>2, <1>3, PTL DEF StockSpec

----------------------------------------------------------------------------
(* The batch loader *)

\* The open batch is the scheduled one, and the only one.
OneOpen ==
    \A b \in Batches : batches[b].state \in {"microtask", "tick"} <=> b = scheduled

\* The cache says where a key is: in the queue of the open batch, or among the
\* keys of one that has closed.
Routed ==
    /\ \A k \in Keys : k \in queue <=> cache[k] # 0 /\ cache[k] = scheduled
    /\ \A k \in Keys, b \in Batches :
          k \in batches[b].keys <=> cache[k] = b /\ b # scheduled

\* A batch that has not begun holds nothing, and one that has was begun for a key.
Begun ==
    \A b \in Batches :
        /\ batches[b].state = "new" => batches[b].keys = {}
        /\ batches[b].state # "new" => \E k \in Keys : cache[k] = b

KeysAsked == \A c \in Loads : wanted[c] # NoKey => cache[wanted[c]] # 0

\* What a batch tells those who asked for the key.
Says(b, k) ==
    IF batches[b].state = "failed" THEN "error"
    ELSE IF k \in batches[b].values THEN "row" ELSE "none"

Told ==
    \A c \in Loads : got[c] # "nothing" =>
        /\ wanted[c] # NoKey
        /\ batches[cache[wanted[c]]].state \in {"done", "failed"}
        /\ got[c] = Says(cache[wanted[c]], wanted[c])

LoaderInv == LoaderTypeOK /\ OneOpen /\ Routed /\ Begun /\ KeysAsked /\ Told

BatchRecord ==
    [state : {"new", "microtask", "tick", "query", "done", "failed"},
     keys : SUBSET Keys, values : SUBSET Keys]

----------------------------------------------------------------------------

LEMMA BatchesAreNumbers == Cardinality(Keys) \in Nat /\ Batches \subseteq Nat \ {0}
  BY LoaderBounds, FS_CardinalityType DEF Batches

\* A key in the cache is of a batch that has begun.
LEMMA CachedHasBegun ==
  ASSUME LoaderInv, NEW k \in Keys, cache[k] # 0
  PROVE  cache[k] \in Batches /\ batches[cache[k]].state # "new"
<1>1. cache[k] \in Batches
  BY DEF LoaderInv, LoaderTypeOK
<1>2. CASE cache[k] = scheduled
  BY <1>1, <1>2 DEF LoaderInv, OneOpen
<1>3. CASE cache[k] # scheduled
  BY <1>1, <1>3 DEF LoaderInv, Routed, Begun
<1> QED
  BY <1>1, <1>2, <1>3

\* There is a batch to begin for a key that is in none: batches begun are no more
\* than keys cached, and there are as many numbers as keys.
LEMMA FreshIsNew ==
  ASSUME LoaderInv, NEW k \in Keys, cache[k] = 0
  PROVE  Fresh \in Batches /\ batches[Fresh].state = "new"
<1> DEFINE S == {x \in Keys : cache[x] # 0}
           f == [x \in S |-> cache[x]]
           N == {b \in Batches : batches[b].state = "new"}
<1>1. N # {}
  <2> SUFFICES ASSUME N = {} PROVE FALSE
    OBVIOUS
  <2>1. f \in [S -> Batches]
    BY DEF LoaderInv, LoaderTypeOK
  <2>2. \A b \in Batches : \E x \in S : f[x] = b
    <3> SUFFICES ASSUME NEW b \in Batches PROVE \E x \in S : f[x] = b
      OBVIOUS
    <3>1. PICK x \in Keys : cache[x] = b
      BY DEF LoaderInv, Begun
    <3>2. b # 0
      BY BatchesAreNumbers
    <3> QED
      BY <3>1, <3>2
  <2>3. f \in Surjection(S, Batches)
    BY <2>1, <2>2 DEF Surjection
  <2>4. /\ IsFiniteSet(Keys \ {k})
        /\ Cardinality(Keys \ {k}) = Cardinality(Keys) - 1
    BY LoaderBounds, FS_RemoveElement
  <2>5. S \in SUBSET (Keys \ {k})
    OBVIOUS
  <2>6. IsFiniteSet(S) /\ Cardinality(S) <= Cardinality(Keys) - 1
    BY <2>4, <2>5, FS_Subset
  <2> HIDE DEF S, f
  <2>7. Cardinality(Batches) <= Cardinality(S)
    BY <2>3, <2>6, FS_Surjection
  <2>8. Cardinality(Batches) = Cardinality(Keys)
    <3>1. Cardinality(1..Cardinality(Keys)) = IF 1 > Cardinality(Keys) THEN 0
                                              ELSE Cardinality(Keys) - 1 + 1
      BY BatchesAreNumbers, FS_Interval
    <3> QED
      BY <3>1, BatchesAreNumbers DEF Batches
  <2>9. Cardinality(S) \in Nat
    BY <2>6, FS_CardinalityType
  <2> QED
    BY <2>6, <2>7, <2>8, <2>9, BatchesAreNumbers
<1> QED
  BY <1>1 DEF Fresh

----------------------------------------------------------------------------
(* The invariant holds at first and is kept by every step *)

LEMMA InitLoader == LoaderInit => LoaderInv
<1> SUFFICES ASSUME LoaderInit PROVE LoaderInv
  OBVIOUS
<1> USE DEF LoaderInit
<1>1. LoaderTypeOK
  BY DEF LoaderTypeOK
<1>2. OneOpen /\ Routed
  BY BatchesAreNumbers DEF OneOpen, Routed
<1>3. Begun /\ KeysAsked /\ Told
  BY DEF Begun, KeysAsked, Told
<1> QED
  BY <1>1, <1>2, <1>3 DEF LoaderInv

\* A step that leaves the batches resolvers were answered by as they are, and does
\* not answer, keeps Told.
LEMMA ToldKept ==
  ASSUME LoaderInv, got' = got,
         \A c \in Loads : got[c] # "nothing" =>
            /\ wanted'[c] = wanted[c]
            /\ cache'[wanted[c]] = cache[wanted[c]]
            /\ batches'[cache[wanted[c]]].state = batches[cache[wanted[c]]].state
            /\ batches'[cache[wanted[c]]].values = batches[cache[wanted[c]]].values
  PROVE  Told'
  BY DEF LoaderInv, Told, Says

\* The same of a step that changes batches alone, and leaves those that are done.
LEMMA StateKept ==
  ASSUME LoaderInv, UNCHANGED <<wanted, got, cache>>,
         \A b \in Batches : batches[b].state \in {"done", "failed"} =>
            /\ batches'[b].state = batches[b].state
            /\ batches'[b].values = batches[b].values
  PROVE  Told'
<1>1. \A c \in Loads : got[c] # "nothing" =>
         cache[wanted[c]] \in Batches /\ batches[cache[wanted[c]]].state \in {"done", "failed"}
  BY DEF LoaderInv, LoaderTypeOK, Told, KeysAsked
<1> QED
  BY <1>1, ToldKept

LEMMA LoadKeeps ==
  ASSUME LoaderInv, NEW c \in Loads, NEW k \in Keys, Load(c, k)
  PROVE  LoaderInv'
<1> USE BatchesAreNumbers
<1>1. LoaderTypeOK /\ OneOpen /\ Routed /\ Begun /\ KeysAsked /\ Told
  BY DEF LoaderInv
<1>2. /\ wanted[c] = NoKey
      /\ wanted' = [wanted EXCEPT ![c] = k]
      /\ got' = got
      /\ k # NoKey
  BY LoaderBounds DEF Load
<1>3. got[c] = "nothing"
  BY <1>1, <1>2 DEF Told, LoaderTypeOK
<1>4. CASE cache[k] # 0
  <2>1. UNCHANGED <<cache, queue, scheduled, batches>>
    BY <1>4 DEF Load
  <2>2. LoaderTypeOK'
    BY <1>1, <1>2, <2>1 DEF LoaderTypeOK
  <2>3. OneOpen' /\ Routed' /\ Begun'
    BY <1>1, <2>1 DEF OneOpen, Routed, Begun
  <2>4. KeysAsked'
    BY <1>1, <1>2, <1>4, <2>1 DEF KeysAsked, LoaderTypeOK
  <2>5. Told'
    BY <1>1, <1>2, <1>3, <2>1, ToldKept DEF LoaderTypeOK
  <2> QED
    BY <2>2, <2>3, <2>4, <2>5 DEF LoaderInv
<1>5. CASE cache[k] = 0
  <2> DEFINE b == IF scheduled # 0 THEN scheduled ELSE Fresh
  <2>1. /\ queue' = queue \cup {k}
        /\ cache' = [cache EXCEPT ![k] = b]
        /\ scheduled' = b
        /\ batches' = IF scheduled # 0 THEN batches
                      ELSE [batches EXCEPT ![b].state = "microtask"]
    BY <1>5 DEF Load
  <2>2. b \in Batches
    BY <1>1, <1>5, FreshIsNew DEF LoaderTypeOK
  <2>3. scheduled = 0 => batches[b].state = "new"
    BY <1>5, FreshIsNew
  <2>4. scheduled # 0 => batches[b].state \in {"microtask", "tick"}
    BY <1>1, <2>2 DEF OneOpen
  <2> HIDE DEF b
  <2>5. /\ batches' \in [Batches -> BatchRecord]
        /\ \A a \in Batches : /\ batches'[a].keys = batches[a].keys
                              /\ batches'[a].values = batches[a].values
                              /\ batches'[a].state =
                                    IF a = b /\ scheduled = 0 THEN "microtask" ELSE batches[a].state
    BY <1>1, <2>1, <2>2 DEF LoaderTypeOK, BatchRecord
  <2>6. /\ cache' \in [Keys -> Batches \cup {0}]
        /\ \A x \in Keys : cache'[x] = IF x = k THEN b ELSE cache[x]
    BY <1>1, <2>1, <2>2 DEF LoaderTypeOK
  <2>7. \A x \in Keys : scheduled = 0 => cache[x] # b
    BY <2>2, <2>3, CachedHasBegun
  <2>8. LoaderTypeOK'
    BY <1>1, <1>2, <2>1, <2>2, <2>5, <2>6 DEF LoaderTypeOK, BatchRecord
  <2>9. OneOpen'
    BY <1>1, <2>1, <2>2, <2>3, <2>4, <2>5 DEF OneOpen
  <2>10. Routed'
    <3>1. \A x \in Keys : x \in queue' <=> cache'[x] # 0 /\ cache'[x] = scheduled'
      <4>1. CASE scheduled = 0
        BY <1>1, <1>5, <2>1, <2>2, <2>6, <2>7, <4>1 DEF Routed
      <4>2. CASE scheduled # 0
        <5>1. b = scheduled
          BY <4>2 DEF b
        <5> QED
          BY <1>1, <1>5, <2>1, <2>2, <2>6, <4>2, <5>1 DEF Routed
      <4> QED
        BY <4>1, <4>2
    <3>2. ASSUME NEW x \in Keys, NEW a \in Batches
          PROVE  x \in batches'[a].keys <=> cache'[x] = a /\ a # scheduled'
      <4>1. CASE scheduled = 0
        BY <1>1, <1>5, <2>1, <2>2, <2>3, <2>5, <2>6, <2>7, <4>1 DEF Routed
      <4>2. CASE scheduled # 0
        <5>1. b = scheduled
          BY <4>2 DEF b
        <5> QED
          BY <1>1, <1>5, <2>1, <2>2, <2>5, <2>6, <4>2, <5>1 DEF Routed
      <4> QED
        BY <4>1, <4>2
    <3> QED
      BY <3>1, <3>2 DEF Routed
  <2>11. Begun'
    <3> SUFFICES ASSUME NEW a \in Batches
                 PROVE  /\ batches'[a].state = "new" => batches'[a].keys = {}
                        /\ batches'[a].state # "new" => \E x \in Keys : cache'[x] = a
      BY DEF Begun
    <3>1. CASE a = b
      BY <2>3, <2>4, <2>5, <2>6, <3>1
    <3>2. CASE a # b
      <4>1. batches'[a].state # "new" => \E x \in Keys : cache[x] = a
        BY <1>1, <2>5, <3>2 DEF Begun
      <4>2. \A x \in Keys : cache[x] = a => x # k
        BY <1>5
      <4> QED
        BY <1>1, <2>5, <2>6, <3>2, <4>1, <4>2 DEF Begun
    <3> QED
      BY <3>1, <3>2
  <2>12. KeysAsked'
    <3> SUFFICES ASSUME NEW d \in Loads, wanted'[d] # NoKey PROVE cache'[wanted'[d]] # 0
      BY DEF KeysAsked
    <3>1. b # 0
      BY <2>2
    <3>2. CASE d = c
      BY <1>1, <1>2, <2>6, <3>1, <3>2 DEF LoaderTypeOK
    <3>3. CASE d # c
      BY <1>1, <1>2, <2>6, <3>1, <3>3 DEF LoaderTypeOK, KeysAsked
    <3> QED
      BY <3>2, <3>3
  <2>13. Told'
    <3>1. ASSUME NEW d \in Loads, got[d] # "nothing"
          PROVE  /\ wanted'[d] = wanted[d]
                 /\ cache'[wanted[d]] = cache[wanted[d]]
                 /\ batches'[cache[wanted[d]]].state = batches[cache[wanted[d]]].state
                 /\ batches'[cache[wanted[d]]].values = batches[cache[wanted[d]]].values
      <4>1. d # c /\ wanted[d] \in Keys
        BY <1>1, <1>3, <3>1 DEF Told, LoaderTypeOK
      <4>2. cache[wanted[d]] # 0 /\ wanted[d] # k
        BY <1>1, <1>5, <3>1 DEF Told, KeysAsked
      <4>3. cache[wanted[d]] \in Batches /\ batches[cache[wanted[d]]].state # "new"
        BY <4>1, <4>2, CachedHasBegun
      <4> QED
        BY <1>1, <1>2, <2>3, <2>5, <2>6, <4>1, <4>2, <4>3 DEF LoaderTypeOK
    <3> QED
      BY <1>2, <3>1, ToldKept
  <2> QED
    BY <2>8, <2>9, <2>10, <2>11, <2>12, <2>13 DEF LoaderInv
<1> QED
  BY <1>4, <1>5

LEMMA MicrotaskKeeps ==
  ASSUME LoaderInv, NEW b \in Batches, Microtask(b)
  PROVE  LoaderInv'
<1>1. LoaderTypeOK /\ OneOpen /\ Routed /\ Begun /\ KeysAsked
  BY DEF LoaderInv
<1>2. /\ batches[b].state = "microtask"
      /\ UNCHANGED <<wanted, got, cache, queue, scheduled>>
  BY DEF Microtask
<1>3. /\ batches' \in [Batches -> BatchRecord]
      /\ \A a \in Batches : /\ batches'[a].keys = batches[a].keys
                            /\ batches'[a].values = batches[a].values
                            /\ batches'[a].state = IF a = b THEN "tick" ELSE batches[a].state
  BY <1>1 DEF Microtask, LoaderTypeOK, BatchRecord
<1>4. LoaderTypeOK'
  BY <1>1, <1>2, <1>3 DEF LoaderTypeOK, BatchRecord
<1>5. OneOpen' /\ Routed' /\ Begun' /\ KeysAsked'
  BY <1>1, <1>2, <1>3 DEF OneOpen, Routed, Begun, KeysAsked
<1>6. Told'
  BY <1>1, <1>2, <1>3, StateKept DEF Told
<1> QED
  BY <1>4, <1>5, <1>6 DEF LoaderInv

LEMMA TickKeeps ==
  ASSUME LoaderInv, NEW b \in Batches, Tick(b)
  PROVE  LoaderInv'
<1>1. LoaderTypeOK /\ OneOpen /\ Routed /\ Begun /\ KeysAsked
  BY DEF LoaderInv
<1>2. /\ batches[b].state = "tick"
      /\ UNCHANGED <<wanted, got, cache>>
      /\ queue' = {} /\ scheduled' = 0
  BY DEF Tick, Closed
<1>3. /\ batches' \in [Batches -> BatchRecord]
      /\ \A a \in Batches : /\ batches'[a].keys = IF a = b THEN queue ELSE batches[a].keys
                            /\ batches'[a].values = batches[a].values
                            /\ batches'[a].state = IF a = b THEN "query" ELSE batches[a].state
  BY <1>1 DEF Tick, LoaderTypeOK, BatchRecord
<1>4. scheduled = b /\ b # 0
  BY <1>1, <1>2, BatchesAreNumbers DEF OneOpen
<1>5. LoaderTypeOK'
  BY <1>1, <1>2, <1>3 DEF LoaderTypeOK, BatchRecord
<1>6. OneOpen'
  BY <1>1, <1>2, <1>3, <1>4, BatchesAreNumbers DEF OneOpen
<1>7. Routed'
  BY <1>1, <1>2, <1>3, <1>4, BatchesAreNumbers DEF Routed
<1>8. Begun' /\ KeysAsked'
  BY <1>1, <1>2, <1>3 DEF Begun, KeysAsked
<1>9. Told'
  BY <1>1, <1>2, <1>3, StateKept DEF Told
<1> QED
  BY <1>5, <1>6, <1>7, <1>8, <1>9 DEF LoaderInv

\* A query ends, found or failed.
LEMMA SettleKeeps ==
  ASSUME LoaderInv, NEW b \in Batches, batches[b].state = "query",
         NEW s \in {"done", "failed"}, NEW found \in SUBSET Keys,
         UNCHANGED <<wanted, got, cache, queue, scheduled>>,
         batches' \in [Batches -> BatchRecord],
         \A a \in Batches :
            /\ batches'[a].keys = batches[a].keys
            /\ batches'[a].values = IF a = b THEN found ELSE batches[a].values
            /\ batches'[a].state = IF a = b THEN s ELSE batches[a].state
  PROVE  LoaderInv'
<1>1. LoaderTypeOK /\ OneOpen /\ Routed /\ Begun /\ KeysAsked
  BY DEF LoaderInv
<1>2. LoaderTypeOK'
  BY <1>1 DEF LoaderTypeOK, BatchRecord
<1>3. OneOpen' /\ Routed' /\ Begun' /\ KeysAsked'
  BY <1>1 DEF OneOpen, Routed, Begun, KeysAsked
<1>4. Told'
  BY <1>1, StateKept
<1> QED
  BY <1>2, <1>3, <1>4 DEF LoaderInv

LEMMA FetchedKeeps ==
  ASSUME LoaderInv, NEW b \in Batches, NEW found \in SUBSET batches[b].keys, Fetched(b, found)
  PROVE  LoaderInv'
<1>1. LoaderTypeOK
  BY DEF LoaderInv
<1>2. found \in SUBSET Keys
  BY <1>1 DEF LoaderTypeOK
<1>3. /\ batches' \in [Batches -> BatchRecord]
      /\ \A a \in Batches :
            /\ batches'[a].keys = batches[a].keys
            /\ batches'[a].values = IF a = b THEN found ELSE batches[a].values
            /\ batches'[a].state = IF a = b THEN "done" ELSE batches[a].state
  BY <1>1, <1>2 DEF Fetched, LoaderTypeOK, BatchRecord
<1> QED
  BY <1>2, <1>3, SettleKeeps DEF Fetched

LEMMA FetchFailedKeeps ==
  ASSUME LoaderInv, NEW b \in Batches, FetchFailed(b)
  PROVE  LoaderInv'
<1>1. LoaderTypeOK
  BY DEF LoaderInv
<1>2. batches[b].values \in SUBSET Keys
  BY <1>1 DEF LoaderTypeOK
<1>3. /\ batches' \in [Batches -> BatchRecord]
      /\ \A a \in Batches :
            /\ batches'[a].keys = batches[a].keys
            /\ batches'[a].values = IF a = b THEN batches[b].values ELSE batches[a].values
            /\ batches'[a].state = IF a = b THEN "failed" ELSE batches[a].state
  BY <1>1 DEF FetchFailed, LoaderTypeOK, BatchRecord
<1> QED
  BY <1>2, <1>3, SettleKeeps DEF FetchFailed

LEMMA AnswerKeeps ==
  ASSUME LoaderInv, NEW c \in Loads, Answer(c)
  PROVE  LoaderInv'
<1>1. LoaderTypeOK /\ OneOpen /\ Routed /\ Begun /\ KeysAsked /\ Told
  BY DEF LoaderInv
<1>2. /\ UNCHANGED <<wanted, cache, queue, scheduled, batches>>
      /\ wanted[c] # NoKey
      /\ batches[cache[wanted[c]]].state \in {"done", "failed"}
      /\ got' = [got EXCEPT ![c] = Says(cache[wanted[c]], wanted[c])]
  BY DEF Answer, Says
<1>3. Says(cache[wanted[c]], wanted[c]) \in {"row", "none", "error"}
  BY DEF Says
<1>4. LoaderTypeOK'
  BY <1>1, <1>2, <1>3 DEF LoaderTypeOK
<1>5. OneOpen' /\ Routed' /\ Begun' /\ KeysAsked'
  BY <1>1, <1>2 DEF OneOpen, Routed, Begun, KeysAsked
<1>6. Told'
  <2>1. \A b, k : Says(b, k)' = Says(b, k)
    BY <1>2 DEF Says
  <2> QED
    BY <1>1, <1>2, <2>1 DEF Told, LoaderTypeOK
<1> QED
  BY <1>4, <1>5, <1>6 DEF LoaderInv

LEMMA StepKeeps == LoaderInv /\ [LoaderNext]_loaderVars => LoaderInv'
<1> SUFFICES ASSUME LoaderInv, [LoaderNext]_loaderVars PROVE LoaderInv'
  OBVIOUS
<1>1. CASE UNCHANGED loaderVars
  BY <1>1 DEF loaderVars, LoaderInv, LoaderTypeOK, OneOpen, Routed, Begun, KeysAsked, Told, Says
<1>2. ASSUME NEW c \in Loads, NEW k \in Keys, Load(c, k) PROVE LoaderInv'
  BY <1>2, LoadKeeps
<1>3. ASSUME NEW c \in Loads, Answer(c) PROVE LoaderInv'
  BY <1>3, AnswerKeeps
<1>4. ASSUME NEW b \in Batches, Microtask(b) PROVE LoaderInv'
  BY <1>4, MicrotaskKeeps
<1>5. ASSUME NEW b \in Batches, Tick(b) PROVE LoaderInv'
  BY <1>5, TickKeeps
<1>6. ASSUME NEW b \in Batches, NEW found \in SUBSET batches[b].keys, Fetched(b, found)
      PROVE  LoaderInv'
  BY <1>6, FetchedKeeps
<1>7. ASSUME NEW b \in Batches, FetchFailed(b) PROVE LoaderInv'
  BY <1>7, FetchFailedKeeps
<1> QED
  BY <1>1, <1>2, <1>3, <1>4, <1>5, <1>6, <1>7 DEF LoaderNext

----------------------------------------------------------------------------
(* The theorems *)

LEMMA InvIsEnough == LoaderInv => BatchesSettle
<1> SUFFICES ASSUME LoaderInv PROVE BatchesSettle
  OBVIOUS
<1>1. LoaderTypeOK /\ OneOpen /\ Routed /\ KeysAsked /\ Told
  BY DEF LoaderInv
<1>2. ASSUME NEW c \in Loads, wanted[c] # NoKey
      PROVE  LET b == cache[wanted[c]] IN
             IF batches[b].state \in {"microtask", "tick"}
             THEN scheduled = b /\ wanted[c] \in queue
             ELSE wanted[c] \in batches[b].keys
  <2>1. wanted[c] \in Keys /\ cache[wanted[c]] \in Batches
    BY <1>1, <1>2 DEF LoaderTypeOK, KeysAsked
  <2> QED
    BY <1>1, <1>2, <2>1, BatchesAreNumbers DEF OneOpen, Routed
<1>3. \A a, b \in Batches : a # b => batches[a].keys \cap batches[b].keys = {}
  BY <1>1 DEF Routed, LoaderTypeOK
<1>4. \A c, d \in Loads : wanted[c] = wanted[d] /\ "nothing" \notin {got[c], got[d]} =>
         got[c] = got[d]
  BY <1>1 DEF Told
<1> QED
  BY <1>2, <1>3, <1>4 DEF BatchesSettle

\* Every reachable state of a request's loader is of the types its module gives.
THEOREM LoaderTypes == LoaderSpec => []LoaderTypeOK
<1>1. LoaderInv => LoaderTypeOK
  BY DEF LoaderInv
<1> QED
  BY <1>1, InitLoader, StepKeeps, PTL DEF LoaderSpec

\* For any resolvers and any keys: whatever batches of createBatchLoader overlap and
\* fail, each key that was asked for is in the query of the batch that answers it and
\* in no other, and all who want it get the same answer.
THEOREM EveryKeySettlesOnce == LoaderSpec => []BatchesSettle
  BY InvIsEnough, InitLoader, StepKeeps, PTL DEF LoaderSpec

----------------------------------------------------------------------------
(* The components together *)

\* The part that runs keeps its invariant, and the others are as they began.
WorkshopInv ==
    /\ IF part = "stock" THEN StockInv ELSE StockInit
    /\ IF part = "production" THEN ProductionsInv ELSE ProductionsInit
    /\ IF part = "plan" THEN PlansInv ELSE PlansInit
    /\ IF part = "user" THEN UserInv ELSE UsersInit

LEMMA StockRests == StockInit /\ UNCHANGED stockVars => StockInit'
BY DEF StockInit, stockVars

LEMMA ProductionsRest == ProductionsInit /\ UNCHANGED productionVars => ProductionsInit'
BY DEF ProductionsInit, productionVars

LEMMA PlansRest == PlansInit /\ UNCHANGED planVars => PlansInit'
BY DEF PlansInit, planVars

LEMMA UsersRest == UsersInit /\ UNCHANGED userVars => UsersInit'
BY DEF UsersInit, userVars

LEMMA WorkshopBegins == ComponentsInit => WorkshopInv
BY StockBegins, ProductionsStart, PlansStart, UsersStart DEF ComponentsInit, WorkshopInv

LEMMA WorkshopSteps ==
  ASSUME WorkshopInv, [WorkshopNext]_<<part, slotVars, componentVars>>
  PROVE  WorkshopInv'
<1>1. CASE UNCHANGED <<part, slotVars, componentVars>>
  <2>1. /\ UNCHANGED <<slotVars, stockVars>> /\ UNCHANGED <<slotVars, productionVars>>
        /\ UNCHANGED <<slotVars, planVars>> /\ UNCHANGED <<slotVars, userVars>> /\ part' = part
    BY <1>1 DEF componentVars
  <2>2. StockInv => StockInv'
    BY <2>1, StockStays
  <2>3. ProductionsInv => ProductionsInv'
    BY <2>1, ProductionsStep
  <2>4. PlansInv => PlansInv'
    BY <2>1, PlansStep
  <2>5. UserInv => UserInv'
    BY <2>1, UsersStep
  <2>6. UNCHANGED stockVars /\ UNCHANGED productionVars /\ UNCHANGED planVars /\ UNCHANGED userVars
    BY <2>1
  <2> QED
    BY <2>1, <2>2, <2>3, <2>4, <2>5, <2>6, StockRests, ProductionsRest, PlansRest, UsersRest
       DEF WorkshopInv
<1>2. CASE /\ part = "stock" /\ StockNext
           /\ UNCHANGED <<part, productionVars, planVars, userVars, loaderVars>>
  <2>1. part' = part /\ UNCHANGED productionVars /\ UNCHANGED planVars /\ UNCHANGED userVars
    BY <1>2
  <2>2. StockInv'
    BY <1>2, StockStays DEF WorkshopInv
  <2> QED
    BY <1>2, <2>1, <2>2, ProductionsRest, PlansRest, UsersRest DEF WorkshopInv
<1>3. CASE /\ part = "production" /\ ProductionsNext
           /\ UNCHANGED <<part, stockVars, planVars, userVars, loaderVars>>
  <2>1. part' = part /\ UNCHANGED stockVars /\ UNCHANGED planVars /\ UNCHANGED userVars
    BY <1>3
  <2>2. ProductionsInv'
    BY <1>3, ProductionsStep DEF WorkshopInv
  <2> QED
    BY <1>3, <2>1, <2>2, StockRests, PlansRest, UsersRest DEF WorkshopInv
<1>4. CASE /\ part = "plan" /\ PlansNext
           /\ UNCHANGED <<part, stockVars, productionVars, userVars, loaderVars>>
  <2>1. part' = part /\ UNCHANGED stockVars /\ UNCHANGED productionVars /\ UNCHANGED userVars
    BY <1>4
  <2>2. PlansInv'
    BY <1>4, PlansStep DEF WorkshopInv
  <2> QED
    BY <1>4, <2>1, <2>2, StockRests, ProductionsRest, UsersRest DEF WorkshopInv
<1>5. CASE /\ part = "user" /\ UsersNext
           /\ UNCHANGED <<part, stockVars, productionVars, planVars, loaderVars>>
  <2>1. part' = part /\ UNCHANGED stockVars /\ UNCHANGED productionVars /\ UNCHANGED planVars
    BY <1>5
  <2>2. UserInv'
    BY <1>5, UsersStep DEF WorkshopInv
  <2> QED
    BY <1>5, <2>1, <2>2, StockRests, ProductionsRest, PlansRest DEF WorkshopInv
<1>6. CASE /\ part = "loader" /\ LoaderNext
           /\ UNCHANGED <<part, slotVars, stockVars, productionVars, planVars, userVars>>
  <2>1. /\ part' = part /\ UNCHANGED stockVars /\ UNCHANGED productionVars
        /\ UNCHANGED planVars /\ UNCHANGED userVars
    BY <1>6
  <2> QED
    BY <1>6, <2>1, StockRests, ProductionsRest, PlansRest, UsersRest DEF WorkshopInv
<1> QED
  BY <1>1, <1>2, <1>3, <1>4, <1>5, <1>6 DEF WorkshopNext

\* What is as it began is as nobody has asked.
LEMMA RestClaims ==
  /\ StockInit => StockAsAsked
  /\ ProductionsInit => TypesAgree /\ ProductionsAsAsked
  /\ PlansInit => PlanPerShift /\ PlansAsAsked
  /\ UsersInit => RolesAsAsked
<1>1. StockInit => StockAsAsked
  BY DEF StockInit, StockAsAsked
<1>2. ASSUME ProductionsInit PROVE TypesAgree /\ ProductionsAsAsked
  <2>1. Active(rows \cup roster) = {}
    BY <1>2 DEF ProductionsInit, Active
  <2>2. \A d \in Serials : ~LiveProduction(d)
    BY <1>2 DEF ProductionsInit, LiveProduction
  <2> QED
    BY <2>1, <2>2 DEF TypesAgree, ProductionsAsAsked
<1>3. ASSUME PlansInit PROVE PlanPerShift /\ PlansAsAsked
  <2>1. Active(crew \cup goods) = {}
    BY <1>3 DEF PlansInit, Active
  <2>2. \A d \in Serials : ~LivePlan(d)
    BY <1>3 DEF PlansInit, LivePlan
  <2> QED
    BY <2>1, <2>2 DEF PlanPerShift, PlansAsAsked
<1>4. UsersInit => RolesAsAsked
  BY DEF UsersInit, RolesAsAsked
<1> QED
  BY <1>1, <1>2, <1>3, <1>4

\* What is in force of a spare document, a production, a plan or a user is what its last
\* save that ended asked for, whatever failed halfway before and whatever else was in
\* flight, under the exceptions each component states.
THEOREM SavesAreAsAsked == WorkshopSpec => []SavedAsAsked
<1>1. ComponentsInit => WorkshopInv
  BY WorkshopBegins
<1>2. WorkshopInv /\ [WorkshopNext]_<<part, slotVars, componentVars>> => WorkshopInv'
  BY WorkshopSteps
<1>3. WorkshopInv => SavedAsAsked
  BY RestClaims, StockClaims, ProductionsClaims, PlansClaims, UsersClaims
     DEF WorkshopInv, SavedAsAsked
<1> QED
  BY <1>1, <1>2, <1>3, PTL DEF WorkshopSpec

\* What upsertOrderProduction and upsertProductionPlan validated before they wrote is
\* true of what is in force, in every reachable state.
THEOREM ValidationHolds == WorkshopSpec => []ValidatedStaysValid
<1>1. ComponentsInit => WorkshopInv
  BY WorkshopBegins
<1>2. WorkshopInv /\ [WorkshopNext]_<<part, slotVars, componentVars>> => WorkshopInv'
  BY WorkshopSteps
<1>3. WorkshopInv => ValidatedStaysValid
  BY RestClaims, ProductionsClaims, PlansClaims DEF WorkshopInv, ValidatedStaysValid
<1> QED
  BY <1>1, <1>2, <1>3, PTL DEF WorkshopSpec

----------------------------------------------------------------------------
(* The ledger of a product *)

LedgerWriters == {"save", "commit", "line", "header", "drop"}

\* What a request in flight holds.
FormJob(j) ==
    /\ j.target \in Doc /\ j.kind \in tables
    /\ j.kilos \in Int
    /\ j.kilos = 0 => Entered(j.target)

EntryJob(j) == j.target \in Doc /\ Entered(j.target)

LedgerJob(ph, j) ==
    CASE ph = "idle" -> TRUE
      [] ph = "save" -> FormJob(j)
      [] ph = "commit" -> FormJob(j) /\ j.at \in 0..clock
      [] ph = "line" -> FormJob(j) /\ EntryJob(j)
      [] ph = "header" -> EntryJob(j)
      [] ph = "drop" ->
           /\ EntryJob(j) /\ j = [n |-> j.n, target |-> j.target, left |-> j.left]
           /\ j.left \in {<<"line", "header">>, <<"header", "line">>, <<"header">>, <<"line">>}
      [] ph = "read" -> j.to \in Int /\ j = [n |-> j.n, to |-> j.to, found |-> j.found]
      [] OTHER -> FALSE

\* Nothing is stamped later than what is written at t will be.
Stamped(t) == \A d \in Doc : Entered(d) =>
    docs[d].header.at <= Stored(t) /\ docs[d].line.at <= Stored(t)

\* One write at a time, and no later stamp than that of a save about to commit.
OneWriter ==
    /\ \A p, q \in Procs : phase[p] \in LedgerWriters /\ phase[q] \in LedgerWriters => p = q
    /\ \A p \in Procs : phase[p] = "commit" => Stamped(job[p].at)

\* What else moves the stock than stood when d was last written was edited no earlier;
\* and if none of that has been written since, it was edited no later, and with d it
\* comes to the level noted then.
Remembered(d) ==
    /\ d \notin past[d].standing
    /\ \A e \in Doc \ {d} : Entered(d) /\ StockMove(docs[e]) # 0 /\ e \notin past[d].standing =>
          LastEdit(docs[e]) >= LastEdit(docs[d])
    /\ past[d].intact =>
          /\ past[d].level = StockMove(docs[d])
                               + SumFunction([e \in past[d].standing |-> StockMove(docs[e])])
          /\ \A e \in past[d].standing : LastEdit(docs[e]) <= LastEdit(docs[d])

LedgerInv ==
    /\ LedgerTypeOK
    /\ DOMAIN phase = Procs /\ DOMAIN job = Procs
    /\ \A p \in Procs : LedgerJob(phase[p], job[p])
    /\ \A d \in Doc : Entered(d) => docs[d].kind \in tables
    /\ Stamped(clock)
    /\ contended \in BOOLEAN
    /\ ~contended => OneWriter /\ \A d \in Doc : Remembered(d)

----------------------------------------------------------------------------
(* What a document does, and when it was stamped *)

LEMMA StampsGrow ==
  ASSUME NEW t \in Nat, NEW u \in Nat, t <= u
  PROVE  Stored(t) <= Stored(u) /\ Stored(t) \in 0..t + 1
<1>1. (t + 1) \div 2 \in Nat /\ (u + 1) \div 2 \in Nat
  OBVIOUS
<1>2. (t + 1) \div 2 <= (u + 1) \div 2 /\ 2 * ((t + 1) \div 2) <= t + 1
  OBVIOUS
<1> QED
  BY <1>1, <1>2 DEF Stored

LEMMA DocumentsFinite == IsFiniteSet(Doc)
<1>1. IsFiniteSet(0..MaxRequests)
  BY FS_Interval, RequestBounds
<1>2. Doc = 0..MaxRequests
  BY RequestBounds DEF Doc, Serials
<1> QED
  BY <1>1, <1>2

LEMMA DocumentColumns ==
  ASSUME LedgerNames, NEW x \in Document
  PROVE  /\ x # NoDoc /\ x.kind \in Kinds /\ x.delivered \in BOOLEAN
         /\ x.header \in Row /\ x.line \in Line
         /\ x.header.active \in BOOLEAN /\ x.line.active \in BOOLEAN
         /\ x.header.at \in Nat /\ x.line.at \in Nat /\ x.line.kilos \in Int
         /\ LastEdit(x) \in Nat
         /\ StockMove(x) \in Int
<1>1. x # NoDoc /\ x.kind \in Kinds /\ x.delivered \in BOOLEAN /\ x.header \in Row /\ x.line \in Line
  BY DEF LedgerNames, Document
<1>2. PICK h : h = x.header
  OBVIOUS
<1>3. PICK l : l = x.line
  OBVIOUS
<1>4. h.active \in BOOLEAN /\ h.at \in Nat
  BY <1>1, <1>2 DEF Row, Instants, LedgerNames
<1>5. l.active \in BOOLEAN /\ l.at \in Nat /\ l.kilos \in Int
  BY <1>1, <1>3 DEF Line, Instants, LedgerNames
<1>6. LastEdit(x) \in Nat
  BY <1>2, <1>3, <1>4, <1>5 DEF LastEdit
<1>7. Signed(x) \in Int
  BY <1>3, <1>5 DEF Signed
<1>8. StockMove(x) \in Int
  BY <1>7 DEF StockMove
<1> QED
  BY <1>1, <1>2, <1>3, <1>4, <1>5, <1>6, <1>8

\* A document there is, and one there is not.
LEMMA EntryColumns ==
  ASSUME LedgerNames, docs \in [Doc -> Document \cup {NoDoc}], NEW d \in Doc
  PROVE  /\ StockMove(docs[d]) \in Int
         /\ Entered(d) => docs[d] \in Document
         /\ ~Entered(d) => docs[d] = NoDoc /\ StockMove(docs[d]) = 0
<1>1. CASE docs[d] = NoDoc
  BY <1>1 DEF Entered, StockMove, InEffect
<1>2. CASE docs[d] \in Document
  <2>1. StockMove(docs[d]) \in Int /\ docs[d] # NoDoc
    BY <1>2, DocumentColumns
  <2> QED
    BY <1>2, <2>1 DEF Entered
<1> QED
  BY <1>1, <1>2

\* The level, by what stands.
LEMMA LevelOfStanding ==
  ASSUME NEW table, NEW d \in Doc, DOMAIN table = Doc,
         \A x \in Doc : StockMove(table[x]) \in Int,
         NEW S, S = {x \in Doc \ {d} : StockMove(table[x]) # 0}
  PROVE  /\ Balance(table) \in Int
         /\ Balance(table) = StockMove(table[d]) + SumFunction([e \in S |-> StockMove(table[e])])
<1>1. PICK f : f = [x \in Doc |-> StockMove(table[x])]
  OBVIOUS
<1>2. \A x \in Doc : f[x] = StockMove(table[x]) /\ f[x] \in Int
  BY <1>1
<1>3. IsFiniteSet(Doc)
  BY DocumentsFinite
<1>4. Balance(table) = SumFunctionOnSet(f, Doc)
  BY <1>1 DEF Balance, SumFunction
<1>5. SumFunctionOnSet(f, Doc) \in Int
  BY <1>2, <1>3, SumIsAnInteger
<1>6. SumFunctionOnSet(f, Doc) = f[d] + SumFunctionOnSet(f, Doc \ {d})
  BY <1>2, <1>3, SumTakesOut
<1>7. IsFiniteSet(Doc \ {d}) /\ S \subseteq Doc \ {d} /\ IsFiniteSet(S)
  BY <1>3, FS_Subset
<1>8. \A x \in (Doc \ {d}) \ S : f[x] = 0
  BY <1>2
<1>9. \A x \in Doc \ {d} : f[x] \in Int
  BY <1>2
<1>10. SumFunctionOnSet(f, Doc \ {d}) = SumFunctionOnSet(f, S)
  BY <1>7, <1>8, <1>9, SumWithoutZeros
<1>11. SumFunction([e \in S |-> StockMove(table[e])]) = SumFunctionOnSet(f, S)
  <2>1. PICK g : g = [e \in S |-> StockMove(table[e])]
    OBVIOUS
  <2>2. \A x \in S : g[x] = f[x]
    BY <1>2, <1>7, <2>1
  <2>3. SumFunctionOnSet(g, S) = SumFunctionOnSet(f, S)
    BY <1>7, <2>2, SameValuesSameSum
  <2> QED
    BY <2>1, <2>3 DEF SumFunction
<1> QED
  BY <1>2, <1>4, <1>5, <1>6, <1>10, <1>11

----------------------------------------------------------------------------
(* A committed write *)

\* What a write leaves of the tables and of what is remembered of them.
LedgerWrittenWell ==
    /\ LedgerTypeOK'
    /\ \A x \in Doc : Entered(x)' => docs'[x].kind \in tables'
    /\ Stamped(clock)'
    /\ ~contended => \A x \in Doc : Remembered(x)'

LEMMA LedgerWritten ==
  ASSUME LedgerNames, LedgerInv, NEW d \in Doc, NEW doc \in Document, doc.kind \in tables,
         NEW t \in 0..clock, Write(d, doc), LastEdit(doc) = Stored(t), ~contended => Stamped(t)
  PROVE  /\ LedgerWrittenWell
         /\ Entered(d)' /\ \A x \in Doc : Entered(x) => Entered(x)'
         /\ clock' = clock /\ tables' = tables
<1>1. LedgerTypeOK /\ Stamped(clock) /\ clock \in Nat /\ t \in Nat /\ t <= clock
  BY DEF LedgerInv, LedgerTypeOK, LedgerNames
<1>2. docs' = [docs EXCEPT ![d] = doc] /\ clock' = clock /\ tables' = tables
  BY DEF Write
<1>3. docs \in [Doc -> Document \cup {NoDoc}] /\ past \in [Doc -> Past]
  BY <1>1 DEF LedgerTypeOK
<1>4. docs' \in [Doc -> Document \cup {NoDoc}] /\ docs'[d] = doc
      /\ \A x \in Doc \ {d} : docs'[x] = docs[x]
  BY <1>2, <1>3
<1>5. doc # NoDoc /\ doc.header.at \in Nat /\ doc.line.at \in Nat /\ StockMove(doc) \in Int
  BY DocumentColumns
<1>6. Entered(d)' /\ \A x \in Doc : Entered(x) => Entered(x)'
  BY <1>4, <1>5 DEF Entered
<1>7. PICK S : S = {x \in Doc \ {d} : StockMove(docs[x]) # 0}
  OBVIOUS
<1>8. S \subseteq Doc \ {d} /\ S \subseteq Doc
  BY <1>7
<1>9. \A x \in Doc : StockMove(docs'[x]) \in Int
  <2>1. ASSUME NEW x \in Doc PROVE StockMove(docs'[x]) \in Int
    <3>1. CASE x = d
      BY <1>4, <1>5, <3>1
    <3>2. CASE x # d
      BY <1>3, <1>4, <3>2, EntryColumns
    <3> QED
      BY <3>1, <3>2
  <2> QED
    BY <2>1
<1>10. S = {x \in Doc \ {d} : StockMove(docs'[x]) # 0}
  BY <1>4, <1>7
<1>11. PICK after : after = docs'
  OBVIOUS
<1>12. PICK level : level = Balance(docs')
  OBVIOUS
<1>13. level \in Int /\ level = StockMove(doc) + SumFunction([e \in S |-> StockMove(docs'[e])])
  <2>1. DOMAIN after = Doc /\ (\A x \in Doc : StockMove(after[x]) \in Int)
        /\ S = {x \in Doc \ {d} : StockMove(after[x]) # 0}
    BY <1>4, <1>9, <1>10, <1>11
  <2>2. Balance(after) \in Int
        /\ Balance(after) = StockMove(after[d]) + SumFunction([e \in S |-> StockMove(after[e])])
    BY <2>1, LevelOfStanding
  <2> QED
    BY <1>4, <1>11, <1>12, <2>2
<1>14. past' = [x \in Doc |->
                  IF x = d THEN [level |-> level, standing |-> S, intact |-> TRUE]
                  ELSE [past[x] EXCEPT !.intact = @ /\ d \notin past[x].standing]]
  BY <1>7, <1>12 DEF Write
<1>15. past'[d].level = level /\ past'[d].standing = S /\ past'[d].intact /\ past'[d] \in Past
  <2>1. past'[d] = [level |-> level, standing |-> S, intact |-> TRUE]
    BY <1>14
  <2> QED
    BY <1>8, <1>13, <2>1 DEF Past
<1>16. ASSUME NEW x \in Doc, x # d
       PROVE  /\ past'[x] \in Past
              /\ past'[x].level = past[x].level /\ past'[x].standing = past[x].standing
              /\ past'[x].intact <=> past[x].intact /\ d \notin past[x].standing
  <2>1. PICK r : r = past[x]
    OBVIOUS
  <2>2. r \in Past
    BY <1>3, <2>1
  <2>3. past'[x] = [r EXCEPT !.intact = @ /\ d \notin r.standing]
    BY <1>14, <1>16, <2>1
  <2> QED
    BY <2>1, <2>2, <2>3 DEF Past
<1>17. LedgerTypeOK'
  <2>1. past' \in [Doc -> Past]
    <3>1. \A x \in Doc : past'[x] \in Past
      BY <1>15, <1>16
    <3>2. past' = [x \in Doc |-> past'[x]]
      BY <1>14
    <3> QED
      BY <3>1, <3>2
  <2> QED
    BY <1>1, <1>2, <1>4, <2>1 DEF LedgerTypeOK
<1>18. \A x \in Doc : Entered(x)' => docs'[x].kind \in tables'
  BY <1>2, <1>4 DEF LedgerInv, Entered
<1>19. doc.header.at <= Stored(t) /\ doc.line.at <= Stored(t)
  BY <1>5 DEF LastEdit
<1>20. Stored(t) <= Stored(clock) /\ Stored(t) \in Nat /\ Stored(clock) \in Nat
  BY <1>1, StampsGrow
<1>21. Stamped(clock)'
  <2>1. ASSUME NEW x \in Doc, Entered(x)'
        PROVE  docs'[x].header.at <= Stored(clock) /\ docs'[x].line.at <= Stored(clock)
    <3>1. CASE x = d
      BY <1>4, <1>5, <1>19, <1>20, <3>1
    <3>2. CASE x # d
      BY <1>1, <1>4, <2>1, <3>2 DEF Stamped, Entered
    <3> QED
      BY <3>1, <3>2
  <2> QED
    BY <1>2, <2>1 DEF Stamped, Stored
<1>22. ASSUME ~contended, NEW x \in Doc PROVE Remembered(x)'
  <2>1. Stamped(t) /\ Remembered(x)
    BY <1>22 DEF LedgerInv
  <2>2. \A e \in Doc : Entered(e) => LastEdit(docs[e]) \in Nat /\ LastEdit(docs[e]) <= Stored(t)
    <3>1. ASSUME NEW e \in Doc, Entered(e)
          PROVE  LastEdit(docs[e]) \in Nat /\ LastEdit(docs[e]) <= Stored(t)
      <4>1. docs[e] \in Document
        BY <1>3, <3>1, EntryColumns
      <4>2. LastEdit(docs[e]) \in Nat
        BY <4>1, DocumentColumns
      <4> QED
        BY <2>1, <3>1, <4>2 DEF Stamped, LastEdit
    <3> QED
      BY <3>1
  <2>3. \A e \in Doc : StockMove(docs[e]) # 0 => Entered(e)
    BY <1>3, EntryColumns
  <2>4. CASE x = d
    <3>1. d \notin S
      BY <1>8
    <3>2. \A e \in Doc \ {d} : StockMove(docs'[e]) # 0 => e \in S
      BY <1>10
    <3>3. \A e \in S : LastEdit(docs'[e]) <= LastEdit(docs'[d])
      BY <1>4, <1>7, <1>8, <2>2, <2>3
    <3>4. past'[d].level = StockMove(docs'[d])
             + SumFunction([e \in past'[d].standing |-> StockMove(docs'[e])])
      BY <1>4, <1>13, <1>15
    <3> QED
      BY <1>15, <2>4, <3>1, <3>2, <3>3, <3>4 DEF Remembered
  <2>5. CASE x # d
    <3>1. docs'[x] = docs[x] /\ (Entered(x)' <=> Entered(x))
      BY <1>4, <2>5 DEF Entered
    <3>2. x \notin past'[x].standing
      BY <1>16, <2>1, <2>5 DEF Remembered
    <3>3. ASSUME NEW e \in Doc \ {x}, Entered(x), StockMove(docs'[e]) # 0, e \notin past[x].standing
          PROVE  LastEdit(docs'[e]) >= LastEdit(docs[x])
      <4>1. CASE e = d
        <5>1. LastEdit(docs'[e]) = Stored(t)
          BY <1>4, <4>1
        <5> QED
          BY <1>20, <2>2, <3>3, <5>1
      <4>2. CASE e # d
        <5>1. docs'[e] = docs[e]
          BY <1>4, <4>2
        <5> QED
          BY <2>1, <3>3, <5>1 DEF Remembered
      <4> QED
        BY <4>1, <4>2
    <3>4. ASSUME past'[x].intact
          PROVE  /\ past[x].level = StockMove(docs[x])
                             + SumFunction([e \in past[x].standing |-> StockMove(docs'[e])])
                 /\ \A e \in past[x].standing : LastEdit(docs'[e]) <= LastEdit(docs[x])
      <4>1. past[x].intact /\ d \notin past[x].standing
        BY <1>16, <2>5, <3>4
      <4>2. past[x].standing \subseteq Doc
        BY <1>3 DEF Past
      <4>3. \A e \in past[x].standing : docs'[e] = docs[e]
        BY <1>4, <4>1, <4>2
      <4>4. [e \in past[x].standing |-> StockMove(docs'[e])]
              = [e \in past[x].standing |-> StockMove(docs[e])]
        BY <4>3
      <4> QED
        BY <2>1, <4>1, <4>3, <4>4 DEF Remembered
    <3>5. past'[x].level = past[x].level /\ past'[x].standing = past[x].standing
      BY <1>16, <2>5
    <3> QED
      BY <3>1, <3>2, <3>3, <3>4, <3>5 DEF Remembered
  <2> QED
    BY <2>4, <2>5
<1>23. ~contended => \A x \in Doc : Remembered(x)'
  BY <1>22
<1>24. LedgerWrittenWell
  BY <1>17, <1>18, <1>21, <1>23 DEF LedgerWrittenWell
<1> QED
  BY <1>2, <1>6, <1>24

----------------------------------------------------------------------------
(* The steps *)

\* One slot moves, to a phase whose job is fit; documents that are there stay.
LedgerTurn(p, ph, j) ==
    /\ phase' = [phase EXCEPT ![p] = ph] /\ job' = [job EXCEPT ![p] = j]
    /\ LedgerJob(ph, j)'
    /\ tables' = tables /\ clock' = clock
    /\ \A x \in Doc : Entered(x) => Entered(x)'

\* The slots, but for who writes.
LedgerSlots ==
    /\ DOMAIN phase = Procs /\ DOMAIN job = Procs
    /\ \A q \in Procs : LedgerJob(phase[q], job[q])

LEMMA JobStaysFit ==
  ASSUME NEW ph, NEW j, LedgerJob(ph, j), tables' = tables, clock' \in clock..clock + 1,
         clock \in Nat, \A x \in Doc : Entered(x) => Entered(x)'
  PROVE  LedgerJob(ph, j)'
<1>1. FormJob(j) => FormJob(j)'
  BY DEF FormJob
<1>2. EntryJob(j) => EntryJob(j)'
  BY DEF EntryJob
<1>3. j.at \in 0..clock => j.at \in 0..clock'
  OBVIOUS
<1> QED
  BY <1>1, <1>2, <1>3 DEF LedgerJob

LEMMA LedgerTurns ==
  ASSUME LedgerNames, LedgerInv, NEW p \in Procs, NEW ph, NEW j, LedgerTurn(p, ph, j)
  PROVE  /\ LedgerSlots'
         /\ phase'[p] = ph /\ job'[p] = j
         /\ \A q \in Procs : q # p => phase'[q] = phase[q] /\ job'[q] = job[q]
<1>1. DOMAIN phase = Procs /\ DOMAIN job = Procs /\ clock \in Nat
  BY DEF LedgerInv, LedgerTypeOK, LedgerNames
<1>2. DOMAIN phase' = Procs /\ DOMAIN job' = Procs /\ phase'[p] = ph /\ job'[p] = j
      /\ \A q \in Procs : q # p => phase'[q] = phase[q] /\ job'[q] = job[q]
  BY <1>1 DEF LedgerTurn
<1>3. ASSUME NEW q \in Procs PROVE LedgerJob(phase[q], job[q])'
  <2>1. PICK f : f = phase'[q]
    OBVIOUS
  <2>2. PICK k : k = job'[q]
    OBVIOUS
  <2>3. CASE q = p
    <3>1. f = ph /\ k = j
      BY <1>2, <2>1, <2>2, <2>3
    <3>2. LedgerJob(f, k)'
      BY <3>1 DEF LedgerTurn
    <3> QED
      BY <2>1, <2>2, <3>2
  <2>4. CASE q # p
    <3>1. f = phase[q] /\ k = job[q]
      BY <1>2, <2>1, <2>2, <2>4
    <3>2. LedgerJob(f, k)
      BY <3>1 DEF LedgerInv
    <3>3. tables' = tables /\ clock' \in clock..clock + 1 /\ \A x \in Doc : Entered(x) => Entered(x)'
      BY <1>1 DEF LedgerTurn
    <3>4. LedgerJob(f, k)'
      BY <1>1, <3>2, <3>3, JobStaysFit
    <3> QED
      BY <2>1, <2>2, <3>4
  <2> QED
    BY <2>3, <2>4
<1>4. LedgerSlots'
  BY <1>2, <1>3 DEF LedgerSlots
<1> QED
  BY <1>2, <1>4

\* A writer writes and goes on, or ends.
LEMMA WriterGoesOn ==
  ASSUME LedgerNames, LedgerInv, NEW p \in Procs, NEW ph, NEW j, LedgerTurn(p, ph, j),
         phase[p] \in LedgerWriters, ph # "commit", contended' = contended,
         LedgerWrittenWell
  PROVE  LedgerInv'
<1>1. LedgerSlots' /\ phase'[p] = ph /\ \A q \in Procs : q # p => phase'[q] = phase[q]
  BY LedgerTurns
<1>2. ASSUME ~contended PROVE OneWriter'
  <2>1. \A q \in Procs : q # p => phase[q] \notin LedgerWriters
    BY <1>2 DEF LedgerInv, OneWriter
  <2>2. \A q \in Procs : phase'[q] \in LedgerWriters => q = p
    BY <1>1, <2>1
  <2>3. \A q \in Procs : phase'[q] # "commit"
    <3>1. "commit" \in LedgerWriters
      BY DEF LedgerWriters
    <3> QED
      BY <1>1, <2>2, <3>1
  <2> QED
    BY <2>2, <2>3 DEF OneWriter, LedgerWriters
<1>3. contended' \in BOOLEAN
  BY DEF LedgerInv
<1>4. ~contended' => OneWriter' /\ \A x \in Doc : Remembered(x)'
  BY <1>2 DEF LedgerWrittenWell
<1>5. LedgerTypeOK' /\ (\A x \in Doc : Entered(x)' => docs'[x].kind \in tables') /\ Stamped(clock)'
  BY DEF LedgerWrittenWell
<1> QED
  BY <1>1, <1>3, <1>4, <1>5 DEF LedgerInv, LedgerSlots

\* A step that writes no table.
LEMMA TablesKept ==
  ASSUME LedgerInv, UNCHANGED ledgerVars
  PROVE  /\ LedgerWrittenWell
         /\ \A x \in Doc : (Entered(x)' <=> Entered(x)) /\ (Remembered(x) <=> Remembered(x)')
         /\ \A t \in Int : Stamped(t) <=> Stamped(t)'
         /\ tables' = tables /\ clock' = clock
<1>1. clock' = clock /\ tables' = tables /\ docs' = docs /\ past' = past
  BY DEF ledgerVars
<1>2. \A x \in Doc : (Entered(x)' <=> Entered(x)) /\ (Remembered(x) <=> Remembered(x)')
  BY <1>1 DEF Entered, Remembered
<1>3. \A t : Stamped(t) <=> Stamped(t)'
  BY <1>1 DEF Stamped, Entered
<1>4. LedgerTypeOK' /\ Stamped(clock)'
  BY <1>1 DEF LedgerInv, LedgerTypeOK, Stamped, Entered
<1>5. \A x \in Doc : Entered(x)' => docs'[x].kind \in tables'
  BY <1>1 DEF LedgerInv, Entered
<1>6. ~contended => \A x \in Doc : Remembered(x)'
  BY <1>2 DEF LedgerInv
<1> QED
  BY <1>1, <1>2, <1>3, <1>4, <1>5, <1>6 DEF LedgerWrittenWell

\* A request that writes begins.
LEMMA WriterBegins ==
  ASSUME LedgerNames, LedgerInv, NEW p \in Procs, NEW ph, NEW j, Start(p, ph, j, Writing),
         UNCHANGED ledgerVars, LedgerJob(ph, j), ph = "commit" => j.at = clock
  PROVE  LedgerInv'
<1>1. /\ phase' = [phase EXCEPT ![p] = ph] /\ job' = [job EXCEPT ![p] = j]
      /\ contended' = (contended \/ Writing # {})
  BY DEF Start
<1>2. /\ LedgerWrittenWell
      /\ \A x \in Doc : (Entered(x)' <=> Entered(x)) /\ (Remembered(x) <=> Remembered(x)')
      /\ tables' = tables /\ clock' = clock
  BY TablesKept
<1>3. clock \in Nat
  BY DEF LedgerInv, LedgerTypeOK, LedgerNames
<1>4. LedgerJob(ph, j)'
  <2>1. clock' \in clock..clock + 1 /\ \A x \in Doc : Entered(x) => Entered(x)'
    BY <1>2, <1>3
  <2> QED
    BY <1>2, <1>3, <2>1, JobStaysFit
<1>5. LedgerTurn(p, ph, j)
  BY <1>1, <1>2, <1>4 DEF LedgerTurn
<1>6. LedgerSlots' /\ phase'[p] = ph /\ job'[p] = j
      /\ \A q \in Procs : q # p => phase'[q] = phase[q] /\ job'[q] = job[q]
  BY <1>5, LedgerTurns
<1>7. ASSUME ~contended' PROVE OneWriter'
  <2>1. ~contended /\ Writing = {}
    BY <1>1, <1>7
  <2>2. \A q \in Procs : phase[q] \notin LedgerWriters
    BY <2>1 DEF Writing, InFlight, LedgerWriters
  <2>3. \A q \in Procs : phase'[q] \in LedgerWriters => q = p
    BY <1>6, <2>2
  <2>4. ASSUME NEW q \in Procs, phase'[q] = "commit" PROVE Stamped(job[q].at)'
    <3>1. q = p
      BY <2>3, <2>4 DEF LedgerWriters
    <3>2. job'[q].at = clock'
      BY <1>2, <1>6, <2>4, <3>1
    <3>3. Stamped(clock)'
      BY <1>2 DEF LedgerWrittenWell
    <3> QED
      BY <3>2, <3>3 DEF Stamped
  <2> QED
    BY <2>3, <2>4 DEF OneWriter
<1>8. contended' \in BOOLEAN
  BY <1>1 DEF LedgerInv
<1>9. ~contended' => ~contended
  BY <1>1
<1>10. ~contended' => OneWriter' /\ \A x \in Doc : Remembered(x)'
  BY <1>2, <1>7, <1>9 DEF LedgerWrittenWell
<1>11. LedgerTypeOK' /\ (\A x \in Doc : Entered(x)' => docs'[x].kind \in tables') /\ Stamped(clock)'
  BY <1>2 DEF LedgerWrittenWell
<1> QED
  BY <1>6, <1>8, <1>10, <1>11 DEF LedgerInv, LedgerSlots

\* A reading begins or goes on, or a request ends.
LEMMA NobodyWrites ==
  ASSUME LedgerNames, LedgerInv, NEW p \in Procs, NEW ph, NEW j,
         phase' = [phase EXCEPT ![p] = ph], job' = [job EXCEPT ![p] = j], contended' = contended,
         UNCHANGED ledgerVars, LedgerJob(ph, j), ph \notin LedgerWriters
  PROVE  LedgerInv'
<1>2. /\ LedgerWrittenWell
      /\ \A x \in Doc : (Entered(x)' <=> Entered(x)) /\ (Remembered(x) <=> Remembered(x)')
      /\ tables' = tables /\ clock' = clock
  BY TablesKept
<1>3. clock \in Nat
  BY DEF LedgerInv, LedgerTypeOK, LedgerNames
<1>4. LedgerJob(ph, j)'
  <2>1. clock' \in clock..clock + 1 /\ \A x \in Doc : Entered(x) => Entered(x)'
    BY <1>2, <1>3
  <2> QED
    BY <1>2, <1>3, <2>1, JobStaysFit
<1>5. LedgerTurn(p, ph, j)
  BY <1>2, <1>4 DEF LedgerTurn
<1>6. LedgerSlots' /\ phase'[p] = ph /\ job'[p] = j
      /\ \A q \in Procs : q # p => phase'[q] = phase[q] /\ job'[q] = job[q]
  BY <1>5, LedgerTurns
<1>7. ASSUME ~contended PROVE OneWriter'
  <2>1. OneWriter
    BY <1>7 DEF LedgerInv
  <2>2. \A q \in Procs : phase'[q] \in LedgerWriters => q # p
    BY <1>6
  <2>3. \A q, r \in Procs : phase'[q] \in LedgerWriters /\ phase'[r] \in LedgerWriters => q = r
    BY <1>6, <2>1, <2>2 DEF OneWriter
  <2>4. ASSUME NEW q \in Procs, phase'[q] = "commit" PROVE Stamped(job[q].at)'
    <3>1. phase'[q] \in LedgerWriters
      BY <2>4 DEF LedgerWriters
    <3>2. phase[q] = "commit" /\ job'[q] = job[q]
      BY <1>6, <2>2, <2>4, <3>1
    <3>3. Stamped(job[q].at)
      BY <2>1, <3>2 DEF OneWriter
    <3>4. docs' = docs
      BY DEF ledgerVars
    <3> QED
      BY <3>2, <3>3, <3>4 DEF Stamped, Entered
  <2> QED
    BY <2>3, <2>4 DEF OneWriter
<1>8. contended' \in BOOLEAN
  BY DEF LedgerInv
<1>10. ~contended' => OneWriter' /\ \A x \in Doc : Remembered(x)'
  BY <1>2, <1>7 DEF LedgerWrittenWell
<1>11. LedgerTypeOK' /\ (\A x \in Doc : Entered(x)' => docs'[x].kind \in tables') /\ Stamped(clock)'
  BY <1>2 DEF LedgerWrittenWell
<1> QED
  BY <1>6, <1>8, <1>10, <1>11 DEF LedgerInv, LedgerSlots

\* A document there is, stamped no later than now.
LEMMA EntryStamps ==
  ASSUME LedgerNames, LedgerInv, NEW d \in Doc, Entered(d)
  PROVE  /\ docs[d] \in Document /\ docs[d].kind \in tables
         /\ docs[d].header.at <= Stored(clock) /\ docs[d].line.at <= Stored(clock)
<1>1. docs[d] \in Document
  BY EntryColumns DEF LedgerInv, LedgerTypeOK
<1> QED
  BY <1>1 DEF LedgerInv, Stamped

LEMMA StampInRange ==
  ASSUME LedgerNames, LedgerInv, NEW t \in 0..clock
  PROVE  /\ clock \in Nat /\ t \in Nat /\ tables \subseteq Kinds
         /\ Stored(t) \in Instants /\ Stored(t) \in Nat /\ Stored(t) <= Stored(clock)
<1>1. clock \in 0..MaxClock /\ MaxClock \in Nat /\ tables \subseteq Kinds
  BY DEF LedgerInv, LedgerTypeOK, LedgerNames
<1>2. clock \in Nat /\ t \in Nat /\ t <= clock
  BY <1>1
<1>3. Stored(t) \in 0..t + 1 /\ Stored(t) <= Stored(clock)
  BY <1>2, StampsGrow
<1> QED
  BY <1>1, <1>2, <1>3 DEF Instants

\* The header and the line of a form.
LEMMA HeaderOfForm ==
  ASSUME LedgerNames, LedgerInv, NEW d \in Doc, NEW kind \in tables, NEW t \in 0..clock
  PROVE  /\ Header(d, kind, t) \in Document
         /\ Header(d, kind, t).kind \in tables
         /\ Header(d, kind, t).header.at = Stored(t)
         /\ Header(d, kind, t).line.at <= Stored(clock)
<1>1. tables \subseteq Kinds /\ Stored(t) \in Instants /\ Stored(t) \in Nat /\ Stored(t) <= Stored(clock)
  BY StampInRange
<1>2. CASE Entered(d)
  <2>1. PICK x : x = docs[d]
    OBVIOUS
  <2>2. x \in Document /\ x.kind \in tables /\ x.line.at <= Stored(clock)
    BY <1>2, <2>1, EntryStamps
  <2>3. x.header \in Row
    BY <2>2 DEF Document
  <2>4. PICK h : h = [x.header EXCEPT !.at = Stored(t)]
    OBVIOUS
  <2>5. h \in Row /\ h.at = Stored(t)
    BY <1>1, <2>3, <2>4 DEF Row
  <2>6. PICK y : y = [x EXCEPT !.header = h]
    OBVIOUS
  <2>7. y \in Document /\ y.kind = x.kind /\ y.header = h /\ y.line = x.line
    BY <2>2, <2>5, <2>6 DEF Document
  <2>8. Header(d, kind, t) = y
    BY <1>2, <2>1, <2>4, <2>6 DEF Header
  <2> QED
    BY <2>2, <2>5, <2>7, <2>8
<1>3. CASE ~Entered(d)
  <2>1. PICK y : y = NewDoc(kind, t)
    OBVIOUS
  <2>2. PICK h : h = [active |-> TRUE, at |-> Stored(t)]
    OBVIOUS
  <2>3. PICK l : l = [active |-> FALSE, at |-> Stored(t), kilos |-> 0]
    OBVIOUS
  <2>4. h \in Row /\ h.at = Stored(t)
    BY <1>1, <2>2 DEF Row
  <2>5. l \in Line /\ l.at = Stored(t)
    BY <1>1, <2>3 DEF Line
  <2>6. y = [kind |-> kind, delivered |-> FALSE, header |-> h, line |-> l]
    BY <2>1, <2>2, <2>3 DEF NewDoc
  <2>7. y \in Document /\ y.kind = kind /\ y.header = h /\ y.line = l
    BY <1>1, <2>4, <2>5, <2>6 DEF Document
  <2>8. Header(d, kind, t) = y
    BY <1>3, <2>1 DEF Header
  <2> QED
    BY <1>1, <2>4, <2>5, <2>7, <2>8
<1> QED
  BY <1>2, <1>3

LEMMA LineOfForm ==
  ASSUME LedgerNames, LedgerInv, NEW d \in Doc, NEW kilos \in Int, kilos = 0 => Entered(d),
         NEW t \in 0..clock
  PROVE  LineAsked(d, kilos, t) \in Line /\ LineAsked(d, kilos, t).at = Stored(t)
<1>1. Stored(t) \in Instants
  BY StampInRange
<1>2. CASE kilos # 0
  <2>1. LineAsked(d, kilos, t) = [active |-> TRUE, at |-> Stored(t), kilos |-> kilos]
    BY <1>2 DEF LineAsked
  <2> QED
    BY <1>1, <2>1 DEF Line
<1>3. CASE kilos = 0
  <2>1. PICK l : l = docs[d].line
    OBVIOUS
  <2>2. docs[d] \in Document
    BY <1>3, EntryStamps
  <2>3. l \in Line
    BY <2>1, <2>2 DEF Document
  <2>4. LineAsked(d, kilos, t) = [l EXCEPT !.active = FALSE, !.at = Stored(t)]
    BY <1>3, <2>1 DEF LineAsked
  <2> QED
    BY <1>1, <2>3, <2>4 DEF Line
<1> QED
  BY <1>2, <1>3

\* A request that ends.
LEMMA EndedTurn ==
  ASSUME NEW p \in Procs, Finish(p), tables' = tables, clock' = clock,
         \A x \in Doc : Entered(x) => Entered(x)'
  PROVE  LedgerTurn(p, "idle", NoJob) /\ contended' = contended
<1>1. LedgerJob("idle", NoJob)'
  BY DEF LedgerJob
<1> QED
  BY <1>1 DEF Finish, Goto, LedgerTurn

LEMMA SaveCommitted ==
  ASSUME LedgerNames, LedgerInv, NEW p \in Procs, CommitSave(p)
  PROVE  LedgerInv'
<1>1. PICK j : j = job[p]
  OBVIOUS
<1>2. phase[p] = "commit" /\ Finish(p)
  BY DEF CommitSave
<1>3. LedgerJob("commit", j)
  BY <1>1, <1>2 DEF LedgerInv
<1>4. FormJob(j) /\ j.at \in 0..clock
  BY <1>3 DEF LedgerJob
<1>5. j.target \in Doc /\ j.kind \in tables /\ j.kilos \in Int /\ (j.kilos = 0 => Entered(j.target))
  BY <1>4 DEF FormJob
<1>6. PICK h : h = Header(j.target, j.kind, j.at)
  OBVIOUS
<1>7. PICK l : l = LineAsked(j.target, j.kilos, j.at)
  OBVIOUS
<1>8. h \in Document /\ h.kind \in tables /\ h.header.at = Stored(j.at)
  BY <1>4, <1>5, <1>6, HeaderOfForm
<1>9. l \in Line /\ l.at = Stored(j.at)
  BY <1>4, <1>5, <1>7, LineOfForm
<1>10. PICK doc : doc = [h EXCEPT !.line = l]
  OBVIOUS
<1>11. doc \in Document /\ doc.kind = h.kind /\ doc.header = h.header /\ doc.line = l
  BY <1>8, <1>9, <1>10 DEF Document
<1>12. LastEdit(doc) = Stored(j.at)
  BY <1>8, <1>9, <1>11 DEF LastEdit
<1>13. Write(j.target, doc)
  BY <1>1, <1>6, <1>7, <1>10 DEF CommitSave
<1>14. ~contended => Stamped(j.at)
  BY <1>1, <1>2 DEF LedgerInv, OneWriter
<1>15. /\ LedgerWrittenWell /\ clock' = clock /\ tables' = tables
       /\ \A x \in Doc : Entered(x) => Entered(x)'
  BY <1>4, <1>5, <1>8, <1>11, <1>12, <1>13, <1>14, LedgerWritten
<1>16. LedgerTurn(p, "idle", NoJob) /\ contended' = contended
  BY <1>2, <1>15, EndedTurn
<1>17. phase[p] \in LedgerWriters
  BY <1>2 DEF LedgerWriters
<1> QED
  BY <1>15, <1>16, <1>17, WriterGoesOn

LEMMA HeaderSaved ==
  ASSUME LedgerNames, LedgerInv, NEW p \in Procs, SaveHeader(p)
  PROVE  LedgerInv'
<1>1. PICK j : j = job[p]
  OBVIOUS
<1>2. phase[p] = "save" /\ Goto(p, "line", j)
  BY <1>1 DEF SaveHeader
<1>3. LedgerJob("save", j)
  BY <1>1, <1>2 DEF LedgerInv
<1>4. FormJob(j)
  BY <1>3 DEF LedgerJob
<1>5. j.target \in Doc /\ j.kind \in tables /\ j.kilos \in Int /\ (j.kilos = 0 => Entered(j.target))
  BY <1>4 DEF FormJob
<1>6. PICK doc : doc = Header(j.target, j.kind, clock)
  OBVIOUS
<1>7. clock \in Nat
  BY DEF LedgerInv, LedgerTypeOK, LedgerNames
<1>8. clock \in 0..clock
  BY <1>7
<1>9. doc \in Document /\ doc.kind \in tables /\ doc.header.at = Stored(clock)
      /\ doc.line.at <= Stored(clock)
  BY <1>5, <1>6, <1>8, HeaderOfForm
<1>10. doc.line.at \in Nat /\ Stored(clock) \in Nat
  BY <1>8, <1>9, DocumentColumns, StampInRange
<1>12. LastEdit(doc) = Stored(clock)
  BY <1>9, <1>10 DEF LastEdit
<1>13. Write(j.target, doc)
  BY <1>1, <1>6 DEF SaveHeader
<1>14. Stamped(clock)
  BY DEF LedgerInv
<1>15. /\ LedgerWrittenWell /\ clock' = clock /\ tables' = tables /\ Entered(j.target)'
       /\ \A x \in Doc : Entered(x) => Entered(x)'
  BY <1>5, <1>8, <1>9, <1>12, <1>13, <1>14, LedgerWritten
<1>16. FormJob(j)'
  BY <1>5, <1>15 DEF FormJob
<1>17. LedgerJob("line", j)'
  BY <1>5, <1>15, <1>16 DEF LedgerJob, EntryJob
<1>18. LedgerTurn(p, "line", j) /\ contended' = contended
  BY <1>2, <1>15, <1>17 DEF LedgerTurn, Goto
<1>19. phase[p] \in LedgerWriters
  BY <1>2 DEF LedgerWriters
<1> QED
  BY <1>15, <1>18, <1>19, WriterGoesOn

\* A write now of one part of a document there is.
LEMMA EntryWritten ==
  ASSUME LedgerNames, LedgerInv, NEW d \in Doc, Entered(d), NEW doc \in Document,
         doc.kind = docs[d].kind, Write(d, doc),
         \/ doc.header.at = Stored(clock) /\ doc.line.at = docs[d].line.at
         \/ doc.line.at = Stored(clock) /\ doc.header.at = docs[d].header.at
  PROVE  /\ LedgerWrittenWell /\ clock' = clock /\ tables' = tables
         /\ \A x \in Doc : Entered(x) => Entered(x)'
<1>1. clock \in Nat
  BY DEF LedgerInv, LedgerTypeOK, LedgerNames
<1>2. clock \in 0..clock
  BY <1>1
<1>3. doc.kind \in tables /\ docs[d].header.at <= Stored(clock) /\ docs[d].line.at <= Stored(clock)
  BY EntryStamps
<1>4. doc.line.at \in Nat /\ doc.header.at \in Nat /\ Stored(clock) \in Nat
  BY <1>2, DocumentColumns, StampInRange
<1>5. LastEdit(doc) = Stored(clock)
  BY <1>3, <1>4 DEF LastEdit
<1>6. Stamped(clock)
  BY DEF LedgerInv
<1> QED
  BY <1>2, <1>3, <1>5, <1>6, LedgerWritten

LEMMA LineSaved ==
  ASSUME LedgerNames, LedgerInv, NEW p \in Procs, SaveLine(p)
  PROVE  LedgerInv'
<1>1. PICK j : j = job[p]
  OBVIOUS
<1>2. phase[p] = "line" /\ Finish(p)
  BY DEF SaveLine
<1>3. LedgerJob("line", j)
  BY <1>1, <1>2 DEF LedgerInv
<1>4. FormJob(j) /\ EntryJob(j)
  BY <1>3 DEF LedgerJob
<1>5. j.target \in Doc /\ Entered(j.target) /\ j.kilos \in Int
  BY <1>4 DEF FormJob, EntryJob
<1>6. clock \in Nat
  BY DEF LedgerInv, LedgerTypeOK, LedgerNames
<1>7. clock \in 0..clock
  BY <1>6
<1>8. PICK x : x = docs[j.target]
  OBVIOUS
<1>9. PICK l : l = LineAsked(j.target, j.kilos, clock)
  OBVIOUS
<1>10. l \in Line /\ l.at = Stored(clock)
  BY <1>5, <1>7, <1>9, LineOfForm
<1>11. x \in Document
  BY <1>5, <1>8, EntryStamps
<1>12. PICK doc : doc = [x EXCEPT !.line = l]
  OBVIOUS
<1>13. doc \in Document /\ doc.kind = x.kind /\ doc.header = x.header /\ doc.line = l
  BY <1>10, <1>11, <1>12 DEF Document
<1>14. Write(j.target, doc)
  BY <1>1, <1>8, <1>9, <1>12 DEF SaveLine
<1>15. /\ LedgerWrittenWell /\ clock' = clock /\ tables' = tables
       /\ \A y \in Doc : Entered(y) => Entered(y)'
  BY <1>5, <1>8, <1>10, <1>13, <1>14, EntryWritten
<1>16. LedgerTurn(p, "idle", NoJob) /\ contended' = contended
  BY <1>2, <1>15, EndedTurn
<1>17. phase[p] \in LedgerWriters
  BY <1>2 DEF LedgerWriters
<1> QED
  BY <1>15, <1>16, <1>17, WriterGoesOn

LEMMA StatusSaved ==
  ASSUME LedgerNames, LedgerInv, NEW p \in Procs, WriteHeader(p)
  PROVE  LedgerInv'
<1>1. PICK j : j = job[p]
  OBVIOUS
<1>2. phase[p] = "header" /\ Finish(p)
  BY DEF WriteHeader
<1>3. LedgerJob("header", j)
  BY <1>1, <1>2 DEF LedgerInv
<1>4. j.target \in Doc /\ Entered(j.target)
  BY <1>3 DEF LedgerJob, EntryJob
<1>5. clock \in Nat
  BY DEF LedgerInv, LedgerTypeOK, LedgerNames
<1>6. clock \in 0..clock
  BY <1>5
<1>7. PICK x : x = docs[j.target]
  OBVIOUS
<1>8. x \in Document
  BY <1>4, <1>7, EntryStamps
<1>9. x.header \in Row /\ x.delivered \in BOOLEAN
  BY <1>8 DEF Document
<1>10. PICK h : h = [x.header EXCEPT !.at = Stored(clock)]
  OBVIOUS
<1>11. h \in Row /\ h.at = Stored(clock)
  BY <1>6, <1>9, <1>10, StampInRange DEF Row
<1>12. PICK b : b = IF j.change = "details" THEN x.delivered ELSE j.change = "delivered"
  OBVIOUS
<1>13. b \in BOOLEAN
  BY <1>9, <1>12
<1>14. PICK doc : doc = [x EXCEPT !.header = h, !.delivered = b]
  OBVIOUS
<1>15. doc \in Document /\ doc.kind = x.kind /\ doc.header = h /\ doc.line = x.line
  BY <1>8, <1>11, <1>13, <1>14 DEF Document
<1>16. Write(j.target, doc)
  <2>1. Write(j.target, [docs[j.target] EXCEPT !.header.at = Stored(clock),
                            !.delivered = IF j.change = "details" THEN @ ELSE j.change = "delivered"])
    BY <1>1 DEF WriteHeader
  <2>2. [x EXCEPT !.header.at = Stored(clock),
                  !.delivered = IF j.change = "details" THEN @ ELSE j.change = "delivered"] = doc
    BY <1>8, <1>10, <1>12, <1>14 DEF Document
  <2> QED
    BY <1>7, <2>1, <2>2
<1>17. /\ LedgerWrittenWell /\ clock' = clock /\ tables' = tables
       /\ \A y \in Doc : Entered(y) => Entered(y)'
  BY <1>4, <1>7, <1>11, <1>15, <1>16, EntryWritten
<1>18. LedgerTurn(p, "idle", NoJob) /\ contended' = contended
  BY <1>2, <1>17, EndedTurn
<1>19. phase[p] \in LedgerWriters
  BY <1>2 DEF LedgerWriters
<1> QED
  BY <1>17, <1>18, <1>19, WriterGoesOn

LEMMA PartDropped ==
  ASSUME LedgerNames, LedgerInv, NEW p \in Procs, Drop(p)
  PROVE  LedgerInv'
<1>1. PICK j : j = job[p]
  OBVIOUS
<1>2. phase[p] = "drop"
  BY DEF Drop
<1>3. LedgerJob("drop", j)
  BY <1>1, <1>2 DEF LedgerInv
<1>4. j.target \in Doc /\ Entered(j.target)
      /\ j.left \in {<<"line", "header">>, <<"header", "line">>, <<"header">>, <<"line">>}
  BY <1>3 DEF LedgerJob, EntryJob
<1>5. clock \in Nat
  BY DEF LedgerInv, LedgerTypeOK, LedgerNames
<1>6. clock \in 0..clock
  BY <1>5
<1>7. Stored(clock) \in Instants
  BY <1>6, StampInRange
<1>8. PICK x : x = docs[j.target]
  OBVIOUS
<1>9. x \in Document
  BY <1>4, <1>8, EntryStamps
<1>10. x.header \in Row /\ x.line \in Line
  BY <1>9 DEF Document
<1>11. PICK half : half = Head(j.left)
  OBVIOUS
<1>12. half \in {"header", "line"}
  BY <1>4, <1>11
<1>13. PICK doc : doc = [x EXCEPT ![half].active = FALSE, ![half].at = Stored(clock)]
  OBVIOUS
<1>14. /\ doc \in Document /\ doc.kind = x.kind
       /\ \/ doc.header.at = Stored(clock) /\ doc.line.at = x.line.at
          \/ doc.line.at = Stored(clock) /\ doc.header.at = x.header.at
  <2>1. CASE half = "header"
    <3>1. PICK h : h = [x.header EXCEPT !.active = FALSE, !.at = Stored(clock)]
      OBVIOUS
    <3>2. h \in Row /\ h.at = Stored(clock)
      BY <1>7, <1>10, <3>1 DEF Row
    <3>3. doc = [x EXCEPT !.header = h]
      BY <1>9, <1>13, <2>1, <3>1 DEF Document
    <3>4. doc \in Document /\ doc.kind = x.kind /\ doc.header = h /\ doc.line = x.line
      BY <1>9, <3>2, <3>3 DEF Document
    <3> QED
      BY <3>2, <3>4
  <2>2. CASE half = "line"
    <3>1. PICK l : l = [x.line EXCEPT !.active = FALSE, !.at = Stored(clock)]
      OBVIOUS
    <3>2. l \in Line /\ l.at = Stored(clock)
      BY <1>7, <1>10, <3>1 DEF Line
    <3>3. doc = [x EXCEPT !.line = l]
      BY <1>9, <1>13, <2>2, <3>1 DEF Document
    <3>4. doc \in Document /\ doc.kind = x.kind /\ doc.header = x.header /\ doc.line = l
      BY <1>9, <3>2, <3>3 DEF Document
    <3> QED
      BY <3>2, <3>4
  <2> QED
    BY <1>12, <2>1, <2>2
<1>15. Write(j.target, doc)
  <2>1. docs \in [Doc -> Document \cup {NoDoc}]
    BY DEF LedgerInv, LedgerTypeOK
  <2>2. [docs EXCEPT ![j.target][half].active = FALSE,
                     ![j.target][half].at = Stored(clock)][j.target] = doc
    BY <1>4, <1>8, <1>12, <1>13, <2>1
  <2>3. Write(j.target, [docs EXCEPT ![j.target][half].active = FALSE,
                                     ![j.target][half].at = Stored(clock)][j.target])
    BY <1>1, <1>11 DEF Drop
  <2> QED
    BY <2>2, <2>3
<1>16. /\ LedgerWrittenWell /\ clock' = clock /\ tables' = tables
       /\ \A y \in Doc : Entered(y) => Entered(y)'
  BY <1>4, <1>8, <1>14, <1>15, EntryWritten
<1>17. phase[p] \in LedgerWriters
  BY <1>2 DEF LedgerWriters
<1>18. CASE Len(j.left) = 1
  <2>1. Finish(p)
    BY <1>1, <1>18 DEF Drop
  <2>2. LedgerTurn(p, "idle", NoJob) /\ contended' = contended
    BY <1>16, <2>1, EndedTurn
  <2> QED
    BY <1>16, <1>17, <2>2, WriterGoesOn
<1>19. CASE Len(j.left) # 1
  <2>1. PICK k : k = [j EXCEPT !.left = Tail(@)]
    OBVIOUS
  <2>2. Goto(p, "drop", k)
    BY <1>1, <1>19, <2>1 DEF Drop
  <2>3. j.left = <<"line", "header">> \/ j.left = <<"header", "line">>
    BY <1>4, <1>19
  <2>4. Tail(j.left) \in {<<"header">>, <<"line">>}
    <3>1. Tail(<<"line", "header">>) = <<"header">> /\ Tail(<<"header", "line">>) = <<"line">>
      OBVIOUS
    <3> QED
      BY <2>3, <3>1
  <2>5. j = [n |-> j.n, target |-> j.target, left |-> j.left]
    BY <1>3 DEF LedgerJob
  <2>6. k = [n |-> k.n, target |-> k.target, left |-> k.left]
        /\ k.target = j.target /\ k.left = Tail(j.left)
    BY <2>1, <2>5
  <2>7. EntryJob(k)'
    BY <1>4, <1>16, <2>6 DEF EntryJob
  <2>8. LedgerJob("drop", k)'
    BY <2>4, <2>6, <2>7 DEF LedgerJob
  <2>9. LedgerTurn(p, "drop", k) /\ contended' = contended
    BY <1>16, <2>2, <2>8 DEF LedgerTurn, Goto
  <2> QED
    BY <1>16, <1>17, <2>9, WriterGoesOn
<1> QED
  BY <1>18, <1>19

LEMMA SaveBegun ==
  ASSUME LedgerNames, LedgerInv, NEW p \in Procs, NEW d \in Serials \cup {0}, NEW kind \in tables,
         NEW kilos \in KilosOf(kind) \cup {0}, BeginSave(p, d, kind, kilos)
  PROVE  LedgerInv'
<1>1. PICK ph : ph = IF kind = "adjustment" THEN "save" ELSE "commit"
  OBVIOUS
<1>2. PICK j : j = [n |-> NextSerial, target |-> d, kind |-> kind, kilos |-> kilos, at |-> clock]
  OBVIOUS
<1>3. Start(p, ph, j, Writing) /\ UNCHANGED ledgerVars /\ (kilos = 0 => Entered(d))
  BY <1>1, <1>2 DEF BeginSave
<1>4. clock \in Nat
  BY DEF LedgerInv, LedgerTypeOK, LedgerNames
<1>5. kilos \in Int
  <2>1. \A k \in Kilos : k \in Int /\ -k \in Int
    BY DEF LedgerNames
  <2>2. KilosOf(kind) \subseteq Kilos \cup {-k : k \in Kilos}
    BY DEF KilosOf
  <2>3. \A k \in KilosOf(kind) : k \in Int
    BY <2>1, <2>2
  <2> QED
    BY <2>3
<1>6. FormJob(j)
  BY <1>2, <1>3, <1>5 DEF FormJob, Doc
<1>7. LedgerJob(ph, j) /\ j.at = clock
  BY <1>1, <1>2, <1>4, <1>6 DEF LedgerJob
<1> QED
  BY <1>3, <1>7, WriterBegins

LEMMA HeaderBegun ==
  ASSUME LedgerNames, LedgerInv, NEW p \in Procs, NEW d \in Serials \cup {0}, NEW change,
         BeginHeader(p, d, change)
  PROVE  LedgerInv'
<1>1. PICK j : j = [n |-> NextSerial, target |-> d, change |-> change]
  OBVIOUS
<1>2. Start(p, "header", j, Writing) /\ UNCHANGED ledgerVars /\ Entered(d)
  BY <1>1 DEF BeginHeader
<1>3. LedgerJob("header", j)
  BY <1>1, <1>2 DEF LedgerJob, EntryJob, Doc
<1> QED
  BY <1>2, <1>3, WriterBegins

LEMMA DropBegun ==
  ASSUME LedgerNames, LedgerInv, NEW p \in Procs, NEW d \in Serials \cup {0}, BeginDrop(p, d)
  PROVE  LedgerInv'
<1>1. PICK j : j = [n |-> NextSerial, target |-> d, left |-> DropOrder[docs[d].kind]]
  OBVIOUS
<1>2. Start(p, "drop", j, Writing) /\ UNCHANGED ledgerVars /\ Entered(d)
  BY <1>1 DEF BeginDrop
<1>3. PICK kind : kind = docs[d].kind
  OBVIOUS
<1>4. kind \in {"sale", "adjustment", "production", "consumption"}
  <2>1. kind \in tables /\ tables \subseteq Kinds
    BY <1>2, <1>3 DEF LedgerInv, LedgerTypeOK, Doc
  <2>2. Kinds = {"sale", "adjustment", "production", "consumption"}
    BY DEF Kinds, Order, Range
  <2> QED
    BY <2>1, <2>2
<1>5. DropOrder[kind] \in {<<"line", "header">>, <<"header", "line">>, <<"header">>, <<"line">>}
  BY <1>4 DEF DropOrder
<1>6. LedgerJob("drop", j)
  BY <1>1, <1>2, <1>3, <1>5 DEF LedgerJob, EntryJob, Doc
<1> QED
  BY <1>2, <1>6, WriterBegins

LEMMA ReadingTurns ==
  ASSUME LedgerNames, LedgerInv, NEW p \in Procs,
         \/ BeginReading(p) \/ (\E s \in Statements : ReadTable(p, s)) \/ AnswerReading(p)
         \/ FailLedger(p)
  PROVE  LedgerInv'
<1>1. clock \in Int
  BY DEF LedgerInv, LedgerTypeOK, LedgerNames
<1>2. "read" \notin LedgerWriters /\ "idle" \notin LedgerWriters
  BY DEF LedgerWriters
<1>3. LedgerJob("idle", NoJob)
  BY DEF LedgerJob
<1>4. CASE BeginReading(p)
  <2>1. PICK j : j = [n |-> NextSerial, to |-> clock, found |-> <<>>]
    OBVIOUS
  <2>2. /\ phase' = [phase EXCEPT ![p] = "read"] /\ job' = [job EXCEPT ![p] = j]
        /\ (contended' <=> contended) /\ UNCHANGED ledgerVars
    BY <1>4, <2>1 DEF BeginReading, Start
  <2>3. contended \in BOOLEAN /\ contended' \in BOOLEAN
    BY <1>4 DEF LedgerInv, BeginReading, Start
  <2>4. contended' = contended
    BY <2>2, <2>3
  <2>5. LedgerJob("read", j)
    BY <1>1, <2>1 DEF LedgerJob
  <2> QED
    BY <1>2, <2>2, <2>4, <2>5, NobodyWrites
<1>5. ASSUME NEW s \in Statements, ReadTable(p, s) PROVE LedgerInv'
  <2>1. PICK j : j = job[p]
    OBVIOUS
  <2>2. PICK k : k = [j EXCEPT !.found = (s :> TableOf(s[2])) @@ @]
    OBVIOUS
  <2>3. /\ phase' = [phase EXCEPT ![p] = "read"] /\ job' = [job EXCEPT ![p] = k]
        /\ contended' = contended /\ UNCHANGED ledgerVars /\ phase[p] = "read"
    BY <1>5, <2>1, <2>2 DEF ReadTable, Goto
  <2>4. LedgerJob("read", j)
    BY <2>1, <2>3 DEF LedgerInv
  <2>5. j.to \in Int /\ j = [n |-> j.n, to |-> j.to, found |-> j.found]
    BY <2>4 DEF LedgerJob
  <2>6. k = [n |-> k.n, to |-> k.to, found |-> k.found] /\ k.to = j.to
    BY <2>2, <2>5
  <2>7. LedgerJob("read", k)
    BY <2>5, <2>6 DEF LedgerJob
  <2> QED
    BY <1>2, <2>3, <2>7, NobodyWrites
<1>6. CASE AnswerReading(p)
  <2>1. /\ phase' = [phase EXCEPT ![p] = "idle"] /\ job' = [job EXCEPT ![p] = NoJob]
        /\ contended' = contended /\ UNCHANGED ledgerVars
    BY <1>6 DEF AnswerReading, Finish, Goto
  <2> QED
    BY <1>2, <1>3, <2>1, NobodyWrites
<1>7. CASE FailLedger(p)
  <2>1. /\ phase' = [phase EXCEPT ![p] = "idle"] /\ job' = [job EXCEPT ![p] = NoJob]
        /\ contended' = contended /\ UNCHANGED ledgerVars
    BY <1>7 DEF FailLedger, Fail
  <2> QED
    BY <1>2, <1>3, <2>1, NobodyWrites
<1> QED
  BY <1>4, <1>5, <1>6, <1>7

LEMMA LedgerBegins ==
  ASSUME LedgerNames, SlotsInit, LedgerInit
  PROVE  LedgerInv
<1>1. PICK k \in Kilos, delivered \in BOOLEAN :
        LET sale == [kind |-> "sale", delivered |-> delivered,
                     header |-> [active |-> TRUE, at |-> 0],
                     line |-> [active |-> TRUE, at |-> 0, kilos |-> k]]
        IN /\ docs = [d \in Doc |-> IF d = 0 THEN sale ELSE NoDoc]
           /\ past = [d \in Doc |-> [level |-> IF d = 0 /\ delivered THEN -k ELSE 0,
                                     standing |-> {}, intact |-> TRUE]]
  BY DEF LedgerInit
<1>2. clock = 2 /\ tables \subseteq Kinds /\ "sale" \in tables
  BY DEF LedgerInit
<1>3. k \in Int /\ 0 \in Doc /\ MaxClock \in Nat /\ MaxClock >= 2
  BY DEF LedgerNames, Doc
<1>4. PICK h : h = [active |-> TRUE, at |-> 0]
  OBVIOUS
<1>5. PICK l : l = [active |-> TRUE, at |-> 0, kilos |-> k]
  OBVIOUS
<1>6. PICK sale : sale = [kind |-> "sale", delivered |-> delivered, header |-> h, line |-> l]
  OBVIOUS
<1>7. h \in Row /\ l \in Line /\ h.at = 0 /\ l.at = 0 /\ h.active /\ l.active /\ l.kilos = k
  BY <1>3, <1>4, <1>5 DEF Row, Line, Instants
<1>8. "sale" \in Kinds
  BY <1>2
<1>9. sale \in Document /\ sale.kind = "sale" /\ sale.header = h /\ sale.line = l
      /\ sale.delivered = delivered
  BY <1>6, <1>7, <1>8 DEF Document
<1>10. docs = [d \in Doc |-> IF d = 0 THEN sale ELSE NoDoc]
  BY <1>1, <1>4, <1>5, <1>6
<1>11. past = [d \in Doc |-> [level |-> IF d = 0 /\ delivered THEN -k ELSE 0,
                              standing |-> {}, intact |-> TRUE]]
  BY <1>1
<1>12. docs[0] = sale /\ (\A d \in Doc \ {0} : docs[d] = NoDoc)
       /\ docs \in [Doc -> Document \cup {NoDoc}]
  BY <1>3, <1>9, <1>10
<1>13. StockMove(sale) = IF delivered THEN -k ELSE 0
  <2>1. InEffect(sale)
    BY <1>7, <1>9, DocumentColumns DEF InEffect
  <2>2. Signed(sale) = -k
    BY <1>7, <1>9 DEF Signed
  <2>3. AffectsInventory(sale) <=> delivered
    BY <1>9 DEF AffectsInventory
  <2> QED
    BY <2>1, <2>2, <2>3 DEF StockMove
<1>14. \A d \in Doc \ {0} : ~Entered(d) /\ StockMove(docs[d]) = 0
  BY <1>12, EntryColumns DEF Entered
<1>15. LedgerTypeOK
  <2>1. past \in [Doc -> Past]
    BY <1>3, <1>11 DEF Past
  <2> QED
    BY <1>2, <1>3, <1>12, <2>1 DEF LedgerTypeOK
<1>16. Stamped(clock)
  <2>1. Stored(2) \in 0..2 + 1
    BY StampsGrow
  <2> QED
    BY <1>2, <1>7, <1>9, <1>12, <1>14, <2>1 DEF Stamped
<1>17. ASSUME NEW d \in Doc PROVE Remembered(d)
  <2>1. past[d].standing = {} /\ past[d].level = StockMove(docs[d])
    <3>1. past[d].standing = {} /\ past[d].level = IF d = 0 /\ delivered THEN -k ELSE 0
      BY <1>11
    <3> QED
      BY <1>12, <1>13, <1>14, <3>1
  <2>2. SumFunction([e \in {} |-> StockMove(docs[e])]) = 0
    <3>1. PICK f : f = [e \in {} |-> StockMove(docs[e])]
      OBVIOUS
    <3>2. SumFunctionOnSet(f, {}) = 0
      BY SumOfNothing
    <3> QED
      BY <3>1, <3>2 DEF SumFunction
  <2>3. StockMove(docs[d]) \in Int
    BY <1>12, EntryColumns
  <2> QED
    BY <1>14, <2>1, <2>2, <2>3 DEF Remembered
<1>18. DOMAIN phase = Procs /\ DOMAIN job = Procs /\ (\A p \in Procs : phase[p] = "idle")
       /\ contended = FALSE
  BY DEF SlotsInit
<1>19. \A p \in Procs : LedgerJob(phase[p], job[p])
  BY <1>18 DEF LedgerJob
<1>20. OneWriter
  BY <1>18 DEF OneWriter, LedgerWriters
<1>21. \A d \in Doc : Entered(d) => docs[d].kind \in tables
  BY <1>2, <1>9, <1>12, <1>14
<1> QED
  BY <1>15, <1>16, <1>17, <1>18, <1>19, <1>20, <1>21 DEF LedgerInv

LEMMA TimePasses ==
  ASSUME LedgerNames, LedgerInv, ClockTicks
  PROVE  LedgerInv'
<1>1. clock' = clock + 1 /\ clock < MaxClock /\ UNCHANGED <<slotVars, tables, docs, past>>
  BY DEF ClockTicks
<1>2. tables' = tables /\ docs' = docs /\ past' = past /\ phase' = phase /\ job' = job
      /\ contended' = contended
  BY <1>1 DEF slotVars
<1>3. clock \in Nat /\ MaxClock \in Nat /\ LedgerTypeOK
  BY DEF LedgerInv, LedgerTypeOK, LedgerNames
<1>4. LedgerTypeOK'
  BY <1>1, <1>2, <1>3 DEF LedgerTypeOK
<1>5. Stamped(clock)'
  <2>1. ASSUME NEW d \in Doc, Entered(d)
        PROVE  docs[d].header.at <= Stored(clock + 1) /\ docs[d].line.at <= Stored(clock + 1)
    <3>1. docs[d].header.at <= Stored(clock) /\ docs[d].line.at <= Stored(clock)
          /\ docs[d] \in Document
      BY <2>1, EntryStamps
    <3>2. docs[d].header.at \in Nat /\ docs[d].line.at \in Nat
      BY <3>1, DocumentColumns
    <3>3. Stored(clock) <= Stored(clock + 1) /\ Stored(clock) \in Nat
      BY <1>3, StampsGrow
    <3>4. Stored(clock + 1) \in Nat
      BY <1>3, StampsGrow
    <3> QED
      BY <3>1, <3>2, <3>3, <3>4
  <2> QED
    BY <1>1, <1>2, <2>1 DEF Stamped, Entered, Stored
<1>6. \A q \in Procs : LedgerJob(phase[q], job[q])'
  <2>1. ASSUME NEW q \in Procs PROVE LedgerJob(phase[q], job[q])'
    <3>1. PICK f : f = phase[q]
      OBVIOUS
    <3>2. PICK k : k = job[q]
      OBVIOUS
    <3>3. LedgerJob(f, k)
      BY <3>1, <3>2 DEF LedgerInv
    <3>4. clock' \in clock..clock + 1 /\ \A x \in Doc : Entered(x) => Entered(x)'
      BY <1>1, <1>2, <1>3 DEF Entered
    <3>5. LedgerJob(f, k)'
      BY <1>2, <1>3, <3>3, <3>4, JobStaysFit
    <3> QED
      BY <1>2, <3>1, <3>2, <3>5
  <2> QED
    BY <2>1
<1>7. OneWriter => OneWriter'
  BY <1>2 DEF OneWriter, Stamped, Entered
<1>8. \A d \in Doc : Remembered(d) => Remembered(d)'
  BY <1>2 DEF Remembered, Entered
<1>9. \A d \in Doc : Entered(d)' => docs'[d].kind \in tables'
  BY <1>2 DEF LedgerInv, Entered
<1>10. ~contended' => OneWriter' /\ \A d \in Doc : Remembered(d)'
  BY <1>2, <1>7, <1>8 DEF LedgerInv
<1>11. DOMAIN phase' = Procs /\ DOMAIN job' = Procs /\ contended' \in BOOLEAN
  BY <1>2 DEF LedgerInv
<1> QED
  BY <1>4, <1>5, <1>6, <1>9, <1>10, <1>11 DEF LedgerInv

LEMMA LedgerContinues ==
  ASSUME LedgerNames, LedgerInv, [LedgerNext]_<<slotVars, ledgerVars>>
  PROVE  LedgerInv'
<1>1. CASE UNCHANGED <<slotVars, ledgerVars>>
  <2>1. /\ phase' = phase /\ job' = job /\ contended' = contended
        /\ clock' = clock /\ tables' = tables /\ docs' = docs /\ past' = past
    BY <1>1 DEF slotVars, ledgerVars
  <2>2. LedgerTypeOK' /\ Stamped(clock)'
    BY <2>1 DEF LedgerInv, LedgerTypeOK, Stamped, Entered
  <2>3. \A q \in Procs : LedgerJob(phase[q], job[q])'
    <3>1. ASSUME NEW q \in Procs PROVE LedgerJob(phase[q], job[q])'
      <4>1. PICK f : f = phase[q]
        OBVIOUS
      <4>2. PICK k : k = job[q]
        OBVIOUS
      <4>3. LedgerJob(f, k) /\ clock \in Nat
        BY <4>1, <4>2 DEF LedgerInv, LedgerTypeOK, LedgerNames
      <4>4. clock' \in clock..clock + 1 /\ \A x \in Doc : Entered(x) => Entered(x)'
        BY <2>1, <4>3 DEF Entered
      <4>5. LedgerJob(f, k)'
        BY <2>1, <4>3, <4>4, JobStaysFit
      <4> QED
        BY <2>1, <4>1, <4>2, <4>5
    <3> QED
      BY <3>1
  <2>4. OneWriter => OneWriter'
    BY <2>1 DEF OneWriter, Stamped, Entered
  <2>5. \A d \in Doc : Remembered(d) => Remembered(d)'
    BY <2>1 DEF Remembered, Entered
  <2>6. \A d \in Doc : Entered(d)' => docs'[d].kind \in tables'
    BY <2>1 DEF LedgerInv, Entered
  <2>7. ~contended' => OneWriter' /\ \A d \in Doc : Remembered(d)'
    BY <2>1, <2>4, <2>5 DEF LedgerInv
  <2>8. DOMAIN phase' = Procs /\ DOMAIN job' = Procs /\ contended' \in BOOLEAN
    BY <2>1 DEF LedgerInv
  <2> QED
    BY <2>2, <2>3, <2>6, <2>7, <2>8 DEF LedgerInv
<1>2. CASE ClockTicks
  BY <1>2, TimePasses
<1>3. ASSUME NEW p \in Procs,
             \/ \E d \in Serials \cup {0}, kind \in tables : \E kilos \in KilosOf(kind) \cup {0} :
                   BeginSave(p, d, kind, kilos)
             \/ CommitSave(p) \/ SaveHeader(p) \/ SaveLine(p)
             \/ \E d \in Serials \cup {0}, change \in {"delivered", "committed", "details"} :
                   BeginHeader(p, d, change)
             \/ WriteHeader(p)
             \/ \E d \in Serials \cup {0} : BeginDrop(p, d)
             \/ Drop(p)
             \/ BeginReading(p) \/ (\E s \in Statements : ReadTable(p, s)) \/ AnswerReading(p)
             \/ FailLedger(p)
      PROVE  LedgerInv'
  <2>1. ASSUME NEW d \in Serials \cup {0}, NEW kind \in tables, NEW kilos \in KilosOf(kind) \cup {0},
               BeginSave(p, d, kind, kilos)
        PROVE  LedgerInv'
    BY <2>1, SaveBegun
  <2>2. ASSUME NEW d \in Serials \cup {0}, NEW change \in {"delivered", "committed", "details"},
               BeginHeader(p, d, change)
        PROVE  LedgerInv'
    BY <2>2, HeaderBegun
  <2>3. ASSUME NEW d \in Serials \cup {0}, BeginDrop(p, d) PROVE LedgerInv'
    BY <2>3, DropBegun
  <2>4. CASE CommitSave(p)
    BY <2>4, SaveCommitted
  <2>5. CASE SaveHeader(p)
    BY <2>5, HeaderSaved
  <2>6. CASE SaveLine(p)
    BY <2>6, LineSaved
  <2>7. CASE WriteHeader(p)
    BY <2>7, StatusSaved
  <2>8. CASE Drop(p)
    BY <2>8, PartDropped
  <2>9. CASE BeginReading(p) \/ (\E s \in Statements : ReadTable(p, s)) \/ AnswerReading(p)
             \/ FailLedger(p)
    BY <2>9, ReadingTurns
  <2> QED
    BY <1>3, <2>1, <2>2, <2>3, <2>4, <2>5, <2>6, <2>7, <2>8, <2>9
<1> QED
  BY <1>1, <1>2, <1>3 DEF LedgerNext

----------------------------------------------------------------------------
(* What a reading of one state tells *)

\* The tables it read are together the documents there are.
LEMMA TablesMerged ==
  ASSUME LedgerInv
  PROVE  Merged({TableOf(t) : t \in tables}) = [x \in {y \in Doc : Entered(y)} |-> docs[x]]
<1>1. PICK parts : parts = {TableOf(t) : t \in tables}
  OBVIOUS
<1>2. \A c \in parts : \A x \in DOMAIN c : x \in Doc /\ Entered(x) /\ c[x] = docs[x]
  BY <1>1 DEF TableOf
<1>3. ASSUME NEW x \in Doc, Entered(x) PROVE \E c \in parts : x \in DOMAIN c
  <2>1. docs[x].kind \in tables
    BY <1>3 DEF LedgerInv
  <2>2. PICK kind : kind = docs[x].kind
    OBVIOUS
  <2>3. TableOf(kind) \in parts /\ x \in DOMAIN TableOf(kind)
    BY <1>1, <1>3, <2>1, <2>2 DEF TableOf
  <2> QED
    BY <2>3
<1>4. UNION {DOMAIN c : c \in parts} = {y \in Doc : Entered(y)}
  BY <1>2, <1>3
<1>5. ASSUME NEW x \in Doc, Entered(x)
      PROVE  (CHOOSE c \in parts : x \in DOMAIN c)[x] = docs[x]
  <2>1. PICK c : c = CHOOSE k \in parts : x \in DOMAIN k
    OBVIOUS
  <2>2. c \in parts /\ x \in DOMAIN c
    BY <1>3, <1>5, <2>1
  <2> QED
    BY <1>2, <2>1, <2>2
<1>6. Merged(parts) = [x \in UNION {DOMAIN c : c \in parts} |->
                          (CHOOSE c \in parts : x \in DOMAIN c)[x]]
  BY DEF Merged
<1>7. Merged(parts) = [x \in {y \in Doc : Entered(y)} |-> docs[x]]
  BY <1>4, <1>5, <1>6
<1> QED
  BY <1>1, <1>7

LEMMA LedgerTells ==
  ASSUME LedgerNames, LedgerInv
  PROVE  LedgerTellsHistory
<1> SUFFICES ASSUME ~contended, NEW p \in Procs, Consistent(p),
                    NEW from \in 0..job[p].to, NEW all \in BOOLEAN,
                    NEW d \in DOMAIN Ledger(p, from, all).before,
                    past[d].intact,
                    \A e \in Counted :
                       /\ LastEdit(docs[e]) <= job[p].to
                       /\ e # d => LastEdit(docs[e]) # LastEdit(docs[d])
             PROVE  Ledger(p, from, all).before[d] + Signed(docs[d]) = past[d].level
  BY DEF LedgerTellsHistory
<1> DEFINE to == job[p].to
           E == {y \in Doc : Entered(y)}
           table == [x \in E |-> docs[x]]
           shown == {x \in E : Listed(docs[x], from, to, all)}
           X == {x \in shown : x = d \/ Above(table, x, d)}
           S == past[d].standing
<1>1. to \in Int /\ from \in Int
  <2>1. phase[p] = "read" /\ LedgerJob(phase[p], job[p])
    BY DEF Consistent, Complete, LedgerInv
  <2>2. to \in Int
    BY <2>1 DEF LedgerJob
  <2> QED
    BY <2>2
<1>2. docs \in [Doc -> Document \cup {NoDoc}] /\ past \in [Doc -> Past] /\ IsFiniteSet(Doc)
  BY DocumentsFinite DEF LedgerInv, LedgerTypeOK
<1>3. Merged({job[p].found[<<"level", t>>] : t \in tables}) = table
      /\ Merged({job[p].found[<<"rows", t>>] : t \in tables}) = table
  <2>1. \A t \in tables : job[p].found[<<"level", t>>] = TableOf(t)
                          /\ job[p].found[<<"rows", t>>] = TableOf(t)
    <3>1. ASSUME NEW t \in tables, NEW what \in {"level", "rows"}
          PROVE  job[p].found[<<what, t>>] = TableOf(t)
      <4>1. <<what, t>> \in Statements /\ <<what, t>>[2] = t
        BY DEF Statements
      <4> QED
        BY <4>1 DEF Consistent
    <3> QED
      BY <3>1
  <2>2. {job[p].found[<<"level", t>>] : t \in tables} = {TableOf(t) : t \in tables}
        /\ {job[p].found[<<"rows", t>>] : t \in tables} = {TableOf(t) : t \in tables}
    BY <2>1
  <2> QED
    BY <2>2, TablesMerged
<1>4. PICK f : f = [x \in Doc |-> StockMove(docs[x])]
  OBVIOUS
<1>5. \A x \in Doc : f[x] = StockMove(docs[x]) /\ f[x] \in Int /\ (f[x] # 0 => Entered(x))
  BY <1>2, <1>4, EntryColumns
<1>6. PICK level : level = Balance(table)
  OBVIOUS
<1>7. level = SumFunctionOnSet(f, Doc)
  <2>1. E \subseteq Doc /\ IsFiniteSet(E) /\ \A x \in Doc \ E : f[x] = 0
    BY <1>2, <1>5, FS_Subset
  <2>2. SumFunctionOnSet(f, Doc) = SumFunctionOnSet(f, E)
    BY <1>2, <1>5, <2>1, SumWithoutZeros
  <2>3. PICK g : g = [x \in E |-> StockMove(table[x])]
    OBVIOUS
  <2>4. \A x \in E : g[x] = f[x]
    BY <1>5, <2>3
  <2>5. SumFunctionOnSet(g, E) = SumFunctionOnSet(f, E)
    BY <2>1, <2>4, SameValuesSameSum
  <2>6. Balance(table) = SumFunctionOnSet(g, E)
    BY <2>3 DEF Balance, SumFunction
  <2> QED
    BY <1>6, <2>2, <2>5, <2>6
<1>8. Ledger(p, from, all).before = Unwound(level, table, shown)
  <2>1. {x \in DOMAIN table : Listed(table[x], from, to, all)} = shown
    OBVIOUS
  <2> QED
    BY <1>3, <1>6, <2>1 DEF Ledger
<1>9. d \in shown /\ AffectsInventory(docs[d])
      /\ Ledger(p, from, all).before[d] = level - SumFunction([e \in X |-> StockMove(table[e])])
  <2>1. Unwound(level, table, shown) =
          [x \in {y \in shown : AffectsInventory(table[y])} |->
             level - SumFunction([e \in {y \in shown : y = x \/ Above(table, y, x)} |->
                                     StockMove(table[e])])]
    BY DEF Unwound
  <2>2. d \in {y \in shown : AffectsInventory(table[y])}
    BY <1>8, <2>1
  <2>3. d \in E /\ table[d] = docs[d]
    BY <2>2
  <2> QED
    BY <1>8, <2>1, <2>2, <2>3
<1>10. d \in Doc /\ Entered(d) /\ d \in X /\ X \subseteq Doc /\ IsFiniteSet(X)
  BY <1>2, <1>9, FS_Subset
<1>11. SumFunction([e \in X |-> StockMove(table[e])]) = SumFunctionOnSet(f, X)
  <2>1. PICK g : g = [e \in X |-> StockMove(table[e])]
    OBVIOUS
  <2>2. \A x \in X : g[x] = f[x]
    BY <1>5, <1>10, <2>1
  <2>3. SumFunctionOnSet(g, X) = SumFunctionOnSet(f, X)
    BY <1>10, <2>2, SameValuesSameSum
  <2> QED
    BY <2>1, <2>3 DEF SumFunction
<1>12. Remembered(d) /\ S \subseteq Doc
  BY <1>2, <1>10 DEF LedgerInv, Past
<1>13. \A e \in Doc : Entered(e) =>
          /\ LastEdit(docs[e]) \in Nat /\ docs[e].header.at \in Nat /\ docs[e].line.at \in Nat
  <2>1. ASSUME NEW e \in Doc, Entered(e)
        PROVE  LastEdit(docs[e]) \in Nat /\ docs[e].header.at \in Nat /\ docs[e].line.at \in Nat
    <3>1. docs[e] \in Document
      BY <1>2, <2>1, EntryColumns
    <3> QED
      BY <3>1, DocumentColumns
  <2> QED
    BY <2>1
<1>14. LastEdit(docs[d]) >= from
  <2>1. docs[d].header.at \in from..to \/ docs[d].line.at \in from..to
    BY <1>9 DEF Listed, InWindow
  <2> QED
    BY <1>1, <1>10, <1>13, <2>1 DEF LastEdit
<1>15. ASSUME NEW e \in X, e # d PROVE LastEdit(docs[e]) > LastEdit(docs[d])
  <2>1. e \in Doc /\ e \in E /\ Above(table, e, d) /\ InEffect(docs[e])
    BY <1>15 DEF Listed
  <2>2. e \in Counted
    BY <2>1 DEF Counted
  <2>3. LastEdit(docs[e]) # LastEdit(docs[d])
    BY <1>15, <2>2
  <2>4. table[e] = docs[e] /\ table[d] = docs[d]
    BY <1>10, <2>1
  <2> QED
    BY <2>1, <2>3, <2>4 DEF Above
<1>16. S \subseteq Doc \ X
  <2>1. \A e \in S : e # d /\ LastEdit(docs[e]) <= LastEdit(docs[d])
    BY <1>12 DEF Remembered
  <2>2. ASSUME NEW e \in S, e \in X PROVE FALSE
    <3>1. e # d /\ LastEdit(docs[e]) <= LastEdit(docs[d]) /\ LastEdit(docs[e]) > LastEdit(docs[d])
      BY <1>15, <2>1, <2>2
    <3>2. LastEdit(docs[e]) \in Nat /\ LastEdit(docs[d]) \in Nat
      BY <1>10, <1>13, <2>2
    <3> QED
      BY <3>1, <3>2
  <2> QED
    BY <1>12, <2>2
<1>17. ASSUME NEW e \in (Doc \ X) \ S PROVE f[e] = 0
  <2> SUFFICES ASSUME f[e] # 0 PROVE FALSE
    OBVIOUS
  <2>1. StockMove(docs[e]) # 0 /\ Entered(e) /\ e # d
    BY <1>5, <1>10, <1>17
  <2>2. InEffect(docs[e]) /\ AffectsInventory(docs[e])
    BY <2>1 DEF StockMove
  <2>3. LastEdit(docs[e]) >= LastEdit(docs[d])
    BY <1>10, <1>12, <1>17, <2>1 DEF Remembered
  <2>4. e \in Counted
    BY <1>17, <2>2 DEF Counted
  <2>5. LastEdit(docs[e]) <= to /\ LastEdit(docs[e]) # LastEdit(docs[d])
    BY <2>1, <2>4
  <2>6. LastEdit(docs[e]) \in Nat /\ LastEdit(docs[d]) \in Nat
        /\ docs[e].header.at \in Nat /\ docs[e].line.at \in Nat
    BY <1>10, <1>13, <1>17, <2>1
  <2>7. LastEdit(docs[e]) > LastEdit(docs[d]) /\ LastEdit(docs[e]) \in from..to
    BY <1>1, <1>14, <2>3, <2>5, <2>6
  <2>8. InWindow(docs[e], from, to)
    BY <2>7 DEF InWindow, LastEdit
  <2>9. e \in E /\ Listed(docs[e], from, to, all)
    BY <1>17, <2>1, <2>2, <2>8 DEF Listed
  <2>10. table[e] = docs[e] /\ table[d] = docs[d]
    BY <1>10, <2>9
  <2>11. Above(table, e, d)
    BY <2>7, <2>10 DEF Above
  <2> QED
    BY <1>17, <2>9, <2>11
<1>18. IsFiniteSet(Doc \ X) /\ IsFiniteSet(S) /\ \A x \in Doc \ X : f[x] \in Int
  BY <1>2, <1>5, <1>12, FS_Subset
<1>19. SumFunctionOnSet(f, Doc \ X) = SumFunctionOnSet(f, S)
  BY <1>16, <1>17, <1>18, SumWithoutZeros
<1>20. SumFunctionOnSet(f, Doc) = SumFunctionOnSet(f, X) + SumFunctionOnSet(f, Doc \ X)
  <2>1. PICK U : U = X
    OBVIOUS
  <2>2. U \subseteq Doc /\ IsFiniteSet(Doc)
    BY <1>2, <1>10, <2>1
  <2>3. \A x \in Doc : f[x] \in Int
    BY <1>5
  <2>4. SumFunctionOnSet(f, Doc) = SumFunctionOnSet(f, U) + SumFunctionOnSet(f, Doc \ U)
    BY <2>2, <2>3, SumOfParts
  <2> QED
    BY <2>1, <2>4
<1>21. SumFunction([e \in S |-> StockMove(docs[e])]) = SumFunctionOnSet(f, S)
  <2>1. PICK g : g = [e \in S |-> StockMove(docs[e])]
    OBVIOUS
  <2>2. \A x \in S : g[x] = f[x]
    BY <1>5, <1>12, <2>1
  <2>3. SumFunctionOnSet(g, S) = SumFunctionOnSet(f, S)
    BY <1>18, <2>2, SameValuesSameSum
  <2> QED
    BY <2>1, <2>3 DEF SumFunction
<1>22. past[d].level = StockMove(docs[d]) + SumFunctionOnSet(f, S)
  BY <1>12, <1>21 DEF Remembered
<1>23. StockMove(docs[d]) = Signed(docs[d]) /\ StockMove(docs[d]) \in Int
  <2>1. InEffect(docs[d])
    BY <1>9 DEF Listed
  <2> QED
    BY <1>2, <1>9, <1>10, <2>1, EntryColumns DEF StockMove
<1>24. SumFunctionOnSet(f, X) \in Int /\ SumFunctionOnSet(f, S) \in Int
  <2>1. \A x \in X : f[x] \in Int
    BY <1>5, <1>10
  <2>2. \A x \in S : f[x] \in Int
    BY <1>5, <1>12
  <2> QED
    BY <1>10, <1>18, <2>1, <2>2, SumIsAnInteger
<1> HIDE DEF to, E, table, shown, X, S
<1> QED
  BY <1>7, <1>9, <1>11, <1>19, <1>20, <1>22, <1>23, <1>24

\* For any weights, instants, documents and requests: a reading of one state tells, of
\* each row it shows, the stock as the last edit of the row left it, unless writes have
\* overlapped, two documents were last edited in one second, one was edited after the
\* window, or what moved the stock then has been edited since.
THEOREM LedgerTellsTheStock ==
  ASSUME LedgerNames
  PROVE  LedgerSpec => [](LedgerTypeOK /\ LedgerTellsHistory)
<1>1. SlotsInit /\ LedgerInit => LedgerInv
  BY LedgerBegins
<1>2. LedgerInv /\ [LedgerNext]_<<slotVars, ledgerVars>> => LedgerInv'
  BY LedgerContinues
<1>3. LedgerInv => LedgerTypeOK /\ LedgerTellsHistory
  BY LedgerTells DEF LedgerInv
<1> QED
  BY <1>1, <1>2, <1>3, PTL DEF LedgerSpec

==============================================================================
