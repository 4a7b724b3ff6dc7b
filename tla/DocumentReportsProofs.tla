------------------------ MODULE DocumentReportsProofs ------------------------
(***************************************************************************)
(* Proofs about OrderSales, Expenses and the reports over both, for any    *)
(* products, resources, amounts and requests: while rivals do not overlap, *)
(* what comes back nests in what was delivered, and that in what was       *)
(* ordered; and what documents store and what reports sum from their lines *)
(* agree.                                                                  *)
(*                                                                         *)
(* Quantities. TInv: no row is written twice and no id given twice, and    *)
(* what a request holds names documents there are. Orderly, while rivals   *)
(* have not overlapped: those in flight are Apart; the quantities are      *)
(* Nested; and each request in flight still finds true what it validated   *)
(* (StillFits), since a step of another Spares what it rests on            *)
(* (SparedStillFit). A return writes line by line in any order, so what    *)
(* each line still to write needs is part of it.                           *)
(*                                                                         *)
(* Totals of sales. Exact: the subtotal of a live sale, if computed, is    *)
(* that of its lines, and its net total takes off its returns, but while a *)
(* delete or a return on it is under way; and what a request has read for  *)
(* a total is still so.                                                    *)
(*                                                                         *)
(* Totals of expenses. EInv: ids are given once, and what requests hold is *)
(* of expenses there are. ExpensesExact: a header is stored before its     *)
(* lines, one statement each, so in between the subtotal is that of the    *)
(* lines the save is done with (Settled) and of those still in its form    *)
(* (Foresees); one save at most is of an expense, and a delete in its      *)
(* second statement has left the expense dead.                             *)
(*                                                                         *)
(* SalesInv and ExpensesInv join these to what they rest on; a behaviour   *)
(* of ReportsSpec is of one component and keeps the other as it began.     *)
(***************************************************************************)
EXTENDS DocumentReports, Sums

vars == <<slotVars, saleVars>>

Documents == Serials \cup {PEDIDO}

----------------------------------------------------------------------------
(* Totals of rows *)

\* A finite set of rows that have amounts.
Rows(S) == IsFiniteSet(S) /\ \A r \in S : r.amount \in Nat

\* A total is the library's sum of the amounts of the item.
LEMMA TotalIsSum ==
  ASSUME NEW S, Rows(S), NEW U, U \subseteq S, NEW i, NEW f, f = [r \in S |-> r.amount],
         NEW V, V = {r \in U : r.item = i}
  PROVE  /\ TotalOf(U, i) = SumFunctionOnSet(f, V)
         /\ \A r \in S : f[r] \in Nat
         /\ IsFiniteSet(V)
<1>1. V = {r \in U : r.item = i}
  OBVIOUS
<1>2. V \subseteq S
  BY <1>1
<1>3. IsFiniteSet(V)
  BY <1>2, FS_Subset DEF Rows
<1>4. PICK g : g = [r \in V |-> r.amount]
  OBVIOUS
<1>5. \A r \in V : g[r] = f[r]
  BY <1>2, <1>4
<1>6. SumFunctionOnSet(g, V) = SumFunctionOnSet(f, V)
  BY <1>3, <1>5, SameValuesSameSum
<1>7. TotalOf(U, i) = SumFunction(g)
  BY <1>1, <1>4 DEF TotalOf, Total
<1>8. DOMAIN g = V
  BY <1>4
<1>9. SumFunction(g) = SumFunctionOnSet(g, V)
  BY <1>8 DEF SumFunction
<1> QED
  BY <1>1, <1>3, <1>6, <1>7, <1>9 DEF Rows

LEMMA TotalIsNatural ==
  ASSUME NEW S, Rows(S), NEW i
  PROVE  TotalOf(S, i) \in Nat
<1>1. PICK f : f = [r \in S |-> r.amount]
  OBVIOUS
<1>2. PICK V : V = {r \in S : r.item = i}
  OBVIOUS
<1>3. /\ TotalOf(S, i) = SumFunctionOnSet(f, V)
      /\ \A r \in S : f[r] \in Nat
      /\ IsFiniteSet(V)
  <2>1. PICK U : U = S
    OBVIOUS
  <2>2. U \subseteq S /\ V = {q \in U : q.item = i}
    BY <1>2, <2>1
  <2>3. /\ TotalOf(U, i) = SumFunctionOnSet(f, V)
        /\ \A q \in S : f[q] \in Nat
        /\ IsFiniteSet(V)
    BY <1>1, <2>2, TotalIsSum
  <2> QED
    BY <2>1, <2>3
<1>4. \A r \in V : f[r] \in Nat
  BY <1>2, <1>3
<1> QED
  BY <1>3, <1>4, SumIsNatural

\* A total is those of two parts of the rows.
LEMMA TotalOfParts ==
  ASSUME NEW S, Rows(S), NEW P, P \subseteq S, NEW R, R = S \ P, NEW i
  PROVE  /\ TotalOf(S, i) = TotalOf(P, i) + TotalOf(R, i)
         /\ TotalOf(S, i) \in Nat /\ TotalOf(P, i) \in Nat /\ TotalOf(R, i) \in Nat
<1>1. PICK f : f = [r \in S |-> r.amount]
  OBVIOUS
<1>2. PICK V : V = {r \in S : r.item = i}
  OBVIOUS
<1>3. PICK Q : Q = {r \in P : r.item = i}
  OBVIOUS
<1>4. {r \in R : r.item = i} = V \ Q
  BY <1>2, <1>3
<1>5. /\ TotalOf(S, i) = SumFunctionOnSet(f, V)
      /\ \A r \in S : f[r] \in Nat
      /\ IsFiniteSet(V)
  <2>1. PICK U : U = S
    OBVIOUS
  <2>2. U \subseteq S /\ V = {q \in U : q.item = i}
    BY <1>2, <2>1
  <2>3. /\ TotalOf(U, i) = SumFunctionOnSet(f, V)
        /\ \A q \in S : f[q] \in Nat
        /\ IsFiniteSet(V)
    BY <1>1, <2>2, TotalIsSum
  <2> QED
    BY <2>1, <2>3
<1>6. TotalOf(P, i) = SumFunctionOnSet(f, Q)
  BY <1>1, <1>3, TotalIsSum
<1>7. TotalOf(R, i) = SumFunctionOnSet(f, V \ Q)
  <2>1. R \subseteq S
    OBVIOUS
  <2>2. PICK W : W = {r \in R : r.item = i}
    OBVIOUS
  <2>3. TotalOf(R, i) = SumFunctionOnSet(f, W)
    BY <1>1, <2>1, <2>2, TotalIsSum
  <2> QED
    BY <1>4, <2>2, <2>3
<1>8. Q \subseteq V /\ \A r \in V : f[r] \in Int
  BY <1>2, <1>3, <1>5
<1>9. SumFunctionOnSet(f, V) = SumFunctionOnSet(f, Q) + SumFunctionOnSet(f, V \ Q)
  BY <1>5, <1>8, SumOfParts
<1>10. Rows(P) /\ Rows(R)
  <2>1. R \subseteq S
    OBVIOUS
  <2> QED
    BY <2>1, FS_Subset DEF Rows
<1> QED
  BY <1>5, <1>6, <1>7, <1>9, <1>10, TotalIsNatural

\* Fewer rows, no larger a total.
LEMMA TotalGrows ==
  ASSUME NEW S, Rows(S), NEW P, P \subseteq S, NEW i
  PROVE  /\ TotalOf(P, i) <= TotalOf(S, i)
         /\ TotalOf(P, i) \in Nat /\ TotalOf(S, i) \in Nat
<1>1. /\ TotalOf(S, i) = TotalOf(P, i) + TotalOf(S \ P, i)
      /\ TotalOf(S, i) \in Nat /\ TotalOf(P, i) \in Nat /\ TotalOf(S \ P, i) \in Nat
  BY TotalOfParts
<1> QED
  BY <1>1

\* A row is one of its total.
LEMMA TotalHasRow ==
  ASSUME NEW S, Rows(S), NEW r \in S, NEW i, i = r.item
  PROVE  r.amount <= TotalOf(S, i) /\ r.amount \in Nat /\ TotalOf(S, i) \in Nat
<1>1. PICK f : f = [q \in S |-> q.amount]
  OBVIOUS
<1>2. PICK V : V = {q \in S : q.item = i}
  OBVIOUS
<1>3. /\ TotalOf(S, i) = SumFunctionOnSet(f, V)
      /\ \A q \in S : f[q] \in Nat
      /\ IsFiniteSet(V)
  <2>1. PICK U : U = S
    OBVIOUS
  <2>2. U \subseteq S /\ V = {q \in U : q.item = i}
    BY <1>2, <2>1
  <2>3. /\ TotalOf(U, i) = SumFunctionOnSet(f, V)
        /\ \A q \in S : f[q] \in Nat
        /\ IsFiniteSet(V)
    BY <1>1, <2>2, TotalIsSum
  <2> QED
    BY <2>1, <2>3
<1>4. r \in V /\ f[r] = r.amount /\ \A q \in V : f[q] \in Nat
  BY <1>1, <1>2, <1>3
<1>5. SumFunctionOnSet(f, V) = f[r] + SumFunctionOnSet(f, V \ {r})
  BY <1>3, <1>4, SumTakesOut
<1>6. SumFunctionOnSet(f, V \ {r}) \in Nat
  <2>1. IsFiniteSet(V \ {r})
    BY <1>3, FS_Subset
  <2> QED
    BY <1>4, <2>1, SumIsNatural
<1> QED
  BY <1>3, <1>4, <1>5, <1>6

\* A total of no row of the item is 0, of one row its amount.
LEMMA TotalOfFew ==
  ASSUME NEW S, Rows(S), NEW i
  PROVE  /\ (\A r \in S : r.item # i) => TotalOf(S, i) = 0
         /\ \A r \in S : r.item = i /\ (\A q \in S : q.item = i => q = r) =>
                            TotalOf(S, i) = r.amount
<1>1. PICK f : f = [q \in S |-> q.amount]
  OBVIOUS
<1>2. PICK V : V = {q \in S : q.item = i}
  OBVIOUS
<1>3. /\ TotalOf(S, i) = SumFunctionOnSet(f, V)
      /\ \A q \in S : f[q] \in Nat
      /\ IsFiniteSet(V)
  <2>1. PICK U : U = S
    OBVIOUS
  <2>2. U \subseteq S /\ V = {q \in U : q.item = i}
    BY <1>2, <2>1
  <2>3. /\ TotalOf(U, i) = SumFunctionOnSet(f, V)
        /\ \A q \in S : f[q] \in Nat
        /\ IsFiniteSet(V)
    BY <1>1, <2>2, TotalIsSum
  <2> QED
    BY <2>1, <2>3
<1>4. ASSUME \A r \in S : r.item # i PROVE TotalOf(S, i) = 0
  <2>1. V = {}
    BY <1>2, <1>4
  <2> QED
    BY <1>3, <2>1, SumOfNothing
<1>5. ASSUME NEW r \in S, r.item = i, \A q \in S : q.item = i => q = r
      PROVE  TotalOf(S, i) = r.amount
  <2>1. V \ {r} = {} /\ r \in V /\ f[r] = r.amount /\ \A q \in V : f[q] \in Int
    BY <1>1, <1>2, <1>3, <1>5
  <2>2. SumFunctionOnSet(f, V) = f[r] + SumFunctionOnSet(f, V \ {r})
    BY <1>3, <2>1, SumTakesOut
  <2>3. SumFunctionOnSet(f, V \ {r}) = 0
    BY <2>1, SumOfNothing
  <2>4. f[r] \in Int
    BY <2>1
  <2> QED
    BY <1>3, <2>1, <2>2, <2>3, <2>4
<1> QED
  BY <1>4, <1>5

----------------------------------------------------------------------------
(* Tables and forms *)

\* The rows of a table have an id each, named by the request that inserted them,
\* one of the first n, and by their product.
TableOK(rows, n) ==
    /\ IsFiniteSet(rows)
    /\ rows \subseteq Row
    /\ \A r \in rows : r.id[2] = r.item /\ r.id[1] <= n
    /\ \A r, q \in rows : r.id = q.id => r = q

\* A form has a line for each of some products, new or for a row of the document.
FormOK(form, rows) ==
    /\ IsFiniteSet(form)
    /\ \A l \in form : /\ l.item \in Products
                       /\ l.amount \in UNION Range(Kilos)
                       /\ l.id # NoId => l.id \in Ids(rows) /\ l.id[2] = l.item
    /\ \A l, m \in form : l.item = m.item => l = m

LEMMA AmountsPositive == \A k \in UNION Range(Kilos) : k \in Nat /\ k > 0
<1>1. ASSUME NEW K \in Range(Kilos), NEW k \in K PROVE k \in Nat /\ k > 0
  <2>1. PICK i \in Products : K = Kilos[i]
    BY SalesBounds DEF Range
  <2>2. K \subseteq Nat \ {0}
    BY <2>1, SalesBounds
  <2> QED
    BY <2>2
<1> QED
  BY <1>1

\* Every row has an id, an item and an amount.
LEMMA RowParts ==
  ASSUME NEW r \in Row
  PROVE  /\ r.id \in Documents \X Products /\ r.id # NoId
         /\ r.doc \in Documents /\ r.item \in Products
         /\ r.amount \in Nat /\ r.amount > 0 /\ r.amount \in UNION Range(Kilos)
         /\ r.active \in BOOLEAN
<1>1. r.amount \in UNION Range(Kilos) /\ r.id \in (Serials \cup {0}) \X Products
  BY DEF Row
<1> QED
  BY <1>1, AmountsPositive, SalesNames DEF Row, Documents, PEDIDO

LEMMA TableParts ==
  ASSUME NEW rows, NEW n, TableOK(rows, n), NEW S, S \subseteq rows
  PROVE  Rows(S)
<1>1. IsFiniteSet(S)
  BY FS_Subset DEF TableOK
<1>2. \A r \in S : r \in Row
  BY DEF TableOK
<1> QED
  BY <1>1, <1>2, RowParts DEF Rows

\* A form has one line for each of some items, as Forms makes them.
LEMMA FormsOK ==
  ASSUME NEW rows, rows \subseteq Row, NEW form \in Forms(rows, Products, Kilos)
  PROVE  FormOK(form, rows)
<1> DEFINE Lines == {l \in [id : Ids(rows) \cup {NoId}, item : Products,
                             amount : UNION Range(Kilos)] :
                        l.amount \in Kilos[l.item] /\ (l.id # NoId => l.id[2] = l.item)}
<1>1. PICK S \in SUBSET Products :
        form \in {{f[i] : i \in S} : f \in {g \in [S -> Lines] : \A i \in S : g[i].item = i}}
  BY DEF Forms
<1>2. PICK f \in [S -> Lines] : (\A i \in S : f[i].item = i) /\ form = {f[i] : i \in S}
  BY <1>1
<1>3. IsFiniteSet(S)
  BY SalesNames, FS_Subset
<1>4. IsFiniteSet(form)
  <2>1. \A x \in S : f[x] \in form
    BY <1>2
  <2>2. \A l \in form : \E x \in S : f[x] = l
    BY <1>2
  <2>3. DOMAIN f = S /\ f = [x \in S |-> f[x]]
    BY <1>2
  <2> QED
    BY <1>3, <2>1, <2>2, <2>3, FiniteImage
<1>5. \A l \in form : l \in Lines
  BY <1>2
<1>6. \A l, m \in form : l.item = m.item => l = m
  BY <1>2
<1>7. \A l \in form : l.id # NoId => l.id \in Ids(rows) /\ l.id[2] = l.item
  BY <1>5
<1>8. \A l \in form : l.item \in Products /\ l.amount \in UNION Range(Kilos)
  BY <1>5
<1> QED
  BY <1>4, <1>6, <1>7, <1>8 DEF FormOK

\* The kilos of the one line of an item.
LEMMA LineOfItem ==
  ASSUME NEW listed, NEW l \in listed, \A m \in listed : m.item = l.item => m = l,
         NEW i, i = l.item
  PROVE  LineKilos(listed, i) = l.amount
<1>1. i \in Items(listed)
  BY DEF Items
<1>2. (CHOOSE m \in listed : m.item = i) = l
  OBVIOUS
<1> QED
  BY <1>1, <1>2 DEF LineKilos

\* Some line has the kilos of an item, if they are not none.
LEMMA LineFound ==
  ASSUME NEW listed, NEW i
  PROVE  \/ i \notin Items(listed) /\ LineKilos(listed, i) = 0
         \/ \E l \in listed : l.item = i /\ LineKilos(listed, i) = l.amount
<1>1. CASE i \in Items(listed)
  <2>1. PICK l : l = CHOOSE m \in listed : m.item = i
    OBVIOUS
  <2>2. l \in listed /\ l.item = i
    BY <1>1, <2>1 DEF Items
  <2> QED
    BY <1>1, <2>1, <2>2 DEF LineKilos
<1>2. CASE i \notin Items(listed)
  BY <1>2 DEF LineKilos
<1> QED
  BY <1>1, <1>2

----------------------------------------------------------------------------
(* What a save, or one statement of it, does to a table *)

\* A save of doc may write the rows in old and the lines of the form: the rows are
\* the document's, the lines are new or of those rows, and the new ids are free.
WriteOK(rows, m, old, form, doc, n) ==
    /\ m \in Nat /\ n \in Serials /\ n <= m /\ doc \in Documents
    /\ TableOK(rows, m)
    /\ FormOK(form, RowsOf(rows, doc))
    /\ \A r \in old : r.id \in Ids(RowsOf(rows, doc))
    /\ \A l \in form : l.id # NoId => l.id \in Ids(old)
    /\ \A l \in form : \A r \in rows : r.id # <<n, l.item>>

\* What becomes of a row.
Fate(r, old, form) ==
    IF r.id \in Ids(Removed(old, form)) THEN Deleted(r)
    ELSE IF r.id \in Ids(Kept(old, form)) THEN Updated(r, form) ELSE r

LEMMA RowFate ==
  ASSUME NEW rows, NEW m, NEW old, NEW form, NEW doc, NEW n,
         WriteOK(rows, m, old, form, doc, n), NEW r \in rows,
         NEW w, w = Fate(r, old, form)
  PROVE  /\ w \in Row /\ w.id = r.id /\ w.doc = r.doc /\ w.item = r.item
         /\ r.id \notin Ids(old) => w = r
         /\ r.id \in Ids(old) => r.doc = doc
         /\ r.id \in Ids(old) /\ r.id \notin Ids(form) => ~w.active
         /\ \A l \in form : l.id = r.id /\ r.id \in Ids(old) =>
                w.active /\ w.amount = l.amount /\ w.item = l.item
<1>1. /\ r \in Row /\ r.id[2] = r.item /\ r.id # NoId
      /\ \A q \in rows : q.id = r.id => q = r
  BY RowParts DEF WriteOK, TableOK
<1>2. \A q \in old : q.id # NoId
  BY DEF WriteOK, Ids
<1>3. /\ r.id \in Ids(Removed(old, form)) <=> r.id \in Ids(old) /\ r.id \notin Ids(form)
      /\ r.id \in Ids(Kept(old, form)) <=> r.id \in Ids(old) /\ r.id \in Ids(form)
  BY <1>1, <1>2 DEF Ids, Removed, Kept
<1>4. r.id \in Ids(old) => r.doc = doc
  <2>1. ASSUME NEW q \in old, q.id = r.id PROVE r.doc = doc
    <3>1. r.id \in Ids(RowsOf(rows, doc))
      BY <2>1 DEF WriteOK
    <3>2. PICK t \in RowsOf(rows, doc) : t.id = r.id
      BY <3>1 DEF Ids
    <3> QED
      BY <1>1, <3>2 DEF RowsOf
  <2> QED
    BY <2>1 DEF Ids
<1>5. ASSUME r.id \in Ids(old), r.id \notin Ids(form)
      PROVE  w = Deleted(r)
  BY <1>3, <1>5 DEF Fate
<1>6. ASSUME r.id \in Ids(old), r.id \in Ids(form)
      PROVE  \E l \in form : /\ l.id = r.id /\ l.item = r.item /\ l.amount \in UNION Range(Kilos)
                             /\ \A k \in form : k.id = r.id => k = l
                             /\ w = [r EXCEPT !.amount = l.amount, !.active = TRUE]
  <2>1. PICK l : l = LineOf(form, r.id)
    OBVIOUS
  <2>2. l \in form /\ l.id = r.id
    BY <1>6, <2>1 DEF Ids, LineOf
  <2>3. \A k \in form : k.id = r.id => k.item = r.item /\ k.amount \in UNION Range(Kilos)
    BY <1>1 DEF WriteOK, FormOK
  <2>4. \A k \in form : k.id = r.id => k = l
    BY <2>2, <2>3 DEF WriteOK, FormOK
  <2>5. w = Updated(r, form)
    BY <1>3, <1>6 DEF Fate
  <2> QED
    BY <2>1, <2>2, <2>3, <2>4, <2>5 DEF Updated
<1>7. r.id \notin Ids(old) => w = r
  BY <1>3 DEF Fate
<1>8. CASE r.id \notin Ids(old)
  BY <1>1, <1>7, <1>8
<1>9. CASE r.id \in Ids(old) /\ r.id \notin Ids(form)
  <2>1. w = [r EXCEPT !.active = FALSE]
    BY <1>5, <1>9 DEF Deleted
  <2>2. w \in Row /\ w.id = r.id /\ w.doc = r.doc /\ w.item = r.item /\ ~w.active
    BY <1>1, <2>1 DEF Row
  <2>3. \A l \in form : l.id # r.id
    BY <1>1, <1>9 DEF Ids
  <2> QED
    BY <1>4, <1>9, <2>2, <2>3
<1>10. CASE r.id \in Ids(old) /\ r.id \in Ids(form)
  <2>1. PICK l \in form :
           /\ l.id = r.id /\ l.item = r.item /\ l.amount \in UNION Range(Kilos)
           /\ \A k \in form : k.id = r.id => k = l
           /\ w = [r EXCEPT !.amount = l.amount, !.active = TRUE]
    BY <1>6, <1>10
  <2>2. /\ w \in Row /\ w.id = r.id /\ w.doc = r.doc /\ w.item = r.item
        /\ w.active /\ w.amount = l.amount
    BY <1>1, <2>1 DEF Row
  <2> QED
    BY <1>4, <1>10, <2>1, <2>2
<1> QED
  BY <1>8, <1>9, <1>10

\* The id of the row a line becomes.
IdOf(l, n) == IF l.id = NoId THEN <<n, l.item>> ELSE l.id

\* The row w has what line l says.
Shows(w, l, doc, n) ==
    w.active /\ w.doc = doc /\ w.item = l.item /\ w.amount = l.amount /\ w.id = IdOf(l, n)

LEMMA NewRows ==
  ASSUME NEW rows, NEW m, NEW old, NEW form, NEW doc, NEW n,
         WriteOK(rows, m, old, form, doc, n)
  PROVE  /\ Created(old, form) = {l \in form : l.id = NoId}
         /\ \A l \in Created(old, form) :
               LET w == NewRow(l, doc, n) IN
               /\ w \in Row /\ w.id = <<n, l.item>> /\ w.id[2] = w.item /\ w.id[1] <= m
               /\ \A r \in rows : r.id # w.id
               /\ w.doc = doc /\ w.active /\ w.item = l.item /\ w.amount = l.amount
<1>1. Created(old, form) = {l \in form : l.id = NoId}
  BY DEF Created, WriteOK, Ids
<1>2. ASSUME NEW l \in Created(old, form), NEW w, w = NewRow(l, doc, n)
      PROVE  /\ w \in Row /\ w.id = <<n, l.item>> /\ w.id[2] = w.item /\ w.id[1] <= m
             /\ \A r \in rows : r.id # w.id
             /\ w.doc = doc /\ w.active /\ w.item = l.item /\ w.amount = l.amount
  <2>1. l \in form /\ l.item \in Products /\ l.amount \in UNION Range(Kilos)
    BY <1>1, <1>2 DEF WriteOK, FormOK
  <2>2. w = [id |-> <<n, l.item>>, doc |-> doc, item |-> l.item, amount |-> l.amount,
             active |-> TRUE]
    BY <1>2 DEF NewRow
  <2>3. n \in Serials /\ n <= m /\ doc \in Serials \cup {0}
    BY DEF WriteOK, Documents, PEDIDO
  <2>4. w \in Row
    BY <2>1, <2>2, <2>3 DEF Row
  <2>5. \A r \in rows : r.id # <<n, l.item>>
    BY <2>1 DEF WriteOK
  <2> QED
    BY <2>2, <2>3, <2>4, <2>5
<1> QED
  BY <1>1, <1>2

LEMMA SavedIs ==
  ASSUME NEW rows, NEW old, NEW form, NEW doc, NEW n
  PROVE  Saved(rows, old, form, doc, n) =
            {Fate(r, old, form) : r \in rows} \cup {NewRow(l, doc, n) : l \in Created(old, form)}
BY DEF Saved, Fate

\* The table after the write: every row is still there, other documents' as they
\* were; and of the document's active rows each is a line of the form or was not
\* one of the rows written.
LEMMA SavedRows ==
  ASSUME NEW rows, NEW m, NEW old, NEW form, NEW doc, NEW n,
         WriteOK(rows, m, old, form, doc, n),
         NEW W, W = Saved(rows, old, form, doc, n)
  PROVE  /\ TableOK(W, m)
         /\ \A r \in rows : r.doc # doc => r \in W
         /\ \A w \in W : w.doc # doc => w \in rows
         /\ \A r \in rows : \E w \in W : w.id = r.id /\ w.doc = r.doc
         /\ \A w \in W :
               \/ \E r \in rows : w.id = r.id /\ w.doc = r.doc
               \/ w.doc = doc /\ \E l \in form : l.id = NoId /\ w.id = <<n, l.item>>
         /\ \A w \in W : w.active /\ w.doc = doc =>
                           \/ \E l \in form : Shows(w, l, doc, n)
                           \/ w \in rows /\ w.id \notin Ids(old)
         /\ \A l \in form : \E w \in W : Shows(w, l, doc, n)
<1> DEFINE O == {Fate(r, old, form) : r \in rows}
           N == {NewRow(l, doc, n) : l \in Created(old, form)}
<1>1. W = O \cup N
  BY SavedIs
<1>2. ASSUME NEW w \in O
      PROVE  \E r \in rows : w = Fate(r, old, form)
  BY <1>2
<1>3. ASSUME NEW w \in N
      PROVE  \E l \in Created(old, form) : w = NewRow(l, doc, n)
  BY <1>3
<1>4. \A r \in rows : Fate(r, old, form) \in O
  OBVIOUS
<1>5. \A l \in Created(old, form) : NewRow(l, doc, n) \in N
  OBVIOUS
<1>6. IsFiniteSet(O)
  <2>1. PICK f : f = [r \in rows |-> Fate(r, old, form)]
    OBVIOUS
  <2>2. /\ DOMAIN f = rows /\ f = [r \in rows |-> f[r]]
        /\ \A r \in rows : f[r] \in O
        /\ \A w \in O : \E r \in rows : f[r] = w
    BY <2>1
  <2>3. IsFiniteSet(rows)
    BY DEF WriteOK, TableOK
  <2> QED
    BY <2>2, <2>3, FiniteImage
<1>7. IsFiniteSet(N)
  <2>1. PICK f : f = [l \in Created(old, form) |-> NewRow(l, doc, n)]
    OBVIOUS
  <2>2. /\ DOMAIN f = Created(old, form) /\ f = [l \in Created(old, form) |-> f[l]]
        /\ \A l \in Created(old, form) : f[l] \in N
        /\ \A w \in N : \E l \in Created(old, form) : f[l] = w
    BY <2>1
  <2>3. IsFiniteSet(Created(old, form))
    BY FS_Subset DEF WriteOK, FormOK, Created
  <2> QED
    BY <2>2, <2>3, FiniteImage
<1>8. IsFiniteSet(W)
  BY <1>1, <1>6, <1>7, FS_Union
<1> HIDE DEF O, N
<1>9. ASSUME NEW w \in O
      PROVE  \E r \in rows :
               /\ w \in Row /\ w.id = r.id /\ w.doc = r.doc /\ w.item = r.item
               /\ r.id \notin Ids(old) => w = r
               /\ r.id \in Ids(old) => r.doc = doc
               /\ r.id \in Ids(old) /\ r.id \notin Ids(form) => ~w.active
               /\ \A l \in form : l.id = r.id /\ r.id \in Ids(old) =>
                      w.active /\ w.amount = l.amount /\ w.item = l.item
  BY <1>2, <1>9, RowFate
<1>10. ASSUME NEW w \in N
       PROVE  \E l \in form :
               /\ l.id = NoId
               /\ w \in Row /\ w.id = <<n, l.item>> /\ w.id[2] = w.item /\ w.id[1] <= m
               /\ \A r \in rows : r.id # w.id
               /\ w.doc = doc /\ w.active /\ w.item = l.item /\ w.amount = l.amount
  BY <1>3, <1>10, NewRows
<1>11. W \subseteq Row
  BY <1>1, <1>9, <1>10
<1>12. \A r \in rows : r \in Row /\ r.id[2] = r.item /\ r.id[1] <= m /\ r.id # NoId
  BY RowParts DEF WriteOK, TableOK
<1>13. \A r, q \in rows : r.id = q.id => r = q
  BY DEF WriteOK, TableOK
<1>14. \A w \in W : w.id[2] = w.item /\ w.id[1] <= m
  BY <1>1, <1>9, <1>10, <1>12
<1>15. \A l, k \in form : l.item = k.item => l = k
  BY DEF WriteOK, FormOK
<1>16. ASSUME NEW w \in W, NEW v \in W, w.id = v.id PROVE w = v
  <2>1. CASE w \in O /\ v \in O
    <3>1. PICK r \in rows : w = Fate(r, old, form) /\ w.id = r.id
      BY <1>2, <2>1, RowFate
    <3>2. PICK q \in rows : v = Fate(q, old, form) /\ v.id = q.id
      BY <1>2, <2>1, RowFate
    <3> QED
      BY <1>13, <1>16, <3>1, <3>2
  <2>2. CASE w \in N /\ v \in N
    <3>1. PICK l \in Created(old, form) : w = NewRow(l, doc, n)
      BY <1>3, <2>2
    <3>2. PICK k \in Created(old, form) : v = NewRow(k, doc, n)
      BY <1>3, <2>2
    <3>3. w.item = l.item /\ v.item = k.item /\ l \in form /\ k \in form
      BY <3>1, <3>2, NewRows
    <3>4. w.item = v.item
      BY <1>14, <1>16
    <3> QED
      BY <1>15, <3>1, <3>2, <3>3, <3>4
  <2>3. CASE w \in O /\ v \in N
    BY <1>9, <1>10, <1>16, <2>3
  <2>4. CASE w \in N /\ v \in O
    BY <1>9, <1>10, <1>16, <2>4
  <2> QED
    BY <1>1, <2>1, <2>2, <2>3, <2>4
<1>17. TableOK(W, m)
  BY <1>8, <1>11, <1>14, <1>16 DEF TableOK
<1>18. ASSUME NEW r \in rows PROVE \E w \in O : w = Fate(r, old, form) /\ w.id = r.id /\ w.doc = r.doc
  BY <1>4, RowFate
<1>19. ASSUME NEW r \in rows, r.doc # doc PROVE r \in W
  <2>1. Fate(r, old, form) = r
    BY <1>19, RowFate
  <2> QED
    BY <1>1, <1>4, <2>1
<1>20. ASSUME NEW w \in W, w.doc # doc PROVE w \in rows
  BY <1>1, <1>9, <1>10, <1>20
<1>21. ASSUME NEW w \in W
       PROVE  \/ \E r \in rows : w.id = r.id /\ w.doc = r.doc
              \/ w.doc = doc /\ \E l \in form : l.id = NoId /\ w.id = <<n, l.item>>
  BY <1>1, <1>9, <1>10
<1>22. ASSUME NEW w \in W, w.active, w.doc = doc
       PROVE  \/ \E l \in form : Shows(w, l, doc, n)
              \/ w \in rows /\ w.id \notin Ids(old)
  <2>1. CASE w \in O
    <3>1. PICK r \in rows :
               /\ w \in Row /\ w.id = r.id /\ w.doc = r.doc /\ w.item = r.item
               /\ r.id \notin Ids(old) => w = r
               /\ r.id \in Ids(old) /\ r.id \notin Ids(form) => ~w.active
               /\ \A l \in form : l.id = r.id /\ r.id \in Ids(old) =>
                      w.active /\ w.amount = l.amount /\ w.item = l.item
      BY <1>9, <2>1
    <3>2. CASE r.id \in Ids(old) /\ r.id \in Ids(form)
      <4>1. PICK l \in form : l.id = r.id
        BY <3>2 DEF Ids
      <4>2. r.id # NoId
        BY <1>12
      <4> QED
        BY <1>22, <3>1, <3>2, <4>1, <4>2 DEF Shows, IdOf
    <3>3. CASE ~(r.id \in Ids(old) /\ r.id \in Ids(form))
      BY <1>22, <3>1, <3>3
    <3> QED
      BY <3>2, <3>3
  <2>2. CASE w \in N
    BY <1>10, <2>2 DEF Shows, IdOf
  <2> QED
    BY <1>1, <2>1, <2>2
<1>23. ASSUME NEW l \in form PROVE \E w \in W : Shows(w, l, doc, n)
  <2>1. CASE l.id = NoId
    <3>1. l \in Created(old, form)
      BY <2>1, NewRows
    <3>2. PICK w : w = NewRow(l, doc, n)
      OBVIOUS
    <3>3. /\ w.id = <<n, l.item>>
          /\ w.doc = doc /\ w.active /\ w.item = l.item /\ w.amount = l.amount
      BY <3>1, <3>2, NewRows
    <3>4. w \in W
      BY <1>1, <1>5, <3>1, <3>2
    <3> QED
      BY <2>1, <3>3, <3>4 DEF Shows, IdOf
  <2>2. CASE l.id # NoId
    <3>1. l.id \in Ids(old) /\ l.id \in Ids(RowsOf(rows, doc))
      BY <2>2 DEF WriteOK, FormOK
    <3>2. PICK r \in rows : r.id = l.id /\ r.doc = doc
      BY <3>1 DEF Ids, RowsOf
    <3>3. PICK w : w = Fate(r, old, form)
      OBVIOUS
    <3>4. /\ w.id = r.id /\ w.doc = r.doc
          /\ w.active /\ w.amount = l.amount /\ w.item = l.item
      BY <3>1, <3>2, <3>3, RowFate
    <3>5. w \in W
      BY <1>1, <1>4, <3>3
    <3> QED
      BY <2>2, <3>2, <3>4, <3>5 DEF Shows, IdOf
  <2> QED
    BY <2>1, <2>2
<1> QED
  BY <1>17, <1>18, <1>1, <1>19, <1>20, <1>21, <1>22, <1>23

\* A save that writes all the rows of a document leaves it the lines of the form.
LEMMA SavedDocument ==
  ASSUME NEW rows, NEW m, NEW old, NEW form, NEW doc, NEW n,
         WriteOK(rows, m, old, form, doc, n),
         \A r \in RowsOf(rows, doc) : r.id \in Ids(old),
         NEW W, W = Saved(rows, old, form, doc, n), NEW i
  PROVE  TotalOf(ActiveOf(W, doc), i) = LineKilos(form, i)
<1>1. /\ TableOK(W, m)
      /\ \A w \in W : w.active /\ w.doc = doc =>
                        \/ \E l \in form : Shows(w, l, doc, n)
                        \/ w \in rows /\ w.id \notin Ids(old)
      /\ \A l \in form : \E w \in W : Shows(w, l, doc, n)
  BY SavedRows
<1>2. PICK D : D = ActiveOf(W, doc)
  OBVIOUS
<1>3. \A w \in D : w \in W /\ w.active /\ w.doc = doc
  BY <1>2 DEF ActiveOf, Active, RowsOf
<1>4. Rows(D)
  <2>1. D \subseteq W
    BY <1>3
  <2> QED
    BY <1>1, <2>1, TableParts
<1>5. \A w \in D : \E l \in form : Shows(w, l, doc, n)
  BY <1>1, <1>3 DEF RowsOf
<1>6. \A l, k \in form : l.item = k.item => l = k
  BY DEF WriteOK, FormOK
<1>7. CASE \E l \in form : l.item = i
  <2>1. PICK l \in form : l.item = i
    BY <1>7
  <2>2. PICK w \in W : Shows(w, l, doc, n)
    BY <1>1
  <2>3. w \in D /\ w.item = i /\ w.amount = l.amount
    BY <1>2, <2>1, <2>2 DEF Shows, ActiveOf, Active, RowsOf
  <2>4. ASSUME NEW v \in D, v.item = i PROVE v = w
    <3>1. PICK k \in form : Shows(v, k, doc, n)
      BY <1>5
    <3>2. k = l
      BY <1>6, <2>1, <2>4, <3>1 DEF Shows
    <3>3. v.id = w.id
      BY <2>2, <3>1, <3>2 DEF Shows
    <3> QED
      BY <1>1, <1>3, <2>3, <3>3 DEF TableOK
  <2>5. TotalOf(D, i) = w.amount
    BY <1>4, <2>3, <2>4, TotalOfFew
  <2>6. LineKilos(form, i) = l.amount
    BY <1>6, <2>1, LineOfItem
  <2> QED
    BY <1>2, <2>3, <2>5, <2>6
<1>8. CASE \A l \in form : l.item # i
  <2>1. \A w \in D : w.item # i
    BY <1>5, <1>8 DEF Shows
  <2>2. TotalOf(D, i) = 0
    BY <1>4, <2>1, TotalOfFew
  <2>3. LineKilos(form, i) = 0
    BY <1>8, LineFound
  <2> QED
    BY <1>2, <2>2, <2>3
<1> QED
  BY <1>7, <1>8

----------------------------------------------------------------------------
(* What every request holds, whatever overlaps *)

SalePhases == {"sale_tx", "sale_commit"}
RequestPhases == {"request_tx", "request_commit"}
RequestDeletes == {"request_delete_lines", "request_delete"}
ReturnPhases == {"return_header", "return_lines", "return_net", "return_delete"}
SavePhases == SalePhases \cup RequestPhases \cup ReturnPhases
Phases == {"idle", "sale_delete"} \cup SavePhases \cup RequestDeletes

\* The lines in old, read in a transaction, are rows of the document, and cover the form.
Read(old, form, rows) ==
    /\ \A r \in old : r.id \in Ids(rows)
    /\ \A l \in form : l.id # NoId => l.id \in Ids(old)

SaleJob(ph, j) ==
    /\ j = [n |-> j.n, target |-> j.target, linked |-> j.linked, auto |-> j.auto,
            subtotal |-> j.subtotal, form |-> j.form, lines |-> j.lines, back |-> j.back]
    /\ j.n \in Serials /\ j.n <= started /\ j.target \in Serials /\ j.linked \in BOOLEAN
    /\ j.auto \in BOOLEAN /\ j.subtotal \in Int /\ (j.auto => j.subtotal = Total(j.form))
    /\ FormOK(j.form, RowsOf(sold, j.target))
    /\ \A r \in sold : r.id[1] # j.n
    /\ ph = "sale_commit" => Rows(j.back) /\ Read(j.lines, j.form, RowsOf(sold, j.target))

RequestJob(ph, j) ==
    /\ j = [n |-> j.n, form |-> j.form, lines |-> j.lines]
    /\ j.n \in Serials /\ j.n <= started
    /\ FormOK(j.form, RowsOf(ordered, PEDIDO))
    /\ \A r \in ordered : r.id[1] # j.n
    /\ ph = "request_commit" => Read(j.lines, j.form, RowsOf(ordered, PEDIDO))

\* Of a return the lines are written one at a time, and leave old and form.
ReturnJob(ph, j) ==
    /\ j = [n |-> j.n, target |-> j.target, sale |-> j.sale, form |-> j.form,
            old |-> j.old, net |-> j.net]
    /\ j.n \in Serials /\ j.n <= started /\ j.target \in Serials /\ j.sale \in Serials
    /\ j.net \in Int
    /\ sales[j.sale] # NoRow
    /\ FormOK(j.form, RowsOf(returned, j.target))
    /\ \A l \in j.form : \A r \in returned : r.id # <<j.n, l.item>>
    /\ IF returns[j.target] = NoRow
       THEN j.target = j.n /\ ph = "return_header"
       ELSE returns[j.target].sale = j.sale
    /\ ph = "return_lines" =>
          /\ Read(j.old, j.form, RowsOf(returned, j.target))
          /\ \A r, q \in j.old : r.id = q.id => r = q
    /\ ph = "return_delete" => j.old = {} /\ j.form = {}

JobOK(ph, j) ==
    /\ ph \in SalePhases => SaleJob(ph, j)
    /\ ph \in RequestPhases => RequestJob(ph, j)
    /\ ph \in ReturnPhases => ReturnJob(ph, j)
    /\ ph = "sale_delete" => /\ j = [target |-> j.target, left |-> j.left]
                             /\ j.target \in Serials /\ sales[j.target] # NoRow
                             /\ j.left \subseteq Ids(RowsOf(sold, j.target))

\* Lines belong to documents that are stored, and returns to sales that are.
DataOK ==
    /\ MaxRequests \in Nat /\ started \in 0..MaxRequests /\ contended \in BOOLEAN
    /\ request \in Request
    /\ sales \in [Serials -> Sale \cup {NoRow}]
    /\ returns \in [Serials -> Return \cup {NoRow}]
    /\ TableOK(ordered, started) /\ TableOK(sold, started) /\ TableOK(returned, started)
    /\ \A r \in ordered : r.doc = PEDIDO
    /\ \A r \in sold : r.doc \in Serials /\ sales[r.doc] # NoRow
    /\ \A r \in returned : r.doc \in Serials /\ returns[r.doc] # NoRow
    /\ \A a \in Serials : returns[a] # NoRow => a <= started /\ sales[returns[a].sale] # NoRow

SlotsOK ==
    /\ phase \in [Procs -> Phases]
    /\ job = [p \in Procs |-> job[p]]
    /\ \A p \in Procs : JobOK(phase[p], job[p])
    /\ \A p, q \in Procs :
          p # q /\ phase[p] \in SavePhases /\ phase[q] \in SavePhases => job[p].n # job[q].n

TInv == DataOK /\ SlotsOK

----------------------------------------------------------------------------
(* What a step of p leaves the others *)

\* No row is lost, and new ones bear the number of the request.
Grows(rows, later, p) ==
    /\ \A r \in rows : \E w \in later : w.id = r.id /\ w.doc = r.doc
    /\ \A w \in later :
          \/ \E r \in rows : w.id = r.id /\ w.doc = r.doc
          \/ phase[p] \in SavePhases /\ w.id[1] = job[p].n

Leaves(p) ==
    /\ started' >= started
    /\ Grows(ordered, ordered', p) /\ Grows(sold, sold', p) /\ Grows(returned, returned', p)
    /\ \A s \in Serials : sales[s] # NoRow => sales'[s] # NoRow
    /\ \A a \in Serials :
          /\ returns[a] # NoRow => returns'[a] # NoRow /\ returns'[a].sale = returns[a].sale
          /\ returns'[a] # NoRow /\ returns[a] = NoRow =>
                phase[p] \in SavePhases /\ a = job[p].n
    /\ \A q \in Procs \ {p} : phase'[q] = phase[q] /\ job'[q] = job[q]

LEMMA GrownIds ==
  ASSUME NEW rows, NEW later, NEW p, Grows(rows, later, p), NEW doc
  PROVE  Ids(RowsOf(rows, doc)) \subseteq Ids(RowsOf(later, doc))
BY DEF Grows, Ids, RowsOf

LEMMA FormStays ==
  ASSUME NEW rows, NEW later, Ids(rows) \subseteq Ids(later), NEW form, FormOK(form, rows)
  PROVE  FormOK(form, later)
BY DEF FormOK

LEMMA OthersKeepJobs ==
  ASSUME TInv, NEW p \in Procs, Leaves(p), started' \in Nat, NEW q \in Procs, q # p
  PROVE  JobOK(phase[q], job[q])'
<1>1. PICK j : j = job[q]
  OBVIOUS
<1>2. PICK ph : ph = phase[q]
  OBVIOUS
<1>3. phase'[q] = ph /\ job'[q] = j
  BY <1>1, <1>2 DEF Leaves
<1>4. JobOK(ph, j)
  BY <1>1, <1>2 DEF TInv, SlotsOK
<1>5. ph \in SavePhases /\ phase[p] \in SavePhases => j.n # job[p].n
  BY <1>1, <1>2 DEF TInv, SlotsOK
<1>6. started \in Nat /\ started <= started'
  BY DEF TInv, DataOK, Leaves
<1>7. ASSUME ph \in SalePhases PROVE SaleJob(ph, j)'
  <2>1. SaleJob(ph, j)
    BY <1>4, <1>7 DEF JobOK
  <2>2. Ids(RowsOf(sold, j.target)) \subseteq Ids(RowsOf(sold', j.target))
    BY GrownIds DEF Leaves
  <2>3. FormOK(j.form, RowsOf(sold', j.target))
    BY <2>1, <2>2, FormStays DEF SaleJob
  <2>4. \A r \in sold' : r.id[1] # j.n
    BY <1>5, <1>7, <2>1 DEF SaleJob, Leaves, Grows, SavePhases
  <2>5. ph = "sale_commit" => Read(j.lines, j.form, RowsOf(sold', j.target))
    BY <2>1, <2>2 DEF SaleJob, Read
  <2>6. j.n <= started'
    BY <1>6, <2>1 DEF SaleJob, Serials
  <2> QED
    BY <2>1, <2>3, <2>4, <2>5, <2>6 DEF SaleJob
<1>8. ASSUME ph \in RequestPhases PROVE RequestJob(ph, j)'
  <2>1. RequestJob(ph, j)
    BY <1>4, <1>8 DEF JobOK
  <2>2. Ids(RowsOf(ordered, PEDIDO)) \subseteq Ids(RowsOf(ordered', PEDIDO))
    BY GrownIds DEF Leaves
  <2>3. FormOK(j.form, RowsOf(ordered', PEDIDO))
    BY <2>1, <2>2, FormStays DEF RequestJob
  <2>4. \A r \in ordered' : r.id[1] # j.n
    BY <1>5, <1>8, <2>1 DEF RequestJob, Leaves, Grows, SavePhases
  <2>5. ph = "request_commit" => Read(j.lines, j.form, RowsOf(ordered', PEDIDO))
    BY <2>1, <2>2 DEF RequestJob, Read
  <2>6. j.n <= started'
    BY <1>6, <2>1 DEF RequestJob, Serials
  <2> QED
    BY <2>1, <2>3, <2>4, <2>5, <2>6 DEF RequestJob
<1>9. ASSUME ph \in ReturnPhases PROVE ReturnJob(ph, j)'
  <2>1. ReturnJob(ph, j)
    BY <1>4, <1>9 DEF JobOK
  <2>2. Ids(RowsOf(returned, j.target)) \subseteq Ids(RowsOf(returned', j.target))
    BY GrownIds DEF Leaves
  <2>3. FormOK(j.form, RowsOf(returned', j.target))
    BY <2>1, <2>2, FormStays DEF ReturnJob
  <2>4. ASSUME NEW l \in j.form, NEW w \in returned' PROVE w.id # <<j.n, l.item>>
    <3>1. CASE \E r \in returned : w.id = r.id /\ w.doc = r.doc
      BY <2>1, <2>4, <3>1 DEF ReturnJob
    <3>2. CASE phase[p] \in SavePhases /\ w.id[1] = job[p].n
      BY <1>5, <1>9, <3>2 DEF SavePhases
    <3> QED
      BY <3>1, <3>2 DEF Leaves, Grows
  <2>5. j.n <= started' /\ sales'[j.sale] # NoRow
    BY <1>6, <2>1 DEF ReturnJob, Serials, Leaves
  <2>6. IF returns'[j.target] = NoRow
        THEN j.target = j.n /\ ph = "return_header"
        ELSE returns'[j.target].sale = j.sale
    <3>1. CASE returns[j.target] = NoRow
      BY <1>5, <1>9, <2>1, <3>1 DEF ReturnJob, Leaves, SavePhases
    <3>2. CASE returns[j.target] # NoRow
      BY <2>1, <3>2 DEF ReturnJob, Leaves
    <3> QED
      BY <3>1, <3>2
  <2>7. ph = "return_lines" => Read(j.old, j.form, RowsOf(returned', j.target))
    BY <2>1, <2>2 DEF ReturnJob, Read
  <2> QED
    BY <2>1, <2>3, <2>4, <2>5, <2>6, <2>7 DEF ReturnJob
<1>10. ASSUME ph = "sale_delete"
       PROVE  sales'[j.target] # NoRow /\ j.left \subseteq Ids(RowsOf(sold', j.target))
  <2>1. /\ j.target \in Serials /\ sales[j.target] # NoRow
        /\ j.left \subseteq Ids(RowsOf(sold, j.target))
    BY <1>4, <1>10 DEF JobOK
  <2>2. Ids(RowsOf(sold, j.target)) \subseteq Ids(RowsOf(sold', j.target))
    BY GrownIds DEF Leaves
  <2> QED
    BY <2>1, <2>2 DEF Leaves
<1>11. JobOK(ph, j)'
  BY <1>4, <1>7, <1>8, <1>9, <1>10 DEF JobOK
<1> QED
  BY <1>3, <1>11

LEMMA NumberIsPast ==
  ASSUME TInv, NEW p \in Procs, phase[p] \in SavePhases
  PROVE  job[p].n \in Serials /\ job[p].n <= started
<1>1. JobOK(phase[p], job[p])
  BY DEF TInv, SlotsOK
<1> QED
  BY <1>1 DEF JobOK, SavePhases, SaleJob, RequestJob, ReturnJob

\* The request of p goes on, ends or begins; the others have what they had.
LEMMA SlotsKept ==
  ASSUME TInv, NEW p \in Procs, Leaves(p), DataOK', NEW ph \in Phases, NEW j,
         phase' = [phase EXCEPT ![p] = ph], job' = [job EXCEPT ![p] = j], JobOK(ph, j)',
         ph \in SavePhases =>
            \/ phase[p] \in SavePhases /\ j.n = job[p].n
            \/ j.n = started + 1
  PROVE  TInv'
<1>1. phase' \in [Procs -> Phases] /\ phase'[p] = ph
  BY DEF TInv, SlotsOK
<1>2. job' = [q \in Procs |-> job'[q]] /\ job'[p] = j
  BY DEF TInv, SlotsOK
<1>3. \A q \in Procs : q # p => phase'[q] = phase[q] /\ job'[q] = job[q]
  BY DEF TInv, SlotsOK
<1>4. ASSUME NEW q \in Procs PROVE JobOK(phase[q], job[q])'
  <2>1. CASE q = p
    BY <1>1, <1>2, <2>1
  <2>2. CASE q # p
    <3>1. started' \in Nat
      BY DEF DataOK
    <3> QED
      BY <2>2, <3>1, OthersKeepJobs
  <2> QED
    BY <2>1, <2>2
<1>5. \A q \in Procs : phase[q] \in SavePhases => job[q].n \in Nat /\ job[q].n <= started
  BY NumberIsPast DEF Serials
<1>6. started \in Nat
  BY DEF TInv, DataOK
<1>7. \A q, r \in Procs :
        q # r /\ phase[q] \in SavePhases /\ phase[r] \in SavePhases => job[q].n # job[r].n
  BY DEF TInv, SlotsOK
<1>8. ASSUME NEW q \in Procs, q # p, ph \in SavePhases, phase[q] \in SavePhases
      PROVE  job[q].n # j.n
  BY <1>5, <1>6, <1>7, <1>8
<1>9. \A q, r \in Procs :
        q # r /\ phase'[q] \in SavePhases /\ phase'[r] \in SavePhases => job'[q].n # job'[r].n
  BY <1>1, <1>2, <1>3, <1>7, <1>8
<1>10. SlotsOK'
  BY <1>1, <1>2, <1>4, <1>9 DEF SlotsOK
<1> QED
  BY <1>10 DEF TInv

LEMMA LaterTable ==
  ASSUME NEW rows, NEW m \in Nat, NEW n \in Nat, m <= n, TableOK(rows, m)
  PROVE  TableOK(rows, n)
<1>1. \A r \in rows : r.id[1] \in Nat
  BY RowParts DEF TableOK, Documents, PEDIDO, Serials
<1> QED
  BY <1>1 DEF TableOK

LEMMA SameRows ==
  ASSUME NEW rows, NEW later, later = rows, NEW p
  PROVE  Grows(rows, later, p)
BY DEF Grows

\* A step that writes nothing but the slot of p, and perhaps begins a request.
LEMMA QuietTypes ==
  ASSUME TInv, NEW p \in Procs, UNCHANGED saleVars, NEW ph \in Phases, NEW j,
         phase' = [phase EXCEPT ![p] = ph], job' = [job EXCEPT ![p] = j],
         JobOK(ph, j)', contended' \in BOOLEAN,
         \/ started' = started
         \/ started' = started + 1 /\ started < MaxRequests,
         ph \in SavePhases =>
            \/ phase[p] \in SavePhases /\ j.n = job[p].n
            \/ j.n = started + 1
  PROVE  TInv'
<1>1. /\ started \in Nat /\ started' \in Nat /\ started <= started'
      /\ started' \in 0..MaxRequests /\ MaxRequests \in Nat
  BY DEF TInv, DataOK
<1>2. /\ ordered' = ordered /\ sold' = sold /\ returned' = returned
      /\ sales' = sales /\ returns' = returns /\ request' = request
  BY DEF saleVars
<1>3. /\ TableOK(ordered, started') /\ TableOK(sold, started') /\ TableOK(returned, started')
  BY <1>1, LaterTable DEF TInv, DataOK
<1>4. \A a \in Serials : returns[a] # NoRow => a <= started'
  BY <1>1 DEF TInv, DataOK, Serials
<1>5. DataOK'
  BY <1>1, <1>2, <1>3, <1>4 DEF TInv, DataOK
<1>6. \A q \in Procs \ {p} : phase'[q] = phase[q] /\ job'[q] = job[q]
  BY DEF TInv, SlotsOK
<1>7. Leaves(p)
  BY <1>1, <1>2, <1>6, SameRows DEF Leaves
<1> QED
  BY <1>5, <1>7, SlotsKept

LEMMA EndTypes ==
  ASSUME TInv, NEW p \in Procs, FailSale(p)
  PROVE  TInv'
<1>1. /\ phase' = [phase EXCEPT ![p] = "idle"] /\ job' = [job EXCEPT ![p] = NoJob]
      /\ started' = started /\ contended' = contended /\ UNCHANGED saleVars
  BY DEF FailSale, Fail
<1>2. JobOK("idle", NoJob)'
  BY DEF JobOK, SalePhases, RequestPhases, ReturnPhases
<1>3. "idle" \in Phases /\ "idle" \notin SavePhases
  BY DEF Phases, SavePhases, SalePhases, RequestPhases, ReturnPhases
<1>4. contended' \in BOOLEAN
  BY <1>1 DEF TInv, DataOK
<1> QED
  BY <1>1, <1>2, <1>3, <1>4, QuietTypes

\* The number of a request that begins is in no row.
LEMMA NumberIsNew ==
  ASSUME TInv, started < MaxRequests, started' = started + 1
  PROVE  /\ NextSerial \in Serials /\ NextSerial <= started' /\ NextSerial = started + 1
         /\ started \in Nat
         /\ \A rows \in {ordered, sold, returned} :
               rows \subseteq Row /\ \A r \in rows : r.id[1] # NextSerial
         /\ returns[NextSerial] = NoRow
<1>1. started \in Nat /\ MaxRequests \in Nat
  BY DEF TInv, DataOK
<1>2. NextSerial \in Serials
  BY <1>1 DEF NextSerial, Serials
<1>3. returns[NextSerial] = NoRow
  BY <1>1, <1>2 DEF TInv, DataOK, NextSerial
<1>4. ASSUME NEW rows, TableOK(rows, started), NEW r \in rows PROVE r.id[1] # NextSerial
  BY <1>1, <1>4, RowParts DEF TableOK, NextSerial, Documents, PEDIDO, Serials
<1> QED
  BY <1>1, <1>2, <1>3, <1>4 DEF TInv, DataOK, NextSerial, TableOK

LEMMA PhaseSets ==
  /\ SavePhases \subseteq Phases
  /\ {"sale_delete", "request_delete_lines", "request_delete"} \subseteq Phases
  /\ SalePhases \cap RequestPhases = {} /\ SalePhases \cap ReturnPhases = {}
  /\ RequestPhases \cap ReturnPhases = {}
  /\ \A ph \in {"sale_delete", "request_delete_lines", "request_delete", "idle"} :
        ph \in Phases /\ ph \notin SavePhases
BY DEF SavePhases, Phases, SalePhases, RequestPhases, RequestDeletes, ReturnPhases

LEMMA TotalType ==
  ASSUME NEW S, Rows(S)
  PROVE  Total(S) \in Nat
<1>1. PICK f : f = [l \in S |-> l.amount]
  OBVIOUS
<1>2. DOMAIN f = S /\ IsFiniteSet(S) /\ \A l \in S : f[l] \in Nat
  BY <1>1 DEF Rows
<1>3. SumFunctionOnSet(f, S) \in Nat
  BY <1>2, SumIsNatural
<1> QED
  BY <1>1, <1>2, <1>3 DEF Total, SumFunction

\* The totals of a sale are numbers, and those of its form if they are computed.
LEMMA SaleTotalsTypes ==
  ASSUME NEW form, NEW rows, FormOK(form, rows), NEW totals \in SaleTotals(form)
  PROVE  /\ totals.auto \in BOOLEAN /\ totals.subtotal \in Int
         /\ totals.auto => totals.subtotal = Total(form)
<1>1. Total(form) \in Nat
  <2>1. Rows(form)
    BY AmountsPositive DEF FormOK, Rows
  <2> QED
    BY <2>1, TotalType
<1>2. CASE totals = [auto |-> TRUE, subtotal |-> Total(form)]
  BY <1>1, <1>2
<1>3. ASSUME NEW t \in SentSubtotals, totals = [auto |-> FALSE, subtotal |-> t]
      PROVE  totals.auto = FALSE /\ totals.subtotal \in Int
  BY <1>3, SalesBounds
<1> QED
  BY <1>2, <1>3 DEF SaleTotals

LEMMA BeginSaleTypes ==
  ASSUME TInv, NEW p \in Procs, NEW s \in Serials, NEW linked \in BOOLEAN, BeginSale(p, s, linked)
  PROVE  TInv'
<1>0. PICK form \in Forms(RowsOf(sold, s), Products, Kilos) :
      \E totals \in SaleTotals(form) :
        Start(p, "sale_tx", [n |-> NextSerial, target |-> s, linked |-> linked,
                             auto |-> totals.auto, subtotal |-> totals.subtotal,
                             form |-> form, lines |-> {}, back |-> {}],
              SaleSaves \cup RequestWrites \cup ReturnWritesOn(s))
  BY DEF BeginSale
<1>1. PICK totals \in SaleTotals(form) :
        Start(p, "sale_tx", [n |-> NextSerial, target |-> s, linked |-> linked,
                             auto |-> totals.auto, subtotal |-> totals.subtotal,
                             form |-> form, lines |-> {}, back |-> {}],
              SaleSaves \cup RequestWrites \cup ReturnWritesOn(s))
  BY <1>0
<1>2. PICK j : j = [n |-> NextSerial, target |-> s, linked |-> linked,
                    auto |-> totals.auto, subtotal |-> totals.subtotal,
                    form |-> form, lines |-> {}, back |-> {}]
  OBVIOUS
<1>3. /\ phase' = [phase EXCEPT ![p] = "sale_tx"] /\ job' = [job EXCEPT ![p] = j]
      /\ started' = started + 1 /\ started < MaxRequests /\ contended' \in BOOLEAN
      /\ UNCHANGED saleVars
  BY <1>1, <1>2 DEF Start, Free, NextSerial, BeginSale, TInv, DataOK
<1>4. /\ NextSerial \in Serials /\ NextSerial <= started' /\ NextSerial = started + 1
      /\ sold \subseteq Row /\ \A r \in sold : r.id[1] # NextSerial
  BY <1>3, NumberIsNew
<1>5. FormOK(form, RowsOf(sold, s))
  <2>1. RowsOf(sold, s) \subseteq Row
    BY <1>4 DEF RowsOf
  <2> QED
    BY <2>1, FormsOK
<1>6. SaleJob("sale_tx", j)'
  <2>1. totals.auto \in BOOLEAN /\ totals.subtotal \in Int /\ (totals.auto => totals.subtotal = Total(form))
    BY <1>5, SaleTotalsTypes
  <2> QED
    BY <1>2, <1>3, <1>4, <1>5, <2>1 DEF SaleJob, saleVars
<1>7. JobOK("sale_tx", j)'
  BY <1>6 DEF JobOK, RequestPhases, ReturnPhases
<1>8. "sale_tx" \in Phases /\ j.n = started + 1
  BY <1>2, <1>4 DEF Phases, SavePhases, SalePhases
<1> QED
  BY <1>3, <1>7, <1>8, QuietTypes

LEMMA BeginRequestTypes ==
  ASSUME TInv, NEW p \in Procs, BeginRequestSave(p)
  PROVE  TInv'
<1>1. PICK form \in Forms(ordered, Products, Kilos) :
        Start(p, "request_tx", [n |-> NextSerial, form |-> form, lines |-> {}],
              SaleSaves \cup RequestWrites)
  BY DEF BeginRequestSave
<1>2. PICK j : j = [n |-> NextSerial, form |-> form, lines |-> {}]
  OBVIOUS
<1>3. /\ phase' = [phase EXCEPT ![p] = "request_tx"] /\ job' = [job EXCEPT ![p] = j]
      /\ started' = started + 1 /\ started < MaxRequests /\ contended' \in BOOLEAN
      /\ UNCHANGED saleVars
  BY <1>1, <1>2 DEF Start, Free, NextSerial, BeginRequestSave, TInv, DataOK
<1>4. /\ NextSerial \in Serials /\ NextSerial <= started' /\ NextSerial = started + 1
      /\ ordered \subseteq Row /\ \A r \in ordered : r.id[1] # NextSerial
  BY <1>3, NumberIsNew
<1>5. FormOK(form, RowsOf(ordered, PEDIDO))
  <2>1. RowsOf(ordered, PEDIDO) = ordered
    BY DEF TInv, DataOK, RowsOf
  <2> QED
    BY <1>4, <2>1, FormsOK
<1>6. RequestJob("request_tx", j)'
  BY <1>2, <1>3, <1>4, <1>5 DEF RequestJob, saleVars
<1>7. JobOK("request_tx", j)'
  BY <1>6 DEF JobOK, SalePhases, ReturnPhases
<1>8. "request_tx" \in Phases /\ j.n = started + 1
  BY <1>2, <1>4 DEF Phases, SavePhases, RequestPhases
<1> QED
  BY <1>3, <1>7, <1>8, QuietTypes

LEMMA BeginReturnTypes ==
  ASSUME TInv, NEW p \in Procs, NEW a \in Serials, NEW s \in Serials, BeginReturn(p, a, s)
  PROVE  TInv'
<1>1. PICK form \in Forms(RowsOf(returned, a), Products, Kilos) :
        Start(p, "return_header", [n |-> NextSerial, target |-> a, sale |-> s,
                                   form |-> form, old |-> {}, net |-> 0],
              SavesOf(s) \cup DeletesOf(s) \cup ReturnWritesOn(s))
  BY DEF BeginReturn
<1>2. PICK j : j = [n |-> NextSerial, target |-> a, sale |-> s,
                    form |-> form, old |-> {}, net |-> 0]
  OBVIOUS
<1>3. /\ phase' = [phase EXCEPT ![p] = "return_header"] /\ job' = [job EXCEPT ![p] = j]
      /\ started' = started + 1 /\ started < MaxRequests /\ contended' \in BOOLEAN
      /\ UNCHANGED saleVars
  BY <1>1, <1>2 DEF Start, Free, NextSerial, BeginReturn, TInv, DataOK
<1>4. /\ NextSerial \in Serials /\ NextSerial <= started' /\ NextSerial = started + 1
      /\ returned \subseteq Row /\ \A r \in returned : r.id[1] # NextSerial
      /\ returns[NextSerial] = NoRow
  BY <1>3, NumberIsNew
<1>5. FormOK(form, RowsOf(returned, a))
  <2>1. RowsOf(returned, a) \subseteq Row
    BY <1>4 DEF RowsOf
  <2> QED
    BY <2>1, FormsOK
<1>6. /\ sales[s] # NoRow
      /\ IF returns[a] = NoRow THEN a = NextSerial ELSE returns[a].sale = s
  BY <1>4 DEF BeginReturn
<1>7. ReturnJob("return_header", j)'
  BY <1>2, <1>3, <1>4, <1>5, <1>6 DEF ReturnJob, saleVars
<1>8. JobOK("return_header", j)'
  BY <1>7 DEF JobOK, SalePhases, RequestPhases
<1>9. "return_header" \in Phases /\ j.n = started + 1
  BY <1>2, <1>4 DEF Phases, SavePhases, ReturnPhases
<1> QED
  BY <1>3, <1>8, <1>9, QuietTypes

LEMMA BeginDeleteTypes ==
  ASSUME TInv, NEW p \in Procs,
         (\E s \in Serials : BeginDeleteSale(p, s)) \/ BeginDeleteRequest(p)
  PROVE  TInv'
<1>1. CASE \E s \in Serials : BeginDeleteSale(p, s)
  <2>1. PICK s \in Serials : BeginDeleteSale(p, s)
    BY <1>1
  <2>2. PICK j : j = [target |-> s, left |-> Ids(ActiveOf(sold, s))]
    OBVIOUS
  <2>3. /\ phase' = [phase EXCEPT ![p] = "sale_delete"] /\ job' = [job EXCEPT ![p] = j]
        /\ started' = started + 1 /\ started < MaxRequests /\ contended' \in BOOLEAN
        /\ UNCHANGED saleVars
    BY <2>1, <2>2 DEF Start, Free, NextSerial, BeginDeleteSale, TInv, DataOK
  <2>4. JobOK("sale_delete", j)'
    <3>1. j.left \subseteq Ids(RowsOf(sold, j.target))
      BY <2>2 DEF Ids, ActiveOf, Active
    <3>2. sales[s] # NoRow
      BY <2>1 DEF BeginDeleteSale, Live
    <3> QED
      BY <2>2, <2>3, <3>1, <3>2 DEF saleVars, JobOK, SalePhases, RequestPhases, ReturnPhases
  <2> QED
    BY <2>3, <2>4, PhaseSets, QuietTypes
<1>2. CASE BeginDeleteRequest(p)
  <2>1. PICK j : j = [target |-> PEDIDO]
    OBVIOUS
  <2>2. /\ phase' = [phase EXCEPT ![p] = "request_delete_lines"] /\ job' = [job EXCEPT ![p] = j]
        /\ started' = started + 1 /\ started < MaxRequests /\ contended' \in BOOLEAN
        /\ UNCHANGED saleVars
    BY <1>2, <2>1 DEF Start, Free, NextSerial, BeginDeleteRequest, TInv, DataOK
  <2>3. JobOK("request_delete_lines", j)'
    BY DEF JobOK, SalePhases, RequestPhases, ReturnPhases
  <2> QED
    BY <2>2, <2>3, PhaseSets, QuietTypes
<1> QED
  BY <1>1, <1>2

\* The rows returned for a sale can be summed.
LEMMA ReturnsAreRows ==
  ASSUME TInv, NEW S, S \subseteq returned
  PROVE  Rows(S)
BY TableParts DEF TInv, DataOK

LEMMA SnapshotTypes ==
  ASSUME TInv, NEW p \in Procs, SnapshotSale(p) \/ SnapshotRequest(p)
  PROVE  TInv'
<1>1. CASE SnapshotSale(p)
  <2>1. PICK j : j = job[p]
    OBVIOUS
  <2>2. PICK k : k = [j EXCEPT !.lines = RowsOf(sold, j.target), !.back = ReturnsOn(j.target)]
    OBVIOUS
  <2>3. SaleJob("sale_tx", j) /\ phase[p] = "sale_tx"
    BY <1>1, <2>1 DEF SnapshotSale, TInv, SlotsOK, JobOK, SalePhases
  <2>4. /\ phase' = [phase EXCEPT ![p] = "sale_commit"] /\ job' = [job EXCEPT ![p] = k]
        /\ started' = started /\ contended' \in BOOLEAN /\ UNCHANGED saleVars
    BY <1>1, <2>1, <2>2 DEF SnapshotSale, Goto, TInv, DataOK
  <2>5. /\ k = [n |-> j.n, target |-> j.target, linked |-> j.linked, form |-> j.form,
                auto |-> j.auto, subtotal |-> j.subtotal,
                lines |-> RowsOf(sold, j.target), back |-> ReturnsOn(j.target)]
    BY <2>2, <2>3 DEF SaleJob
  <2>6. Rows(ReturnsOn(j.target))
    <3>1. ReturnsOn(j.target) \subseteq returned
      BY DEF ReturnsOn, Active
    <3> QED
      BY <3>1, ReturnsAreRows
  <2>7. Read(RowsOf(sold, j.target), j.form, RowsOf(sold, j.target))
    <3>1. \A r \in sold : r.id # NoId
      BY RowParts DEF TInv, DataOK, TableOK
    <3> QED
      BY <2>3, <3>1 DEF Read, Ids, RowsOf, SaleJob, FormOK
  <2>8. SaleJob("sale_commit", k)'
    BY <2>3, <2>4, <2>5, <2>6, <2>7 DEF SaleJob, saleVars
  <2>9. JobOK("sale_commit", k)'
    BY <2>8 DEF JobOK, RequestPhases, ReturnPhases
  <2>10. "sale_commit" \in Phases /\ phase[p] \in SavePhases /\ k.n = j.n
    BY <2>3, <2>5 DEF Phases, SavePhases, SalePhases
  <2> QED
    BY <2>1, <2>4, <2>9, <2>10, QuietTypes
<1>2. CASE SnapshotRequest(p)
  <2>1. PICK j : j = job[p]
    OBVIOUS
  <2>2. PICK k : k = [j EXCEPT !.lines = ordered]
    OBVIOUS
  <2>3. RequestJob("request_tx", j) /\ phase[p] = "request_tx"
    BY <1>2, <2>1 DEF SnapshotRequest, TInv, SlotsOK, JobOK, RequestPhases
  <2>4. /\ phase' = [phase EXCEPT ![p] = "request_commit"] /\ job' = [job EXCEPT ![p] = k]
        /\ started' = started /\ contended' \in BOOLEAN /\ UNCHANGED saleVars
    BY <1>2, <2>1, <2>2 DEF SnapshotRequest, Goto, TInv, DataOK
  <2>5. k = [n |-> j.n, form |-> j.form, lines |-> ordered]
    BY <2>2, <2>3 DEF RequestJob
  <2>6. Read(ordered, j.form, RowsOf(ordered, PEDIDO))
    <3>1. \A r \in ordered : r.id # NoId
      BY RowParts DEF TInv, DataOK, TableOK
    <3>2. RowsOf(ordered, PEDIDO) = ordered
      BY DEF TInv, DataOK, RowsOf
    <3> QED
      BY <2>3, <3>1, <3>2 DEF Read, Ids, RequestJob, FormOK
  <2>7. RequestJob("request_commit", k)'
    BY <2>3, <2>4, <2>5, <2>6 DEF RequestJob, saleVars
  <2>8. JobOK("request_commit", k)'
    BY <2>7 DEF JobOK, SalePhases, ReturnPhases
  <2>9. "request_commit" \in Phases /\ phase[p] \in SavePhases /\ k.n = j.n
    BY <2>3, <2>5 DEF Phases, SavePhases, RequestPhases
  <2> QED
    BY <2>1, <2>4, <2>8, <2>9, QuietTypes
<1> QED
  BY <1>1, <1>2

LEMMA NetType ==
  ASSUME NEW subtotal \in Int, NEW listed, NEW back, Rows(back)
  PROVE  NetOf(subtotal, listed, back) \in Int
<1>1. PICK S : S = {r \in back : r.item \in Items(listed)}
  OBVIOUS
<1>2. Rows(S)
  <2>1. S \subseteq back
    BY <1>1
  <2> QED
    BY <2>1, FS_Subset DEF Rows
<1>3. Total(S) \in Nat
  BY <1>2, TotalType
<1> QED
  BY <1>1, <1>3 DEF NetOf

LEMMA NetTypes ==
  ASSUME TInv, NEW p \in Procs, ReadNet(p)
  PROVE  TInv'
<1>1. PICK j : j = job[p]
  OBVIOUS
<1>2. PICK k : k = [j EXCEPT !.net = NetNow(j.sale)]
  OBVIOUS
<1>3. ReturnJob("return_lines", j) /\ phase[p] = "return_lines"
  BY <1>1 DEF ReadNet, TInv, SlotsOK, JobOK, ReturnPhases
<1>4. /\ phase' = [phase EXCEPT ![p] = "return_net"] /\ job' = [job EXCEPT ![p] = k]
      /\ started' = started /\ contended' \in BOOLEAN /\ UNCHANGED saleVars
  BY <1>1, <1>2 DEF ReadNet, Goto, TInv, DataOK
<1>5. k = [n |-> j.n, target |-> j.target, sale |-> j.sale, form |-> j.form,
           old |-> j.old, net |-> NetNow(j.sale)]
  BY <1>2, <1>3 DEF ReturnJob
<1>6. NetNow(j.sale) \in Int
  <2>1. sales[j.sale] \in Sale
    BY <1>3 DEF ReturnJob, TInv, DataOK
  <2>2. sales[j.sale].subtotal \in Int
    BY <2>1 DEF Sale
  <2>3. Rows(ReturnsOn(j.sale))
    <3>1. ReturnsOn(j.sale) \subseteq returned
      BY DEF ReturnsOn, Active
    <3> QED
      BY <3>1, ReturnsAreRows
  <2> QED
    BY <2>2, <2>3, NetType DEF NetNow
<1>7. ReturnJob("return_net", k)'
  BY <1>3, <1>4, <1>5, <1>6 DEF ReturnJob, saleVars
<1>8. JobOK("return_net", k)'
  BY <1>7 DEF JobOK, SalePhases, RequestPhases
<1>9. "return_net" \in Phases /\ phase[p] \in SavePhases /\ k.n = j.n
  BY <1>3, <1>5 DEF Phases, SavePhases, ReturnPhases
<1> QED
  BY <1>1, <1>4, <1>8, <1>9, QuietTypes

----------------------------------------------------------------------------
(* Steps that write *)

\* A request that ends, or goes on with the job it has.
LEMMA SavedGrows ==
  ASSUME NEW rows, NEW m, NEW old, NEW form, NEW doc, NEW n,
         WriteOK(rows, m, old, form, doc, n),
         NEW W, W = Saved(rows, old, form, doc, n),
         NEW p, phase[p] \in SavePhases, job[p].n = n
  PROVE  Grows(rows, W, p)
<1>1. /\ \A r \in rows : \E w \in W : w.id = r.id /\ w.doc = r.doc
      /\ \A w \in W :
            \/ \E r \in rows : w.id = r.id /\ w.doc = r.doc
            \/ w.doc = doc /\ \E l \in form : l.id = NoId /\ w.id = <<n, l.item>>
  BY SavedRows
<1>2. ASSUME NEW l, NEW w, w.id = <<n, l.item>> PROVE w.id[1] = n
  BY <1>2
<1> QED
  BY <1>1, <1>2 DEF Grows

\* The rows, those in D marked deleted.
Without(rows, D) == {IF r \in D THEN Deleted(r) ELSE r : r \in rows}

LEMMA Struck ==
  ASSUME NEW rows, NEW m, TableOK(rows, m), NEW D, NEW W, W = Without(rows, D)
  PROVE  /\ TableOK(W, m)
         /\ \A r \in rows : \E w \in W : w.id = r.id /\ w.doc = r.doc
         /\ \A w \in W : \E r \in rows : w.id = r.id /\ w.doc = r.doc
         /\ \A w \in W : w.active => w \in rows /\ w \notin D
         /\ \A r \in rows : r \notin D => r \in W
<1>1. PICK f : f = [r \in rows |-> IF r \in D THEN Deleted(r) ELSE r]
  OBVIOUS
<1>2. ASSUME NEW r \in rows
      PROVE  /\ f[r] \in Row /\ f[r].id = r.id /\ f[r].doc = r.doc /\ f[r].item = r.item
             /\ r \in D => ~f[r].active
             /\ r \notin D => f[r] = r
  <2>1. r \in Row
    BY DEF TableOK
  <2>2. CASE r \in D
    <3>1. f[r] = [r EXCEPT !.active = FALSE]
      BY <1>1, <2>2 DEF Deleted
    <3> QED
      BY <2>1, <2>2, <3>1 DEF Row
  <2>3. CASE r \notin D
    BY <1>1, <2>1, <2>3
  <2> QED
    BY <2>2, <2>3
<1>3. (\A r \in rows : f[r] \in W) /\ (\A w \in W : \E r \in rows : f[r] = w)
  BY <1>1 DEF Without
<1>4. IsFiniteSet(W)
  <2>1. DOMAIN f = rows /\ f = [r \in rows |-> f[r]]
    BY <1>1
  <2>2. IsFiniteSet(rows)
    BY DEF TableOK
  <2>3. /\ \A r \in rows : f[r] \in W
        /\ \A w \in W : \E r \in rows : f[r] = w
    BY <1>3
  <2> QED
    BY <2>1, <2>2, <2>3, FiniteImage
<1>5. W \subseteq Row
  BY <1>2, <1>3
<1>6. \A w \in W : w.id[2] = w.item /\ w.id[1] <= m
  BY <1>2, <1>3 DEF TableOK
<1>7. ASSUME NEW w \in W, NEW v \in W, w.id = v.id PROVE w = v
  <2>1. PICK r \in rows : f[r] = w
    BY <1>3
  <2>2. PICK q \in rows : f[q] = v
    BY <1>3
  <2>3. r.id = q.id
    BY <1>2, <1>7, <2>1, <2>2
  <2> QED
    BY <2>1, <2>2, <2>3 DEF TableOK
<1>8. TableOK(W, m)
  BY <1>4, <1>5, <1>6, <1>7 DEF TableOK
<1> QED
  BY <1>2, <1>3, <1>8

LEMMA CommitSaleWrite ==
  ASSUME TInv, NEW p \in Procs, phase[p] = "sale_commit", NEW j, j = job[p]
  PROVE  WriteOK(sold, started, j.lines, j.form, j.target, j.n)
<1>1. SaleJob("sale_commit", j)
  BY DEF TInv, SlotsOK, JobOK, SalePhases
<1>2. Read(j.lines, j.form, RowsOf(sold, j.target))
  BY <1>1 DEF SaleJob
<1>3. \A l \in j.form : \A r \in sold : r.id # <<j.n, l.item>>
  BY <1>1 DEF SaleJob
<1> QED
  BY <1>1, <1>2, <1>3 DEF SaleJob, Read, WriteOK, TInv, DataOK, Documents

LEMMA CommitRequestWrite ==
  ASSUME TInv, NEW p \in Procs, phase[p] = "request_commit", NEW j, j = job[p]
  PROVE  WriteOK(ordered, started, j.lines, j.form, PEDIDO, j.n)
<1>1. RequestJob("request_commit", j)
  BY DEF TInv, SlotsOK, JobOK, RequestPhases
<1>2. Read(j.lines, j.form, RowsOf(ordered, PEDIDO))
  BY <1>1 DEF RequestJob
<1>3. \A l \in j.form : \A r \in ordered : r.id # <<j.n, l.item>>
  BY <1>1 DEF RequestJob
<1> QED
  BY <1>1, <1>2, <1>3 DEF RequestJob, Read, WriteOK, TInv, DataOK, Documents

\* The next write of a return is of old rows and lines that go together.
LEMMA ReturnLineWrite ==
  ASSUME TInv, NEW p \in Procs, phase[p] = "return_lines", NEW j, j = job[p],
         NEW w \in NextWrites(j.old, j.form)
  PROVE  /\ WriteOK(returned, started, w[1], w[2], j.target, j.n)
         /\ w[1] \subseteq j.old /\ w[2] \subseteq j.form
         /\ \A l \in j.form : l \notin w[2] /\ l.id # NoId => l.id \in Ids(j.old \ w[1])
         /\ w[2] # {} => /\ Removed(j.old, j.form) = {}
                         /\ \E l \in j.form : w[2] = {l}
                         /\ w[1] = {} => Created(j.old, j.form) # {}
<1>1. ReturnJob("return_lines", j)
  BY DEF TInv, SlotsOK, JobOK, ReturnPhases
<1>2. /\ Read(j.old, j.form, RowsOf(returned, j.target))
      /\ \A r, q \in j.old : r.id = q.id => r = q
      /\ FormOK(j.form, RowsOf(returned, j.target))
      /\ \A l \in j.form : \A r \in returned : r.id # <<j.n, l.item>>
  BY <1>1 DEF ReturnJob
<1>3. \A r \in j.old : r.id # NoId /\ r.id \in Ids(RowsOf(returned, j.target))
  BY <1>2 DEF Read, Ids
<1>4. \/ \E r \in Removed(j.old, j.form) : w = <<{r}, {}>>
      \/ /\ Removed(j.old, j.form) = {}
         /\ \E l \in Created(j.old, j.form) : w = <<{}, {l}>>
      \/ /\ Removed(j.old, j.form) = {} /\ Created(j.old, j.form) = {}
         /\ \E r \in j.old : w = <<{r}, {LineOf(j.form, r.id)}>>
  BY DEF NextWrites
<1>5. ASSUME NEW old, old \subseteq j.old, NEW form, form \subseteq j.form,
             \A l \in form : l.id # NoId => l.id \in Ids(old)
      PROVE  WriteOK(returned, started, old, form, j.target, j.n)
  <2>1. IsFiniteSet(form)
    BY <1>2, <1>5, FS_Subset DEF FormOK
  <2>2. FormOK(form, RowsOf(returned, j.target))
    BY <1>2, <1>5, <2>1 DEF FormOK
  <2>3. /\ started \in Nat /\ j.n \in Serials /\ j.n <= started /\ j.target \in Documents
        /\ TableOK(returned, started)
    BY <1>1 DEF ReturnJob, TInv, DataOK, Documents
  <2> QED
    BY <1>2, <1>3, <1>5, <2>2, <2>3 DEF WriteOK
<1>6. CASE \E r \in Removed(j.old, j.form) : w = <<{r}, {}>>
  <2>1. PICK r \in Removed(j.old, j.form) : w = <<{r}, {}>>
    BY <1>6
  <2>2. /\ w[1] = {r} /\ w[2] = {} /\ r \in j.old /\ r.id \notin Ids(j.form)
        /\ w[1] \subseteq j.old /\ w[2] \subseteq j.form
    BY <2>1 DEF Removed
  <2>3. ASSUME NEW l \in j.form, l.id # NoId PROVE l.id \in Ids(j.old \ {r})
    <3>1. l.id \in Ids(j.form) /\ l.id \in Ids(j.old)
      BY <1>2, <2>3 DEF Read, Ids
    <3>2. PICK q \in j.old : q.id = l.id
      BY <3>1 DEF Ids
    <3> QED
      BY <2>2, <2>3, <3>1, <3>2 DEF Ids
  <2>4. WriteOK(returned, started, w[1], w[2], j.target, j.n)
    BY <1>5, <2>2
  <2> QED
    BY <2>2, <2>3, <2>4
<1>7. CASE /\ Removed(j.old, j.form) = {}
           /\ \E l \in Created(j.old, j.form) : w = <<{}, {l}>>
  <2>1. PICK l \in Created(j.old, j.form) : w = <<{}, {l}>>
    BY <1>7
  <2>2. /\ w[1] = {} /\ w[2] = {l} /\ l \in j.form /\ l.id \notin Ids(j.old)
        /\ w[1] \subseteq j.old /\ w[2] \subseteq j.form
    BY <2>1 DEF Created
  <2>3. l.id = NoId
    BY <1>2, <2>2 DEF Read
  <2>4. WriteOK(returned, started, w[1], w[2], j.target, j.n)
    BY <1>5, <2>2, <2>3
  <2>5. j.old \ w[1] = j.old
    BY <2>2
  <2> QED
    BY <1>2, <1>7, <2>1, <2>2, <2>4, <2>5 DEF Read
<1>8. CASE /\ Removed(j.old, j.form) = {} /\ Created(j.old, j.form) = {}
           /\ \E r \in j.old : w = <<{r}, {LineOf(j.form, r.id)}>>
  <2>1. PICK r \in j.old : w = <<{r}, {LineOf(j.form, r.id)}>>
    BY <1>8
  <2>2. r.id \in Ids(j.form)
    BY <1>8, <2>1 DEF Removed
  <2>3. PICK l : l = LineOf(j.form, r.id)
    OBVIOUS
  <2>4. l \in j.form /\ l.id = r.id
    BY <2>2, <2>3 DEF LineOf, Ids
  <2>5. /\ w[1] = {r} /\ w[2] = {l} /\ w[1] \subseteq j.old /\ w[2] \subseteq j.form
    BY <2>1, <2>3, <2>4
  <2>6. r.id \in Ids({r}) /\ r.id # NoId
    BY <1>3 DEF Ids
  <2>7. WriteOK(returned, started, w[1], w[2], j.target, j.n)
    BY <1>5, <2>4, <2>5, <2>6
  <2>8. ASSUME NEW k \in j.form, k # l, k.id # NoId PROVE k.id \in Ids(j.old \ {r})
    <3>1. k.id # r.id
      BY <1>2, <2>4, <2>6, <2>8 DEF FormOK
    <3>2. PICK q \in j.old : q.id = k.id
      BY <1>2, <2>8 DEF Read, Ids
    <3> QED
      BY <2>8, <3>1, <3>2 DEF Ids
  <2> QED
    BY <1>8, <2>4, <2>5, <2>7, <2>8
<1> QED
  BY <1>4, <1>6, <1>7, <1>8

\* A step that writes only the sales, or only the order request, or only the returns.
LEMMA SalesWritten ==
  ASSUME TInv, NEW p \in Procs, NEW ph \in Phases, NEW j,
         phase' = [phase EXCEPT ![p] = ph], job' = [job EXCEPT ![p] = j], JobOK(ph, j)',
         ph \in SavePhases => phase[p] \in SavePhases /\ j.n = job[p].n,
         UNCHANGED <<started, contended, request, ordered, returns, returned>>,
         TableOK(sold', started), Grows(sold, sold', p),
         \A r \in sold' : r.doc \in Serials /\ sales'[r.doc] # NoRow,
         sales' \in [Serials -> Sale \cup {NoRow}],
         \A s \in Serials : sales[s] # NoRow => sales'[s] # NoRow
  PROVE  TInv'
<1>1. /\ started' = started /\ contended' = contended /\ request' = request
      /\ ordered' = ordered /\ returns' = returns /\ returned' = returned
  OBVIOUS
<1>2. \A a \in Serials : returns[a] # NoRow => returns[a].sale \in Serials
  BY DEF TInv, DataOK, Return
<1>3. \A a \in Serials : returns'[a] # NoRow => a <= started' /\ sales'[returns'[a].sale] # NoRow
  BY <1>1, <1>2 DEF TInv, DataOK
<1>4. DataOK'
  BY <1>1, <1>3 DEF TInv, DataOK
<1>5. \A q \in Procs \ {p} : phase'[q] = phase[q] /\ job'[q] = job[q]
  BY DEF TInv, SlotsOK
<1>6. started' >= started
  BY <1>1 DEF TInv, DataOK
<1>7. Grows(ordered, ordered', p) /\ Grows(returned, returned', p)
  BY <1>1, SameRows
<1>8. Leaves(p)
  BY <1>1, <1>5, <1>6, <1>7 DEF Leaves
<1> QED
  BY <1>4, <1>8, SlotsKept

LEMMA OrderWritten ==
  ASSUME TInv, NEW p \in Procs, NEW ph \in Phases, NEW j,
         phase' = [phase EXCEPT ![p] = ph], job' = [job EXCEPT ![p] = j], JobOK(ph, j)',
         ph \in SavePhases => phase[p] \in SavePhases /\ j.n = job[p].n,
         UNCHANGED <<started, contended, sales, sold, returns, returned>>,
         TableOK(ordered', started), Grows(ordered, ordered', p),
         \A r \in ordered' : r.doc = PEDIDO,
         request' \in Request
  PROVE  TInv'
<1>1. /\ started' = started /\ contended' = contended /\ sales' = sales
      /\ sold' = sold /\ returns' = returns /\ returned' = returned
  OBVIOUS
<1>2. DataOK'
  BY <1>1 DEF TInv, DataOK
<1>3. \A q \in Procs \ {p} : phase'[q] = phase[q] /\ job'[q] = job[q]
  BY DEF TInv, SlotsOK
<1>4. started' >= started
  BY <1>1 DEF TInv, DataOK
<1>5. Grows(sold, sold', p) /\ Grows(returned, returned', p)
  BY <1>1, SameRows
<1>6. Leaves(p)
  BY <1>1, <1>3, <1>4, <1>5 DEF Leaves
<1> QED
  BY <1>2, <1>6, SlotsKept

LEMMA ReturnsWritten ==
  ASSUME TInv, NEW p \in Procs, NEW ph \in Phases, NEW j,
         phase' = [phase EXCEPT ![p] = ph], job' = [job EXCEPT ![p] = j], JobOK(ph, j)',
         ph \in SavePhases => phase[p] \in SavePhases /\ j.n = job[p].n,
         UNCHANGED <<started, contended, request, ordered, sales, sold>>,
         TableOK(returned', started), Grows(returned, returned', p),
         \A r \in returned' : r.doc \in Serials /\ returns'[r.doc] # NoRow,
         returns' \in [Serials -> Return \cup {NoRow}],
         \A a \in Serials :
            /\ returns[a] # NoRow => returns'[a] # NoRow /\ returns'[a].sale = returns[a].sale
            /\ returns'[a] # NoRow /\ returns[a] = NoRow =>
                  /\ phase[p] \in SavePhases /\ a = job[p].n
                  /\ returns'[a].sale \in Serials /\ sales[returns'[a].sale] # NoRow
  PROVE  TInv'
<1>1. /\ started' = started /\ contended' = contended /\ sales' = sales
      /\ sold' = sold /\ ordered' = ordered /\ request' = request
  OBVIOUS
<1>2. ASSUME NEW a \in Serials, returns'[a] # NoRow
      PROVE  a <= started' /\ sales'[returns'[a].sale] # NoRow
  <2>1. CASE returns[a] # NoRow
    BY <1>1, <2>1 DEF TInv, DataOK
  <2>2. CASE returns[a] = NoRow
    BY <1>1, <1>2, <2>2, NumberIsPast
  <2> QED
    BY <2>1, <2>2
<1>3. DataOK'
  BY <1>1, <1>2 DEF TInv, DataOK
<1>4. \A q \in Procs \ {p} : phase'[q] = phase[q] /\ job'[q] = job[q]
  BY DEF TInv, SlotsOK
<1>5. started' >= started
  BY <1>1 DEF TInv, DataOK
<1>6. Grows(sold, sold', p) /\ Grows(ordered, ordered', p)
  BY <1>1, SameRows
<1>7. Leaves(p)
  BY <1>1, <1>4, <1>5, <1>6 DEF Leaves
<1> QED
  BY <1>3, <1>7, SlotsKept

\* The sale a save leaves.
LEMMA SaleStored ==
  ASSUME TInv, NEW p \in Procs, CommitSale(p), NEW j, j = job[p]
  PROVE  /\ sales' \in [Serials -> Sale \cup {NoRow}]
         /\ \A s \in Serials : s # j.target => sales'[s] = sales[s]
         /\ sales'[j.target] \in Sale
         /\ sales'[j.target].linked = j.linked
         /\ sales'[j.target].active <=> sales[j.target] = NoRow \/ sales[j.target].active
<1>1. SaleJob("sale_commit", j)
  BY DEF CommitSale, TInv, SlotsOK, JobOK, SalePhases
<1>2. PICK net : net = NetInside(j)
  OBVIOUS
<1>3. PICK sub : sub = j.subtotal
  OBVIOUS
<1>4. sales' = [sales EXCEPT ![j.target] =
             IF @ = NoRow
             THEN [active |-> TRUE, open |-> TRUE, linked |-> j.linked, auto |-> j.auto,
                   subtotal |-> sub, net |-> net]
             ELSE [@ EXCEPT !.linked = j.linked, !.auto = j.auto, !.subtotal = sub,
                            !.net = net]]
  BY <1>2, <1>3 DEF CommitSale
<1>5. sub \in Int
  BY <1>1, <1>3 DEF SaleJob
<1>6. net \in Int
  <2>1. Rows(j.back)
    BY <1>1 DEF SaleJob
  <2> QED
    BY <1>2, <1>3, <1>5, <2>1, NetType DEF NetInside
<1>7. /\ j.target \in Serials /\ j.linked \in BOOLEAN /\ j.auto \in BOOLEAN
      /\ sales \in [Serials -> Sale \cup {NoRow}]
  BY <1>1 DEF SaleJob, TInv, DataOK
<1>8. CASE sales[j.target] = NoRow
  <2>1. PICK x : x = [active |-> TRUE, open |-> TRUE, linked |-> j.linked, auto |-> j.auto,
                      subtotal |-> sub, net |-> net]
    OBVIOUS
  <2>2. x \in Sale
    BY <1>5, <1>6, <1>7, <2>1 DEF Sale
  <2>3. sales' = [sales EXCEPT ![j.target] = x]
    BY <1>4, <1>7, <1>8, <2>1
  <2> QED
    BY <1>7, <1>8, <2>1, <2>2, <2>3
<1>9. CASE sales[j.target] # NoRow
  <2>1. PICK x : x = [sales[j.target] EXCEPT !.linked = j.linked, !.auto = j.auto,
                                             !.subtotal = sub, !.net = net]
    OBVIOUS
  <2>2. sales[j.target] \in Sale
    BY <1>7, <1>9
  <2>3. x \in Sale /\ x.linked = j.linked /\ x.active = sales[j.target].active
    BY <1>5, <1>6, <1>7, <2>1, <2>2 DEF Sale
  <2>4. sales' = [sales EXCEPT ![j.target] = x]
    BY <1>4, <1>7, <1>9, <2>1
  <2> QED
    BY <1>7, <1>9, <2>3, <2>4
<1> QED
  BY <1>8, <1>9

LEMMA CommitSaleTypes ==
  ASSUME TInv, NEW p \in Procs, CommitSale(p)
  PROVE  TInv'
<1>1. PICK j : j = job[p]
  OBVIOUS
<1>2. PICK W : W = Saved(sold, j.lines, j.form, j.target, j.n)
  OBVIOUS
<1>3. phase[p] = "sale_commit" /\ SaleJob("sale_commit", j)
  BY <1>1 DEF CommitSale, TInv, SlotsOK, JobOK, SalePhases
<1>4. WriteOK(sold, started, j.lines, j.form, j.target, j.n)
  BY <1>1, <1>3, CommitSaleWrite
<1>5. sold' = W
  BY <1>1, <1>2 DEF CommitSale
<1>6. j.target \in Serials
  BY <1>3 DEF SaleJob
<1>7. /\ sales' \in [Serials -> Sale \cup {NoRow}]
      /\ \A s \in Serials : s # j.target => sales'[s] = sales[s]
      /\ sales'[j.target] \in Sale
  BY <1>1, SaleStored
<1>8. \A s \in Serials : sales[s] # NoRow => sales'[s] # NoRow
  BY <1>7, SalesNames
<1>9. Grows(sold, sold', p) /\ TableOK(sold', started)
  <2>1. phase[p] \in SavePhases
    BY <1>3 DEF SavePhases, SalePhases
  <2>2. Grows(sold, W, p)
    BY <1>1, <1>2, <1>4, <2>1, SavedGrows
  <2>3. TableOK(W, started)
    BY <1>2, <1>4, SavedRows
  <2> QED
    BY <1>5, <2>2, <2>3
<1>10. ASSUME NEW w \in sold' PROVE w.doc \in Serials /\ sales'[w.doc] # NoRow
  <2>1. w \in sold \/ w.doc = j.target
    BY <1>2, <1>4, <1>5, SavedRows
  <2>2. CASE w \in sold
    BY <1>8, <2>2 DEF TInv, DataOK
  <2>3. CASE w.doc = j.target
    BY <1>6, <1>7, <2>3, SalesNames
  <2> QED
    BY <2>1, <2>2, <2>3
<1>11. /\ phase' = [phase EXCEPT ![p] = "idle"] /\ job' = [job EXCEPT ![p] = NoJob]
       /\ UNCHANGED <<started, contended, request, ordered, returns, returned>>
  BY DEF CommitSale, Finish, Goto
<1>12. JobOK("idle", NoJob)' /\ "idle" \in Phases /\ "idle" \notin SavePhases
  BY DEF JobOK, SalePhases, RequestPhases, ReturnPhases, Phases, SavePhases
<1> QED
  BY <1>7, <1>8, <1>9, <1>10, <1>11, <1>12, SalesWritten

LEMMA StatusTypes ==
  ASSUME TInv, NEW p \in Procs,
         (\E s \in Serials : UpdateOrderSaleStatus(p, s)) \/ UpdateOrderRequestStatus(p)
  PROVE  TInv'
<1>1. /\ started \in Nat /\ started' \in Nat /\ started <= started' /\ started' \in 0..MaxRequests
      /\ MaxRequests \in Nat
      /\ phase' = phase /\ job' = job /\ contended' = contended /\ ordered' = ordered
      /\ sold' = sold /\ returns' = returns /\ returned' = returned
  BY DEF UpdateOrderSaleStatus, UpdateOrderRequestStatus, Instant, Free, NextSerial, TInv, DataOK
<1>2. /\ TableOK(ordered, started') /\ TableOK(sold, started') /\ TableOK(returned, started')
  BY <1>1, LaterTable DEF TInv, DataOK
<1>3. \A a \in Serials : returns[a] # NoRow => a <= started'
  BY <1>1 DEF TInv, DataOK, Serials
<1>4. /\ request' \in Request
      /\ sales' \in [Serials -> Sale \cup {NoRow}]
      /\ \A s \in Serials : sales[s] # NoRow => sales'[s] # NoRow
  <2>1. CASE UpdateOrderRequestStatus(p)
    BY <2>1 DEF UpdateOrderRequestStatus, TInv, DataOK, Request
  <2>2. ASSUME NEW s \in Serials, UpdateOrderSaleStatus(p, s)
        PROVE  /\ request' \in Request
               /\ sales' \in [Serials -> Sale \cup {NoRow}]
               /\ \A t \in Serials : sales[t] # NoRow => sales'[t] # NoRow
    <3>1. sales[s] \in Sale /\ request' = request
      BY <2>2 DEF UpdateOrderSaleStatus, Live, TInv, DataOK
    <3>2. PICK x : x = [sales[s] EXCEPT !.open = ~@]
      OBVIOUS
    <3>3. x \in Sale
      BY <3>1, <3>2 DEF Sale
    <3>4. sales' = [sales EXCEPT ![s] = x]
      BY <2>2, <3>2 DEF UpdateOrderSaleStatus
    <3> QED
      BY <3>1, <3>3, <3>4, SalesNames DEF TInv, DataOK
  <2> QED
    BY <2>1, <2>2
<1>5. \A a \in Serials : returns[a] # NoRow => returns[a].sale \in Serials
  BY DEF TInv, DataOK, Return
<1>6. \A a \in Serials : returns'[a] # NoRow => a <= started' /\ sales'[returns'[a].sale] # NoRow
  BY <1>1, <1>3, <1>4, <1>5 DEF TInv, DataOK
<1>7. DataOK'
  BY <1>1, <1>2, <1>4, <1>6 DEF TInv, DataOK
<1>8. Leaves(p)
  BY <1>1, <1>4, SameRows DEF Leaves
<1>9. ASSUME NEW q \in Procs PROVE JobOK(phase[q], job[q])'
  <2>1. JobOK(phase[q], job[q])
    BY DEF TInv, SlotsOK
  <2>2. CASE q # p
    BY <1>1, <1>8, <2>2, OthersKeepJobs
  <2>3. CASE q = p
    <3>1. phase[q] = "idle"
      BY <2>3 DEF UpdateOrderSaleStatus, UpdateOrderRequestStatus, Instant, Free
    <3> QED
      BY <1>1, <3>1 DEF JobOK, SalePhases, RequestPhases, ReturnPhases
  <2> QED
    BY <2>2, <2>3
<1>10. SlotsOK'
  BY <1>1, <1>9 DEF TInv, SlotsOK
<1> QED
  BY <1>7, <1>10 DEF TInv

\* Rows marked deleted are not lost.
LEMMA StruckGrows ==
  ASSUME NEW rows, NEW m, TableOK(rows, m), NEW D, NEW W, W = Without(rows, D), NEW p
  PROVE  Grows(rows, W, p) /\ TableOK(W, m) /\ \A w \in W : \E r \in rows : w.doc = r.doc
<1>1. /\ TableOK(W, m)
      /\ \A r \in rows : \E w \in W : w.id = r.id /\ w.doc = r.doc
      /\ \A w \in W : \E r \in rows : w.id = r.id /\ w.doc = r.doc
  BY Struck
<1> QED
  BY <1>1 DEF Grows

LEMMA DeleteSaleTypes ==
  ASSUME TInv, NEW p \in Procs, DeleteSaleLine(p) \/ DeleteSaleHeader(p)
  PROVE  TInv'
<1>1. PICK j : j = job[p]
  OBVIOUS
<1>2. /\ phase[p] = "sale_delete" /\ j = [target |-> j.target, left |-> j.left]
      /\ j.target \in Serials /\ sales[j.target] # NoRow
      /\ j.left \subseteq Ids(RowsOf(sold, j.target))
  BY <1>1 DEF DeleteSaleLine, DeleteSaleHeader, TInv, SlotsOK, JobOK
<1>3. CASE DeleteSaleLine(p)
  <2>1. PICK id \in j.left :
          /\ sold' = {IF r.id = id THEN Deleted(r) ELSE r : r \in sold}
          /\ Goto(p, "sale_delete", [j EXCEPT !.left = @ \ {id}])
    BY <1>1, <1>3 DEF DeleteSaleLine
  <2>2. PICK D : D = {r \in sold : r.id = id}
    OBVIOUS
  <2>3. sold' = Without(sold, D)
    BY <2>1, <2>2 DEF Without
  <2>4. /\ Grows(sold, sold', p) /\ TableOK(sold', started)
        /\ \A w \in sold' : \E r \in sold : w.doc = r.doc
    <3>1. PICK W : W = sold'
      OBVIOUS
    <3>2. /\ Grows(sold, W, p) /\ TableOK(W, started)
          /\ \A w \in W : \E r \in sold : w.doc = r.doc
      BY <2>3, <3>1, StruckGrows DEF TInv, DataOK
    <3> QED
      BY <3>1, <3>2
  <2>5. PICK k : k = [j EXCEPT !.left = @ \ {id}]
    OBVIOUS
  <2>6. /\ phase' = [phase EXCEPT ![p] = "sale_delete"] /\ job' = [job EXCEPT ![p] = k]
        /\ UNCHANGED <<started, contended, request, ordered, sales, returns, returned>>
    BY <1>3, <2>1, <2>5 DEF DeleteSaleLine, Goto
  <2>7. k = [target |-> j.target, left |-> j.left \ {id}]
    BY <1>2, <2>5
  <2>8. JobOK("sale_delete", k)'
    <3>1. Ids(RowsOf(sold, j.target)) \subseteq Ids(RowsOf(sold', j.target))
      BY <2>4, GrownIds
    <3> QED
      BY <1>2, <2>6, <2>7, <3>1 DEF JobOK, SalePhases, RequestPhases, ReturnPhases
  <2>9. \A r \in sold' : r.doc \in Serials /\ sales'[r.doc] # NoRow
    BY <2>4, <2>6 DEF TInv, DataOK
  <2>10. sales' = sales /\ sales \in [Serials -> Sale \cup {NoRow}]
    BY <2>6 DEF TInv, DataOK
  <2> QED
    BY <2>4, <2>6, <2>8, <2>9, <2>10, PhaseSets, SalesWritten
<1>4. CASE DeleteSaleHeader(p)
  <2>1. /\ sales' = [sales EXCEPT ![j.target].active = FALSE]
        /\ phase' = [phase EXCEPT ![p] = "idle"] /\ job' = [job EXCEPT ![p] = NoJob]
        /\ sold' = sold
        /\ UNCHANGED <<started, contended, request, ordered, returns, returned>>
    BY <1>1, <1>4 DEF DeleteSaleHeader, Finish, Goto
  <2>2. /\ sales' \in [Serials -> Sale \cup {NoRow}]
        /\ \A s \in Serials : sales[s] # NoRow => sales'[s] # NoRow
    <3>1. sales \in [Serials -> Sale \cup {NoRow}]
      BY DEF TInv, DataOK
    <3>2. PICK x : x = [sales[j.target] EXCEPT !.active = FALSE]
      OBVIOUS
    <3>3. x \in Sale
      BY <1>2, <3>1, <3>2 DEF Sale
    <3>4. sales' = [sales EXCEPT ![j.target] = x]
      BY <2>1, <3>2
    <3> QED
      BY <1>2, <3>1, <3>3, <3>4, SalesNames
  <2>3. \A r \in sold' : r.doc \in Serials /\ sales'[r.doc] # NoRow
    BY <2>1, <2>2 DEF TInv, DataOK
  <2>4. TableOK(sold', started) /\ Grows(sold, sold', p)
    BY <2>1, SameRows DEF TInv, DataOK
  <2>5. JobOK("idle", NoJob)'
    BY DEF JobOK, SalePhases, RequestPhases, ReturnPhases
  <2> QED
    BY <2>1, <2>2, <2>3, <2>4, <2>5, PhaseSets, SalesWritten
<1> QED
  BY <1>3, <1>4

LEMMA RequestTypes ==
  ASSUME TInv, NEW p \in Procs,
         CommitRequest(p) \/ DeleteRequestLines(p) \/ DeleteRequestHeader(p)
  PROVE  TInv'
<1>1. CASE CommitRequest(p)
  <2>1. PICK j : j = job[p]
    OBVIOUS
  <2>2. PICK W : W = Saved(ordered, j.lines, j.form, PEDIDO, j.n)
    OBVIOUS
  <2>3. phase[p] = "request_commit"
    BY <1>1 DEF CommitRequest
  <2>4. WriteOK(ordered, started, j.lines, j.form, PEDIDO, j.n)
    BY <2>1, <2>3, CommitRequestWrite
  <2>5. /\ phase' = [phase EXCEPT ![p] = "idle"] /\ job' = [job EXCEPT ![p] = NoJob]
        /\ ordered' = W /\ request' = request
        /\ UNCHANGED <<started, contended, sales, sold, returns, returned>>
    BY <1>1, <2>1, <2>2 DEF CommitRequest, Finish, Goto
  <2>6. Grows(ordered, W, p) /\ TableOK(W, started)
    <3>1. phase[p] \in SavePhases
      BY <2>3 DEF SavePhases, RequestPhases
    <3>2. Grows(ordered, W, p)
      BY <2>1, <2>2, <2>4, <3>1, SavedGrows
    <3>3. TableOK(W, started)
      BY <2>2, <2>4, SavedRows
    <3> QED
      BY <3>2, <3>3
  <2>7. \A w \in W : w.doc = PEDIDO
    BY <2>2, <2>4, SavedRows DEF TInv, DataOK
  <2>8. JobOK("idle", NoJob)'
    BY DEF JobOK, SalePhases, RequestPhases, ReturnPhases
  <2>9. request \in Request
    BY DEF TInv, DataOK
  <2> QED
    BY <2>5, <2>6, <2>7, <2>8, <2>9, PhaseSets, OrderWritten
<1>2. CASE DeleteRequestLines(p)
  <2>1. PICK W : W = Without(ordered, ordered)
    OBVIOUS
  <2>2. /\ phase' = [phase EXCEPT ![p] = "request_delete"]
        /\ job' = [job EXCEPT ![p] = job[p]]
        /\ ordered' = W /\ request' = request
        /\ UNCHANGED <<started, contended, sales, sold, returns, returned>>
    BY <1>2, <2>1 DEF DeleteRequestLines, Goto, Without
  <2>3. /\ Grows(ordered, W, p) /\ TableOK(W, started)
        /\ \A w \in W : \E r \in ordered : w.doc = r.doc
    BY <2>1, StruckGrows DEF TInv, DataOK
  <2>4. \A w \in W : w.doc = PEDIDO
    BY <2>3 DEF TInv, DataOK
  <2>5. JobOK("request_delete", job[p])'
    BY DEF JobOK, SalePhases, RequestPhases, ReturnPhases
  <2>6. request \in Request
    BY DEF TInv, DataOK
  <2> QED
    BY <2>2, <2>3, <2>4, <2>5, <2>6, PhaseSets, OrderWritten
<1>3. CASE DeleteRequestHeader(p)
  <2>1. /\ phase' = [phase EXCEPT ![p] = "idle"] /\ job' = [job EXCEPT ![p] = NoJob]
        /\ ordered' = ordered /\ request' = [request EXCEPT !.active = FALSE]
        /\ UNCHANGED <<started, contended, sales, sold, returns, returned>>
    BY <1>3 DEF DeleteRequestHeader, Finish, Goto
  <2>2. JobOK("idle", NoJob)'
    BY DEF JobOK, SalePhases, RequestPhases, ReturnPhases
  <2>3. request' \in Request
    BY <2>1 DEF TInv, DataOK, Request
  <2>4. TableOK(ordered', started) /\ Grows(ordered, ordered', p) /\ \A r \in ordered' : r.doc = PEDIDO
    BY <2>1, SameRows DEF TInv, DataOK
  <2> QED
    BY <2>1, <2>2, <2>3, <2>4, PhaseSets, OrderWritten
<1> QED
  BY <1>1, <1>2, <1>3

LEMMA ReturnHeaderTypes ==
  ASSUME TInv, NEW p \in Procs, ReturnHeader(p)
  PROVE  TInv'
<1>1. PICK j : j = job[p]
  OBVIOUS
<1>2. phase[p] = "return_header" /\ ReturnJob("return_header", j)
  BY <1>1 DEF ReturnHeader, TInv, SlotsOK, JobOK, ReturnPhases
<1>3. PICK k : k = [j EXCEPT !.old = RowsOf(returned, j.target)]
  OBVIOUS
<1>4. /\ phase' = [phase EXCEPT ![p] = "return_lines"] /\ job' = [job EXCEPT ![p] = k]
      /\ returns' = [returns EXCEPT ![j.target] =
             IF @ = NoRow THEN [sale |-> j.sale, active |-> TRUE] ELSE @]
      /\ returned' = returned
      /\ UNCHANGED <<started, contended, request, ordered, sales, sold>>
  BY <1>1, <1>3 DEF ReturnHeader, Goto
<1>5. k = [n |-> j.n, target |-> j.target, sale |-> j.sale, form |-> j.form,
           old |-> RowsOf(returned, j.target), net |-> j.net]
  BY <1>2, <1>3 DEF ReturnJob
<1>6. /\ j.n \in Serials /\ j.target \in Serials /\ j.sale \in Serials
      /\ sales[j.sale] # NoRow
      /\ IF returns[j.target] = NoRow THEN j.target = j.n ELSE returns[j.target].sale = j.sale
      /\ returns \in [Serials -> Return \cup {NoRow}]
  BY <1>2 DEF ReturnJob, TInv, DataOK
<1>7. /\ returns' \in [Serials -> Return \cup {NoRow}]
      /\ \A a \in Serials : a # j.target => returns'[a] = returns[a]
      /\ returns'[j.target] # NoRow /\ returns'[j.target].sale = j.sale
      /\ returns[j.target] # NoRow => returns'[j.target] = returns[j.target]
  <2>1. CASE returns[j.target] = NoRow
    <3>1. PICK x : x = [sale |-> j.sale, active |-> TRUE]
      OBVIOUS
    <3>2. x \in Return
      BY <1>6, <3>1 DEF Return
    <3>3. returns' = [returns EXCEPT ![j.target] = x]
      BY <1>4, <1>6, <2>1, <3>1
    <3> QED
      BY <1>6, <2>1, <3>1, <3>2, <3>3, SalesNames
  <2>2. CASE returns[j.target] # NoRow
    <3>1. returns' = returns
      BY <1>4, <1>6, <2>2
    <3> QED
      BY <1>6, <2>2, <3>1
  <2> QED
    BY <2>1, <2>2
<1>8. \A a \in Serials :
         /\ returns[a] # NoRow => returns'[a] # NoRow /\ returns'[a].sale = returns[a].sale
         /\ returns'[a] # NoRow /\ returns[a] = NoRow =>
               /\ phase[p] \in SavePhases /\ a = job[p].n
               /\ returns'[a].sale \in Serials /\ sales[returns'[a].sale] # NoRow
  BY <1>1, <1>2, <1>6, <1>7 DEF SavePhases, ReturnPhases
<1>9. TableOK(returned', started) /\ Grows(returned, returned', p)
  BY <1>4, SameRows DEF TInv, DataOK
<1>10. \A r \in returned' : r.doc \in Serials /\ returns'[r.doc] # NoRow
  BY <1>4, <1>8 DEF TInv, DataOK
<1>11. Read(RowsOf(returned, j.target), j.form, RowsOf(returned, j.target))
  <2>1. \A r \in returned : r.id # NoId
    BY RowParts DEF TInv, DataOK, TableOK
  <2> QED
    BY <1>2, <2>1 DEF Read, Ids, RowsOf, ReturnJob, FormOK
<1>12. \A r, q \in RowsOf(returned, j.target) : r.id = q.id => r = q
  BY DEF TInv, DataOK, TableOK, RowsOf
<1>13. ReturnJob("return_lines", k)'
  BY <1>2, <1>4, <1>5, <1>6, <1>7, <1>11, <1>12 DEF ReturnJob
<1>14. JobOK("return_lines", k)'
  BY <1>13 DEF JobOK, SalePhases, RequestPhases
<1>15. "return_lines" \in Phases /\ phase[p] \in SavePhases /\ k.n = j.n
  BY <1>2, <1>5 DEF Phases, SavePhases, ReturnPhases
<1> QED
  BY <1>1, <1>4, <1>7, <1>8, <1>9, <1>10, <1>14, <1>15, ReturnsWritten

LEMMA ReturnLineTypes ==
  ASSUME TInv, NEW p \in Procs, ReturnLine(p)
  PROVE  TInv'
<1>1. PICK j : j = job[p]
  OBVIOUS
<1>2. phase[p] = "return_lines" /\ ReturnJob("return_lines", j)
  BY <1>1 DEF ReturnLine, TInv, SlotsOK, JobOK, ReturnPhases
<1>3. PICK w \in NextWrites(j.old, j.form) :
         /\ returned' = Saved(returned, w[1], w[2], j.target, j.n)
         /\ Goto(p, "return_lines", [j EXCEPT !.old = @ \ w[1], !.form = @ \ w[2]])
  BY <1>1 DEF ReturnLine
<1>4. PICK k : k = [j EXCEPT !.old = @ \ w[1], !.form = @ \ w[2]]
  OBVIOUS
<1>5. /\ phase' = [phase EXCEPT ![p] = "return_lines"] /\ job' = [job EXCEPT ![p] = k]
      /\ returns' = returns
      /\ UNCHANGED <<started, contended, request, ordered, sales, sold>>
  BY <1>3, <1>4 DEF ReturnLine, Goto
<1>6. PICK old : old = j.old \ w[1]
  OBVIOUS
<1>7. PICK form : form = j.form \ w[2]
  OBVIOUS
<1>8. k = [n |-> j.n, target |-> j.target, sale |-> j.sale, form |-> form,
           old |-> old, net |-> j.net]
  BY <1>2, <1>4, <1>6, <1>7 DEF ReturnJob
<1>9. /\ WriteOK(returned, started, w[1], w[2], j.target, j.n)
      /\ w[1] \subseteq j.old /\ w[2] \subseteq j.form
      /\ \A l \in j.form : l \notin w[2] /\ l.id # NoId => l.id \in Ids(j.old \ w[1])
  BY <1>1, <1>2, ReturnLineWrite
<1>10. PICK W : W = Saved(returned, w[1], w[2], j.target, j.n)
  OBVIOUS
<1>11. /\ TableOK(W, started)
       /\ \A q \in W : \/ \E r \in returned : q.id = r.id /\ q.doc = r.doc
                       \/ q.doc = j.target /\ \E l \in w[2] : l.id = NoId /\ q.id = <<j.n, l.item>>
       /\ \A q \in W : q.doc # j.target => q \in returned
  BY <1>9, <1>10, SavedRows
<1>12. Grows(returned, W, p)
  <2>1. phase[p] \in SavePhases
    BY <1>2 DEF SavePhases, ReturnPhases
  <2> QED
    BY <1>1, <1>9, <1>10, <2>1, SavedGrows
<1>13. returned' = W
  BY <1>3, <1>10
<1>14. /\ j.target \in Serials /\ returns[j.target] # NoRow
       /\ FormOK(j.form, RowsOf(returned, j.target))
       /\ \A l \in j.form : \A r \in returned : r.id # <<j.n, l.item>>
       /\ Read(j.old, j.form, RowsOf(returned, j.target))
       /\ \A r, q \in j.old : r.id = q.id => r = q
  BY <1>2 DEF ReturnJob
<1>15. \A q \in W : q.doc \in Serials /\ returns[q.doc] # NoRow
  BY <1>11, <1>14 DEF TInv, DataOK
<1>16. Ids(RowsOf(returned, j.target)) \subseteq Ids(RowsOf(W, j.target))
  BY <1>12, GrownIds
<1>17. FormOK(form, RowsOf(W, j.target))
  <2>1. IsFiniteSet(form)
    BY <1>7, <1>14, FS_Subset DEF FormOK
  <2>2. FormOK(form, RowsOf(returned, j.target))
    BY <1>7, <1>14, <2>1 DEF FormOK
  <2> QED
    BY <1>16, <2>2, FormStays
<1>18. ASSUME NEW l \in form, NEW q \in W PROVE q.id # <<j.n, l.item>>
  <2>1. CASE \E r \in returned : q.id = r.id
    BY <1>7, <1>14, <2>1
  <2>2. ASSUME NEW m \in w[2], q.id = <<j.n, m.item>> PROVE q.id # <<j.n, l.item>>
    <3>1. m \in j.form /\ l \in j.form /\ l # m
      BY <1>7, <1>9, <2>2
    <3>2. l.item # m.item
      BY <1>14, <3>1 DEF FormOK
    <3> QED
      BY <2>2, <3>2
  <2> QED
    BY <1>11, <2>1, <2>2
<1>19. Read(old, form, RowsOf(W, j.target))
  BY <1>6, <1>7, <1>9, <1>14, <1>16 DEF Read
<1>20. \A r, q \in old : r.id = q.id => r = q
  BY <1>6, <1>14
<1>21. ReturnJob("return_lines", k)'
  BY <1>2, <1>5, <1>8, <1>13, <1>17, <1>18, <1>19, <1>20 DEF ReturnJob
<1>22. JobOK("return_lines", k)'
  BY <1>21 DEF JobOK, SalePhases, RequestPhases
<1>23. "return_lines" \in Phases /\ phase[p] \in SavePhases /\ k.n = j.n
  BY <1>2, <1>8 DEF Phases, SavePhases, ReturnPhases
<1>24. returns \in [Serials -> Return \cup {NoRow}]
  BY DEF TInv, DataOK
<1> QED
  BY <1>1, <1>5, <1>11, <1>12, <1>13, <1>15, <1>22, <1>23, <1>24, ReturnsWritten

LEMMA WriteNetTypes ==
  ASSUME TInv, NEW p \in Procs, WriteNet(p)
  PROVE  TInv'
<1>1. PICK j : j = job[p]
  OBVIOUS
<1>2. phase[p] = "return_net" /\ ReturnJob("return_net", j)
  BY <1>1 DEF WriteNet, TInv, SlotsOK, JobOK, ReturnPhases
<1>3. /\ phase' = [phase EXCEPT ![p] = "idle"] /\ job' = [job EXCEPT ![p] = NoJob]
      /\ sales' = [sales EXCEPT ![j.sale].net = j.net] /\ sold' = sold
      /\ UNCHANGED <<started, contended, request, ordered, returns, returned>>
  BY <1>1 DEF WriteNet, Finish, Goto
<1>4. /\ sales \in [Serials -> Sale \cup {NoRow}] /\ j.sale \in Serials /\ j.net \in Int
      /\ sales[j.sale] # NoRow
  BY <1>2 DEF ReturnJob, TInv, DataOK
<1>5. /\ sales' \in [Serials -> Sale \cup {NoRow}]
      /\ \A s \in Serials : sales[s] # NoRow => sales'[s] # NoRow
  <2>1. PICK x : x = [sales[j.sale] EXCEPT !.net = j.net]
    OBVIOUS
  <2>2. x \in Sale
    BY <1>4, <2>1 DEF Sale
  <2>3. sales' = [sales EXCEPT ![j.sale] = x]
    BY <1>3, <2>1
  <2> QED
    BY <1>4, <2>2, <2>3, SalesNames
<1>6. \A r \in sold' : r.doc \in Serials /\ sales'[r.doc] # NoRow
  BY <1>3, <1>5 DEF TInv, DataOK
<1>7. TableOK(sold', started) /\ Grows(sold, sold', p)
  BY <1>3, SameRows DEF TInv, DataOK
<1>8. JobOK("idle", NoJob)'
  BY DEF JobOK, SalePhases, RequestPhases, ReturnPhases
<1> QED
  BY <1>3, <1>5, <1>6, <1>7, <1>8, PhaseSets, SalesWritten

LEMMA DeleteReturnTypes ==
  ASSUME TInv, NEW p \in Procs, NEW a \in Serials, DeleteReturn(p, a)
  PROVE  TInv'
<1>1. PICK j : j = [n |-> NextSerial, target |-> a, sale |-> returns[a].sale,
                    form |-> {}, old |-> {}, net |-> 0]
  OBVIOUS
<1>2. /\ phase' = [phase EXCEPT ![p] = "return_delete"] /\ job' = [job EXCEPT ![p] = j]
      /\ started' = started + 1 /\ started < MaxRequests /\ contended' \in BOOLEAN
      /\ returns[a] # NoRow
      /\ returns' = [returns EXCEPT ![a].active = FALSE]
      /\ request' = request /\ ordered' = ordered /\ sales' = sales
      /\ sold' = sold /\ returned' = returned
  BY <1>1 DEF Start, Free, NextSerial, DeleteReturn, TInv, DataOK
<1>3. NextSerial \in Serials /\ NextSerial <= started' /\ NextSerial = started + 1
  BY <1>2, NumberIsNew
<1>4. /\ started \in Nat /\ started' \in Nat /\ started <= started'
      /\ started' \in 0..MaxRequests /\ MaxRequests \in Nat
  BY <1>2 DEF TInv, DataOK
<1>5. /\ returns \in [Serials -> Return \cup {NoRow}] /\ returns[a] \in Return
      /\ sales[returns[a].sale] # NoRow
  BY <1>2 DEF TInv, DataOK
<1>6. /\ returns' \in [Serials -> Return \cup {NoRow}]
      /\ \A b \in Serials :
            /\ returns[b] # NoRow => returns'[b] # NoRow /\ returns'[b].sale = returns[b].sale
            /\ returns'[b] # NoRow => returns[b] # NoRow
  <2>1. PICK x : x = [returns[a] EXCEPT !.active = FALSE]
    OBVIOUS
  <2>2. x \in Return /\ x.sale = returns[a].sale
    BY <1>5, <2>1 DEF Return
  <2>3. returns' = [returns EXCEPT ![a] = x]
    BY <1>2, <2>1
  <2> QED
    BY <1>2, <1>5, <2>2, <2>3, SalesNames
<1>7. /\ TableOK(ordered, started') /\ TableOK(sold, started') /\ TableOK(returned, started')
  BY <1>4, LaterTable DEF TInv, DataOK
<1>8. \A b \in Serials : returns'[b] # NoRow => b <= started' /\ sales'[returns'[b].sale] # NoRow
  BY <1>2, <1>4, <1>6 DEF TInv, DataOK, Serials
<1>9. \A r \in returned : r.doc \in Serials /\ returns'[r.doc] # NoRow
  BY <1>6 DEF TInv, DataOK
<1>10. DataOK'
  BY <1>2, <1>4, <1>6, <1>7, <1>8, <1>9 DEF TInv, DataOK
<1>11. \A q \in Procs \ {p} : phase'[q] = phase[q] /\ job'[q] = job[q]
  BY <1>2 DEF TInv, SlotsOK
<1>12. Leaves(p)
  BY <1>2, <1>4, <1>6, <1>11, SameRows DEF Leaves
<1>13. ReturnJob("return_delete", j)'
  <2>1. j.sale \in Serials /\ sales'[j.sale] # NoRow /\ returns'[a] # NoRow /\ returns'[a].sale = j.sale
    BY <1>1, <1>2, <1>5, <1>6 DEF Return
  <2>2. FormOK({}, RowsOf(returned', j.target))
    BY FS_EmptySet DEF FormOK
  <2> QED
    BY <1>1, <1>3, <2>1, <2>2 DEF ReturnJob
<1>14. JobOK("return_delete", j)'
  BY <1>13 DEF JobOK, SalePhases, RequestPhases
<1>15. "return_delete" \in Phases /\ j.n = started + 1
  BY <1>1, <1>3 DEF Phases, SavePhases, ReturnPhases
<1> QED
  BY <1>2, <1>10, <1>12, <1>14, <1>15, SlotsKept

LEMMA DeleteReturnLinesTypes ==
  ASSUME TInv, NEW p \in Procs, DeleteReturnLines(p)
  PROVE  TInv'
<1>1. PICK j : j = job[p]
  OBVIOUS
<1>2. phase[p] = "return_delete" /\ ReturnJob("return_delete", j)
  BY <1>1 DEF DeleteReturnLines, TInv, SlotsOK, JobOK, ReturnPhases
<1>3. PICK D : D = {r \in returned : r.doc = j.target}
  OBVIOUS
<1>4. PICK W : W = Without(returned, D)
  OBVIOUS
<1>5. /\ phase' = [phase EXCEPT ![p] = "return_lines"] /\ job' = [job EXCEPT ![p] = j]
      /\ returned' = W /\ returns' = returns
      /\ UNCHANGED <<started, contended, request, ordered, sales, sold>>
  BY <1>1, <1>3, <1>4 DEF DeleteReturnLines, Goto, Without
<1>6. /\ Grows(returned, W, p) /\ TableOK(W, started)
      /\ \A w \in W : \E r \in returned : w.doc = r.doc
  BY <1>4, StruckGrows DEF TInv, DataOK
<1>7. \A w \in W : w.doc \in Serials /\ returns[w.doc] # NoRow
  BY <1>6 DEF TInv, DataOK
<1>8. j.old = {} /\ j.form = {}
  BY <1>2 DEF ReturnJob
<1>9. ReturnJob("return_lines", j)'
  <2>1. Read(j.old, j.form, RowsOf(returned', j.target))
    BY <1>8 DEF Read
  <2>2. FormOK(j.form, RowsOf(returned', j.target))
    BY <1>8, FS_EmptySet DEF FormOK
  <2> QED
    BY <1>2, <1>5, <1>8, <2>1, <2>2 DEF ReturnJob
<1>10. JobOK("return_lines", j)'
  BY <1>9 DEF JobOK, SalePhases, RequestPhases
<1>11. "return_lines" \in Phases /\ phase[p] \in SavePhases
  BY <1>2 DEF Phases, SavePhases, ReturnPhases
<1>12. returns \in [Serials -> Return \cup {NoRow}]
  BY DEF TInv, DataOK
<1> QED
  BY <1>1, <1>5, <1>6, <1>7, <1>10, <1>11, <1>12, ReturnsWritten

LEMMA InitTypes == SlotsInit /\ SalesInit => TInv
<1> SUFFICES ASSUME SlotsInit, SalesInit PROVE TInv
  OBVIOUS
<1>1. PICK form \in Forms({}, Products, Kilos) : ordered = {NewRow(l, PEDIDO, 0) : l \in form}
  BY DEF SalesInit
<1>2. FormOK(form, {})
  <2>1. {} \subseteq Row
    OBVIOUS
  <2> QED
    BY <1>1, <2>1, FormsOK
<1>3. PICK f : f = [l \in form |-> NewRow(l, PEDIDO, 0)]
  OBVIOUS
<1>4. /\ \A l \in form : f[l] \in ordered
      /\ \A r \in ordered : \E l \in form : f[l] = r
  BY <1>1, <1>3
<1>5. ASSUME NEW l \in form
      PROVE  /\ f[l] \in Row /\ f[l].id = <<0, l.item>> /\ f[l].item = l.item
             /\ f[l].doc = PEDIDO
  <2>1. f[l] = [id |-> <<0, l.item>>, doc |-> PEDIDO, item |-> l.item, amount |-> l.amount,
                active |-> TRUE]
    BY <1>3 DEF NewRow
  <2>2. l.item \in Products /\ l.amount \in UNION Range(Kilos)
    BY <1>2 DEF FormOK
  <2> QED
    BY <2>1, <2>2 DEF Row, PEDIDO
<1>6. \A l, m \in form : l.item = m.item => l = m
  BY <1>2 DEF FormOK
<1>7. IsFiniteSet(ordered)
  <2>1. DOMAIN f = form /\ f = [l \in form |-> f[l]]
    BY <1>3
  <2>2. IsFiniteSet(form)
    BY <1>2 DEF FormOK
  <2>3. \A l \in form : f[l] \in ordered
    BY <1>4
  <2>4. \A r \in ordered : \E l \in form : f[l] = r
    BY <1>4
  <2> QED
    BY <2>1, <2>2, <2>3, <2>4, FiniteImage
<1>8. ordered \subseteq Row /\ \A r \in ordered : r.doc = PEDIDO
  BY <1>4, <1>5
<1>9. \A r \in ordered : r.id[2] = r.item /\ r.id[1] <= 0
  BY <1>4, <1>5
<1>10. ASSUME NEW r \in ordered, NEW q \in ordered, r.id = q.id PROVE r = q
  <2>1. PICK l \in form : f[l] = r
    BY <1>4
  <2>2. PICK m \in form : f[m] = q
    BY <1>4
  <2>3. l.item = m.item
    BY <1>5, <1>10, <2>1, <2>2
  <2> QED
    BY <1>6, <2>1, <2>2, <2>3
<1>11. TableOK(ordered, 0)
  BY <1>7, <1>8, <1>9, <1>10 DEF TableOK
<1>12. TableOK({}, 0)
  BY FS_EmptySet DEF TableOK
<1>13. DataOK
  <2>1. MaxRequests \in Nat /\ started = 0 /\ contended \in BOOLEAN
    BY SalesBounds DEF SlotsInit
  <2>2. request \in Request
    BY DEF SalesInit, Request
  <2>3. sales = [s \in Serials |-> NoRow] /\ returns = [s \in Serials |-> NoRow]
    BY DEF SalesInit
  <2>4. /\ sales \in [Serials -> Sale \cup {NoRow}]
        /\ returns \in [Serials -> Return \cup {NoRow}]
        /\ \A a \in Serials : returns[a] = NoRow
    BY <2>3
  <2>5. sold = {} /\ returned = {}
    BY DEF SalesInit
  <2> QED
    BY <1>8, <1>11, <1>12, <2>1, <2>2, <2>4, <2>5 DEF DataOK
<1>14. SlotsOK
  <2>1. "idle" \in Phases /\ "idle" \notin SavePhases
    BY PhaseSets
  <2>2. \A p \in Procs : JobOK(phase[p], job[p])
    BY DEF SlotsInit, JobOK, SalePhases, RequestPhases, ReturnPhases
  <2> QED
    BY <2>1, <2>2 DEF SlotsInit, SlotsOK
<1> QED
  BY <1>13, <1>14 DEF TInv

LEMMA StepTypes == TInv /\ [SalesNext]_vars => TInv'
<1> SUFFICES ASSUME TInv, [SalesNext]_vars PROVE TInv'
  OBVIOUS
<1>1. CASE UNCHANGED vars
  <2>1. /\ phase' = phase /\ job' = job /\ started' = started /\ contended' = contended
        /\ request' = request /\ ordered' = ordered /\ sales' = sales /\ sold' = sold
        /\ returns' = returns /\ returned' = returned
    BY <1>1 DEF vars, slotVars, saleVars
  <2>2. DataOK'
    BY <2>1 DEF TInv, DataOK
  <2>3. \A p \in Procs : JobOK(phase[p], job[p])'
    BY <2>1 DEF TInv, SlotsOK, JobOK, SaleJob, RequestJob, ReturnJob
  <2>4. SlotsOK'
    BY <2>1, <2>3 DEF TInv, SlotsOK
  <2> QED
    BY <2>2, <2>4 DEF TInv
<1>2. ASSUME NEW p \in Procs, \E s \in Serials, linked \in BOOLEAN : BeginSale(p, s, linked)
      PROVE  TInv'
  BY <1>2, BeginSaleTypes
<1>3. ASSUME NEW p \in Procs, SnapshotSale(p) \/ SnapshotRequest(p) PROVE TInv'
  BY <1>3, SnapshotTypes
<1>4. ASSUME NEW p \in Procs, CommitSale(p) PROVE TInv'
  BY <1>4, CommitSaleTypes
<1>5. ASSUME NEW p \in Procs, UpdateOrderRequestStatus(p) PROVE TInv'
  BY <1>5, StatusTypes
<1>6. ASSUME NEW p \in Procs, NEW s \in Serials,
             UpdateOrderSaleStatus(p, s) \/ BeginDeleteSale(p, s)
      PROVE  TInv'
  BY <1>6, StatusTypes, BeginDeleteTypes
<1>7. ASSUME NEW p \in Procs, DeleteSaleLine(p) \/ DeleteSaleHeader(p) PROVE TInv'
  BY <1>7, DeleteSaleTypes
<1>8. ASSUME NEW p \in Procs, BeginRequestSave(p) \/ BeginDeleteRequest(p) PROVE TInv'
  BY <1>8, BeginRequestTypes, BeginDeleteTypes
<1>9. ASSUME NEW p \in Procs,
             CommitRequest(p) \/ DeleteRequestLines(p) \/ DeleteRequestHeader(p)
      PROVE  TInv'
  BY <1>9, RequestTypes
<1>10. ASSUME NEW p \in Procs, \E a, s \in Serials : BeginReturn(p, a, s) PROVE TInv'
  BY <1>10, BeginReturnTypes
<1>11. ASSUME NEW p \in Procs, ReturnHeader(p) \/ ReturnLine(p) \/ ReadNet(p) \/ WriteNet(p)
       PROVE  TInv'
  BY <1>11, ReturnHeaderTypes, ReturnLineTypes, NetTypes, WriteNetTypes
<1>12. ASSUME NEW p \in Procs, (\E a \in Serials : DeleteReturn(p, a)) \/ DeleteReturnLines(p)
       PROVE  TInv'
  BY <1>12, DeleteReturnTypes, DeleteReturnLinesTypes
<1>13. ASSUME NEW p \in Procs, FailSale(p) PROVE TInv'
  BY <1>13, EndTypes
<1> QED
  BY <1>1, <1>2, <1>3, <1>4, <1>5, <1>6, <1>7, <1>8, <1>9, <1>10, <1>11, <1>12, <1>13
     DEF SalesNext

\* The component keeps its types, whatever overlaps and wherever a request fails:
\* above all, no row is written twice and no id is given twice.
THEOREM SalesTypes == SalesSpec => []SalesTypeOK
<1>1. SlotsInit /\ SalesInit => TInv
  BY InitTypes
<1>2. TInv /\ [SalesNext]_<<slotVars, saleVars>> => TInv'
  BY StepTypes DEF vars
<1>3. TInv => SalesTypeOK
  BY DEF TInv, DataOK, TableOK, SalesTypeOK
<1> QED
  BY <1>1, <1>2, <1>3, PTL DEF SalesSpec

----------------------------------------------------------------------------
(* What holds while no rivals overlap *)

OrderPhases == SalePhases \cup RequestPhases \cup RequestDeletes

\* Two requests that write what the other reads are never both in flight.  A
\* return can be deleted while its sale is: it has then no line to write.
Apart ==
    \A p, q \in Procs :
        p # q =>
            /\ ~(phase[p] \in OrderPhases /\ phase[q] \in OrderPhases)
            /\ phase[p] \in ReturnPhases /\ phase[q] \in ReturnPhases =>
                  job[p].sale # job[q].sale
            /\ phase[p] \in SalePhases /\ phase[q] \in ReturnPhases =>
                  job[p].target # job[q].sale
            /\ phase[p] = "sale_delete" /\ phase[q] \in {"return_header", "return_lines"}
               /\ job[p].target = job[q].sale =>
                  phase[q] = "return_lines" /\ job[q].form = {} /\ job[q].old = {}

\* The lines sold, and those returned of a sale, by the other documents.
SoldBut(s) == {r \in SoldLines : r.doc # s}
ReturnsBut(s, a) == {r \in ReturnsOn(s) : r.doc # a}

\* What was validated still holds when it is written.
SaleFits(ph, j) ==
    /\ j.linked /\ (sales[j.target] = NoRow \/ Live(sales, j.target)) =>
          \A i \in Products :
              TotalOf(SoldBut(j.target), i) + LineKilos(j.form, i) <= TotalOf(Active(ordered), i)
    /\ Live(sales, j.target) =>
          \A i \in Products : TotalOf(ReturnsOn(j.target), i) <= LineKilos(j.form, i)
    /\ ph = "sale_commit" => \A r \in RowsOf(sold, j.target) : r.id \in Ids(j.lines)

RequestFits(ph, j) ==
    /\ \A i \in Products : TotalOf(SoldLines, i) <= LineKilos(j.form, i)
    /\ ph = "request_commit" => \A r \in ordered : r.id \in Ids(j.lines)

\* A line still to write fits, and takes the place of the active row of its item.
ReturnStillFits(ph, j) ==
    /\ \A i \in Items(j.form) :
          LineKilos(j.form, i) + TotalOf(ReturnsBut(j.sale, j.target), i)
             <= TotalOf(ActiveOf(sold, j.sale), i)
    /\ ph = "return_lines" =>
          \A r \in ActiveOf(returned, j.target) : r.item \in Items(j.form) => r.id \in Ids(j.old)

StillFits(ph, j) ==
    /\ ph \in SalePhases => SaleFits(ph, j)
    /\ ph \in RequestPhases => RequestFits(ph, j)
    /\ ph \in RequestDeletes => ActiveSales = {}
    /\ ph \in {"return_header", "return_lines"} => ReturnStillFits(ph, j)
    /\ ph = "sale_delete" => \A a \in Serials : Live(returns, a) => returns[a].sale # j.target

Nested ==
    /\ \A i \in Products : TotalOf(SoldLines, i) <= TotalOf(Active(ordered), i)
    /\ \A s \in Serials : Live(sales, s) =>
          \A i \in Products : TotalOf(ReturnsOn(s), i) <= TotalOf(ActiveOf(sold, s), i)

Orderly == Apart /\ Nested /\ \A p \in Procs : StillFits(phase[p], job[p])

LEMMA TotalWithin ==
  ASSUME NEW S, Rows(S), NEW U, Rows(U), NEW i, \A r \in U : r.item = i => r \in S
  PROVE  TotalOf(U, i) <= TotalOf(S, i) /\ TotalOf(U, i) \in Nat /\ TotalOf(S, i) \in Nat
<1>1. PICK V : V = {r \in U : r.item = i}
  OBVIOUS
<1>2. V \subseteq S
  BY <1>1
<1>3. TotalOf(V, i) <= TotalOf(S, i) /\ TotalOf(V, i) \in Nat /\ TotalOf(S, i) \in Nat
  BY <1>2, TotalGrows
<1>4. TotalOf(V, i) = TotalOf(U, i)
  <2>1. {r \in V : r.item = i} = {r \in U : r.item = i}
    BY <1>1
  <2> QED
    BY <2>1 DEF TotalOf
<1> QED
  BY <1>3, <1>4

\* What a step must leave of the documents for the request that holds j in ph.
Spares(ph, j) ==
    /\ ph \in SalePhases =>
          /\ SoldBut(j.target)' \subseteq SoldBut(j.target)
          /\ ordered' = ordered
          /\ sales'[j.target] = NoRow <=> sales[j.target] = NoRow
          /\ Live(sales, j.target)' => Live(sales, j.target)
          /\ ReturnsOn(j.target)' \subseteq ReturnsOn(j.target)
          /\ \A w \in RowsOf(sold, j.target)' : w.id \in {r.id : r \in RowsOf(sold, j.target)}
    /\ ph \in RequestPhases =>
          /\ SoldLines' \subseteq SoldLines
          /\ ordered' = ordered
    /\ ph \in RequestDeletes => ActiveSales' \subseteq ActiveSales
    /\ ph \in {"return_header", "return_lines"} =>
          /\ ReturnsBut(j.sale, j.target)' \subseteq ReturnsBut(j.sale, j.target)
          /\ ActiveOf(sold, j.sale)' = ActiveOf(sold, j.sale) \/ j.form = {}
          /\ ActiveOf(returned, j.target)' \subseteq ActiveOf(returned, j.target)
    /\ ph = "sale_delete" =>
          \A a \in Serials : Live(returns, a)' /\ returns'[a].sale = j.target =>
              Live(returns, a) /\ returns[a].sale = j.target

\* The rows in force can be summed.
LEMMA InForceAreRows ==
  ASSUME TInv
  PROVE  /\ Rows(SoldLines) /\ Rows(Active(ordered))
         /\ \A s : Rows(SoldBut(s)) /\ Rows(ReturnsOn(s)) /\ Rows(ActiveOf(sold, s))
         /\ \A s, a : Rows(ReturnsBut(s, a)) /\ Rows(ActiveOf(returned, a))
<1>1. TableOK(ordered, started) /\ TableOK(sold, started) /\ TableOK(returned, started)
  BY DEF TInv, DataOK
<1>2. ASSUME NEW S, S \subseteq sold PROVE Rows(S)
  BY <1>1, <1>2, TableParts
<1>3. ASSUME NEW S, S \subseteq returned PROVE Rows(S)
  BY <1>1, <1>3, TableParts
<1>4. ASSUME NEW S, S \subseteq ordered PROVE Rows(S)
  BY <1>1, <1>4, TableParts
<1>5. SoldLines \subseteq sold /\ Active(ordered) \subseteq ordered
  BY DEF SoldLines, Active
<1>6. ASSUME NEW s
      PROVE  /\ SoldBut(s) \subseteq sold /\ ReturnsOn(s) \subseteq returned
             /\ ActiveOf(sold, s) \subseteq sold
  BY DEF SoldBut, SoldLines, ReturnsOn, ActiveOf, Active, RowsOf
<1>7. ASSUME NEW s, NEW a
      PROVE  ReturnsBut(s, a) \subseteq returned /\ ActiveOf(returned, a) \subseteq returned
  BY DEF ReturnsBut, ReturnsOn, ActiveOf, Active, RowsOf
<1> QED
  BY <1>2, <1>3, <1>4, <1>5, <1>6, <1>7

LEMMA KilosAreNatural ==
  ASSUME NEW form, NEW rows, FormOK(form, rows), NEW i
  PROVE  LineKilos(form, i) \in Nat
<1>1. \A l \in form : l.amount \in Nat
  BY AmountsPositive DEF FormOK
<1> QED
  BY <1>1, LineFound

LEMMA SparedStillFit ==
  ASSUME TInv, NEW ph, NEW j, JobOK(ph, j), StillFits(ph, j), Spares(ph, j)
  PROVE  StillFits(ph, j)'
<1>1. ASSUME ph \in SalePhases PROVE SaleFits(ph, j)'
  <2>1. PICK s : s = j.target
    OBVIOUS
  <2>2. /\ SoldBut(s)' \subseteq SoldBut(s)
        /\ ordered' = ordered
        /\ sales'[s] = NoRow <=> sales[s] = NoRow
        /\ Live(sales, s)' => Live(sales, s)
        /\ ReturnsOn(s)' \subseteq ReturnsOn(s)
        /\ \A w \in RowsOf(sold, s)' : w.id \in {r.id : r \in RowsOf(sold, s)}
    BY <1>1, <2>1 DEF Spares
  <2>3. SaleFits(ph, j) /\ SaleJob(ph, j)
    BY <1>1 DEF StillFits, JobOK
  <2>4. \A i : LineKilos(j.form, i) \in Nat
    BY <2>3, KilosAreNatural DEF SaleJob
  <2>5. PICK S : S = SoldBut(s)
    OBVIOUS
  <2>6. PICK U : U = SoldBut(s)'
    OBVIOUS
  <2>7. Rows(S) /\ Rows(Active(ordered)) /\ Rows(ReturnsOn(s))
    BY <2>5, InForceAreRows
  <2>8. \A i : TotalOf(U, i) <= TotalOf(S, i) /\ TotalOf(U, i) \in Nat /\ TotalOf(S, i) \in Nat
    BY <2>2, <2>5, <2>6, <2>7, TotalGrows
  <2>9. PICK R : R = ReturnsOn(s)
    OBVIOUS
  <2>10. PICK Q : Q = ReturnsOn(s)'
    OBVIOUS
  <2>11. \A i : TotalOf(Q, i) <= TotalOf(R, i) /\ TotalOf(Q, i) \in Nat /\ TotalOf(R, i) \in Nat
    BY <2>2, <2>7, <2>9, <2>10, TotalGrows
  <2>12. PICK O : O = Active(ordered)
    OBVIOUS
  <2>13. O = Active(ordered)'
    BY <2>2, <2>12
  <2>14. \A i : TotalOf(O, i) \in Nat
    BY <2>7, <2>12, TotalIsNatural
  <2>15. ASSUME j.linked, sales'[s] = NoRow \/ Live(sales, s)', NEW i \in Products
         PROVE  TotalOf(U, i) + LineKilos(j.form, i) <= TotalOf(O, i)
    <3>1. TotalOf(S, i) + LineKilos(j.form, i) <= TotalOf(O, i)
      BY <2>1, <2>2, <2>3, <2>5, <2>12, <2>15 DEF SaleFits
    <3> QED
      BY <2>4, <2>8, <2>14, <3>1
  <2>16. ASSUME Live(sales, s)', NEW i \in Products
         PROVE  TotalOf(Q, i) <= LineKilos(j.form, i)
    <3>1. TotalOf(R, i) <= LineKilos(j.form, i)
      BY <2>1, <2>2, <2>3, <2>9, <2>16 DEF SaleFits
    <3> QED
      BY <2>4, <2>11, <3>1
  <2>17. ASSUME ph = "sale_commit", NEW w \in RowsOf(sold, s)' PROVE w.id \in Ids(j.lines)
    BY <2>1, <2>2, <2>3, <2>17 DEF SaleFits
  <2>18. \A i \in Products : TotalOf(U, i) = TotalOf(SoldBut(s), i)'
    BY <2>6
  <2>19. \A i \in Products : TotalOf(Q, i) = TotalOf(ReturnsOn(s), i)'
    BY <2>10
  <2>20. \A i \in Products : TotalOf(O, i) = TotalOf(Active(ordered), i)'
    BY <2>13
  <2> QED
    BY <2>1, <2>15, <2>16, <2>17, <2>18, <2>19, <2>20 DEF SaleFits
<1>2. ASSUME ph \in RequestPhases PROVE RequestFits(ph, j)'
  <2>1. RequestFits(ph, j) /\ RequestJob(ph, j)
    BY <1>2 DEF StillFits, JobOK
  <2>2. \A i : LineKilos(j.form, i) \in Nat
    BY <2>1, KilosAreNatural DEF RequestJob
  <2>3. PICK S : S = SoldLines
    OBVIOUS
  <2>4. PICK U : U = SoldLines'
    OBVIOUS
  <2>5. U \subseteq S /\ ordered' = ordered
    BY <1>2, <2>3, <2>4 DEF Spares
  <2>6. Rows(S)
    BY <2>3, InForceAreRows
  <2>7. \A i : TotalOf(U, i) <= TotalOf(S, i) /\ TotalOf(U, i) \in Nat /\ TotalOf(S, i) \in Nat
    BY <2>5, <2>6, TotalGrows
  <2>8. ASSUME NEW i \in Products PROVE TotalOf(U, i) <= LineKilos(j.form, i)
    BY <2>1, <2>2, <2>3, <2>7 DEF RequestFits
  <2>9. \A i \in Products : TotalOf(U, i) = TotalOf(SoldLines, i)'
    BY <2>4
  <2> QED
    BY <2>1, <2>5, <2>8, <2>9 DEF RequestFits
<1>3. ASSUME ph \in RequestDeletes PROVE ActiveSales' = {}
  BY <1>3 DEF StillFits, Spares
<1>4. ASSUME ph \in {"return_header", "return_lines"} PROVE ReturnStillFits(ph, j)'
  <2>1. ReturnStillFits(ph, j) /\ ReturnJob(ph, j)
    BY <1>4 DEF StillFits, JobOK, ReturnPhases
  <2>2. \A i : LineKilos(j.form, i) \in Nat
    BY <2>1, KilosAreNatural DEF ReturnJob
  <2>3. PICK R : R = ReturnsBut(j.sale, j.target)
    OBVIOUS
  <2>4. PICK Q : Q = ReturnsBut(j.sale, j.target)'
    OBVIOUS
  <2>5. PICK S : S = ActiveOf(sold, j.sale)
    OBVIOUS
  <2>6. PICK U : U = ActiveOf(sold, j.sale)'
    OBVIOUS
  <2>7. Q \subseteq R /\ (U = S \/ j.form = {})
    BY <1>4, <2>3, <2>4, <2>5, <2>6 DEF Spares
  <2>8. Rows(R) /\ Rows(S)
    BY <2>3, <2>5, InForceAreRows
  <2>9. \A i : TotalOf(Q, i) <= TotalOf(R, i) /\ TotalOf(Q, i) \in Nat /\ TotalOf(R, i) \in Nat
    BY <2>7, <2>8, TotalGrows
  <2>10. \A i : TotalOf(S, i) \in Nat
    BY <2>8, TotalIsNatural
  <2>11. ASSUME NEW i \in Items(j.form)
         PROVE  LineKilos(j.form, i) + TotalOf(Q, i) <= TotalOf(U, i)
    <3>1. LineKilos(j.form, i) + TotalOf(R, i) <= TotalOf(S, i)
      BY <2>1, <2>3, <2>5 DEF ReturnStillFits
    <3>2. U = S
      BY <2>7 DEF Items
    <3> QED
      BY <2>2, <2>9, <2>10, <3>1, <3>2
  <2>12. ASSUME ph = "return_lines", NEW r \in ActiveOf(returned, j.target)',
                r.item \in Items(j.form)
         PROVE  r.id \in Ids(j.old)
    BY <1>4, <2>1, <2>12 DEF Spares, ReturnStillFits
  <2>13. \A i : TotalOf(Q, i) = TotalOf(ReturnsBut(j.sale, j.target), i)'
    BY <2>4
  <2>14. \A i : TotalOf(U, i) = TotalOf(ActiveOf(sold, j.sale), i)'
    BY <2>6
  <2> QED
    BY <2>11, <2>12, <2>13, <2>14 DEF ReturnStillFits
<1>5. ASSUME ph = "sale_delete", NEW a \in Serials, Live(returns, a)'
      PROVE  returns'[a].sale # j.target
  BY <1>5 DEF StillFits, Spares
<1> QED
  BY <1>1, <1>2, <1>3, <1>4, <1>5 DEF StillFits

LEMMA Classes ==
  /\ SalePhases \cup RequestPhases \cup RequestDeletes = OrderPhases
  /\ SalePhases \cap ReturnPhases = {} /\ OrderPhases \cap ReturnPhases = {}
  /\ "sale_delete" \notin OrderPhases \cup ReturnPhases
  /\ "idle" \notin OrderPhases \cup ReturnPhases
  /\ {"return_header", "return_lines"} \subseteq ReturnPhases
BY DEF OrderPhases, SalePhases, RequestPhases, RequestDeletes, ReturnPhases

\* The request of p goes on as what it was, or ends.
LEMMA ApartGoesOn ==
  ASSUME TInv, Apart, NEW p \in Procs, NEW ph, NEW j,
         phase' = [phase EXCEPT ![p] = ph], job' = [job EXCEPT ![p] = j],
         ph \in OrderPhases => phase[p] \in OrderPhases,
         ph \in SalePhases => phase[p] \in SalePhases /\ j.target = job[p].target,
         ph \in ReturnPhases => phase[p] \in ReturnPhases /\ j.sale = job[p].sale,
         ph = "sale_delete" => phase[p] = "sale_delete" /\ j.target = job[p].target,
         ph \in {"return_header", "return_lines"} =>
            \/ ph = "return_lines" /\ j.form = {} /\ j.old = {}
            \/ phase[p] = "return_header"
            \/ phase[p] = "return_lines" /\ ~(job[p].form = {} /\ job[p].old = {})
  PROVE  Apart'
<1>1. phase'[p] = ph /\ job'[p] = j
  BY DEF TInv, SlotsOK
<1>2. \A q \in Procs : q # p => phase'[q] = phase[q] /\ job'[q] = job[q]
  BY DEF TInv, SlotsOK
<1>3. ASSUME NEW q \in Procs, NEW r \in Procs, q # r
      PROVE  ~(phase'[q] \in OrderPhases /\ phase'[r] \in OrderPhases)
  BY <1>1, <1>2, <1>3 DEF Apart
<1>4. ASSUME NEW q \in Procs, NEW r \in Procs, q # r,
             phase'[q] \in ReturnPhases, phase'[r] \in ReturnPhases
      PROVE  job'[q].sale # job'[r].sale
  BY <1>1, <1>2, <1>4 DEF Apart
<1>5. ASSUME NEW q \in Procs, NEW r \in Procs, q # r,
             phase'[q] \in SalePhases, phase'[r] \in ReturnPhases
      PROVE  job'[q].target # job'[r].sale
  BY <1>1, <1>2, <1>5 DEF Apart
<1>6. ASSUME NEW q \in Procs, NEW r \in Procs, q # r,
             phase'[q] = "sale_delete", phase'[r] \in {"return_header", "return_lines"},
             job'[q].target = job'[r].sale
      PROVE  phase'[r] = "return_lines" /\ job'[r].form = {} /\ job'[r].old = {}
  <2>1. phase[q] = "sale_delete" /\ job[q].target = job'[q].target
    BY <1>1, <1>2, <1>6
  <2>2. CASE r # p
    BY <1>2, <1>6, <2>1, <2>2 DEF Apart
  <2>3. CASE r = p
    <3>1. job[p].sale = j.sale /\ phase'[p] = ph /\ job'[p] = j
      BY <1>1, <1>6, <2>3, Classes
    <3>2. \/ ~(phase[p] \in {"return_header", "return_lines"})
          \/ phase[p] = "return_lines" /\ job[p].form = {} /\ job[p].old = {}
      BY <1>6, <2>1, <2>3, <3>1 DEF Apart
    <3> QED
      BY <1>6, <2>3, <3>1, <3>2
  <2> QED
    BY <2>2, <2>3
<1> QED
  BY <1>3, <1>4, <1>5, <1>6 DEF Apart

\* A request begins on p, and no rival is in flight.
LEMMA ApartBegins ==
  ASSUME TInv, Apart, NEW p \in Procs, NEW ph, NEW j, NEW rivals, Start(p, ph, j, rivals),
         ~contended', ph \in Phases,
         \A q \in Procs : phase[q] \in OrderPhases /\ ph \in OrderPhases => q \in rivals,
         \A q \in Procs : phase[q] \in ReturnPhases /\ ph \in ReturnPhases
                          /\ job[q].sale = j.sale => q \in rivals,
         \A q \in Procs : phase[q] \in SalePhases /\ ph \in ReturnPhases
                          /\ job[q].target = j.sale => q \in rivals,
         \A q \in Procs : phase[q] \in ReturnPhases /\ ph \in SalePhases
                          /\ job[q].sale = j.target => q \in rivals,
         \A q \in Procs : phase[q] \in {"return_header", "return_lines"} /\ ph = "sale_delete"
                          /\ job[q].sale = j.target => q \in rivals,
         \A q \in Procs : phase[q] = "sale_delete" /\ ph \in {"return_header", "return_lines"}
                          /\ job[q].target = j.sale => q \in rivals
  PROVE  Apart'
<1>1. /\ phase' = [phase EXCEPT ![p] = ph] /\ job' = [job EXCEPT ![p] = j]
      /\ rivals = {}
  BY DEF Start
<1>2. phase'[p] = ph /\ job'[p] = j
  BY <1>1 DEF TInv, SlotsOK
<1>3. \A q \in Procs : q # p => phase'[q] = phase[q] /\ job'[q] = job[q]
  BY <1>1 DEF TInv, SlotsOK
<1>4. ASSUME NEW q \in Procs, NEW r \in Procs, q # r
      PROVE  ~(phase'[q] \in OrderPhases /\ phase'[r] \in OrderPhases)
  BY <1>1, <1>2, <1>3, <1>4 DEF Apart
<1>5. ASSUME NEW q \in Procs, NEW r \in Procs, q # r,
             phase'[q] \in ReturnPhases, phase'[r] \in ReturnPhases
      PROVE  job'[q].sale # job'[r].sale
  BY <1>1, <1>2, <1>3, <1>5 DEF Apart
<1>6. ASSUME NEW q \in Procs, NEW r \in Procs, q # r,
             phase'[q] \in SalePhases, phase'[r] \in ReturnPhases
      PROVE  job'[q].target # job'[r].sale
  BY <1>1, <1>2, <1>3, <1>6 DEF Apart
<1>7. ASSUME NEW q \in Procs, NEW r \in Procs, q # r,
             phase'[q] = "sale_delete", phase'[r] \in {"return_header", "return_lines"},
             job'[q].target = job'[r].sale
      PROVE  phase'[r] = "return_lines" /\ job'[r].form = {} /\ job'[r].old = {}
  BY <1>1, <1>2, <1>3, <1>7 DEF Apart
<1> QED
  BY <1>4, <1>5, <1>6, <1>7 DEF Apart

\* The slot of p changes, and what the step writes spares the others.
LEMMA OrderlyWrite ==
  ASSUME TInv, Orderly, NEW p \in Procs, NEW ph, NEW j,
         phase' = [phase EXCEPT ![p] = ph], job' = [job EXCEPT ![p] = j],
         Apart', Nested', StillFits(ph, j)',
         \A q \in Procs : \A h, k : q # p /\ h = phase[q] /\ k = job[q] => Spares(h, k)
  PROVE  Orderly'
<1>1. phase'[p] = ph /\ job'[p] = j
  BY DEF TInv, SlotsOK
<1>2. \A q \in Procs : q # p => phase'[q] = phase[q] /\ job'[q] = job[q]
  BY DEF TInv, SlotsOK
<1>3. ASSUME NEW q \in Procs, q # p PROVE StillFits(phase[q], job[q])'
  <2>1. PICK k : k = job[q]
    OBVIOUS
  <2>2. PICK h : h = phase[q]
    OBVIOUS
  <2>3. JobOK(h, k) /\ StillFits(h, k) /\ Spares(h, k)
    BY <1>3, <2>1, <2>2 DEF TInv, SlotsOK, Orderly
  <2>4. StillFits(h, k)'
    BY <2>3, SparedStillFit
  <2>5. phase'[q] = h /\ job'[q] = k
    BY <1>2, <1>3, <2>1, <2>2
  <2> QED
    BY <2>4, <2>5
<1>4. StillFits(phase[p], job[p])'
  BY <1>1
<1>5. \A q \in Procs : StillFits(phase[q], job[q])'
  BY <1>3, <1>4
<1> QED
  BY <1>5 DEF Orderly

\* A step that writes nothing spares everyone.
LEMMA QuietSpares ==
  ASSUME UNCHANGED saleVars, NEW ph, NEW j
  PROVE  Spares(ph, j)
<1>1. /\ ordered' = ordered /\ sold' = sold /\ returned' = returned
      /\ sales' = sales /\ returns' = returns
  BY DEF saleVars
<1>2. SoldLines' = SoldLines /\ ActiveSales' = ActiveSales
  BY <1>1 DEF SoldLines, ActiveSales, Live, Active
<1>3. \A s : SoldBut(s)' = SoldBut(s)
  BY <1>2 DEF SoldBut
<1>4. \A s : ReturnsOn(s)' = ReturnsOn(s)
  BY <1>1 DEF ReturnsOn, Live, Active
<1>5. \A s, a : ReturnsBut(s, a)' = ReturnsBut(s, a)
  BY <1>4 DEF ReturnsBut
<1>6. \A s : /\ Live(sales, s)' = Live(sales, s) /\ Live(returns, s)' = Live(returns, s)
             /\ RowsOf(sold, s)' = RowsOf(sold, s)
             /\ ActiveOf(sold, s)' = ActiveOf(sold, s)
             /\ ActiveOf(returned, s)' = ActiveOf(returned, s)
  BY <1>1 DEF Live
<1> QED
  BY <1>1, <1>2, <1>3, <1>4, <1>5, <1>6 DEF Spares

LEMMA QuietOrderly ==
  ASSUME TInv, Orderly, UNCHANGED saleVars, NEW p \in Procs, NEW ph, NEW j,
         phase' = [phase EXCEPT ![p] = ph], job' = [job EXCEPT ![p] = j],
         Apart', StillFits(ph, j)
  PROVE  Orderly'
<1>1. /\ ordered' = ordered /\ sold' = sold /\ returned' = returned
      /\ sales' = sales /\ returns' = returns
  BY DEF saleVars
<1>2. Nested'
  BY <1>1 DEF Orderly, Nested, SoldLines, ActiveSales, ReturnsOn, Live, Active
<1>3. StillFits(ph, j)'
  BY <1>1 DEF StillFits, SaleFits, RequestFits, ReturnStillFits, SoldBut, ReturnsBut,
              SoldLines, ActiveSales, ReturnsOn, Live, Active
<1>4. \A q \in Procs : \A h, k : q # p /\ h = phase[q] /\ k = job[q] => Spares(h, k)
  BY QuietSpares
<1> QED
  BY <1>2, <1>3, <1>4, OrderlyWrite

LEMMA KilosWithin ==
  ASSUME NEW S, Rows(S), NEW i
  PROVE  LineKilos(S, i) <= TotalOf(S, i) /\ LineKilos(S, i) \in Nat /\ TotalOf(S, i) \in Nat
<1>1. TotalOf(S, i) \in Nat
  BY TotalIsNatural
<1>2. CASE LineKilos(S, i) = 0
  BY <1>1, <1>2
<1>3. ASSUME NEW l \in S, l.item = i, LineKilos(S, i) = l.amount
      PROVE  LineKilos(S, i) <= TotalOf(S, i) /\ LineKilos(S, i) \in Nat
  BY <1>3, TotalHasRow
<1> QED
  BY <1>1, <1>2, <1>3, LineFound

\* Nothing that is not there adds up to nothing.
LEMMA NoneIsZero ==
  ASSUME NEW S, Rows(S), NEW i, i \notin Items(S)
  PROVE  TotalOf(S, i) = 0
<1>1. \A r \in S : r.item # i
  BY DEF Items
<1> QED
  BY <1>1, TotalOfFew

\* What validateOrderSale found holds for the request it begins.
LEMMA SaleBeginsFitting ==
  ASSUME TInv, Orderly, NEW s \in Serials, NEW linked, NEW form,
         FormOK(form, RowsOf(sold, s)),
         Live(sales, s) /\ linked => sales[s].linked,
         linked => Fits(s, form), CoversReturns(s, form),
         NEW j, j.target = s, j.linked = linked, j.form = form
  PROVE  StillFits("sale_tx", j)
<1>1. PICK O : O = Active(ordered)
  OBVIOUS
<1>2. PICK A : A = ActiveOf(sold, s)
  OBVIOUS
<1>3. PICK S : S = SoldLines
  OBVIOUS
<1>4. PICK B : B = SoldBut(s)
  OBVIOUS
<1>5. PICK R : R = ReturnsOn(s)
  OBVIOUS
<1>6. Rows(O) /\ Rows(A) /\ Rows(S) /\ Rows(B) /\ Rows(R)
  BY <1>1, <1>2, <1>3, <1>4, <1>5, InForceAreRows
<1>7. B \subseteq S
  BY <1>3, <1>4 DEF SoldBut
<1>8. \A i : TotalOf(B, i) <= TotalOf(S, i) /\ TotalOf(B, i) \in Nat /\ TotalOf(S, i) \in Nat
  BY <1>6, <1>7, TotalGrows
<1>9. \A i \in Products : TotalOf(S, i) <= TotalOf(O, i)
  BY <1>1, <1>3 DEF Orderly, Nested
<1>10. \A i : LineKilos(form, i) \in Nat
  BY KilosAreNatural
<1>11. \A i : TotalOf(O, i) \in Nat
  BY <1>6, TotalIsNatural
<1>12. ASSUME linked, sales[s] = NoRow \/ Live(sales, s), NEW i \in Products
       PROVE  TotalOf(B, i) + LineKilos(form, i) <= TotalOf(O, i)
  <2>1. CASE i \notin Items(form)
    <3>1. LineKilos(form, i) = 0
      BY <2>1 DEF LineKilos
    <3> QED
      BY <1>8, <1>9, <1>11, <3>1
  <2>2. CASE i \in Items(form)
    <3>1. Fits(s, form)
      BY <1>12
    <3>2. PICK r \in ActiveOf(ordered, PEDIDO) : r.item = i
      BY <2>2, <3>1 DEF Fits, Items
    <3>3. r.amount - TotalOf(S, i) + LineKilos(A, i) >= LineKilos(form, i)
      BY <1>2, <1>3, <3>1, <3>2 DEF Fits, Remaining
    <3>4. r \in O
      BY <1>1, <3>2 DEF ActiveOf, Active, RowsOf
    <3>5. r.amount <= TotalOf(O, i) /\ r.amount \in Nat
      BY <1>6, <3>2, <3>4, TotalHasRow
    <3>6. LineKilos(A, i) <= TotalOf(A, i) /\ LineKilos(A, i) \in Nat /\ TotalOf(A, i) \in Nat
      BY <1>6, KilosWithin
    <3>7. CASE sales[s] = NoRow
      <4>1. A = {}
        BY <1>2, <3>7 DEF ActiveOf, Active, RowsOf, TInv, DataOK
      <4>2. LineKilos(A, i) = 0
        BY <4>1 DEF LineKilos, Items
      <4> QED
        BY <1>8, <1>10, <1>11, <3>3, <3>5, <4>2
    <3>8. CASE Live(sales, s)
      <4>1. s \in ActiveSales
        BY <1>12, <3>8 DEF ActiveSales
      <4>2. A \subseteq S
        BY <1>2, <1>3, <4>1 DEF ActiveOf, Active, RowsOf, SoldLines
      <4>3. B = S \ A
        BY <1>2, <1>3, <1>4 DEF SoldBut, SoldLines, ActiveOf, Active, RowsOf
      <4>4. TotalOf(S, i) = TotalOf(A, i) + TotalOf(B, i)
        <5>1. Rows(S)
          BY <1>6
        <5>2. PICK Q : Q = S \ A
          OBVIOUS
        <5>3. TotalOf(S, i) = TotalOf(A, i) + TotalOf(Q, i)
          BY <4>2, <5>1, <5>2, TotalOfParts
        <5> QED
          BY <4>3, <5>2, <5>3
      <4> QED
        BY <1>8, <1>10, <1>11, <3>3, <3>5, <3>6, <4>4
    <3> QED
      BY <1>12, <3>7, <3>8
  <2> QED
    BY <2>1, <2>2
<1>13. ASSUME Live(sales, s), NEW i \in Products
       PROVE  TotalOf(R, i) <= LineKilos(form, i)
  <2>1. CASE i \in Items(R)
    BY <1>5, <1>13, <2>1 DEF CoversReturns
  <2>2. CASE i \notin Items(R)
    BY <1>6, <1>10, <2>2, NoneIsZero
  <2> QED
    BY <2>1, <2>2
<1>14. SaleFits("sale_tx", j)
  BY <1>1, <1>4, <1>5, <1>12, <1>13 DEF SaleFits
<1> QED
  BY <1>14 DEF StillFits, RequestPhases, RequestDeletes

\* What validateOrderRequest found.
LEMMA RequestBeginsFitting ==
  ASSUME TInv, Orderly, NEW form, FormOK(form, RowsOf(ordered, PEDIDO)), CoversSold(form),
         NEW j, j.form = form
  PROVE  StillFits("request_tx", j)
<1>1. PICK O : O = Active(ordered)
  OBVIOUS
<1>2. PICK S : S = SoldLines
  OBVIOUS
<1>3. Rows(O) /\ Rows(S)
  BY <1>1, <1>2, InForceAreRows
<1>4. \A i \in Products : TotalOf(S, i) <= TotalOf(O, i)
  BY <1>1, <1>2 DEF Orderly, Nested
<1>5. \A i : LineKilos(form, i) \in Nat
  BY KilosAreNatural
<1>6. ASSUME NEW i \in Products PROVE TotalOf(S, i) <= LineKilos(form, i)
  <2>1. CASE i \notin Items(S)
    BY <1>3, <1>5, <2>1, NoneIsZero
  <2>2. CASE i \in Items(S)
    <3>1. PICK r \in S : r.item = i
      BY <2>2 DEF Items
    <3>2. r \in Row
      BY <1>2, <3>1 DEF SoldLines, Active, TInv, DataOK, TableOK
    <3>3. r.amount > 0 /\ r.amount \in Nat
      BY <3>2, RowParts
    <3>4. r.amount <= TotalOf(S, i) /\ TotalOf(S, i) \in Nat
      BY <1>3, <3>1, TotalHasRow
    <3>5. TotalOf(O, i) # 0
      <4>1. TotalOf(O, i) \in Nat
        BY <1>3, TotalIsNatural
      <4> QED
        BY <1>4, <3>3, <3>4, <4>1
    <3>6. i \in Items(O)
      BY <1>3, <3>5, NoneIsZero
    <3>7. i \in Items(ordered)
      BY <1>1, <3>6 DEF Items, Active
    <3> QED
      BY <1>2, <2>2, <3>7 DEF CoversSold
  <2> QED
    BY <2>1, <2>2
<1>7. RequestFits("request_tx", j)
  BY <1>2, <1>6 DEF RequestFits
<1> QED
  BY <1>7 DEF StillFits, SalePhases, RequestDeletes

\* What validateOrderAdjustment found.
LEMMA ReturnBeginsFitting ==
  ASSUME TInv, NEW a \in Serials, NEW s \in Serials, NEW form,
         FormOK(form, RowsOf(returned, a)), ReturnFits(a, s, form),
         NEW j, j.target = a, j.sale = s, j.form = form
  PROVE  StillFits("return_header", j)
<1>1. PICK A : A = ActiveOf(sold, s)
  OBVIOUS
<1>2. PICK B : B = ReturnsBut(s, a)
  OBVIOUS
<1>3. PICK Q : Q = {q \in ReturnLinesOn(s) : q.doc # a}
  OBVIOUS
<1>4. Rows(A) /\ Rows(Q)
  <2>1. Q \subseteq returned
    BY <1>3 DEF ReturnLinesOn, Active
  <2>2. TableOK(returned, started)
    BY DEF TInv, DataOK
  <2>3. Rows(Q)
    BY <2>1, <2>2, TableParts
  <2> QED
    BY <1>1, <2>3, InForceAreRows
<1>5. B \subseteq Q
  BY <1>2, <1>3 DEF ReturnsBut, ReturnsOn, ReturnLinesOn
<1>6. ASSUME NEW i \in Items(form)
      PROVE  LineKilos(form, i) + TotalOf(B, i) <= TotalOf(A, i)
  <2>1. PICK r \in A : r.item = i
    BY <1>1 DEF ReturnFits, Items
  <2>2. LineKilos(form, i) + TotalOf(Q, i) <= r.amount
    BY <1>1, <1>3, <2>1 DEF ReturnFits
  <2>3. r.amount <= TotalOf(A, i) /\ r.amount \in Nat /\ TotalOf(A, i) \in Nat
    BY <1>4, <2>1, TotalHasRow
  <2>4. TotalOf(B, i) <= TotalOf(Q, i) /\ TotalOf(B, i) \in Nat /\ TotalOf(Q, i) \in Nat
    BY <1>4, <1>5, TotalGrows
  <2>5. LineKilos(form, i) \in Nat
    BY KilosAreNatural
  <2> QED
    BY <2>2, <2>3, <2>4, <2>5
<1>7. ReturnStillFits("return_header", j)
  BY <1>1, <1>2, <1>6 DEF ReturnStillFits
<1> QED
  BY <1>7 DEF StillFits, SalePhases, RequestPhases, RequestDeletes

LEMMA SlotSets ==
  /\ \A q \in Procs : q \in InFlight({"sale_tx", "sale_commit"}) <=> phase[q] \in SalePhases
  /\ SaleSaves \cup RequestWrites = {q \in Procs : phase[q] \in OrderPhases}
  /\ \A s : ReturnWritesOn(s) = {q \in Procs : phase[q] \in ReturnPhases /\ job[q].sale = s}
  /\ \A s : SavesOf(s) = {q \in Procs : phase[q] \in SalePhases /\ job[q].target = s}
  /\ \A s : DeletesOf(s) = {q \in Procs : phase[q] = "sale_delete" /\ job[q].target = s}
  /\ \A q \in Procs : phase[q] \in {"return_header", "return_lines"} => q \in ReturnSaves
BY DEF InFlight, SaleSaves, RequestWrites, ReturnWritesOn, ReturnSaves, SavesOf, DeletesOf,
       OrderPhases, SalePhases, RequestPhases, RequestDeletes, ReturnPhases

LEMMA BeginSaleOrderly ==
  ASSUME TInv, Orderly, ~contended', NEW p \in Procs, NEW s \in Serials, NEW linked \in BOOLEAN,
         BeginSale(p, s, linked)
  PROVE  Orderly'
<1>0. PICK form \in Forms(RowsOf(sold, s), Products, Kilos) :
      \E totals \in SaleTotals(form) :
        /\ linked => Fits(s, form)
        /\ CoversReturns(s, form)
        /\ Start(p, "sale_tx", [n |-> NextSerial, target |-> s, linked |-> linked,
                                auto |-> totals.auto, subtotal |-> totals.subtotal,
                                form |-> form, lines |-> {}, back |-> {}],
                 SaleSaves \cup RequestWrites \cup ReturnWritesOn(s))
  BY DEF BeginSale
<1>1. PICK totals \in SaleTotals(form) :
        /\ linked => Fits(s, form)
        /\ CoversReturns(s, form)
        /\ Start(p, "sale_tx", [n |-> NextSerial, target |-> s, linked |-> linked,
                                auto |-> totals.auto, subtotal |-> totals.subtotal,
                                form |-> form, lines |-> {}, back |-> {}],
                 SaleSaves \cup RequestWrites \cup ReturnWritesOn(s))
  BY <1>0
<1>2. PICK j : j = [n |-> NextSerial, target |-> s, linked |-> linked,
                    auto |-> totals.auto, subtotal |-> totals.subtotal,
                    form |-> form, lines |-> {}, back |-> {}]
  OBVIOUS
<1>3. PICK rivals : rivals = SaleSaves \cup RequestWrites \cup ReturnWritesOn(s)
  OBVIOUS
<1>4. Start(p, "sale_tx", j, rivals) /\ UNCHANGED saleVars
  BY <1>1, <1>2, <1>3 DEF BeginSale
<1>5. phase' = [phase EXCEPT ![p] = "sale_tx"] /\ job' = [job EXCEPT ![p] = j]
  BY <1>4 DEF Start
<1>6. FormOK(form, RowsOf(sold, s))
  <2>1. RowsOf(sold, s) \subseteq Row
    BY DEF RowsOf, TInv, DataOK, TableOK
  <2> QED
    BY <2>1, FormsOK
<1>7. j.target = s /\ j.linked = linked /\ j.form = form
  BY <1>2
<1>8. Live(sales, s) /\ linked => sales[s].linked
  BY DEF BeginSale
<1>9. StillFits("sale_tx", j)
  BY <1>1, <1>6, <1>7, <1>8, SaleBeginsFitting
<1>10. \A q \in Procs : phase[q] \in OrderPhases => q \in rivals
  BY <1>3, SlotSets
<1>11. \A q \in Procs : phase[q] \in ReturnPhases /\ job[q].sale = j.target => q \in rivals
  BY <1>3, <1>7, SlotSets
<1>12. "sale_tx" \in Phases /\ "sale_tx" \notin ReturnPhases
  BY DEF Phases, SavePhases, SalePhases, ReturnPhases
<1>13. Apart
  BY DEF Orderly
<1>14. Apart'
  BY <1>4, <1>10, <1>11, <1>12, <1>13, ApartBegins
<1> QED
  BY <1>4, <1>5, <1>9, <1>14, QuietOrderly

LEMMA BeginRequestOrderly ==
  ASSUME TInv, Orderly, ~contended', NEW p \in Procs, BeginRequestSave(p)
  PROVE  Orderly'
<1>1. PICK form \in Forms(ordered, Products, Kilos) :
        /\ CoversSold(form)
        /\ Start(p, "request_tx", [n |-> NextSerial, form |-> form, lines |-> {}],
                 SaleSaves \cup RequestWrites)
  BY DEF BeginRequestSave
<1>2. PICK j : j = [n |-> NextSerial, form |-> form, lines |-> {}]
  OBVIOUS
<1>3. PICK rivals : rivals = SaleSaves \cup RequestWrites
  OBVIOUS
<1>4. Start(p, "request_tx", j, rivals) /\ UNCHANGED saleVars
  BY <1>1, <1>2, <1>3 DEF BeginRequestSave
<1>5. phase' = [phase EXCEPT ![p] = "request_tx"] /\ job' = [job EXCEPT ![p] = j]
  BY <1>4 DEF Start
<1>6. FormOK(form, RowsOf(ordered, PEDIDO))
  <2>1. ordered \subseteq Row /\ RowsOf(ordered, PEDIDO) = ordered
    BY DEF RowsOf, TInv, DataOK, TableOK
  <2> QED
    BY <2>1, FormsOK
<1>7. j.form = form
  BY <1>2
<1>8. StillFits("request_tx", j)
  BY <1>1, <1>6, <1>7, RequestBeginsFitting
<1>9. \A q \in Procs : phase[q] \in OrderPhases => q \in rivals
  BY <1>3, SlotSets
<1>10. "request_tx" \in Phases /\ "request_tx" \notin ReturnPhases /\ "request_tx" \notin SalePhases
  BY DEF Phases, SavePhases, SalePhases, RequestPhases, ReturnPhases
<1>11. Apart
  BY DEF Orderly
<1>12. Apart'
  BY <1>4, <1>9, <1>10, <1>11, ApartBegins
<1> QED
  BY <1>4, <1>5, <1>8, <1>12, QuietOrderly

LEMMA BeginDeleteRequestOrderly ==
  ASSUME TInv, Orderly, ~contended', NEW p \in Procs, BeginDeleteRequest(p)
  PROVE  Orderly'
<1>1. PICK j : j = [target |-> PEDIDO]
  OBVIOUS
<1>2. PICK rivals : rivals = SaleSaves \cup RequestWrites
  OBVIOUS
<1>3. Start(p, "request_delete_lines", j, rivals) /\ UNCHANGED saleVars /\ ActiveSales = {}
  BY <1>1, <1>2 DEF BeginDeleteRequest
<1>4. phase' = [phase EXCEPT ![p] = "request_delete_lines"] /\ job' = [job EXCEPT ![p] = j]
  BY <1>3 DEF Start
<1>5. StillFits("request_delete_lines", j)
  BY <1>3 DEF StillFits, SalePhases, RequestPhases
<1>6. \A q \in Procs : phase[q] \in OrderPhases => q \in rivals
  BY <1>2, SlotSets
<1>7. /\ "request_delete_lines" \in Phases /\ "request_delete_lines" \notin ReturnPhases
      /\ "request_delete_lines" \notin SalePhases
  BY DEF Phases, SavePhases, SalePhases, RequestPhases, ReturnPhases, RequestDeletes
<1>8. Apart
  BY DEF Orderly
<1>9. Apart'
  BY <1>3, <1>6, <1>7, <1>8, ApartBegins
<1> QED
  BY <1>3, <1>4, <1>5, <1>9, QuietOrderly

LEMMA BeginDeleteSaleOrderly ==
  ASSUME TInv, Orderly, ~contended', NEW p \in Procs, NEW s \in Serials, BeginDeleteSale(p, s)
  PROVE  Orderly'
<1>1. PICK j : j = [target |-> s, left |-> Ids(ActiveOf(sold, s))]
  OBVIOUS
<1>2. PICK rivals : rivals = ReturnSaves \cap ReturnWritesOn(s)
  OBVIOUS
<1>3. Start(p, "sale_delete", j, rivals) /\ UNCHANGED saleVars
  BY <1>1, <1>2 DEF BeginDeleteSale
<1>4. phase' = [phase EXCEPT ![p] = "sale_delete"] /\ job' = [job EXCEPT ![p] = j]
  BY <1>3 DEF Start
<1>5. \A a \in Serials : Live(returns, a) => returns[a].sale # j.target
  BY <1>1 DEF BeginDeleteSale
<1>6. StillFits("sale_delete", j)
  BY <1>5 DEF StillFits, SalePhases, RequestPhases, RequestDeletes
<1>7. \A q \in Procs : phase[q] \in {"return_header", "return_lines"} /\ job[q].sale = j.target
                         => q \in rivals
  BY <1>1, <1>2, SlotSets, Classes
<1>8. "sale_delete" \in Phases /\ "sale_delete" \notin OrderPhases \cup ReturnPhases
  BY Classes DEF Phases
<1>9. "sale_delete" \notin SalePhases
  BY DEF SalePhases
<1>10. Apart
  BY DEF Orderly
<1>11. Apart'
  BY <1>3, <1>7, <1>8, <1>9, <1>10, ApartBegins
<1> QED
  BY <1>3, <1>4, <1>6, <1>11, QuietOrderly

LEMMA BeginReturnOrderly ==
  ASSUME TInv, Orderly, ~contended', NEW p \in Procs, NEW a \in Serials, NEW s \in Serials,
         BeginReturn(p, a, s)
  PROVE  Orderly'
<1>1. PICK form \in Forms(RowsOf(returned, a), Products, Kilos) :
        /\ ReturnFits(a, s, form)
        /\ Start(p, "return_header", [n |-> NextSerial, target |-> a, sale |-> s,
                                      form |-> form, old |-> {}, net |-> 0],
                 SavesOf(s) \cup DeletesOf(s) \cup ReturnWritesOn(s))
  BY DEF BeginReturn
<1>2. PICK j : j = [n |-> NextSerial, target |-> a, sale |-> s,
                    form |-> form, old |-> {}, net |-> 0]
  OBVIOUS
<1>3. PICK rivals : rivals = SavesOf(s) \cup DeletesOf(s) \cup ReturnWritesOn(s)
  OBVIOUS
<1>4. Start(p, "return_header", j, rivals) /\ UNCHANGED saleVars
  BY <1>1, <1>2, <1>3 DEF BeginReturn
<1>5. phase' = [phase EXCEPT ![p] = "return_header"] /\ job' = [job EXCEPT ![p] = j]
  BY <1>4 DEF Start
<1>6. FormOK(form, RowsOf(returned, a))
  <2>1. RowsOf(returned, a) \subseteq Row
    BY DEF RowsOf, TInv, DataOK, TableOK
  <2> QED
    BY <2>1, FormsOK
<1>7. j.target = a /\ j.sale = s /\ j.form = form
  BY <1>2
<1>8. StillFits("return_header", j)
  BY <1>1, <1>6, <1>7, ReturnBeginsFitting
<1>9. \A q \in Procs :
         /\ phase[q] \in ReturnPhases /\ job[q].sale = j.sale => q \in rivals
         /\ phase[q] \in SalePhases /\ job[q].target = j.sale => q \in rivals
         /\ phase[q] = "sale_delete" /\ job[q].target = j.sale => q \in rivals
  BY <1>3, <1>7, SlotSets
<1>10. /\ "return_header" \in Phases /\ "return_header" \notin SalePhases
       /\ "return_header" \notin OrderPhases
  BY DEF Phases, SavePhases, SalePhases, OrderPhases, RequestPhases, RequestDeletes, ReturnPhases
<1>11. Apart
  BY DEF Orderly
<1>12. Apart'
  BY <1>4, <1>9, <1>10, <1>11, ApartBegins
<1> QED
  BY <1>4, <1>5, <1>8, <1>12, QuietOrderly

\* Every row has an id that names it among those with an id.
LEMMA IdsOfRows ==
  ASSUME NEW rows, rows \subseteq Row
  PROVE  Ids(rows) = {r.id : r \in rows} /\ \A r \in rows : r.id \in Ids(rows)
<1>1. \A r \in rows : r.id # NoId
  BY RowParts
<1> QED
  BY <1>1 DEF Ids

LEMMA SnapshotOrderly ==
  ASSUME TInv, Orderly, NEW p \in Procs, SnapshotSale(p) \/ SnapshotRequest(p)
  PROVE  Orderly'
<1>1. Apart
  BY DEF Orderly
<1>2. CASE SnapshotSale(p)
  <2>1. PICK j : j = job[p]
    OBVIOUS
  <2>2. PICK k : k = [j EXCEPT !.lines = RowsOf(sold, j.target), !.back = ReturnsOn(j.target)]
    OBVIOUS
  <2>3. SaleJob("sale_tx", j) /\ phase[p] = "sale_tx"
    BY <1>2, <2>1 DEF SnapshotSale, TInv, SlotsOK, JobOK, SalePhases
  <2>4. /\ phase' = [phase EXCEPT ![p] = "sale_commit"] /\ job' = [job EXCEPT ![p] = k]
        /\ UNCHANGED saleVars
    BY <1>2, <2>1, <2>2 DEF SnapshotSale, Goto
  <2>5. /\ k.target = j.target /\ k.linked = j.linked /\ k.form = j.form
        /\ k.lines = RowsOf(sold, j.target)
    BY <2>2, <2>3 DEF SaleJob
  <2>6. SaleFits("sale_tx", j)
    BY <2>1, <2>3 DEF Orderly, StillFits, SalePhases
  <2>7. \A r \in RowsOf(sold, k.target) : r.id \in Ids(k.lines)
    <3>1. RowsOf(sold, k.target) \subseteq Row
      BY DEF RowsOf, TInv, DataOK, TableOK
    <3>2. PICK R : R = RowsOf(sold, k.target)
      OBVIOUS
    <3>3. \A r \in R : r.id \in Ids(R)
      BY <3>1, <3>2, IdsOfRows
    <3> QED
      BY <2>5, <3>2, <3>3
  <2>8. StillFits("sale_commit", k)
    BY <2>5, <2>6, <2>7 DEF SaleFits, StillFits, RequestPhases, RequestDeletes
  <2>9. /\ "sale_commit" \notin ReturnPhases /\ phase[p] \in SalePhases /\ phase[p] \in OrderPhases
    BY <2>3 DEF ReturnPhases, SalePhases, OrderPhases
  <2>10. k.target = job[p].target
    BY <2>1, <2>5
  <2>11. Apart'
    BY <1>1, <2>4, <2>9, <2>10, Classes, ApartGoesOn
  <2> QED
    BY <2>4, <2>8, <2>11, QuietOrderly
<1>3. CASE SnapshotRequest(p)
  <2>1. PICK j : j = job[p]
    OBVIOUS
  <2>2. PICK k : k = [j EXCEPT !.lines = ordered]
    OBVIOUS
  <2>3. RequestJob("request_tx", j) /\ phase[p] = "request_tx"
    BY <1>3, <2>1 DEF SnapshotRequest, TInv, SlotsOK, JobOK, RequestPhases
  <2>4. /\ phase' = [phase EXCEPT ![p] = "request_commit"] /\ job' = [job EXCEPT ![p] = k]
        /\ UNCHANGED saleVars
    BY <1>3, <2>1, <2>2 DEF SnapshotRequest, Goto
  <2>5. k.form = j.form /\ k.lines = ordered
    BY <2>2, <2>3 DEF RequestJob
  <2>6. RequestFits("request_tx", j)
    BY <2>1, <2>3 DEF Orderly, StillFits, RequestPhases
  <2>7. \A r \in ordered : r.id \in Ids(k.lines)
    BY <2>5, IdsOfRows DEF TInv, DataOK, TableOK
  <2>8. StillFits("request_commit", k)
    BY <2>5, <2>6, <2>7 DEF RequestFits, StillFits, SalePhases, RequestDeletes
  <2>9. /\ "request_commit" \notin ReturnPhases /\ "request_commit" \notin SalePhases
        /\ phase[p] \in OrderPhases
    BY <2>3 DEF ReturnPhases, SalePhases, OrderPhases, RequestPhases
  <2>10. Apart'
    BY <1>1, <2>4, <2>9, Classes, ApartGoesOn
  <2> QED
    BY <2>4, <2>8, <2>10, QuietOrderly
<1> QED
  BY <1>2, <1>3

LEMMA ReadNetOrderly ==
  ASSUME TInv, Orderly, NEW p \in Procs, ReadNet(p)
  PROVE  Orderly'
<1>1. PICK j : j = job[p]
  OBVIOUS
<1>2. PICK k : k = [j EXCEPT !.net = NetNow(j.sale)]
  OBVIOUS
<1>3. ReturnJob("return_lines", j) /\ phase[p] = "return_lines"
  BY <1>1 DEF ReadNet, TInv, SlotsOK, JobOK, ReturnPhases
<1>4. /\ phase' = [phase EXCEPT ![p] = "return_net"] /\ job' = [job EXCEPT ![p] = k]
      /\ UNCHANGED saleVars
  BY <1>1, <1>2 DEF ReadNet, Goto
<1>5. k.sale = job[p].sale
  BY <1>1, <1>2, <1>3 DEF ReturnJob
<1>6. StillFits("return_net", k)
  BY DEF StillFits, SalePhases, RequestPhases, RequestDeletes
<1>7. phase[p] \in ReturnPhases /\ "return_net" \notin OrderPhases /\ "return_net" \notin SalePhases
  BY <1>3 DEF ReturnPhases, OrderPhases, SalePhases, RequestPhases, RequestDeletes
<1>8. Apart
  BY DEF Orderly
<1>9. Apart'
  BY <1>4, <1>5, <1>7, <1>8, ApartGoesOn
<1> QED
  BY <1>4, <1>6, <1>9, QuietOrderly

\* A request ends.
LEMMA EndsApart ==
  ASSUME TInv, Orderly, NEW p \in Procs,
         phase' = [phase EXCEPT ![p] = "idle"], job' = [job EXCEPT ![p] = NoJob]
  PROVE  Apart' /\ StillFits("idle", NoJob)'
<1>1. Apart
  BY DEF Orderly
<1>2. "idle" \notin SalePhases
  BY DEF SalePhases
<1>3. Apart'
  BY <1>1, <1>2, Classes, ApartGoesOn
<1>4. StillFits("idle", NoJob)'
  BY DEF StillFits, SalePhases, RequestPhases, RequestDeletes
<1> QED
  BY <1>3, <1>4

LEMMA FailOrderly ==
  ASSUME TInv, Orderly, NEW p \in Procs, FailSale(p)
  PROVE  Orderly'
<1>1. /\ phase' = [phase EXCEPT ![p] = "idle"] /\ job' = [job EXCEPT ![p] = NoJob]
      /\ UNCHANGED saleVars
  BY DEF FailSale, Fail
<1>2. StillFits("idle", NoJob)
  BY DEF StillFits, SalePhases, RequestPhases, RequestDeletes
<1>3. Apart'
  BY <1>1, EndsApart
<1> QED
  BY <1>1, <1>2, <1>3, QuietOrderly

\* A step that takes lines or sales away, or changes nothing that is told apart.
Lessens ==
    /\ ordered' = ordered /\ returns' = returns /\ returned' = returned
    /\ \A w \in sold' : w.active => w \in sold
    /\ \A w \in sold' : \E r \in sold : w.id = r.id /\ w.doc = r.doc
    /\ \A s \in Serials :
          /\ sales'[s] = NoRow <=> sales[s] = NoRow
          /\ Live(sales, s)' => Live(sales, s) /\ sales'[s].linked = sales[s].linked

LEMMA LessenedLines ==
  ASSUME TInv, Lessens
  PROVE  /\ ActiveSales' \subseteq ActiveSales /\ SoldLines' \subseteq SoldLines
         /\ \A s : SoldBut(s)' \subseteq SoldBut(s)
         /\ \A s : ReturnsOn(s)' = ReturnsOn(s)
         /\ \A s, a : ReturnsBut(s, a)' = ReturnsBut(s, a)
<1>1. ActiveSales' \subseteq ActiveSales
  BY DEF Lessens, ActiveSales
<1>2. SoldLines' \subseteq SoldLines
  BY <1>1 DEF Lessens, SoldLines, Active
<1>3. \A s : SoldBut(s)' \subseteq SoldBut(s)
  BY <1>2 DEF SoldBut
<1>4. \A s : ReturnsOn(s)' = ReturnsOn(s)
  BY DEF Lessens, ReturnsOn, Live, Active
<1>5. \A s, a : ReturnsBut(s, a)' = ReturnsBut(s, a)
  BY <1>4 DEF ReturnsBut
<1> QED
  BY <1>1, <1>2, <1>3, <1>4, <1>5

LEMMA LessensSpares ==
  ASSUME TInv, Lessens, NEW ph, NEW j, JobOK(ph, j),
         ph \in {"return_header", "return_lines"} =>
            ActiveOf(sold, j.sale)' = ActiveOf(sold, j.sale) \/ j.form = {}
  PROVE  Spares(ph, j)
<1>1. /\ ActiveSales' \subseteq ActiveSales /\ SoldLines' \subseteq SoldLines
      /\ \A s : SoldBut(s)' \subseteq SoldBut(s)
      /\ \A s : ReturnsOn(s)' = ReturnsOn(s)
      /\ \A s, a : ReturnsBut(s, a)' = ReturnsBut(s, a)
  BY LessenedLines
<1>2. /\ ordered' = ordered /\ returns' = returns /\ returned' = returned
      /\ \A s \in Serials : /\ sales'[s] = NoRow <=> sales[s] = NoRow
                            /\ Live(sales, s)' => Live(sales, s)
      /\ \A w \in sold' : \E r \in sold : w.id = r.id /\ w.doc = r.doc
  BY DEF Lessens
<1>3. ASSUME ph \in SalePhases
      PROVE  /\ j.target \in Serials
             /\ \A w \in RowsOf(sold, j.target)' : w.id \in {r.id : r \in RowsOf(sold, j.target)}
  BY <1>2, <1>3 DEF JobOK, SaleJob, RowsOf
<1>4. \A a : ActiveOf(returned, a)' = ActiveOf(returned, a)
  BY <1>2
<1>5. \A a : Live(returns, a)' <=> Live(returns, a)
  BY <1>2 DEF Live
<1> QED
  BY <1>1, <1>2, <1>3, <1>4, <1>5 DEF Spares

LEMMA LessensNested ==
  ASSUME TInv, Nested, Lessens,
         \A s \in Serials : Live(sales, s) =>
            ActiveOf(sold, s)' = ActiveOf(sold, s) \/ ReturnsOn(s) = {},
         TInv'
  PROVE  Nested'
<1>1. PICK S : S = SoldLines
  OBVIOUS
<1>2. PICK U : U = SoldLines'
  OBVIOUS
<1>3. U \subseteq S /\ \A s : ReturnsOn(s)' = ReturnsOn(s)
  BY <1>1, <1>2, LessenedLines
<1>4. Rows(S) /\ Rows(Active(ordered))
  BY <1>1, InForceAreRows
<1>5. \A i : TotalOf(U, i) <= TotalOf(S, i) /\ TotalOf(U, i) \in Nat /\ TotalOf(S, i) \in Nat
  BY <1>3, <1>4, TotalGrows
<1>6. PICK O : O = Active(ordered)
  OBVIOUS
<1>7. O = Active(ordered)'
  BY <1>6 DEF Lessens
<1>8. \A i : TotalOf(O, i) \in Nat
  BY <1>4, <1>6, TotalIsNatural
<1>9. ASSUME NEW i \in Products PROVE (TotalOf(SoldLines, i) <= TotalOf(Active(ordered), i))'
  <2>1. TotalOf(S, i) <= TotalOf(O, i)
    BY <1>1, <1>6 DEF Nested
  <2>2. TotalOf(U, i) <= TotalOf(O, i)
    BY <1>5, <1>8, <2>1
  <2> QED
    BY <1>2, <1>7, <2>2
<1>10. ASSUME NEW s \in Serials, Live(sales, s)', NEW i \in Products
       PROVE  (TotalOf(ReturnsOn(s), i) <= TotalOf(ActiveOf(sold, s), i))'
  <2>1. Live(sales, s)
    BY <1>10 DEF Lessens
  <2>2. PICK A : A = ActiveOf(sold, s)
    OBVIOUS
  <2>3. PICK B : B = ActiveOf(sold, s)'
    OBVIOUS
  <2>4. PICK R : R = ReturnsOn(s)
    OBVIOUS
  <2>5. TotalOf(R, i) <= TotalOf(A, i)
    BY <1>10, <2>1, <2>2, <2>4 DEF Nested
  <2>6. R = ReturnsOn(s)' /\ (B = A \/ R = {})
    BY <1>3, <2>1, <2>2, <2>3, <2>4
  <2>7. CASE B = A
    BY <2>3, <2>5, <2>6, <2>7
  <2>8. CASE R = {}
    <3>1. Rows(R)
      BY <2>4, InForceAreRows
    <3>2. TotalOf(R, i) = 0
      BY <2>8, <3>1, NoneIsZero DEF Items
    <3>3. TableOK(sold', started')
      BY DEF TInv, DataOK
    <3>4. B \subseteq sold'
      BY <2>3 DEF ActiveOf, Active, RowsOf
    <3>5. Rows(B)
      <4>1. PICK T : T = sold'
        OBVIOUS
      <4>2. PICK n : n = started'
        OBVIOUS
      <4> QED
        BY <3>3, <3>4, <4>1, <4>2, TableParts
    <3>6. TotalOf(B, i) \in Nat
      BY <3>5, TotalIsNatural
    <3>7. TotalOf(R, i) <= TotalOf(B, i)
      BY <3>2, <3>6
    <3> QED
      BY <2>3, <2>6, <3>7
  <2> QED
    BY <2>6, <2>7, <2>8
<1> QED
  BY <1>9, <1>10 DEF Nested

\* A step that changes a column of one sale, and perhaps takes it away.
LEMMA OneSaleLessens ==
  ASSUME TInv, NEW s \in Serials, NEW x, sales[s] # NoRow, sales' = [sales EXCEPT ![s] = x],
         x \in Sale, x.linked = sales[s].linked, x.active => sales[s].active,
         UNCHANGED <<ordered, sold, returns, returned>>
  PROVE  Lessens /\ \A t \in Serials : ActiveOf(sold, t)' = ActiveOf(sold, t)
<1>1. /\ ordered' = ordered /\ sold' = sold /\ returns' = returns /\ returned' = returned
  OBVIOUS
<1>2. ASSUME NEW t \in Serials
      PROVE  /\ sales'[t] = NoRow <=> sales[t] = NoRow
             /\ Live(sales, t)' => Live(sales, t) /\ sales'[t].linked = sales[t].linked
  <2>1. sales \in [Serials -> Sale \cup {NoRow}]
    BY DEF TInv, DataOK
  <2>2. CASE t = s
    <3>1. sales'[t] = x /\ x # NoRow
      BY <2>1, <2>2, SalesNames
    <3> QED
      BY <2>2, <3>1 DEF Live
  <2>3. CASE t # s
    BY <2>1, <2>3 DEF Live
  <2> QED
    BY <2>2, <2>3
<1>3. Lessens
  BY <1>1, <1>2 DEF Lessens
<1> QED
  BY <1>1, <1>3

\* The slot of p changes, or does not, in a step that takes away.
LEMMA LessensOrderly ==
  ASSUME TInv, TInv', Orderly, Lessens, NEW p \in Procs, NEW ph, NEW j,
         phase' = [phase EXCEPT ![p] = ph], job' = [job EXCEPT ![p] = j],
         Apart', StillFits(ph, j)',
         \A t \in Serials : ActiveOf(sold, t)' = ActiveOf(sold, t)
  PROVE  Orderly'
<1>1. Nested'
  BY LessensNested DEF Orderly
<1>2. ASSUME NEW q \in Procs, NEW h, NEW k, h = phase[q], k = job[q] PROVE Spares(h, k)
  <2>1. JobOK(h, k)
    BY <1>2 DEF TInv, SlotsOK
  <2>2. h \in {"return_header", "return_lines"} => k.sale \in Serials
    BY <2>1 DEF JobOK, ReturnJob, ReturnPhases
  <2> QED
    BY <2>1, <2>2, LessensSpares
<1> QED
  BY <1>1, <1>2, OrderlyWrite

LEMMA StatusOrderly ==
  ASSUME TInv, TInv', Orderly, NEW p \in Procs,
         (\E s \in Serials : UpdateOrderSaleStatus(p, s)) \/ UpdateOrderRequestStatus(p)
  PROVE  Orderly'
<1>1. phase' = phase /\ job' = job /\ phase[p] = "idle"
  BY DEF UpdateOrderSaleStatus, UpdateOrderRequestStatus, Instant, Free
<1>2. PICK j : j = job[p]
  OBVIOUS
<1>3. phase' = [phase EXCEPT ![p] = "idle"] /\ job' = [job EXCEPT ![p] = j]
  BY <1>1, <1>2 DEF TInv, SlotsOK
<1>4. Apart'
  BY <1>1 DEF Orderly, Apart
<1>5. StillFits("idle", j)'
  BY DEF StillFits, SalePhases, RequestPhases, RequestDeletes
<1>6. Lessens /\ \A t \in Serials : ActiveOf(sold, t)' = ActiveOf(sold, t)
  <2>1. CASE UpdateOrderRequestStatus(p)
    <3>1. /\ ordered' = ordered /\ sold' = sold /\ returns' = returns /\ returned' = returned
          /\ sales' = sales
      BY <2>1 DEF UpdateOrderRequestStatus
    <3> QED
      BY <3>1 DEF Lessens, Live
  <2>2. ASSUME NEW s \in Serials, UpdateOrderSaleStatus(p, s)
        PROVE  Lessens /\ \A t \in Serials : ActiveOf(sold, t)' = ActiveOf(sold, t)
    <3>1. sales[s] # NoRow /\ sales[s] \in Sale
      BY <2>2 DEF UpdateOrderSaleStatus, Live, TInv, DataOK
    <3>2. PICK x : x = [sales[s] EXCEPT !.open = ~@]
      OBVIOUS
    <3>3. x \in Sale /\ x.linked = sales[s].linked /\ x.active = sales[s].active
      BY <3>1, <3>2 DEF Sale
    <3>4. /\ sales' = [sales EXCEPT ![s] = x]
          /\ UNCHANGED <<ordered, sold, returns, returned>>
      BY <2>2, <3>2 DEF UpdateOrderSaleStatus
    <3> QED
      BY <3>1, <3>3, <3>4, OneSaleLessens
  <2> QED
    BY <2>1, <2>2
<1> QED
  BY <1>3, <1>4, <1>5, <1>6, LessensOrderly

LEMMA WriteNetOrderly ==
  ASSUME TInv, TInv', Orderly, NEW p \in Procs, WriteNet(p)
  PROVE  Orderly'
<1>1. PICK j : j = job[p]
  OBVIOUS
<1>2. ReturnJob("return_net", j)
  BY <1>1 DEF WriteNet, TInv, SlotsOK, JobOK, ReturnPhases
<1>3. /\ phase' = [phase EXCEPT ![p] = "idle"] /\ job' = [job EXCEPT ![p] = NoJob]
      /\ sales' = [sales EXCEPT ![j.sale].net = j.net]
      /\ UNCHANGED <<ordered, sold, returns, returned>>
  BY <1>1 DEF WriteNet, Finish, Goto
<1>4. j.sale \in Serials /\ j.net \in Int /\ sales[j.sale] # NoRow /\ sales[j.sale] \in Sale
  BY <1>2 DEF ReturnJob, TInv, DataOK
<1>5. PICK x : x = [sales[j.sale] EXCEPT !.net = j.net]
  OBVIOUS
<1>6. x \in Sale /\ x.linked = sales[j.sale].linked /\ x.active = sales[j.sale].active
  BY <1>4, <1>5 DEF Sale
<1>7. sales' = [sales EXCEPT ![j.sale] = x]
  BY <1>3, <1>5
<1>8. Lessens /\ \A t \in Serials : ActiveOf(sold, t)' = ActiveOf(sold, t)
  BY <1>3, <1>4, <1>6, <1>7, OneSaleLessens
<1>9. Apart' /\ StillFits("idle", NoJob)'
  BY <1>3, EndsApart
<1> QED
  BY <1>3, <1>8, <1>9, LessensOrderly

LEMMA DeleteSaleHeaderOrderly ==
  ASSUME TInv, TInv', Orderly, NEW p \in Procs, DeleteSaleHeader(p)
  PROVE  Orderly'
<1>1. PICK s : s = job[p].target
  OBVIOUS
<1>2. s \in Serials /\ sales[s] # NoRow /\ sales[s] \in Sale
  BY <1>1 DEF DeleteSaleHeader, TInv, SlotsOK, JobOK, DataOK
<1>3. /\ phase' = [phase EXCEPT ![p] = "idle"] /\ job' = [job EXCEPT ![p] = NoJob]
      /\ sales' = [sales EXCEPT ![s].active = FALSE]
      /\ UNCHANGED <<ordered, sold, returns, returned>>
  BY <1>1 DEF DeleteSaleHeader, Finish, Goto
<1>4. PICK x : x = [sales[s] EXCEPT !.active = FALSE]
  OBVIOUS
<1>5. x \in Sale /\ x.linked = sales[s].linked /\ ~x.active
  BY <1>2, <1>4 DEF Sale
<1>6. sales' = [sales EXCEPT ![s] = x]
  BY <1>3, <1>4
<1>7. Lessens /\ \A t \in Serials : ActiveOf(sold, t)' = ActiveOf(sold, t)
  BY <1>2, <1>3, <1>5, <1>6, OneSaleLessens
<1>8. Apart' /\ StillFits("idle", NoJob)'
  BY <1>3, EndsApart
<1> QED
  BY <1>3, <1>7, <1>8, LessensOrderly

LEMMA DeleteSaleLineOrderly ==
  ASSUME TInv, TInv', Orderly, NEW p \in Procs, DeleteSaleLine(p)
  PROVE  Orderly'
<1>1. PICK j : j = job[p]
  OBVIOUS
<1>2. /\ phase[p] = "sale_delete" /\ j = [target |-> j.target, left |-> j.left]
      /\ j.target \in Serials /\ j.left \subseteq Ids(RowsOf(sold, j.target))
  BY <1>1 DEF DeleteSaleLine, TInv, SlotsOK, JobOK
<1>3. PICK id \in j.left :
        /\ sold' = {IF r.id = id THEN Deleted(r) ELSE r : r \in sold}
        /\ Goto(p, "sale_delete", [j EXCEPT !.left = @ \ {id}])
  BY <1>1 DEF DeleteSaleLine
<1>4. PICK k : k = [j EXCEPT !.left = @ \ {id}]
  OBVIOUS
<1>5. /\ phase' = [phase EXCEPT ![p] = "sale_delete"] /\ job' = [job EXCEPT ![p] = k]
      /\ ordered' = ordered /\ sales' = sales /\ returns' = returns /\ returned' = returned
  BY <1>3, <1>4 DEF DeleteSaleLine, Goto
<1>6. k.target = j.target
  BY <1>2, <1>4
<1>7. PICK D : D = {r \in sold : r.id = id}
  OBVIOUS
<1>8. PICK W : W = Without(sold, D)
  OBVIOUS
<1>9. sold' = W
  BY <1>3, <1>7, <1>8 DEF Without
<1>10. TableOK(sold, started)
  BY DEF TInv, DataOK
<1>11. /\ \A w \in W : \E r \in sold : w.id = r.id /\ w.doc = r.doc
       /\ \A w \in W : w.active => w \in sold /\ w \notin D
       /\ \A r \in sold : r \notin D => r \in W
  BY <1>8, <1>10, Struck
<1>12. \A r \in D : r.doc = j.target
  <2>1. PICK q \in RowsOf(sold, j.target) : q.id = id
    BY <1>2, <1>3 DEF Ids
  <2> QED
    BY <1>7, <1>10, <2>1 DEF TableOK, RowsOf
<1>13. ASSUME NEW t, t # j.target PROVE ActiveOf(sold, t)' = ActiveOf(sold, t)
  <2>1. ActiveOf(sold, t)' = ActiveOf(W, t)
    BY <1>9
  <2>2. \A w \in ActiveOf(W, t) : w \in ActiveOf(sold, t)
    BY <1>11 DEF ActiveOf, Active, RowsOf
  <2>3. \A r \in ActiveOf(sold, t) : r \in ActiveOf(W, t)
    BY <1>11, <1>12, <1>13 DEF ActiveOf, Active, RowsOf
  <2> QED
    BY <2>1, <2>2, <2>3
<1>14. Lessens
  BY <1>5, <1>9, <1>11 DEF Lessens, Live
<1>15. \A a \in Serials : Live(returns, a) => returns[a].sale # j.target
  BY <1>1, <1>2 DEF Orderly, StillFits
<1>16. ReturnsOn(j.target) = {}
  BY <1>15 DEF ReturnsOn, Active, TInv, DataOK
<1>17. Nested'
  <2>1. \A s \in Serials : Live(sales, s) =>
            ActiveOf(sold, s)' = ActiveOf(sold, s) \/ ReturnsOn(s) = {}
    BY <1>13, <1>16
  <2> QED
    BY <1>14, <2>1, LessensNested DEF Orderly
<1>18. StillFits("sale_delete", k)'
  BY <1>5, <1>6, <1>15 DEF StillFits, Live, SalePhases, RequestPhases, RequestDeletes
<1>19. Apart
  BY DEF Orderly
<1>20. Apart'
  <2>1. k.target = job[p].target
    BY <1>1, <1>6
  <2>2. "sale_delete" \notin SalePhases
    BY DEF SalePhases
  <2> QED
    BY <1>2, <1>5, <1>19, <2>1, <2>2, Classes, ApartGoesOn
<1>21. ASSUME NEW q \in Procs, NEW h, NEW l, q # p, h = phase[q], l = job[q] PROVE Spares(h, l)
  <2>1. JobOK(h, l)
    BY <1>21 DEF TInv, SlotsOK
  <2>2. ASSUME h \in {"return_header", "return_lines"}
        PROVE  ActiveOf(sold, l.sale)' = ActiveOf(sold, l.sale) \/ l.form = {}
    <3>1. CASE l.sale = j.target
      BY <1>1, <1>2, <1>19, <1>21, <2>2, <3>1 DEF Apart
    <3>2. CASE l.sale # j.target
      BY <1>13, <3>2
    <3> QED
      BY <3>1, <3>2
  <2> QED
    BY <1>14, <2>1, <2>2, LessensSpares
<1> QED
  BY <1>5, <1>17, <1>18, <1>20, <1>21, OrderlyWrite

\* A step that writes the order request alone spares what is no rival of it.
LEMMA OrderSpares ==
  ASSUME UNCHANGED <<sales, sold, returns, returned>>, NEW ph, NEW j, ph \notin OrderPhases
  PROVE  Spares(ph, j)
<1>1. sales' = sales /\ sold' = sold /\ returns' = returns /\ returned' = returned
  OBVIOUS
<1>2. \A s : ReturnsOn(s)' = ReturnsOn(s)
  BY <1>1 DEF ReturnsOn, Live, Active
<1>3. \A s, a : ReturnsBut(s, a)' = ReturnsBut(s, a)
  BY <1>2 DEF ReturnsBut
<1>4. \A s : /\ ActiveOf(sold, s)' = ActiveOf(sold, s)
             /\ ActiveOf(returned, s)' = ActiveOf(returned, s)
             /\ Live(returns, s)' <=> Live(returns, s)
  BY <1>1 DEF Live
<1> QED
  BY <1>1, <1>3, <1>4, Classes DEF Spares

LEMMA OrderOrderly ==
  ASSUME TInv, Orderly, NEW p \in Procs, NEW ph, NEW j,
         phase' = [phase EXCEPT ![p] = ph], job' = [job EXCEPT ![p] = j],
         phase[p] \in OrderPhases, UNCHANGED <<sales, sold, returns, returned>>,
         Apart', StillFits(ph, j)',
         NEW O, O = Active(ordered)', \A i \in Products : TotalOf(SoldLines, i) <= TotalOf(O, i)
  PROVE  Orderly'
<1>1. sales' = sales /\ sold' = sold /\ returns' = returns /\ returned' = returned
  OBVIOUS
<1>2. SoldLines' = SoldLines
  BY <1>1 DEF SoldLines, ActiveSales, Live, Active
<1>3. \A s : ReturnsOn(s)' = ReturnsOn(s)
  BY <1>1 DEF ReturnsOn, Live, Active
<1>4. ASSUME NEW i \in Products PROVE (TotalOf(SoldLines, i) <= TotalOf(Active(ordered), i))'
  BY <1>2
<1>5. ASSUME NEW s \in Serials, Live(sales, s)', NEW i \in Products
      PROVE  (TotalOf(ReturnsOn(s), i) <= TotalOf(ActiveOf(sold, s), i))'
  <2>1. Live(sales, s)
    BY <1>1, <1>5 DEF Live
  <2>2. TotalOf(ReturnsOn(s), i) <= TotalOf(ActiveOf(sold, s), i)
    BY <2>1 DEF Orderly, Nested
  <2> QED
    BY <1>1, <1>3, <2>2
<1>6. Nested'
  BY <1>4, <1>5 DEF Nested
<1>7. ASSUME NEW q \in Procs, NEW h, NEW k, q # p, h = phase[q], k = job[q] PROVE Spares(h, k)
  <2>1. h \notin OrderPhases
    BY <1>7 DEF Orderly, Apart
  <2> QED
    BY <2>1, OrderSpares
<1> QED
  BY <1>6, <1>7, OrderlyWrite

LEMMA CommitRequestOrderly ==
  ASSUME TInv, Orderly, NEW p \in Procs, CommitRequest(p)
  PROVE  Orderly'
<1>1. PICK j : j = job[p]
  OBVIOUS
<1>2. PICK W : W = Saved(ordered, j.lines, j.form, PEDIDO, j.n)
  OBVIOUS
<1>3. phase[p] = "request_commit"
  BY DEF CommitRequest
<1>4. WriteOK(ordered, started, j.lines, j.form, PEDIDO, j.n)
  BY <1>1, <1>3, CommitRequestWrite
<1>5. /\ phase' = [phase EXCEPT ![p] = "idle"] /\ job' = [job EXCEPT ![p] = NoJob]
      /\ ordered' = W /\ UNCHANGED <<sales, sold, returns, returned>>
  BY <1>1, <1>2 DEF CommitRequest, Finish, Goto
<1>6. RequestFits("request_commit", j)
  BY <1>1, <1>3 DEF Orderly, StillFits, RequestPhases
<1>7. \A r \in RowsOf(ordered, PEDIDO) : r.id \in Ids(j.lines)
  BY <1>6 DEF RequestFits, RowsOf
<1>8. PICK O : O = ActiveOf(W, PEDIDO)
  OBVIOUS
<1>9. \A i : TotalOf(O, i) = LineKilos(j.form, i)
  BY <1>2, <1>4, <1>7, <1>8, SavedDocument
<1>10. O = Active(ordered)'
  <2>1. \A w \in W : w.doc = PEDIDO
    BY <1>2, <1>4, SavedRows DEF TInv, DataOK
  <2> QED
    BY <1>5, <1>8, <2>1 DEF ActiveOf, Active, RowsOf
<1>11. \A i \in Products : TotalOf(SoldLines, i) <= TotalOf(O, i)
  BY <1>6, <1>9 DEF RequestFits
<1>12. phase[p] \in OrderPhases
  BY <1>3 DEF OrderPhases, RequestPhases
<1>13. Apart' /\ StillFits("idle", NoJob)'
  BY <1>5, EndsApart
<1> QED
  BY <1>5, <1>10, <1>11, <1>12, <1>13, OrderOrderly

LEMMA DeleteRequestOrderly ==
  ASSUME TInv, Orderly, NEW p \in Procs, DeleteRequestLines(p) \/ DeleteRequestHeader(p)
  PROVE  Orderly'
<1>1. CASE DeleteRequestHeader(p)
  <2>1. /\ phase' = [phase EXCEPT ![p] = "idle"] /\ job' = [job EXCEPT ![p] = NoJob]
        /\ ordered' = ordered /\ UNCHANGED <<sales, sold, returns, returned>>
    BY <1>1 DEF DeleteRequestHeader, Finish, Goto
  <2>2. phase[p] \in OrderPhases
    BY <1>1 DEF DeleteRequestHeader, OrderPhases, RequestDeletes
  <2>3. PICK O : O = Active(ordered)
    OBVIOUS
  <2>4. O = Active(ordered)' /\ \A i \in Products : TotalOf(SoldLines, i) <= TotalOf(O, i)
    BY <2>1, <2>3 DEF Orderly, Nested
  <2>5. Apart' /\ StillFits("idle", NoJob)'
    BY <2>1, EndsApart
  <2> QED
    BY <2>1, <2>2, <2>4, <2>5, OrderOrderly
<1>2. CASE DeleteRequestLines(p)
  <2>1. PICK j : j = job[p]
    OBVIOUS
  <2>2. PICK W : W = Without(ordered, ordered)
    OBVIOUS
  <2>3. /\ phase' = [phase EXCEPT ![p] = "request_delete"] /\ job' = [job EXCEPT ![p] = j]
        /\ ordered' = W /\ UNCHANGED <<sales, sold, returns, returned>>
        /\ phase[p] = "request_delete_lines"
    BY <1>2, <2>1, <2>2 DEF DeleteRequestLines, Goto, Without
  <2>4. ActiveSales = {}
    BY <2>3 DEF Orderly, StillFits, RequestDeletes
  <2>5. PICK O : O = Active(ordered)'
    OBVIOUS
  <2>6. O = {}
    <3>1. TableOK(ordered, started)
      BY DEF TInv, DataOK
    <3>2. \A w \in W : ~w.active
      BY <2>2, <3>1, Struck
    <3> QED
      BY <2>3, <2>5, <3>2 DEF Active
  <2>7. SoldLines = {}
    BY <2>4 DEF SoldLines
  <2>8. \A i \in Products : TotalOf(SoldLines, i) <= TotalOf(O, i)
    <3>1. Rows(SoldLines)
      BY InForceAreRows
    <3>2. SoldLines = O
      BY <2>6, <2>7
    <3>3. \A i : TotalOf(SoldLines, i) \in Nat
      BY <3>1, TotalIsNatural
    <3> QED
      BY <3>2, <3>3
  <2>9. phase[p] \in OrderPhases /\ "request_delete" \notin ReturnPhases /\ "request_delete" \notin SalePhases
    BY <2>3 DEF OrderPhases, RequestDeletes, ReturnPhases, SalePhases
  <2>10. ActiveSales' = {}
    BY <2>3, <2>4 DEF ActiveSales, Live
  <2>11. StillFits("request_delete", j)'
    BY <2>10 DEF StillFits, SalePhases, RequestPhases
  <2>12. Apart
    BY DEF Orderly
  <2>13. Apart'
    BY <2>3, <2>9, <2>12, Classes, ApartGoesOn
  <2> QED
    BY <2>3, <2>5, <2>8, <2>9, <2>11, <2>13, OrderOrderly
<1> QED
  BY <1>1, <1>2

LEMMA CommitSaleOrderly ==
  ASSUME TInv, Orderly, NEW p \in Procs, CommitSale(p)
  PROVE  Orderly'
<1>1. PICK j : j = job[p]
  OBVIOUS
<1>2. PICK s : s = j.target
  OBVIOUS
<1>3. PICK W : W = Saved(sold, j.lines, j.form, s, j.n)
  OBVIOUS
<1>4. phase[p] = "sale_commit" /\ SaleJob("sale_commit", j)
  BY <1>1 DEF CommitSale, TInv, SlotsOK, JobOK, SalePhases
<1>5. WriteOK(sold, started, j.lines, j.form, s, j.n) /\ s \in Serials
  BY <1>1, <1>2, <1>4, CommitSaleWrite DEF SaleJob
<1>6. /\ phase' = [phase EXCEPT ![p] = "idle"] /\ job' = [job EXCEPT ![p] = NoJob]
      /\ sold' = W /\ ordered' = ordered /\ returns' = returns /\ returned' = returned
  BY <1>1, <1>2, <1>3 DEF CommitSale, Finish, Goto
<1>7. SaleFits("sale_commit", j)
  BY <1>1, <1>4 DEF Orderly, StillFits, SalePhases
<1>8. \A t \in Serials : t # s => sales'[t] = sales[t]
  BY <1>1, <1>2, SaleStored
<1>9. /\ Live(sales, s)' <=> sales[s] = NoRow \/ Live(sales, s)
      /\ sales'[s].linked = j.linked
  <2>1. /\ sales'[s] \in Sale /\ sales'[s].linked = j.linked
        /\ sales'[s].active <=> sales[s] = NoRow \/ sales[s].active
    BY <1>1, <1>2, SaleStored
  <2> QED
    BY <2>1, SalesNames DEF Live
<1>10. /\ TableOK(W, started)
       /\ \A r \in sold : r.doc # s => r \in W
       /\ \A w \in W : w.doc # s => w \in sold
  BY <1>3, <1>5, SavedRows
<1>11. \A t : t # s => ActiveOf(W, t) = ActiveOf(sold, t)
  BY <1>10 DEF ActiveOf, Active, RowsOf
<1>12. PICK A : A = ActiveOf(W, s)
  OBVIOUS
<1>13. \A i : TotalOf(A, i) = LineKilos(j.form, i)
  <2>1. \A r \in RowsOf(sold, s) : r.id \in Ids(j.lines)
    BY <1>2, <1>7 DEF SaleFits
  <2> QED
    BY <1>3, <1>5, <1>12, <2>1, SavedDocument
<1>14. PICK U : U = SoldLines'
  OBVIOUS
<1>15. PICK B : B = SoldBut(s)
  OBVIOUS
<1>16. PICK O : O = Active(ordered)
  OBVIOUS
<1>17. PICK S : S = SoldLines
  OBVIOUS
<1>18. Rows(U) /\ Rows(A)
  <2>1. U \subseteq W /\ A \subseteq W
    BY <1>6, <1>12, <1>14 DEF SoldLines, ActiveOf, Active, RowsOf
  <2> QED
    BY <1>10, <2>1, TableParts
<1>19. Rows(B) /\ Rows(O) /\ Rows(S)
  BY <1>15, <1>16, <1>17, InForceAreRows
<1>20. \A t \in Serials \ {s} : t \in ActiveSales' <=> t \in ActiveSales
  BY <1>8 DEF ActiveSales, Live
<1>21. \A r \in W : r.doc \in Serials
  <2>1. \A r \in sold : r.doc \in Serials
    BY DEF TInv, DataOK
  <2> QED
    BY <1>5, <1>10, <2>1
<1>22. {r \in U : r.doc # s} = B
  <2>1. ASSUME NEW r \in U, r.doc # s PROVE r \in B
    BY <1>6, <1>10, <1>14, <1>15, <1>20, <1>21, <2>1 DEF SoldLines, SoldBut, Active
  <2>2. ASSUME NEW r \in B PROVE r \in U /\ r.doc # s
    BY <1>6, <1>10, <1>14, <1>15, <1>20, <1>21, <2>2 DEF SoldLines, SoldBut, Active
  <2> QED
    BY <2>1, <2>2
<1>23. ASSUME NEW i \in Products PROVE TotalOf(U, i) <= TotalOf(O, i)
  <2>1. TotalOf(O, i) \in Nat /\ TotalOf(B, i) \in Nat /\ TotalOf(S, i) \in Nat
    BY <1>19, TotalIsNatural
  <2>2. CASE s \in ActiveSales'
    <3>1. A = {r \in U : r.doc = s}
      BY <1>6, <1>12, <1>14, <2>2 DEF SoldLines, ActiveOf, Active, RowsOf
    <3>2. A \subseteq U /\ B = U \ A
      BY <1>22, <3>1
    <3>3. TotalOf(U, i) = TotalOf(A, i) + TotalOf(B, i)
      <4>1. Rows(U)
        BY <1>18
      <4>2. PICK Q : Q = U \ A
        OBVIOUS
      <4>3. TotalOf(U, i) = TotalOf(A, i) + TotalOf(Q, i)
        BY <3>2, <4>1, <4>2, TotalOfParts
      <4> QED
        BY <3>2, <4>2, <4>3
    <3>4. j.linked /\ (sales[s] = NoRow \/ Live(sales, s))
      BY <1>9, <2>2 DEF ActiveSales, Live
    <3>5. TotalOf(B, i) + LineKilos(j.form, i) <= TotalOf(O, i)
      BY <1>2, <1>7, <1>15, <1>16, <3>4 DEF SaleFits
    <3>6. TotalOf(A, i) \in Nat
      BY <1>18, TotalIsNatural
    <3> QED
      BY <1>13, <2>1, <3>3, <3>5, <3>6
  <2>3. CASE s \notin ActiveSales'
    <3>1. U = B
      BY <1>14, <1>22, <2>3 DEF SoldLines
    <3>2. B \subseteq S
      BY <1>15, <1>17 DEF SoldBut
    <3>3. TotalOf(B, i) <= TotalOf(S, i)
      BY <1>19, <3>2, TotalGrows
    <3>4. TotalOf(S, i) <= TotalOf(O, i)
      BY <1>16, <1>17 DEF Orderly, Nested
    <3> QED
      BY <2>1, <3>1, <3>3, <3>4
  <2> QED
    BY <2>2, <2>3
<1>24. \A t : ReturnsOn(t)' = ReturnsOn(t)
  BY <1>6 DEF ReturnsOn, Live, Active
<1>25. ASSUME NEW t \in Serials, Live(sales, t)', NEW i \in Products
       PROVE  TotalOf(ReturnsOn(t), i) <= TotalOf(ActiveOf(W, t), i)
  <2>1. CASE t # s
    <3>1. Live(sales, t)
      BY <1>8, <1>25, <2>1 DEF Live
    <3>2. TotalOf(ReturnsOn(t), i) <= TotalOf(ActiveOf(sold, t), i)
      BY <3>1 DEF Orderly, Nested
    <3> QED
      BY <1>11, <2>1, <3>2
  <2>2. CASE t = s
    <3>1. PICK R : R = ReturnsOn(s)
      OBVIOUS
    <3>2. Rows(R)
      BY <3>1, InForceAreRows
    <3>3. TotalOf(A, i) \in Nat
      BY <1>18, TotalIsNatural
    <3>4. CASE Live(sales, s)
      BY <1>2, <1>7, <1>12, <1>13, <2>2, <3>4 DEF SaleFits
    <3>5. CASE sales[s] = NoRow
      <4>1. R = {}
        BY <3>1, <3>5 DEF ReturnsOn, Live, Active, TInv, DataOK
      <4>2. TotalOf(R, i) = 0
        BY <3>2, <4>1, NoneIsZero DEF Items
      <4> QED
        BY <1>12, <2>2, <3>1, <3>3, <4>2
    <3> QED
      BY <1>9, <1>25, <2>2, <3>4, <3>5
  <2> QED
    BY <2>1, <2>2
<1>26. Nested'
  <2>1. ASSUME NEW i \in Products PROVE (TotalOf(SoldLines, i) <= TotalOf(Active(ordered), i))'
    BY <1>6, <1>14, <1>16, <1>23
  <2>2. ASSUME NEW t \in Serials, Live(sales, t)', NEW i \in Products
        PROVE  (TotalOf(ReturnsOn(t), i) <= TotalOf(ActiveOf(sold, t), i))'
    BY <1>6, <1>24, <1>25, <2>2
  <2> QED
    BY <2>1, <2>2 DEF Nested
<1>27. ASSUME NEW q \in Procs, NEW h, NEW k, q # p, h = phase[q], k = job[q] PROVE Spares(h, k)
  <2>1. h \notin OrderPhases
    BY <1>4, <1>27 DEF Orderly, Apart, OrderPhases, SalePhases
  <2>2. h \in ReturnPhases => k.sale # s
    BY <1>1, <1>2, <1>4, <1>27 DEF Orderly, Apart, SalePhases
  <2>3. h \in {"return_header", "return_lines"} => ActiveOf(sold, k.sale)' = ActiveOf(sold, k.sale)
    BY <1>6, <1>11, <2>2, Classes
  <2>4. \A t, a : ReturnsBut(t, a)' = ReturnsBut(t, a)
    BY <1>24 DEF ReturnsBut
  <2>5. \A a : /\ ActiveOf(returned, a)' = ActiveOf(returned, a)
               /\ Live(returns, a)' <=> Live(returns, a)
    BY <1>6 DEF Live
  <2> QED
    BY <1>6, <2>1, <2>3, <2>4, <2>5, Classes DEF Spares
<1>28. Apart' /\ StillFits("idle", NoJob)'
  BY <1>6, EndsApart
<1> QED
  BY <1>6, <1>26, <1>27, <1>28, OrderlyWrite

\* A step that writes returns, and leaves the sales and the order request.
LEMMA ReturnsNested ==
  ASSUME TInv, Nested, UNCHANGED <<ordered, sales, sold>>,
         \A t \in Serials : Live(sales, t) =>
            \A i \in Products : TotalOf(ReturnsOn(t), i)' <= TotalOf(ActiveOf(sold, t), i)
  PROVE  Nested'
<1>1. ordered' = ordered /\ sales' = sales /\ sold' = sold
  OBVIOUS
<1>2. SoldLines' = SoldLines
  BY <1>1 DEF SoldLines, ActiveSales, Live, Active
<1>3. ASSUME NEW i \in Products PROVE (TotalOf(SoldLines, i) <= TotalOf(Active(ordered), i))'
  <2>1. TotalOf(SoldLines, i) <= TotalOf(Active(ordered), i)
    BY DEF Nested
  <2> QED
    BY <1>1, <1>2, <2>1
<1>4. ASSUME NEW t \in Serials, Live(sales, t)', NEW i \in Products
      PROVE  (TotalOf(ReturnsOn(t), i) <= TotalOf(ActiveOf(sold, t), i))'
  <2>1. Live(sales, t)
    BY <1>1, <1>4 DEF Live
  <2> QED
    BY <1>1, <2>1
<1> QED
  BY <1>3, <1>4 DEF Nested

\* The sales are spared, and so is every request on another sale.
LEMMA ReturnsSpare ==
  ASSUME UNCHANGED <<ordered, sales, sold>>, NEW ph, NEW j,
         ph \in SalePhases => ReturnsOn(j.target)' \subseteq ReturnsOn(j.target),
         ph \in {"return_header", "return_lines"} =>
            /\ ReturnsOn(j.sale)' \subseteq ReturnsOn(j.sale)
            /\ ActiveOf(returned, j.target)' \subseteq ActiveOf(returned, j.target),
         ph = "sale_delete" =>
            \A a \in Serials : Live(returns, a)' /\ returns'[a].sale = j.target =>
                Live(returns, a) /\ returns[a].sale = j.target
  PROVE  Spares(ph, j)
<1>1. ordered' = ordered /\ sales' = sales /\ sold' = sold
  OBVIOUS
<1>2. SoldLines' = SoldLines /\ ActiveSales' = ActiveSales
  BY <1>1 DEF SoldLines, ActiveSales, Live, Active
<1>3. \A s : SoldBut(s)' = SoldBut(s)
  BY <1>2 DEF SoldBut
<1>4. \A s : /\ Live(sales, s)' <=> Live(sales, s)
             /\ RowsOf(sold, s)' = RowsOf(sold, s)
             /\ ActiveOf(sold, s)' = ActiveOf(sold, s)
  BY <1>1 DEF Live
<1>5. ph \in {"return_header", "return_lines"} =>
         ReturnsBut(j.sale, j.target)' \subseteq ReturnsBut(j.sale, j.target)
  BY DEF ReturnsBut
<1> QED
  BY <1>1, <1>2, <1>3, <1>4, <1>5 DEF Spares

\* Returns are taken away.
ReturnsLessen ==
    /\ \A t : ReturnsOn(t)' \subseteq ReturnsOn(t)
    /\ \A a : ActiveOf(returned, a)' \subseteq ActiveOf(returned, a)
    /\ \A a \in Serials : Live(returns, a)' => Live(returns, a) /\ returns'[a].sale = returns[a].sale

LEMMA ReturnsLessenOrderly ==
  ASSUME TInv, Orderly, UNCHANGED <<ordered, sales, sold>>, ReturnsLessen,
         NEW p \in Procs, NEW ph, NEW j,
         phase' = [phase EXCEPT ![p] = ph], job' = [job EXCEPT ![p] = j],
         Apart', StillFits(ph, j)'
  PROVE  Orderly'
<1>1. ASSUME NEW t \in Serials, Live(sales, t), NEW i \in Products
      PROVE  TotalOf(ReturnsOn(t), i)' <= TotalOf(ActiveOf(sold, t), i)
  <2>1. PICK R : R = ReturnsOn(t)
    OBVIOUS
  <2>2. PICK Q : Q = ReturnsOn(t)'
    OBVIOUS
  <2>3. Q \subseteq R /\ Rows(R) /\ Rows(ActiveOf(sold, t))
    BY <2>1, <2>2, InForceAreRows DEF ReturnsLessen
  <2>4. TotalOf(Q, i) <= TotalOf(R, i) /\ TotalOf(Q, i) \in Nat /\ TotalOf(R, i) \in Nat
    BY <2>3, TotalGrows
  <2>5. PICK A : A = ActiveOf(sold, t)
    OBVIOUS
  <2>6. TotalOf(R, i) <= TotalOf(A, i) /\ TotalOf(A, i) \in Nat
    BY <1>1, <2>1, <2>3, <2>5, TotalIsNatural DEF Orderly, Nested
  <2>7. TotalOf(Q, i) <= TotalOf(A, i)
    BY <2>4, <2>6
  <2> QED
    BY <2>2, <2>5, <2>7
<1>2. Nested'
  BY <1>1, ReturnsNested DEF Orderly
<1>3. ASSUME NEW q \in Procs, NEW h, NEW k, q # p, h = phase[q], k = job[q] PROVE Spares(h, k)
  <2>1. \A t : ReturnsOn(t)' \subseteq ReturnsOn(t)
    BY DEF ReturnsLessen
  <2>2. \A a : ActiveOf(returned, a)' \subseteq ActiveOf(returned, a)
    BY DEF ReturnsLessen
  <2>3. \A a \in Serials : Live(returns, a)' /\ returns'[a].sale = k.target =>
            Live(returns, a) /\ returns[a].sale = k.target
    BY DEF ReturnsLessen
  <2> QED
    BY <2>1, <2>2, <2>3, ReturnsSpare
<1> QED
  BY <1>2, <1>3, OrderlyWrite

LEMMA DeleteReturnOrderly ==
  ASSUME TInv, Orderly, ~contended', NEW p \in Procs, NEW a \in Serials, DeleteReturn(p, a)
  PROVE  Orderly'
<1>1. PICK j : j = [n |-> NextSerial, target |-> a, sale |-> returns[a].sale,
                    form |-> {}, old |-> {}, net |-> 0]
  OBVIOUS
<1>2. PICK rivals : rivals = SavesOf(returns[a].sale) \cup ReturnWritesOn(returns[a].sale)
  OBVIOUS
<1>3. /\ Start(p, "return_delete", j, rivals)
      /\ returns' = [returns EXCEPT ![a].active = FALSE] /\ returned' = returned
      /\ UNCHANGED <<ordered, sales, sold>>
      /\ returns[a] # NoRow
  BY <1>1, <1>2 DEF DeleteReturn
<1>4. phase' = [phase EXCEPT ![p] = "return_delete"] /\ job' = [job EXCEPT ![p] = j]
  BY <1>3 DEF Start
<1>5. /\ returns \in [Serials -> Return \cup {NoRow}] /\ returns[a] \in Return
      /\ \A r \in returned : r.doc \in Serials
  BY <1>3 DEF TInv, DataOK
<1>6. /\ \A b \in Serials : b # a => returns'[b] = returns[b]
      /\ ~returns'[a].active
  <2>1. PICK x : x = [returns[a] EXCEPT !.active = FALSE]
    OBVIOUS
  <2>2. ~x.active
    BY <1>5, <2>1 DEF Return
  <2>3. returns' = [returns EXCEPT ![a] = x]
    BY <1>3, <2>1
  <2> QED
    BY <1>5, <2>2, <2>3
<1>7. \A b \in Serials : Live(returns, b)' => Live(returns, b) /\ returns'[b].sale = returns[b].sale
  BY <1>6 DEF Live
<1>8. \A t : ReturnsOn(t)' \subseteq ReturnsOn(t)
  BY <1>3, <1>5, <1>7 DEF ReturnsOn, Active
<1>9. ReturnsLessen
  BY <1>3, <1>7, <1>8 DEF ReturnsLessen
<1>10. j.sale = returns[a].sale
  BY <1>1
<1>11. \A q \in Procs :
          /\ phase[q] \in ReturnPhases /\ job[q].sale = j.sale => q \in rivals
          /\ phase[q] \in SalePhases /\ job[q].target = j.sale => q \in rivals
  <2>1. PICK t : t = returns[a].sale
    OBVIOUS
  <2>2. rivals = SavesOf(t) \cup ReturnWritesOn(t) /\ j.sale = t
    BY <1>2, <1>10, <2>1
  <2> QED
    BY <2>2, SlotSets
<1>12. /\ "return_delete" \in Phases /\ "return_delete" \notin SalePhases
       /\ "return_delete" \notin OrderPhases
  BY DEF Phases, SavePhases, SalePhases, OrderPhases, RequestPhases, RequestDeletes, ReturnPhases
<1>13. Apart
  BY DEF Orderly
<1>14. Apart'
  BY <1>3, <1>11, <1>12, <1>13, ApartBegins
<1>15. StillFits("return_delete", j)'
  BY DEF StillFits, SalePhases, RequestPhases, RequestDeletes
<1> QED
  BY <1>3, <1>4, <1>9, <1>14, <1>15, ReturnsLessenOrderly

LEMMA DeleteReturnLinesOrderly ==
  ASSUME TInv, Orderly, NEW p \in Procs, DeleteReturnLines(p)
  PROVE  Orderly'
<1>1. PICK j : j = job[p]
  OBVIOUS
<1>2. phase[p] = "return_delete" /\ ReturnJob("return_delete", j)
  BY <1>1 DEF DeleteReturnLines, TInv, SlotsOK, JobOK, ReturnPhases
<1>3. PICK D : D = {r \in returned : r.doc = j.target}
  OBVIOUS
<1>4. PICK W : W = Without(returned, D)
  OBVIOUS
<1>5. /\ phase' = [phase EXCEPT ![p] = "return_lines"] /\ job' = [job EXCEPT ![p] = j]
      /\ returned' = W /\ returns' = returns /\ UNCHANGED <<ordered, sales, sold>>
  BY <1>1, <1>3, <1>4 DEF DeleteReturnLines, Goto, Without
<1>6. \A w \in W : w.active => w \in returned
  BY <1>4, Struck DEF TInv, DataOK
<1>7. ReturnsLessen
  BY <1>5, <1>6 DEF ReturnsLessen, ReturnsOn, ActiveOf, Active, RowsOf, Live
<1>8. j.form = {} /\ j.old = {}
  BY <1>2 DEF ReturnJob
<1>9. StillFits("return_lines", j)'
  BY <1>8 DEF StillFits, ReturnStillFits, Items, SalePhases, RequestPhases, RequestDeletes
<1>10. /\ "return_lines" \notin OrderPhases /\ "return_lines" \notin SalePhases
       /\ phase[p] \in ReturnPhases /\ j.sale = job[p].sale
  BY <1>1, <1>2 DEF ReturnPhases, OrderPhases, SalePhases, RequestPhases, RequestDeletes
<1>11. Apart
  BY DEF Orderly
<1>12. Apart'
  BY <1>5, <1>8, <1>10, <1>11, ApartGoesOn
<1> QED
  BY <1>5, <1>7, <1>9, <1>12, ReturnsLessenOrderly

LEMMA ReturnHeaderOrderly ==
  ASSUME TInv, Orderly, NEW p \in Procs, ReturnHeader(p)
  PROVE  Orderly'
<1>1. PICK j : j = job[p]
  OBVIOUS
<1>2. phase[p] = "return_header" /\ ReturnJob("return_header", j)
  BY <1>1 DEF ReturnHeader, TInv, SlotsOK, JobOK, ReturnPhases
<1>3. PICK k : k = [j EXCEPT !.old = RowsOf(returned, j.target)]
  OBVIOUS
<1>4. /\ phase' = [phase EXCEPT ![p] = "return_lines"] /\ job' = [job EXCEPT ![p] = k]
      /\ returns' = [returns EXCEPT ![j.target] =
             IF @ = NoRow THEN [sale |-> j.sale, active |-> TRUE] ELSE @]
      /\ returned' = returned /\ UNCHANGED <<ordered, sales, sold>>
  BY <1>1, <1>3 DEF ReturnHeader, Goto
<1>5. /\ k.target = j.target /\ k.sale = j.sale /\ k.form = j.form
      /\ k.old = RowsOf(returned, j.target)
  BY <1>2, <1>3 DEF ReturnJob
<1>6. /\ \A b \in Serials : b # j.target => returns'[b] = returns[b]
      /\ returns[j.target] # NoRow => returns'[j.target] = returns[j.target]
      /\ returns[j.target] = NoRow => returns'[j.target].sale = j.sale
      /\ j.target \in Serials
  BY <1>2, <1>4 DEF ReturnJob, TInv, DataOK
<1>7. \A t : ReturnsOn(t)' = ReturnsOn(t)
  <2>1. \A r \in returned : returns'[r.doc] = returns[r.doc]
    BY <1>6 DEF TInv, DataOK
  <2> QED
    BY <1>4, <2>1 DEF ReturnsOn, Live, Active
<1>8. \A t \in Serials : Live(sales, t) =>
         \A i \in Products : TotalOf(ReturnsOn(t), i)' <= TotalOf(ActiveOf(sold, t), i)
  <2>1. ASSUME NEW t \in Serials, Live(sales, t), NEW i \in Products
        PROVE  TotalOf(ReturnsOn(t), i)' <= TotalOf(ActiveOf(sold, t), i)
    <3>1. TotalOf(ReturnsOn(t), i) <= TotalOf(ActiveOf(sold, t), i)
      BY <2>1 DEF Orderly, Nested
    <3> QED
      BY <1>7, <3>1
  <2> QED
    BY <2>1
<1>9. Nested'
  BY <1>4, <1>8, ReturnsNested DEF Orderly
<1>10. Apart
  BY DEF Orderly
<1>11. ASSUME NEW q \in Procs, NEW h, NEW l, q # p, h = phase[q], l = job[q] PROVE Spares(h, l)
  <2>1. ASSUME h = "sale_delete", NEW a \in Serials, Live(returns, a)', returns'[a].sale = l.target
        PROVE  Live(returns, a) /\ returns[a].sale = l.target
    <3>1. l.target # j.sale
      BY <1>1, <1>2, <1>10, <1>11, <2>1 DEF Apart
    <3>2. returns'[a] = returns[a]
      BY <1>6, <2>1, <3>1
    <3> QED
      BY <2>1, <3>2 DEF Live
  <2>2. ReturnsOn(l.target)' \subseteq ReturnsOn(l.target)
    BY <1>7
  <2>3. /\ ReturnsOn(l.sale)' \subseteq ReturnsOn(l.sale)
        /\ ActiveOf(returned, l.target)' \subseteq ActiveOf(returned, l.target)
    BY <1>4, <1>7
  <2> QED
    BY <1>4, <2>1, <2>2, <2>3, ReturnsSpare
<1>12. ReturnStillFits("return_header", j)
  BY <1>1, <1>2 DEF Orderly, StillFits
<1>13. \A r \in ActiveOf(returned, j.target) : r.id \in Ids(k.old)
  <2>1. RowsOf(returned, j.target) \subseteq Row
    BY DEF RowsOf, TInv, DataOK, TableOK
  <2>2. PICK R : R = RowsOf(returned, j.target)
    OBVIOUS
  <2>3. \A r \in R : r.id \in Ids(R)
    BY <2>1, <2>2, IdsOfRows
  <2> QED
    BY <1>5, <2>2, <2>3 DEF ActiveOf, Active
<1>14. ReturnsBut(j.sale, j.target)' = ReturnsBut(j.sale, j.target)
  BY <1>7 DEF ReturnsBut
<1>15. ReturnStillFits("return_lines", k)'
  BY <1>4, <1>5, <1>12, <1>13, <1>14 DEF ReturnStillFits
<1>16. StillFits("return_lines", k)'
  BY <1>15 DEF StillFits, SalePhases, RequestPhases, RequestDeletes
<1>17. /\ "return_lines" \notin OrderPhases /\ "return_lines" \notin SalePhases
       /\ phase[p] \in ReturnPhases /\ k.sale = job[p].sale
  BY <1>1, <1>2, <1>5 DEF ReturnPhases, OrderPhases, SalePhases, RequestPhases, RequestDeletes
<1>18. Apart'
  BY <1>2, <1>4, <1>10, <1>17, ApartGoesOn
<1> QED
  BY <1>4, <1>9, <1>11, <1>16, <1>18, OrderlyWrite

\* One line of a return is written: it takes the place of the active row of its
\* item, and what comes back stays within what was validated.
LEMMA ReturnLineWritten ==
  ASSUME TInv, NEW j, ReturnJob("return_lines", j), ReturnStillFits("return_lines", j),
         NEW d, d \subseteq j.old, NEW f, f \subseteq j.form,
         WriteOK(returned, started, d, f, j.target, j.n),
         f # {} => Removed(j.old, j.form) = {} /\ \E l \in j.form : f = {l},
         NEW W, W = Saved(returned, d, f, j.target, j.n)
  PROVE  /\ \A v \in ActiveOf(W, j.target) :
               \/ \E l \in f : Shows(v, l, j.target, j.n)
               \/ v \in returned /\ v.id \notin Ids(d)
         /\ \A l \in f : \A v \in ActiveOf(W, j.target) :
               v.item = l.item => Shows(v, l, j.target, j.n)
<1>1. \A v \in W : v.active /\ v.doc = j.target =>
          \/ \E l \in f : Shows(v, l, j.target, j.n)
          \/ v \in returned /\ v.id \notin Ids(d)
  BY SavedRows
<1>2. ASSUME NEW v \in ActiveOf(W, j.target)
      PROVE  \/ \E l \in f : Shows(v, l, j.target, j.n)
             \/ v \in returned /\ v.id \notin Ids(d)
  BY <1>1 DEF ActiveOf, Active, RowsOf
<1>3. /\ FormOK(j.form, RowsOf(returned, j.target))
      /\ \A m, l \in j.form : m.item = l.item => m = l
  BY DEF ReturnJob, FormOK
<1>4. ASSUME NEW l \in f, NEW v \in ActiveOf(W, j.target), v.item = l.item
      PROVE  Shows(v, l, j.target, j.n)
  <2>1. CASE \E m \in f : Shows(v, m, j.target, j.n)
    BY <1>3, <1>4, <2>1 DEF Shows
  <2>2. CASE v \in returned /\ v.id \notin Ids(d)
    <3>1. v \in ActiveOf(returned, j.target)
      BY <2>2 DEF ActiveOf, Active, RowsOf
    <3>2. v.item \in Items(j.form)
      BY <1>4 DEF Items
    <3>3. v.id \in Ids(j.old)
      BY <3>1, <3>2 DEF ReturnStillFits
    <3>4. PICK q \in j.old : q.id = v.id /\ v.id # NoId
      BY <3>3 DEF Ids
    <3>5. q \notin Removed(j.old, j.form)
      BY <1>4
    <3>6. v.id \in Ids(j.form)
      BY <3>4, <3>5 DEF Removed
    <3>7. PICK m \in j.form : m.id = v.id
      BY <3>6 DEF Ids
    <3>8. m.item = v.item
      <4>1. m.id[2] = m.item
        BY <1>3, <3>4, <3>7 DEF FormOK
      <4>2. v.id[2] = v.item
        BY <2>2 DEF TInv, DataOK, TableOK
      <4> QED
        BY <3>7, <4>1, <4>2
    <3>9. m = l
      BY <1>3, <1>4, <3>7, <3>8
    <3>10. l.id \in Ids(d)
      BY <3>4, <3>7, <3>9 DEF WriteOK
    <3> QED
      BY <2>2, <3>7, <3>9, <3>10
  <2> QED
    BY <1>2, <2>1, <2>2
<1> QED
  BY <1>2, <1>4

LEMMA ReturnLineOrderly ==
  ASSUME TInv, Orderly, NEW p \in Procs, ReturnLine(p)
  PROVE  Orderly'
<1>1. PICK j : j = job[p]
  OBVIOUS
<1>2. phase[p] = "return_lines" /\ ReturnJob("return_lines", j)
  BY <1>1 DEF ReturnLine, TInv, SlotsOK, JobOK, ReturnPhases
<1>3. PICK w \in NextWrites(j.old, j.form) :
         /\ returned' = Saved(returned, w[1], w[2], j.target, j.n)
         /\ Goto(p, "return_lines", [j EXCEPT !.old = @ \ w[1], !.form = @ \ w[2]])
  BY <1>1 DEF ReturnLine
<1>4. PICK d : d = w[1]
  OBVIOUS
<1>5. PICK f : f = w[2]
  OBVIOUS
<1>6. PICK k : k = [j EXCEPT !.old = @ \ d, !.form = @ \ f]
  OBVIOUS
<1>7. PICK W : W = Saved(returned, d, f, j.target, j.n)
  OBVIOUS
<1>8. /\ phase' = [phase EXCEPT ![p] = "return_lines"] /\ job' = [job EXCEPT ![p] = k]
      /\ returned' = W /\ returns' = returns /\ UNCHANGED <<ordered, sales, sold>>
  BY <1>3, <1>4, <1>5, <1>6, <1>7 DEF ReturnLine, Goto
<1>9. /\ k.target = j.target /\ k.sale = j.sale
      /\ k.old = j.old \ d /\ k.form = j.form \ f
  BY <1>2, <1>6 DEF ReturnJob
<1>10. /\ WriteOK(returned, started, d, f, j.target, j.n)
       /\ d \subseteq j.old /\ f \subseteq j.form
       /\ f # {} => Removed(j.old, j.form) = {} /\ \E l \in j.form : f = {l}
  <2>1. /\ WriteOK(returned, started, w[1], w[2], j.target, j.n)
        /\ w[1] \subseteq j.old /\ w[2] \subseteq j.form
        /\ w[2] # {} => Removed(j.old, j.form) = {} /\ \E l \in j.form : w[2] = {l}
    BY <1>1, <1>2, ReturnLineWrite
  <2> QED
    BY <1>4, <1>5, <2>1
<1>11. ReturnStillFits("return_lines", j)
  BY <1>1, <1>2 DEF Orderly, StillFits
<1>12. /\ \A v \in ActiveOf(W, j.target) :
             \/ \E l \in f : Shows(v, l, j.target, j.n)
             \/ v \in returned /\ v.id \notin Ids(d)
       /\ \A l \in f : \A v \in ActiveOf(W, j.target) :
             v.item = l.item => Shows(v, l, j.target, j.n)
  BY <1>2, <1>7, <1>10, <1>11, ReturnLineWritten
<1>13. /\ TableOK(W, started)
       /\ \A r \in returned : r.doc # j.target => r \in W
       /\ \A v \in W : v.doc # j.target => v \in returned
  BY <1>7, <1>10, SavedRows
<1>14. /\ returns[j.target] # NoRow /\ returns[j.target].sale = j.sale /\ j.sale \in Serials
       /\ FormOK(j.form, RowsOf(returned, j.target))
       /\ \A m, l \in j.form : m.item = l.item => m = l
  BY <1>2 DEF ReturnJob, FormOK
<1>15. ASSUME NEW t, t # j.sale PROVE ReturnsOn(t)' = ReturnsOn(t)
  <2>1. ReturnsOn(t)' = {r \in Active(W) : Live(returns, r.doc) /\ returns[r.doc].sale = t}
    BY <1>8 DEF ReturnsOn, Live
  <2> QED
    BY <1>13, <1>14, <1>15, <2>1 DEF ReturnsOn, Active
<1>16. PICK N : N = ReturnsOn(j.sale)'
  OBVIOUS
<1>17. N = {r \in Active(W) : Live(returns, r.doc) /\ returns[r.doc].sale = j.sale}
  BY <1>8, <1>16 DEF ReturnsOn, Live
<1>18. PICK B : B = ReturnsBut(j.sale, j.target)
  OBVIOUS
<1>19. B = {r \in N : r.doc # j.target}
  BY <1>13, <1>17, <1>18 DEF ReturnsBut, ReturnsOn, Active
<1>20. B = ReturnsBut(j.sale, j.target)'
  BY <1>16, <1>19 DEF ReturnsBut
<1>21. Rows(N) /\ Rows(B)
  <2>1. N \subseteq W
    BY <1>17 DEF Active
  <2> QED
    BY <1>13, <1>18, <2>1, TableParts, InForceAreRows
<1>22. PICK A : A = ActiveOf(sold, j.sale)
  OBVIOUS
<1>23. \A i : TotalOf(A, i) \in Nat
  BY <1>22, InForceAreRows, TotalIsNatural
<1>24. ASSUME Live(sales, j.sale), NEW i \in Products PROVE TotalOf(N, i) <= TotalOf(A, i)
  <2>1. ASSUME NEW l \in f, l.item = i PROVE TotalOf(N, i) <= TotalOf(A, i)
    <3>1. PICK M : M = {r \in N : r.doc = j.target}
      OBVIOUS
    <3>2. M \subseteq N /\ B = N \ M
      BY <1>19, <3>1
    <3>3. TotalOf(N, i) = TotalOf(M, i) + TotalOf(B, i)
      <4>1. Rows(N)
        BY <1>21
      <4>2. PICK Q : Q = N \ M
        OBVIOUS
      <4>3. TotalOf(N, i) = TotalOf(M, i) + TotalOf(Q, i)
        BY <3>2, <4>1, <4>2, TotalOfParts
      <4> QED
        BY <3>2, <4>2, <4>3
    <3>4. Rows(M)
      BY <1>21, <3>2, FS_Subset DEF Rows
    <3>5. l \in j.form /\ i \in Items(j.form)
      BY <1>10, <2>1 DEF Items
    <3>6. LineKilos(j.form, i) = l.amount
      BY <1>14, <2>1, <3>5, LineOfItem
    <3>7. LineKilos(j.form, i) \in Nat
      BY <1>14, KilosAreNatural
    <3>8. \A v \in M : v \in ActiveOf(W, j.target)
      BY <1>17, <3>1 DEF ActiveOf, Active, RowsOf
    <3>9. \A v \in M : v.item = i => Shows(v, l, j.target, j.n)
      BY <1>12, <2>1, <3>8
    <3>10. TotalOf(M, i) <= LineKilos(j.form, i) /\ TotalOf(M, i) \in Nat
      <4>1. CASE \A v \in M : v.item # i
        BY <3>4, <3>7, <4>1, TotalOfFew
      <4>2. ASSUME NEW v \in M, v.item = i
            PROVE  TotalOf(M, i) <= LineKilos(j.form, i) /\ TotalOf(M, i) \in Nat
        <5>1. v.amount = l.amount /\ v.id = IdOf(l, j.n) /\ v \in W
          BY <3>8, <3>9, <4>2 DEF Shows, ActiveOf, Active, RowsOf
        <5>2. ASSUME NEW u \in M, u.item = i PROVE u = v
          <6>1. u.id = IdOf(l, j.n) /\ u \in W
            BY <3>8, <3>9, <5>2 DEF Shows, ActiveOf, Active, RowsOf
          <6> QED
            BY <1>13, <5>1, <6>1 DEF TableOK
        <5>3. TotalOf(M, i) = v.amount
          BY <3>4, <4>2, <5>2, TotalOfFew
        <5> QED
          BY <3>6, <3>7, <5>1, <5>3
      <4> QED
        BY <4>1, <4>2
    <3>11. LineKilos(j.form, i) + TotalOf(B, i) <= TotalOf(A, i)
      BY <1>11, <1>18, <1>22, <3>5 DEF ReturnStillFits
    <3>12. TotalOf(B, i) \in Nat
      BY <1>21, TotalIsNatural
    <3> QED
      BY <1>23, <3>3, <3>7, <3>10, <3>11, <3>12
  <2>2. ASSUME \A l \in f : l.item # i PROVE TotalOf(N, i) <= TotalOf(A, i)
    <3>1. PICK R : R = ReturnsOn(j.sale)
      OBVIOUS
    <3>2. Rows(R)
      BY <3>1, InForceAreRows
    <3>3. ASSUME NEW v \in N, v.item = i PROVE v \in R
      <4>1. v \in W /\ v.active /\ Live(returns, v.doc) /\ returns[v.doc].sale = j.sale
        BY <1>17, <3>3 DEF Active
      <4>2. CASE v.doc # j.target
        BY <1>13, <3>1, <4>1, <4>2 DEF ReturnsOn, Active
      <4>3. CASE v.doc = j.target
        <5>1. v \in ActiveOf(W, j.target)
          BY <4>1, <4>3 DEF ActiveOf, Active, RowsOf
        <5>2. v \in returned
          BY <1>12, <2>2, <3>3, <5>1 DEF Shows
        <5> QED
          BY <3>1, <4>1, <5>2 DEF ReturnsOn, Active
      <4> QED
        BY <4>2, <4>3
    <3>4. TotalOf(N, i) <= TotalOf(R, i) /\ TotalOf(N, i) \in Nat /\ TotalOf(R, i) \in Nat
      BY <1>21, <3>2, <3>3, TotalWithin
    <3>5. TotalOf(R, i) <= TotalOf(A, i)
      BY <1>14, <1>22, <1>24, <3>1 DEF Orderly, Nested
    <3> QED
      BY <1>23, <3>4, <3>5
  <2> QED
    BY <2>1, <2>2
<1>25. ASSUME NEW t \in Serials, Live(sales, t), NEW i \in Products
       PROVE  TotalOf(ReturnsOn(t), i)' <= TotalOf(ActiveOf(sold, t), i)
  <2>1. CASE t = j.sale
    BY <1>16, <1>22, <1>24, <1>25, <2>1
  <2>2. CASE t # j.sale
    <3>1. TotalOf(ReturnsOn(t), i) <= TotalOf(ActiveOf(sold, t), i)
      BY <1>25 DEF Orderly, Nested
    <3> QED
      BY <1>15, <2>2, <3>1
  <2> QED
    BY <2>1, <2>2
<1>26. Nested'
  BY <1>8, <1>25, ReturnsNested DEF Orderly
<1>27. Apart
  BY DEF Orderly
<1>28. ASSUME NEW q \in Procs, NEW h, NEW l, q # p, h = phase[q], l = job[q] PROVE Spares(h, l)
  <2>1. h \in SalePhases => l.target # j.sale
    BY <1>1, <1>2, <1>27, <1>28, Classes DEF Apart
  <2>2. h \in ReturnPhases => l.sale # j.sale
    BY <1>1, <1>2, <1>27, <1>28, Classes DEF Apart
  <2>3. JobOK(h, l)
    BY <1>28 DEF TInv, SlotsOK
  <2>4. ASSUME h \in {"return_header", "return_lines"}
        PROVE  ActiveOf(returned, l.target)' \subseteq ActiveOf(returned, l.target)
    <3>1. l.target # j.target
      BY <1>14, <2>2, <2>3, <2>4, Classes DEF JobOK, ReturnJob
    <3> QED
      BY <1>8, <1>13, <3>1 DEF ActiveOf, Active, RowsOf
  <2>5. h \in SalePhases => ReturnsOn(l.target)' \subseteq ReturnsOn(l.target)
    BY <1>15, <2>1
  <2>6. h \in {"return_header", "return_lines"} => ReturnsOn(l.sale)' \subseteq ReturnsOn(l.sale)
    BY <1>15, <2>2, Classes
  <2>7. \A a \in Serials : Live(returns, a)' /\ returns'[a].sale = l.target =>
            Live(returns, a) /\ returns[a].sale = l.target
    BY <1>8 DEF Live
  <2> QED
    BY <1>8, <2>4, <2>5, <2>6, <2>7, ReturnsSpare
<1>29. ReturnStillFits("return_lines", k)'
  <2>1. PICK form : form = j.form \ f
    OBVIOUS
  <2>2. ASSUME NEW i \in Items(form)
        PROVE  LineKilos(form, i) + TotalOf(B, i) <= TotalOf(A, i)
    <3>1. PICK l \in form : l.item = i
      BY <2>2 DEF Items
    <3>2. l \in j.form /\ i \in Items(j.form)
      BY <2>1, <3>1 DEF Items
    <3>3. LineKilos(j.form, i) = l.amount
      BY <1>14, <3>1, <3>2, LineOfItem
    <3>4. \A m \in form : m.item = l.item => m = l
      BY <1>14, <2>1, <3>2
    <3>5. LineKilos(form, i) = l.amount
      BY <3>1, <3>4, LineOfItem
    <3> QED
      BY <1>11, <1>18, <1>22, <3>2, <3>3, <3>5 DEF ReturnStillFits
  <2>3. ASSUME NEW v \in ActiveOf(W, j.target), v.item \in Items(form)
        PROVE  v.id \in Ids(j.old \ d)
    <3>1. PICK l \in form : l.item = v.item
      BY <2>3 DEF Items
    <3>2. l \in j.form /\ l \notin f
      BY <2>1, <3>1
    <3>3. ~\E m \in f : Shows(v, m, j.target, j.n)
      BY <1>10, <1>14, <3>1, <3>2 DEF Shows
    <3>4. v \in returned /\ v.id \notin Ids(d)
      BY <1>12, <3>3
    <3>5. v \in ActiveOf(returned, j.target) /\ v.item \in Items(j.form)
      BY <2>3, <3>1, <3>2, <3>4 DEF ActiveOf, Active, RowsOf, Items
    <3>6. v.id \in Ids(j.old)
      BY <1>11, <3>5 DEF ReturnStillFits
    <3> QED
      BY <3>4, <3>6 DEF Ids
  <2>4. k.form = form /\ k.old = j.old \ d
    BY <1>9, <2>1
  <2>5. A = ActiveOf(sold, j.sale)' /\ ActiveOf(returned, j.target)' = ActiveOf(W, j.target)
    BY <1>8, <1>22
  <2> QED
    BY <1>9, <1>20, <2>2, <2>3, <2>4, <2>5 DEF ReturnStillFits
<1>30. StillFits("return_lines", k)'
  BY <1>29 DEF StillFits, SalePhases, RequestPhases, RequestDeletes
<1>31. ~(j.form = {} /\ j.old = {})
  BY <1>3 DEF NextWrites, Removed, Created
<1>32. /\ "return_lines" \notin OrderPhases /\ "return_lines" \notin SalePhases
       /\ phase[p] \in ReturnPhases /\ k.sale = job[p].sale
  BY <1>1, <1>2, <1>9 DEF ReturnPhases, OrderPhases, SalePhases, RequestPhases, RequestDeletes
<1>33. Apart'
  BY <1>1, <1>2, <1>8, <1>27, <1>31, <1>32, ApartGoesOn
<1> QED
  BY <1>8, <1>26, <1>28, <1>30, <1>33, OrderlyWrite

LEMMA InitOrderly == SlotsInit /\ SalesInit => Orderly
<1> SUFFICES ASSUME SlotsInit, SalesInit PROVE Orderly
  OBVIOUS
<1>1. TInv
  BY InitTypes
<1>2. \A p \in Procs : phase[p] = "idle"
  BY DEF SlotsInit
<1>3. \A s \in Serials : sales[s] = NoRow /\ returns[s] = NoRow
  BY DEF SalesInit
<1>4. sold = {} /\ returned = {}
  BY DEF SalesInit
<1>5. SoldLines = {}
  BY <1>4 DEF SoldLines, Active
<1>6. Apart
  BY <1>2 DEF Apart, OrderPhases, SalePhases, RequestPhases, RequestDeletes, ReturnPhases
<1>7. \A p \in Procs : StillFits(phase[p], job[p])
  BY <1>2 DEF StillFits, SalePhases, RequestPhases, RequestDeletes
<1>8. Nested
  <2>1. PICK O : O = Active(ordered)
    OBVIOUS
  <2>2. Rows(O)
    BY <1>1, <2>1, InForceAreRows
  <2>3. \A i : TotalOf(O, i) \in Nat
    BY <2>2, TotalIsNatural
  <2>4. ASSUME NEW i PROVE TotalOf(SoldLines, i) = 0
    <3>1. Rows(SoldLines) /\ i \notin Items(SoldLines)
      BY <1>1, <1>5, InForceAreRows DEF Items
    <3> QED
      BY <3>1, NoneIsZero
  <2>5. \A i \in Products : TotalOf(SoldLines, i) <= TotalOf(Active(ordered), i)
    BY <2>1, <2>3, <2>4
  <2>6. \A s \in Serials : ~Live(sales, s)
    BY <1>3 DEF Live
  <2> QED
    BY <2>5, <2>6 DEF Nested
<1> QED
  BY <1>6, <1>7, <1>8 DEF Orderly

\* Rivals that have overlapped stay in the history.
LEMMA RivalsStay ==
  ASSUME TInv, [SalesNext]_vars
  PROVE  contended => contended'
<1>1. ASSUME NEW p \in Procs, NEW ph, NEW j, NEW rivals, Start(p, ph, j, rivals)
      PROVE  contended => contended'
  BY <1>1 DEF Start
<1>2. ASSUME NEW p \in Procs, NEW ph, NEW j, Goto(p, ph, j) PROVE contended' = contended
  BY <1>2 DEF Goto
<1>3. CASE UNCHANGED vars
  BY <1>3 DEF vars, slotVars
<1>4. ASSUME NEW p \in Procs, NEW s \in Serials, NEW linked \in BOOLEAN,
             BeginSale(p, s, linked)
      PROVE  contended => contended'
  BY <1>1, <1>4 DEF BeginSale
<1>5. ASSUME NEW p \in Procs, NEW a \in Serials, NEW s \in Serials, BeginReturn(p, a, s)
      PROVE  contended => contended'
  BY <1>1, <1>5 DEF BeginReturn
<1>6. ASSUME NEW p \in Procs, BeginRequestSave(p) \/ BeginDeleteRequest(p)
      PROVE  contended => contended'
  BY <1>1, <1>6 DEF BeginRequestSave, BeginDeleteRequest
<1>7. ASSUME NEW p \in Procs, NEW s \in Serials, BeginDeleteSale(p, s) \/ DeleteReturn(p, s)
      PROVE  contended => contended'
  BY <1>1, <1>7 DEF BeginDeleteSale, DeleteReturn
<1>8. ASSUME NEW p \in Procs, NEW s \in Serials,
             UpdateOrderSaleStatus(p, s) \/ UpdateOrderRequestStatus(p)
      PROVE  contended' = contended
  BY <1>8 DEF UpdateOrderSaleStatus, UpdateOrderRequestStatus, Instant
<1>9. ASSUME NEW p \in Procs, UpdateOrderRequestStatus(p) PROVE contended' = contended
  BY <1>9 DEF UpdateOrderRequestStatus, Instant
<1>10. ASSUME NEW p \in Procs,
              SnapshotSale(p) \/ SnapshotRequest(p) \/ CommitSale(p) \/ CommitRequest(p)
       PROVE  contended' = contended
  BY <1>2, <1>10 DEF SnapshotSale, SnapshotRequest, CommitSale, CommitRequest, Finish
<1>11. ASSUME NEW p \in Procs, DeleteSaleLine(p) \/ DeleteSaleHeader(p)
       PROVE  contended' = contended
  BY <1>2, <1>11 DEF DeleteSaleLine, DeleteSaleHeader, Finish
<1>12. ASSUME NEW p \in Procs, DeleteRequestLines(p) \/ DeleteRequestHeader(p)
       PROVE  contended' = contended
  BY <1>2, <1>12 DEF DeleteRequestLines, DeleteRequestHeader, Finish
<1>13. ASSUME NEW p \in Procs, ReturnHeader(p) \/ ReturnLine(p) \/ DeleteReturnLines(p)
       PROVE  contended' = contended
  BY <1>2, <1>13 DEF ReturnHeader, ReturnLine, DeleteReturnLines
<1>14. ASSUME NEW p \in Procs, ReadNet(p) \/ WriteNet(p) PROVE contended' = contended
  BY <1>2, <1>14 DEF ReadNet, WriteNet, Finish
<1>15. ASSUME NEW p \in Procs, FailSale(p) PROVE contended' = contended
  BY <1>15 DEF FailSale, Fail
<1> QED
  BY <1>3, <1>4, <1>5, <1>6, <1>7, <1>8, <1>9, <1>10, <1>11, <1>12, <1>13, <1>14, <1>15
     DEF SalesNext

LEMMA StepOrderly ==
  ASSUME TInv, TInv', Orderly, ~contended', [SalesNext]_vars
  PROVE  Orderly'
<1>1. CASE UNCHANGED vars
  <2>1. /\ phase' = phase /\ job' = job /\ ordered' = ordered /\ sales' = sales
        /\ sold' = sold /\ returns' = returns /\ returned' = returned
    BY <1>1 DEF vars, slotVars, saleVars
  <2>2. Apart'
    BY <2>1 DEF Orderly, Apart
  <2>3. Nested'
    BY <2>1 DEF Orderly, Nested, SoldLines, ActiveSales, ReturnsOn, Live, Active, ActiveOf, RowsOf
  <2>4. \A p \in Procs : Spares(phase[p], job[p])
    BY <2>1 DEF Spares, SoldBut, SoldLines, ActiveSales, ReturnsBut, ReturnsOn, Live, Active,
                ActiveOf, RowsOf
  <2>5. ASSUME NEW p \in Procs PROVE StillFits(phase[p], job[p])'
    <3>1. PICK ph, j : ph = phase[p] /\ j = job[p]
      OBVIOUS
    <3>2. JobOK(ph, j) /\ StillFits(ph, j) /\ Spares(ph, j)
      BY <2>4, <3>1 DEF TInv, SlotsOK, Orderly
    <3>3. StillFits(ph, j)'
      BY <3>2, SparedStillFit
    <3> QED
      BY <2>1, <3>1, <3>3
  <2> QED
    BY <2>2, <2>3, <2>5 DEF Orderly
<1>2. ASSUME NEW p \in Procs, NEW s \in Serials, NEW linked \in BOOLEAN,
             BeginSale(p, s, linked)
      PROVE  Orderly'
  BY <1>2, BeginSaleOrderly
<1>3. ASSUME NEW p \in Procs, SnapshotSale(p) \/ SnapshotRequest(p) PROVE Orderly'
  BY <1>3, SnapshotOrderly
<1>4. ASSUME NEW p \in Procs, CommitSale(p) PROVE Orderly'
  BY <1>4, CommitSaleOrderly
<1>5. ASSUME NEW p \in Procs,
             (\E s \in Serials : UpdateOrderSaleStatus(p, s)) \/ UpdateOrderRequestStatus(p)
      PROVE  Orderly'
  BY <1>5, StatusOrderly
<1>6. ASSUME NEW p \in Procs, NEW s \in Serials, BeginDeleteSale(p, s) PROVE Orderly'
  BY <1>6, BeginDeleteSaleOrderly
<1>7. ASSUME NEW p \in Procs, DeleteSaleLine(p) PROVE Orderly'
  BY <1>7, DeleteSaleLineOrderly
<1>8. ASSUME NEW p \in Procs, DeleteSaleHeader(p) PROVE Orderly'
  BY <1>8, DeleteSaleHeaderOrderly
<1>9. ASSUME NEW p \in Procs, BeginRequestSave(p) PROVE Orderly'
  BY <1>9, BeginRequestOrderly
<1>10. ASSUME NEW p \in Procs, BeginDeleteRequest(p) PROVE Orderly'
  BY <1>10, BeginDeleteRequestOrderly
<1>11. ASSUME NEW p \in Procs, CommitRequest(p) PROVE Orderly'
  BY <1>11, CommitRequestOrderly
<1>12. ASSUME NEW p \in Procs, DeleteRequestLines(p) \/ DeleteRequestHeader(p) PROVE Orderly'
  BY <1>12, DeleteRequestOrderly
<1>13. ASSUME NEW p \in Procs, NEW a \in Serials, NEW s \in Serials, BeginReturn(p, a, s)
       PROVE  Orderly'
  BY <1>13, BeginReturnOrderly
<1>14. ASSUME NEW p \in Procs, ReturnHeader(p) PROVE Orderly'
  BY <1>14, ReturnHeaderOrderly
<1>15. ASSUME NEW p \in Procs, ReturnLine(p) PROVE Orderly'
  BY <1>15, ReturnLineOrderly
<1>16. ASSUME NEW p \in Procs, ReadNet(p) PROVE Orderly'
  BY <1>16, ReadNetOrderly
<1>17. ASSUME NEW p \in Procs, WriteNet(p) PROVE Orderly'
  BY <1>17, WriteNetOrderly
<1>18. ASSUME NEW p \in Procs, NEW a \in Serials, DeleteReturn(p, a) PROVE Orderly'
  BY <1>18, DeleteReturnOrderly
<1>19. ASSUME NEW p \in Procs, DeleteReturnLines(p) PROVE Orderly'
  BY <1>19, DeleteReturnLinesOrderly
<1>20. ASSUME NEW p \in Procs, FailSale(p) PROVE Orderly'
  BY <1>20, FailOrderly
<1> QED
  BY <1>1, <1>2, <1>3, <1>4, <1>5, <1>6, <1>7, <1>8, <1>9, <1>10, <1>11, <1>12, <1>13, <1>14,
     <1>15, <1>16, <1>17, <1>18, <1>19, <1>20 DEF SalesNext

\* Unless rivals overlapped, no product is sold beyond the order request nor comes
\* back beyond its sale: each save validates against documents that nobody but a
\* rival may change before it writes, and every write of a save, whole or one line
\* at a time, leaves the quantities nested.
THEOREM QuantitiesNest == SalesSpec => []QuantitiesNested
<1> DEFINE IInv == TInv /\ (~contended => Orderly)
<1>1. SlotsInit /\ SalesInit => IInv
  BY InitTypes, InitOrderly
<1>2. IInv /\ [SalesNext]_<<slotVars, saleVars>> => IInv'
  <2> SUFFICES ASSUME IInv, [SalesNext]_vars PROVE IInv'
    BY DEF vars
  <2>1. TInv /\ TInv'
    BY StepTypes
  <2>2. ASSUME ~contended' PROVE Orderly'
    <3>1. Orderly
      BY <2>1, <2>2, RivalsStay
    <3> QED
      BY <2>1, <2>2, <3>1, StepOrderly
  <2> QED
    BY <2>1, <2>2
<1>3. IInv => QuantitiesNested
  BY DEF Orderly, Nested, QuantitiesNested
<1> QED
  BY <1>1, <1>2, <1>3, PTL DEF SalesSpec

----------------------------------------------------------------------------
(* Totals of all the rows, and what the items of it come to *)

\* A total is the library's sum of the amounts.
LEMMA TotalIsSumOn ==
  ASSUME NEW S, Rows(S), NEW U, U \subseteq S, NEW f, f = [r \in S |-> r.amount]
  PROVE  Total(U) = SumFunctionOnSet(f, U) /\ IsFiniteSet(U) /\ \A r \in U : f[r] \in Nat
<1>1. IsFiniteSet(U)
  BY FS_Subset DEF Rows
<1>2. PICK g : g = [r \in U |-> r.amount]
  OBVIOUS
<1>3. \A r \in U : g[r] = f[r]
  BY <1>2
<1>4. SumFunctionOnSet(g, U) = SumFunctionOnSet(f, U)
  BY <1>1, <1>3, SameValuesSameSum
<1>5. Total(U) = SumFunctionOnSet(g, U)
  BY <1>2 DEF Total, SumFunction
<1>6. \A r \in U : f[r] \in Nat
  BY DEF Rows
<1> QED
  BY <1>1, <1>4, <1>5, <1>6

LEMMA TotalSplits ==
  ASSUME NEW S, Rows(S), NEW P, P \subseteq S, NEW R, R = S \ P
  PROVE  /\ Total(S) = Total(P) + Total(R)
         /\ Total(S) \in Nat /\ Total(P) \in Nat /\ Total(R) \in Nat
<1>1. PICK f : f = [r \in S |-> r.amount]
  OBVIOUS
<1>2. R \subseteq S
  OBVIOUS
<1>3. Total(S) = SumFunctionOnSet(f, S) /\ IsFiniteSet(S) /\ \A r \in S : f[r] \in Nat
  <2>1. PICK U : U = S
    OBVIOUS
  <2>2. Total(U) = SumFunctionOnSet(f, U) /\ IsFiniteSet(U) /\ \A r \in U : f[r] \in Nat
    BY <1>1, <2>1, TotalIsSumOn
  <2> QED
    BY <2>1, <2>2
<1>4. Total(P) = SumFunctionOnSet(f, P)
  BY <1>1, TotalIsSumOn
<1>5. Total(R) = SumFunctionOnSet(f, R)
  BY <1>1, <1>2, TotalIsSumOn
<1>6. SumFunctionOnSet(f, S) = SumFunctionOnSet(f, P) + SumFunctionOnSet(f, R)
  <2>1. \A r \in S : f[r] \in Int
    BY <1>3
  <2>2. SumFunctionOnSet(f, S) = SumFunctionOnSet(f, P) + SumFunctionOnSet(f, S \ P)
    BY <1>3, <2>1, SumOfParts
  <2> QED
    BY <2>2
<1>7. Rows(P) /\ Rows(R)
  BY <1>2, FS_Subset DEF Rows
<1> QED
  BY <1>3, <1>4, <1>5, <1>6, <1>7, TotalType

\* A total of nothing is 0, and of one row its amount.
LEMMA TotalOfOne ==
  ASSUME NEW r, r.amount \in Nat
  PROVE  Total({}) = 0 /\ Total({r}) = r.amount
<1>1. PICK f : f = [q \in {r} |-> q.amount]
  OBVIOUS
<1>2. Rows({r})
  BY FS_Singleton DEF Rows
<1>3. PICK S : S = {r}
  OBVIOUS
<1>4. Total(S) = SumFunctionOnSet(f, S) /\ IsFiniteSet(S) /\ \A q \in S : f[q] \in Nat
  BY <1>1, <1>2, <1>3, TotalIsSumOn
<1>5. \A q \in S : f[q] \in Int
  BY <1>4
<1>6. r \in S /\ f[r] = r.amount /\ S \ {r} = {}
  BY <1>1, <1>3
<1>7. SumFunctionOnSet(f, S) = f[r] + SumFunctionOnSet(f, S \ {r})
  BY <1>4, <1>5, <1>6, SumTakesOut
<1>8. SumFunctionOnSet(f, {}) = 0
  BY SumOfNothing
<1>9. Total({}) = SumFunctionOnSet(f, {})
  BY <1>1, <1>2, TotalIsSumOn
<1> QED
  BY <1>3, <1>4, <1>6, <1>7, <1>8, <1>9

LEMMA TotalTakesOut ==
  ASSUME NEW S, Rows(S), NEW r \in S
  PROVE  /\ Total(S) = r.amount + Total(S \ {r})
         /\ Total(S) \in Nat /\ r.amount \in Nat /\ Total(S \ {r}) \in Nat
<1>1. r.amount \in Nat
  BY DEF Rows
<1>2. PICK P : P = {r}
  OBVIOUS
<1>3. PICK R : R = S \ P
  OBVIOUS
<1>4. /\ Total(S) = Total(P) + Total(R)
      /\ Total(S) \in Nat /\ Total(R) \in Nat
  <2>1. P \subseteq S
    BY <1>2
  <2> QED
    BY <1>3, <2>1, TotalSplits
<1>5. Total(P) = r.amount
  BY <1>1, <1>2, TotalOfOne
<1> QED
  BY <1>1, <1>2, <1>3, <1>4, <1>5

\* A total is the sum, over the items, of the totals of each.
LEMMA TotalByItem ==
  ASSUME NEW S, Rows(S), NEW I, IsFiniteSet(I), \A r \in S : r.item \in I,
         NEW g, g = [i \in I |-> TotalOf(S, i)]
  PROVE  Total(S) = SumFunctionOnSet(g, I)
<1> DEFINE Of(V) == {r \in S : r.item \in V}
           C == {V \in SUBSET I : Total(Of(V)) # SumFunctionOnSet(g, V)}
<1>1. \A i \in I : g[i] \in Int
  <2>1. ASSUME NEW i \in I PROVE g[i] \in Int
    <3>1. TotalOf(S, i) \in Nat
      BY TotalIsNatural
    <3> QED
      BY <3>1
  <2> QED
    BY <2>1
<1>2. CASE C = {}
  <2>1. Total(Of(I)) = SumFunctionOnSet(g, I)
    BY <1>2
  <2>2. Of(I) = S
    OBVIOUS
  <2> QED
    BY <2>1, <2>2
<1>3. CASE C # {}
  <2>1. C \subseteq SUBSET I
    OBVIOUS
  <2>2. PICK V \in C : \A U \in C : U \subseteq V => U = V
    <3> HIDE DEF C
    <3> QED
      BY <1>3, <2>1, SmallestSubset
  <2>3. V \subseteq I /\ Total(Of(V)) # SumFunctionOnSet(g, V)
    BY <2>2
  <2>4. CASE V = {}
    <3>1. Of(V) = {}
      BY <2>4
    <3>2. Total({}) = 0
      <4>1. PICK q : q = [amount |-> 0]
        OBVIOUS
      <4>2. q.amount \in Nat
        BY <4>1
      <4> QED
        BY <4>2, TotalOfOne
    <3>3. SumFunctionOnSet(g, {}) = 0
      BY SumOfNothing
    <3> QED
      BY <2>3, <2>4, <3>1, <3>2, <3>3
  <2>5. CASE V # {}
    <3>1. PICK i : i \in V
      BY <2>5
    <3>2. PICK W : W = V \ {i}
      OBVIOUS
    <3>3. W \subseteq V /\ W # V
      BY <3>1, <3>2
    <3>4. W \notin C
      BY <2>2, <3>3
    <3>5. Total(Of(W)) = SumFunctionOnSet(g, W)
      BY <2>3, <3>3, <3>4
    <3>6. IsFiniteSet(V) /\ \A x \in V : g[x] \in Int
      BY <1>1, <2>3, FS_Subset
    <3>7. SumFunctionOnSet(g, V) = g[i] + SumFunctionOnSet(g, W)
      <4>1. SumFunctionOnSet(g, V) = g[i] + SumFunctionOnSet(g, V \ {i})
        BY <3>1, <3>6, SumTakesOut
      <4> QED
        BY <3>2, <4>1
    <3>8. PICK A : A = Of(V)
      OBVIOUS
    <3>9. PICK P : P = {r \in S : r.item = i}
      OBVIOUS
    <3>10. PICK R : R = Of(W)
      OBVIOUS
    <3>11. P \subseteq A /\ R = A \ P /\ A \subseteq S
      BY <3>1, <3>2, <3>8, <3>9, <3>10
    <3>12. Rows(A)
      BY <3>11, FS_Subset DEF Rows
    <3>13. Total(A) = Total(P) + Total(R)
      <4>1. P \subseteq A
        BY <3>11
      <4>2. R = A \ P
        BY <3>11
      <4> HIDE DEF C, Of
      <4> QED
        BY <3>12, <4>1, <4>2, TotalSplits
    <3>14. g[i] = Total(P)
      BY <2>3, <3>1, <3>9 DEF TotalOf
    <3> QED
      BY <2>3, <3>5, <3>7, <3>8, <3>10, <3>13, <3>14
  <2> QED
    BY <2>4, <2>5
<1> QED
  BY <1>2, <1>3

\* Rows that come to the same in each item come to the same.
LEMMA SameTotals ==
  ASSUME NEW S, Rows(S), NEW T, Rows(T), \A i : TotalOf(S, i) = TotalOf(T, i)
  PROVE  Total(S) = Total(T)
<1>1. PICK I : I = Items(S) \cup Items(T)
  OBVIOUS
<1>2. IsFiniteSet(Items(S)) /\ IsFiniteSet(Items(T))
  <2>1. ASSUME NEW U, Rows(U) PROVE IsFiniteSet(Items(U))
    <3>1. PICK f : f = [r \in U |-> r.item]
      OBVIOUS
    <3>2. DOMAIN f = U /\ f = [r \in U |-> f[r]] /\ \A r \in U : f[r] \in Items(U)
      BY <3>1 DEF Items
    <3>3. \A i \in Items(U) : \E r \in U : f[r] = i
      BY <3>1 DEF Items
    <3>4. IsFiniteSet(U)
      BY <2>1 DEF Rows
    <3> QED
      BY <3>2, <3>3, <3>4, FiniteImage
  <2> QED
    BY <2>1
<1>3. IsFiniteSet(I)
  BY <1>1, <1>2, FS_Union
<1>4. PICK g : g = [i \in I |-> TotalOf(S, i)]
  OBVIOUS
<1>5. g = [i \in I |-> TotalOf(T, i)]
  BY <1>4
<1>6. (\A r \in S : r.item \in I) /\ \A r \in T : r.item \in I
  BY <1>1 DEF Items
<1>7. Total(S) = SumFunctionOnSet(g, I)
  BY <1>3, <1>4, <1>6, TotalByItem
<1>8. Total(T) = SumFunctionOnSet(g, I)
  BY <1>3, <1>5, <1>6, TotalByItem
<1> QED
  BY <1>7, <1>8

----------------------------------------------------------------------------
(* What the documents' totals tell, while no rivals overlap and no request *)
(* fails halfway                                                           *)

\* The rows are of different items.
ItemsOnce(rows) == \A r, q \in rows : r.item = q.item => r = q

\* A return that has written something, and not yet what its sale comes to.
MidReturn == {"return_lines", "return_net", "return_delete"}

\* A computed subtotal of a sale in force is that of its lines, unless it is being deleted.
SubtotalTold(s) == sales[s].auto => sales[s].subtotal = Total(ActiveOf(sold, s))
Subtotals ==
    \A s \in Serials :
        Live(sales, s) /\ (\A q \in Procs : phase[q] = "sale_delete" => job[q].target # s) =>
            SubtotalTold(s)

\* Its net total takes off what came back, unless a return on it is under way.
NetTold(s) == sales[s].net = sales[s].subtotal - Total(ReturnsOn(s))
Nets ==
    \A s \in Serials :
        Live(sales, s) /\ (\A q \in Procs : phase[q] \in MidReturn => job[q].sale # s) =>
            NetTold(s)

\* What a request has read is what there still is.
Told(ph, j) ==
    /\ ph = "sale_commit" =>
          /\ j.back = ReturnsOn(j.target)
          /\ \A r \in j.lines : r \in Row /\ r.id[2] = r.item
    /\ ph = "return_net" /\ Live(sales, j.sale) =>
          j.net = sales[j.sale].subtotal - Total(ReturnsOn(j.sale))

LinesOnce ==
    /\ ItemsOnce(ActiveOf(ordered, PEDIDO))
    /\ \A s \in Serials : ItemsOnce(ActiveOf(sold, s))

Exact == LinesOnce /\ Subtotals /\ Nets /\ \A p \in Procs : Told(phase[p], job[p])

\* The sale has what it had, as far as its totals go.
SameSubtotal(s) ==
    /\ Live(sales, s) /\ sales'[s].subtotal = sales[s].subtotal /\ sales'[s].auto = sales[s].auto
    /\ ActiveOf(sold, s)' = ActiveOf(sold, s)
SameBack(s) ==
    Live(sales, s) /\ sales'[s].subtotal = sales[s].subtotal /\ ReturnsOn(s)' = ReturnsOn(s)

LEMMA SubtotalsKept ==
  ASSUME TInv, Subtotals, NEW p \in Procs, NEW ph, NEW j,
         phase' = [phase EXCEPT ![p] = ph], job' = [job EXCEPT ![p] = j],
         phase[p] = "sale_delete" =>
            \/ ph = "sale_delete" /\ j.target = job[p].target
            \/ \A s \in Serials : job[p].target = s => ~Live(sales, s)',
         \A s \in Serials : Live(sales, s)' =>
            \/ SameSubtotal(s)
            \/ ph = "sale_delete" /\ j.target = s
            \/ SubtotalTold(s)'
  PROVE  Subtotals'
<1>1. phase'[p] = ph /\ job'[p] = j
  BY DEF TInv, SlotsOK
<1>2. \A q \in Procs : q # p => phase'[q] = phase[q] /\ job'[q] = job[q]
  BY DEF TInv, SlotsOK
<1>3. ASSUME NEW s \in Serials, Live(sales, s)',
             \A q \in Procs : phase'[q] = "sale_delete" => job'[q].target # s
      PROVE  SubtotalTold(s)'
  <2>1. CASE SameSubtotal(s)
    <3>1. \A q \in Procs : phase[q] = "sale_delete" => job[q].target # s
      BY <1>1, <1>2, <1>3
    <3>2. SubtotalTold(s)
      BY <2>1, <3>1 DEF Subtotals, SameSubtotal
    <3>3. ActiveOf(sold, s)' = ActiveOf(sold, s)
      BY <2>1 DEF SameSubtotal
    <3> QED
      BY <2>1, <3>2, <3>3 DEF SameSubtotal, SubtotalTold
  <2>2. ~(ph = "sale_delete" /\ j.target = s)
    BY <1>1, <1>3
  <2> QED
    BY <1>3, <2>1, <2>2
<1> QED
  BY <1>3 DEF Subtotals

LEMMA NetsKept ==
  ASSUME TInv, Nets, NEW p \in Procs, NEW ph, NEW j,
         phase' = [phase EXCEPT ![p] = ph], job' = [job EXCEPT ![p] = j],
         phase[p] \in MidReturn =>
            \/ ph \in MidReturn /\ j.sale = job[p].sale
            \/ \A s \in Serials : job[p].sale = s /\ Live(sales, s)' => NetTold(s)',
         \A s \in Serials : Live(sales, s)' =>
            \/ SameBack(s) /\ sales'[s].net = sales[s].net
            \/ ph \in MidReturn /\ j.sale = s
            \/ NetTold(s)'
  PROVE  Nets'
<1>1. phase'[p] = ph /\ job'[p] = j
  BY DEF TInv, SlotsOK
<1>2. \A q \in Procs : q # p => phase'[q] = phase[q] /\ job'[q] = job[q]
  BY DEF TInv, SlotsOK
<1>3. ASSUME NEW s \in Serials, Live(sales, s)',
             \A q \in Procs : phase'[q] \in MidReturn => job'[q].sale # s
      PROVE  NetTold(s)'
  <2>1. CASE SameBack(s) /\ sales'[s].net = sales[s].net
    <3>1. CASE phase[p] \in MidReturn /\ job[p].sale = s
      BY <1>1, <1>3, <3>1
    <3>2. CASE ~(phase[p] \in MidReturn /\ job[p].sale = s)
      <4>1. \A q \in Procs : phase[q] \in MidReturn => job[q].sale # s
        BY <1>2, <1>3, <3>2
      <4>2. NetTold(s)
        BY <2>1, <4>1 DEF Nets, SameBack
      <4> QED
        BY <2>1, <4>2 DEF NetTold, SameBack
    <3> QED
      BY <3>1, <3>2
  <2>2. ~(ph \in MidReturn /\ j.sale = s)
    BY <1>1, <1>3
  <2> QED
    BY <1>3, <2>1, <2>2
<1> QED
  BY <1>3 DEF Nets

\* What the step of p must leave of the documents for what the others have read.
ToldOn(ph, j) ==
    /\ ph = "sale_commit" => ReturnsOn(j.target)' = ReturnsOn(j.target)
    /\ ph = "return_net" /\ Live(sales, j.sale)' => SameBack(j.sale)

LEMMA ToldKept ==
  ASSUME TInv, \A q \in Procs : Told(phase[q], job[q]), NEW p \in Procs, NEW ph, NEW j,
         phase' = [phase EXCEPT ![p] = ph], job' = [job EXCEPT ![p] = j],
         Told(ph, j)',
         \A q \in Procs : \A h, k : q # p /\ h = phase[q] /\ k = job[q] => ToldOn(h, k)
  PROVE  (\A q \in Procs : Told(phase[q], job[q]))'
<1>1. phase'[p] = ph /\ job'[p] = j
  BY DEF TInv, SlotsOK
<1>2. \A q \in Procs : q # p => phase'[q] = phase[q] /\ job'[q] = job[q]
  BY DEF TInv, SlotsOK
<1>3. ASSUME NEW q \in Procs, q # p PROVE Told(phase[q], job[q])'
  <2>1. PICK k : k = job[q]
    OBVIOUS
  <2>2. PICK h : h = phase[q]
    OBVIOUS
  <2>3. Told(h, k) /\ ToldOn(h, k)
    BY <1>3, <2>1, <2>2
  <2>4. Told(h, k)'
    BY <2>3 DEF Told, ToldOn, SameBack
  <2>5. phase'[q] = h /\ job'[q] = k
    BY <1>2, <1>3, <2>1, <2>2
  <2> QED
    BY <2>4, <2>5
<1>4. Told(phase[p], job[p])'
  BY <1>1
<1> QED
  BY <1>3, <1>4


\* A step that leaves the tables: it begins, goes on or ends, and not what would have
\* to write first.
LEMMA QuietExact ==
  ASSUME TInv, Exact, NEW p \in Procs, NEW ph, NEW j,
         UNCHANGED <<ordered, sales, sold, returns, returned>>,
         phase' = [phase EXCEPT ![p] = ph], job' = [job EXCEPT ![p] = j],
         phase[p] = "sale_delete" => ph = "sale_delete" /\ j.target = job[p].target,
         phase[p] \in MidReturn => ph \in MidReturn /\ j.sale = job[p].sale,
         Told(ph, j)
  PROVE  Exact'
<1>1. /\ ordered' = ordered /\ sold' = sold /\ returned' = returned
      /\ sales' = sales /\ returns' = returns
  OBVIOUS
<1>2. \A s : ReturnsOn(s)' = ReturnsOn(s)
  BY <1>1 DEF ReturnsOn, Live, Active
<1>3. \A s : Live(sales, s)' => SameBack(s) /\ SameSubtotal(s) /\ sales'[s].net = sales[s].net
  BY <1>1, <1>2 DEF SameBack, SameSubtotal, Live
<1>4. LinesOnce'
  BY <1>1 DEF Exact, LinesOnce
<1>5. Subtotals'
  BY <1>3, SubtotalsKept DEF Exact
<1>6. Nets'
  BY <1>3, NetsKept DEF Exact
<1>7. Told(ph, j)'
  BY <1>1, <1>2 DEF Told, Live
<1>8. \A q \in Procs : \A h, k : q # p /\ h = phase[q] /\ k = job[q] => ToldOn(h, k)
  BY <1>2, <1>3 DEF ToldOn
<1>9. (\A q \in Procs : Told(phase[q], job[q]))'
  BY <1>7, <1>8, ToldKept DEF Exact
<1> QED
  BY <1>4, <1>5, <1>6, <1>9 DEF Exact

LEMMA BeginExact ==
  ASSUME TInv, Exact, NEW p \in Procs, NEW ph, NEW j, NEW rivals, Start(p, ph, j, rivals),
         ph \notin {"sale_commit", "return_net"},
         UNCHANGED <<ordered, sales, sold, returns, returned>>
  PROVE  Exact'
<1>1. /\ phase' = [phase EXCEPT ![p] = ph] /\ job' = [job EXCEPT ![p] = j]
      /\ phase[p] = "idle"
  BY DEF Start, Free
<1>2. phase[p] # "sale_delete" /\ phase[p] \notin MidReturn
  BY <1>1 DEF MidReturn
<1>3. Told(ph, j)
  BY DEF Told
<1> QED
  BY <1>1, <1>2, <1>3, QuietExact

LEMMA BeginsExact ==
  ASSUME TInv, Exact, NEW p \in Procs,
         \/ \E s \in Serials, linked \in BOOLEAN : BeginSale(p, s, linked)
         \/ \E s \in Serials : BeginDeleteSale(p, s)
         \/ BeginRequestSave(p) \/ BeginDeleteRequest(p)
         \/ \E a, s \in Serials : BeginReturn(p, a, s)
  PROVE  Exact'
<1>1. PICK ph \in {"sale_tx", "sale_delete", "request_tx", "request_delete_lines",
                   "return_header"} :
         \E j, rivals : Start(p, ph, j, rivals) /\ UNCHANGED saleVars
  BY DEF BeginSale, BeginDeleteSale, BeginRequestSave, BeginDeleteRequest, BeginReturn
<1>2. PICK j, rivals : Start(p, ph, j, rivals) /\ UNCHANGED saleVars
  BY <1>1
<1>3. UNCHANGED <<ordered, sales, sold, returns, returned>>
  BY <1>2 DEF saleVars
<1>4. ph \notin {"sale_commit", "return_net"}
  BY <1>1
<1> QED
  BY <1>2, <1>3, <1>4, BeginExact

LEMMA SnapshotExact ==
  ASSUME TInv, Exact, NEW p \in Procs, SnapshotSale(p) \/ SnapshotRequest(p)
  PROVE  Exact'
<1>1. UNCHANGED <<ordered, sales, sold, returns, returned>>
  BY DEF SnapshotSale, SnapshotRequest, saleVars
<1>2. CASE SnapshotSale(p)
  <2>1. PICK j : j = job[p]
    OBVIOUS
  <2>2. PICK k : k = [j EXCEPT !.lines = RowsOf(sold, j.target), !.back = ReturnsOn(j.target)]
    OBVIOUS
  <2>3. phase[p] = "sale_tx" /\ SaleJob("sale_tx", j)
    BY <1>2, <2>1 DEF SnapshotSale, TInv, SlotsOK, JobOK, SalePhases
  <2>4. /\ phase' = [phase EXCEPT ![p] = "sale_commit"] /\ job' = [job EXCEPT ![p] = k]
    BY <1>2, <2>1, <2>2 DEF SnapshotSale, Goto
  <2>5. /\ k.target = j.target /\ k.lines = RowsOf(sold, j.target)
        /\ k.back = ReturnsOn(j.target)
    BY <2>2, <2>3 DEF SaleJob
  <2>6. \A r \in k.lines : r \in Row /\ r.id[2] = r.item
    BY <2>5 DEF RowsOf, TInv, DataOK, TableOK
  <2>7. Told("sale_commit", k)
    BY <2>5, <2>6 DEF Told
  <2>8. phase[p] # "sale_delete" /\ phase[p] \notin MidReturn
    BY <2>3 DEF MidReturn
  <2> QED
    BY <1>1, <2>4, <2>7, <2>8, QuietExact
<1>3. CASE SnapshotRequest(p)
  <2>1. PICK k : k = [job[p] EXCEPT !.lines = ordered]
    OBVIOUS
  <2>2. /\ phase' = [phase EXCEPT ![p] = "request_commit"] /\ job' = [job EXCEPT ![p] = k]
        /\ phase[p] = "request_tx"
    BY <1>3, <2>1 DEF SnapshotRequest, Goto
  <2>3. phase[p] # "sale_delete" /\ phase[p] \notin MidReturn
    BY <2>2 DEF MidReturn
  <2>4. Told("request_commit", k)
    BY DEF Told
  <2> QED
    BY <1>1, <2>2, <2>3, <2>4, QuietExact
<1> QED
  BY <1>2, <1>3

\* What came back of a sale in force is of items that it has.
LEMMA BackIsSold ==
  ASSUME TInv, Nested, NEW s \in Serials, Live(sales, s), NEW r \in ReturnsOn(s)
  PROVE  r.item \in Items(ActiveOf(sold, s))
<1>1. PICK B : B = ReturnsOn(s)
  OBVIOUS
<1>2. PICK A : A = ActiveOf(sold, s)
  OBVIOUS
<1>3. PICK i : i = r.item
  OBVIOUS
<1>4. Rows(A) /\ Rows(B) /\ r \in B
  BY <1>1, <1>2, InForceAreRows
<1>5. r \in Row
  BY DEF ReturnsOn, Active, TInv, DataOK, TableOK
<1>6. i \in Products /\ r.amount > 0
  BY <1>3, <1>5, RowParts
<1>7. r.amount <= TotalOf(B, i) /\ r.amount \in Nat /\ TotalOf(B, i) \in Nat
  BY <1>3, <1>4, TotalHasRow
<1>8. TotalOf(B, i) <= TotalOf(A, i)
  BY <1>1, <1>2, <1>6 DEF Nested
<1>9. ASSUME i \notin Items(A) PROVE FALSE
  <2>1. TotalOf(A, i) = 0
    BY <1>4, <1>9, NoneIsZero
  <2> QED
    BY <1>6, <1>7, <1>8, <2>1
<1> QED
  BY <1>2, <1>3, <1>9

LEMMA NetOfAll ==
  ASSUME NEW subtotal, NEW listed, NEW back, \A r \in back : r.item \in Items(listed)
  PROVE  NetOf(subtotal, listed, back) = subtotal - Total(back)
<1>1. {r \in back : r.item \in Items(listed)} = back
  OBVIOUS
<1> QED
  BY <1>1 DEF NetOf

LEMMA ReadNetExact ==
  ASSUME TInv, Orderly, Exact, NEW p \in Procs, ReadNet(p)
  PROVE  Exact'
<1>1. UNCHANGED <<ordered, sales, sold, returns, returned>>
  BY DEF ReadNet, saleVars
<1>2. PICK j : j = job[p]
  OBVIOUS
<1>3. PICK k : k = [j EXCEPT !.net = NetNow(j.sale)]
  OBVIOUS
<1>4. phase[p] = "return_lines" /\ ReturnJob("return_lines", j)
  BY <1>2 DEF ReadNet, TInv, SlotsOK, JobOK, ReturnPhases
<1>5. phase' = [phase EXCEPT ![p] = "return_net"] /\ job' = [job EXCEPT ![p] = k]
  BY <1>2, <1>3 DEF ReadNet, Goto
<1>6. k.sale = j.sale /\ k.net = NetNow(j.sale) /\ j.sale \in Serials
  BY <1>3, <1>4 DEF ReturnJob
<1>7. ASSUME Live(sales, j.sale)
      PROVE  NetNow(j.sale) = sales[j.sale].subtotal - Total(ReturnsOn(j.sale))
  <2>1. PICK s \in Serials : s = j.sale
    BY <1>6
  <2>2. PICK B : B = ReturnsOn(s)
    OBVIOUS
  <2>3. PICK A : A = ActiveOf(sold, s)
    OBVIOUS
  <2>4. \A r \in B : r.item \in Items(A)
    BY <1>7, <2>1, <2>2, <2>3, BackIsSold DEF Orderly
  <2>5. NetOf(sales[s].subtotal, A, B) = sales[s].subtotal - Total(B)
    BY <2>4, NetOfAll
  <2> QED
    BY <2>1, <2>2, <2>3, <2>5 DEF NetNow
<1>8. Told("return_net", k)
  BY <1>6, <1>7 DEF Told
<1>9. phase[p] # "sale_delete" /\ "return_net" \in MidReturn /\ k.sale = job[p].sale
  BY <1>2, <1>4, <1>6 DEF MidReturn
<1> QED
  BY <1>1, <1>5, <1>8, <1>9, QuietExact

\* A request that fails with nothing written, or all of it.
LEMMA FailExact ==
  ASSUME TInv, Exact, NEW p \in Procs, FailSale(p), ~interrupted'
  PROVE  Exact'
<1>1. UNCHANGED <<ordered, sales, sold, returns, returned>>
  BY DEF FailSale, saleVars
<1>2. phase' = [phase EXCEPT ![p] = "idle"] /\ job' = [job EXCEPT ![p] = NoJob]
  BY DEF FailSale, Fail
<1>3. phase[p] # "sale_delete" /\ phase[p] \notin MidReturn
  BY DEF FailSale, Fail, MidReturn
<1>4. Told("idle", NoJob)
  BY DEF Told
<1> QED
  BY <1>1, <1>2, <1>3, <1>4, QuietExact

\* A form comes to its lines.
LEMMA FormTotals ==
  ASSUME NEW form, NEW rows, FormOK(form, rows)
  PROVE  Rows(form) /\ \A i : TotalOf(form, i) = LineKilos(form, i)
<1>1. Rows(form)
  BY AmountsPositive DEF FormOK, Rows
<1>2. \A l, m \in form : l.item = m.item => l = m
  BY DEF FormOK
<1>3. ASSUME NEW i PROVE TotalOf(form, i) = LineKilos(form, i)
  <2>1. CASE \E l \in form : l.item = i
    <3>1. PICK l \in form : l.item = i
      BY <2>1
    <3>2. TotalOf(form, i) = l.amount
      BY <1>1, <1>2, <3>1, TotalOfFew
    <3>3. LineKilos(form, i) = l.amount
      BY <1>2, <3>1, LineOfItem
    <3> QED
      BY <3>2, <3>3
  <2>2. CASE \A l \in form : l.item # i
    <3>1. TotalOf(form, i) = 0
      BY <1>1, <2>2, TotalOfFew
    <3>2. LineKilos(form, i) = 0
      BY <2>2, LineFound
    <3> QED
      BY <3>1, <3>2
  <2> QED
    BY <2>1, <2>2
<1> QED
  BY <1>1, <1>3

\* A save of a whole document leaves it each item once, and what the form comes to.
LEMMA SavedTotals ==
  ASSUME NEW rows, NEW m, NEW old, NEW form, NEW doc, NEW n,
         WriteOK(rows, m, old, form, doc, n),
         \A r \in RowsOf(rows, doc) : r.id \in Ids(old),
         NEW W, W = Saved(rows, old, form, doc, n)
  PROVE  ItemsOnce(ActiveOf(W, doc)) /\ Total(ActiveOf(W, doc)) = Total(form)
<1>1. /\ TableOK(W, m)
      /\ \A w \in W : w.active /\ w.doc = doc =>
                        \/ \E l \in form : Shows(w, l, doc, n)
                        \/ w \in rows /\ w.id \notin Ids(old)
  BY SavedRows
<1>2. PICK D : D = ActiveOf(W, doc)
  OBVIOUS
<1>3. \A w \in D : w \in W /\ w.active /\ w.doc = doc
  BY <1>2 DEF ActiveOf, Active, RowsOf
<1>4. Rows(D)
  <2>1. D \subseteq W
    BY <1>3
  <2> QED
    BY <1>1, <2>1, TableParts
<1>5. \A w \in D : \E l \in form : Shows(w, l, doc, n)
  BY <1>1, <1>3 DEF RowsOf
<1>6. FormOK(form, RowsOf(rows, doc)) /\ \A l, k \in form : l.item = k.item => l = k
  BY DEF WriteOK, FormOK
<1>7. ASSUME NEW w \in D, NEW v \in D, w.item = v.item PROVE w = v
  <2>1. PICK l \in form : Shows(w, l, doc, n)
    BY <1>5
  <2>2. PICK k \in form : Shows(v, k, doc, n)
    BY <1>5
  <2>3. l = k
    BY <1>6, <1>7, <2>1, <2>2 DEF Shows
  <2>4. w.id = v.id
    BY <2>1, <2>2, <2>3 DEF Shows
  <2> QED
    BY <1>1, <1>3, <2>4 DEF TableOK
<1>8. Rows(form) /\ \A i : TotalOf(form, i) = LineKilos(form, i)
  BY <1>6, FormTotals
<1>9. \A i : TotalOf(D, i) = TotalOf(form, i)
  <2>1. ASSUME NEW i PROVE TotalOf(D, i) = TotalOf(form, i)
    <3>1. TotalOf(D, i) = LineKilos(form, i)
      BY <1>2, SavedDocument
    <3> QED
      BY <1>8, <3>1
  <2> QED
    BY <2>1
<1>10. Total(D) = Total(form)
  BY <1>4, <1>8, <1>9, SameTotals
<1> QED
  BY <1>2, <1>7, <1>10 DEF ItemsOnce

\* Within its transaction a save sees a line in force of every item of the form.
LEMMA LinesInside ==
  ASSUME NEW old, \A r \in old : r \in Row /\ r.id[2] = r.item, NEW rows,
         NEW form, FormOK(form, rows), \A l \in form : l.id # NoId => l.id \in Ids(old),
         NEW doc, NEW n, NEW l \in form
  PROVE  l.item \in Items(Active(Saved(old, old, form, doc, n)))
<1>1. PICK W : W = Saved(old, old, form, doc, n)
  OBVIOUS
<1>2. W = {Fate(r, old, form) : r \in old} \cup {NewRow(m, doc, n) : m \in Created(old, form)}
  BY <1>1, SavedIs
<1>3. CASE l.id = NoId
  <2>1. l \in Created(old, form)
    BY <1>3 DEF Created, Ids
  <2>2. PICK w : w = NewRow(l, doc, n)
    OBVIOUS
  <2>3. w \in W /\ w.active /\ w.item = l.item
    BY <1>2, <2>1, <2>2 DEF NewRow
  <2> QED
    BY <1>1, <2>3 DEF Items, Active
<1>4. CASE l.id # NoId
  <2>1. PICK r \in old : r.id = l.id
    BY <1>4 DEF Ids
  <2>2. l.id \in Ids(form) /\ l.id[2] = l.item
    BY <1>4 DEF Ids, FormOK
  <2>3. r \in Row /\ r.item = l.item
    BY <2>1, <2>2
  <2>4. r.id \notin Ids(Removed(old, form)) /\ r.id \in Ids(Kept(old, form))
    BY <1>4, <2>1, <2>2 DEF Removed, Kept, Ids
  <2>5. PICK w : w = Fate(r, old, form)
    OBVIOUS
  <2>6. w = [r EXCEPT !.amount = LineOf(form, r.id).amount, !.active = TRUE]
    BY <2>4, <2>5 DEF Fate, Updated
  <2>7. w.active /\ w.item = r.item
    BY <2>3, <2>6 DEF Row
  <2>8. w \in W
    BY <1>2, <2>1, <2>5
  <2> QED
    BY <1>1, <2>3, <2>7, <2>8 DEF Items, Active
<1> QED
  BY <1>3, <1>4

\* What the save stores of the sale.
LEMMA SaleTotalsStored ==
  ASSUME TInv, NEW p \in Procs, CommitSale(p), NEW j, j = job[p], NEW s, s = j.target
  PROVE  /\ sales'[s].subtotal = j.subtotal /\ sales'[s].auto = j.auto
         /\ sales'[s].net = NetInside(j)
<1>1. SaleJob("sale_commit", j)
  BY DEF CommitSale, TInv, SlotsOK, JobOK, SalePhases
<1>2. PICK net : net = NetInside(j)
  OBVIOUS
<1>3. PICK sub : sub = j.subtotal
  OBVIOUS
<1>4. sales' = [sales EXCEPT ![s] =
             IF @ = NoRow
             THEN [active |-> TRUE, open |-> TRUE, linked |-> j.linked, auto |-> j.auto,
                   subtotal |-> sub, net |-> net]
             ELSE [@ EXCEPT !.linked = j.linked, !.auto = j.auto, !.subtotal = sub,
                            !.net = net]]
  BY <1>2, <1>3 DEF CommitSale
<1>5. s \in Serials /\ sales \in [Serials -> Sale \cup {NoRow}]
  BY <1>1 DEF SaleJob, TInv, DataOK
<1>6. CASE sales[s] = NoRow
  <2>1. sales'[s] = [active |-> TRUE, open |-> TRUE, linked |-> j.linked, auto |-> j.auto,
                     subtotal |-> sub, net |-> net]
    BY <1>4, <1>5, <1>6
  <2> QED
    BY <1>2, <1>3, <2>1
<1>7. CASE sales[s] # NoRow
  <2>1. PICK x : x = [sales[s] EXCEPT !.linked = j.linked, !.auto = j.auto,
                                      !.subtotal = sub, !.net = net]
    OBVIOUS
  <2>2. sales[s] \in Sale
    BY <1>5, <1>7
  <2>3. x.subtotal = sub /\ x.net = net /\ x.auto = j.auto
    BY <2>1, <2>2 DEF Sale
  <2>4. sales'[s] = x
    BY <1>4, <1>5, <1>7, <2>1
  <2> QED
    BY <1>2, <1>3, <2>3, <2>4
<1> QED
  BY <1>6, <1>7

LEMMA CommitSaleExact ==
  ASSUME TInv, Orderly, Exact, NEW p \in Procs, CommitSale(p)
  PROVE  Exact'
<1>1. PICK j : j = job[p]
  OBVIOUS
<1>2. PICK s : s = j.target
  OBVIOUS
<1>3. PICK W : W = Saved(sold, j.lines, j.form, s, j.n)
  OBVIOUS
<1>4. phase[p] = "sale_commit" /\ SaleJob("sale_commit", j)
  BY <1>1 DEF CommitSale, TInv, SlotsOK, JobOK, SalePhases
<1>5. WriteOK(sold, started, j.lines, j.form, s, j.n) /\ s \in Serials
  BY <1>1, <1>2, <1>4, CommitSaleWrite DEF SaleJob
<1>6. /\ phase' = [phase EXCEPT ![p] = "idle"] /\ job' = [job EXCEPT ![p] = NoJob]
      /\ sold' = W /\ ordered' = ordered /\ returns' = returns /\ returned' = returned
  BY <1>1, <1>2, <1>3 DEF CommitSale, Finish, Goto
<1>7. Told("sale_commit", j) /\ SaleFits("sale_commit", j)
  BY <1>1, <1>4 DEF Exact, Orderly, StillFits, SalePhases
<1>8. \A t \in Serials : t # s => sales'[t] = sales[t]
  BY <1>1, <1>2, SaleStored
<1>9. /\ sales'[s].subtotal = j.subtotal /\ sales'[s].auto = j.auto
      /\ sales'[s].net = NetInside(j)
  BY <1>1, <1>2, SaleTotalsStored
<1>10. \A t : t # s => ActiveOf(W, t) = ActiveOf(sold, t)
  <2>1. /\ \A r \in sold : r.doc # s => r \in W
        /\ \A w \in W : w.doc # s => w \in sold
    BY <1>3, <1>5, SavedRows
  <2> QED
    BY <2>1 DEF ActiveOf, Active, RowsOf
<1>11. ItemsOnce(ActiveOf(W, s)) /\ Total(ActiveOf(W, s)) = Total(j.form)
  <2>1. \A r \in RowsOf(sold, s) : r.id \in Ids(j.lines)
    BY <1>2, <1>7 DEF SaleFits
  <2> QED
    BY <1>3, <1>5, <2>1, SavedTotals
<1>12. \A t : ReturnsOn(t)' = ReturnsOn(t)
  BY <1>6 DEF ReturnsOn, Live, Active
<1>13. ASSUME Live(sales, s)' PROVE NetTold(s)'
  <2>1. PICK B : B = ReturnsOn(s)
    OBVIOUS
  <2>2. j.back = B
    BY <1>2, <1>7, <2>1 DEF Told
  <2>3. PICK I : I = Active(Saved(j.lines, j.lines, j.form, s, j.n))
    OBVIOUS
  <2>4. ASSUME NEW r \in B PROVE r.item \in Items(I)
    <3>1. Live(sales, s)
      <4>1. sales[s] = NoRow => B = {}
        BY <2>1 DEF ReturnsOn, Live, Active, TInv, DataOK
      <4>2. sales'[s].active <=> sales[s] = NoRow \/ sales[s].active
        BY <1>1, <1>2, SaleStored
      <4> QED
        BY <1>13, <2>4, <4>1, <4>2 DEF Live
    <3>2. r \in Row /\ r.item \in Products /\ r.amount > 0
      <4>1. r \in Row
        BY <2>1, <2>4 DEF ReturnsOn, Active, TInv, DataOK, TableOK
      <4> QED
        BY <4>1, RowParts
    <3>3. PICK i : i = r.item
      OBVIOUS
    <3>4. TotalOf(B, i) <= LineKilos(j.form, i)
      BY <1>2, <1>7, <2>1, <3>1, <3>2, <3>3 DEF SaleFits
    <3>5. r.amount <= TotalOf(B, i) /\ r.amount \in Nat /\ TotalOf(B, i) \in Nat
      <4>1. Rows(B)
        BY <2>1, InForceAreRows
      <4> QED
        BY <3>3, <4>1, <2>4, TotalHasRow
    <3>6. FormOK(j.form, RowsOf(sold, s))
      BY <1>2, <1>4 DEF SaleJob
    <3>7. LineKilos(j.form, i) # 0
      <4>1. LineKilos(j.form, i) \in Nat
        BY <3>6, KilosAreNatural
      <4> QED
        BY <3>2, <3>4, <3>5, <4>1
    <3>8. PICK l \in j.form : l.item = i
      BY <3>7, LineFound
    <3>9. \A q \in j.lines : q \in Row /\ q.id[2] = q.item
      BY <1>7 DEF Told
    <3>10. \A m \in j.form : m.id # NoId => m.id \in Ids(j.lines)
      BY <1>5 DEF WriteOK
    <3>11. l.item \in Items(I)
      BY <2>3, <3>6, <3>9, <3>10, LinesInside
    <3> QED
      BY <3>3, <3>8, <3>11
  <2>5. NetInside(j) = NetOf(j.subtotal, I, B)
    BY <1>2, <2>2, <2>3 DEF NetInside
  <2>6. NetOf(j.subtotal, I, B) = j.subtotal - Total(B)
    BY <2>4, NetOfAll
  <2>7. ReturnsOn(s)' = B
    BY <1>12, <2>1
  <2> QED
    BY <1>9, <2>5, <2>6, <2>7 DEF NetTold
<1>14. LinesOnce'
  <2>1. ItemsOnce(ActiveOf(ordered, PEDIDO))'
    BY <1>6 DEF Exact, LinesOnce
  <2>2. ASSUME NEW t \in Serials PROVE ItemsOnce(ActiveOf(sold, t))'
    <3>1. CASE t = s
      BY <1>6, <1>11, <3>1
    <3>2. CASE t # s
      <4>1. ActiveOf(W, t) = ActiveOf(sold, t)
        BY <1>10, <3>2
      <4>2. ItemsOnce(ActiveOf(sold, t))
        BY DEF Exact, LinesOnce
      <4> QED
        BY <1>6, <4>1, <4>2
    <3> QED
      BY <3>1, <3>2
  <2> QED
    BY <2>1, <2>2 DEF LinesOnce
<1>15. ASSUME NEW t \in Serials, t # s, Live(sales, t)'
       PROVE  SameSubtotal(t) /\ SameBack(t) /\ sales'[t].net = sales[t].net
  <2>1. sales'[t] = sales[t]
    BY <1>8, <1>15
  <2>2. ActiveOf(sold, t)' = ActiveOf(sold, t)
    BY <1>6, <1>10, <1>15
  <2>3. ReturnsOn(t)' = ReturnsOn(t)
    BY <1>12
  <2> QED
    BY <1>15, <2>1, <2>2, <2>3 DEF SameSubtotal, SameBack, Live
<1>16. SubtotalTold(s)'
  <2>1. j.auto => j.subtotal = Total(j.form)
    BY <1>4 DEF SaleJob
  <2> QED
    BY <1>6, <1>9, <1>11, <2>1 DEF SubtotalTold
<1>17. phase[p] # "sale_delete" /\ phase[p] \notin MidReturn
  BY <1>4 DEF MidReturn
<1>18. Subtotals'
  <2>1. \A t \in Serials : Live(sales, t)' =>
           SameSubtotal(t) \/ SubtotalTold(t)'
    BY <1>15, <1>16
  <2> QED
    BY <1>6, <1>17, <2>1, SubtotalsKept DEF Exact
<1>19. Nets'
  <2>1. \A t \in Serials : Live(sales, t)' =>
           \/ SameBack(t) /\ sales'[t].net = sales[t].net
           \/ NetTold(t)'
    BY <1>13, <1>15
  <2> QED
    BY <1>6, <1>17, <2>1, NetsKept DEF Exact
<1>20. ASSUME NEW q \in Procs, NEW h, NEW k, q # p, h = phase[q], k = job[q] PROVE ToldOn(h, k)
  <2>1. ASSUME h = "return_net", Live(sales, k.sale)' PROVE SameBack(k.sale)
    <3>1. k.sale # s
      BY <1>1, <1>2, <1>4, <1>20, <2>1 DEF Orderly, Apart, SalePhases, ReturnPhases
    <3>2. k.sale \in Serials
      BY <1>20, <2>1 DEF TInv, SlotsOK, JobOK, ReturnJob, ReturnPhases
    <3> QED
      BY <1>15, <2>1, <3>1, <3>2
  <2> QED
    BY <1>12, <2>1 DEF ToldOn
<1>21. Told("idle", NoJob)'
  BY DEF Told
<1>22. (\A q \in Procs : Told(phase[q], job[q]))'
  BY <1>6, <1>20, <1>21, ToldKept DEF Exact
<1> QED
  BY <1>14, <1>18, <1>19, <1>22 DEF Exact

\* A step that leaves every sale in force what its totals are made of.
LEMMA KeepsExact ==
  ASSUME TInv, Exact, NEW p \in Procs, NEW ph, NEW j,
         phase' = [phase EXCEPT ![p] = ph], job' = [job EXCEPT ![p] = j],
         LinesOnce', Told(ph, j)',
         \A t : ReturnsOn(t)' = ReturnsOn(t),
         \A t \in Serials : Live(sales, t)' => SameSubtotal(t) /\ sales'[t].net = sales[t].net,
         phase[p] = "sale_delete" => \A t \in Serials : job[p].target = t => ~Live(sales, t)',
         phase[p] \notin MidReturn
  PROVE  Exact'
<1>1. \A t \in Serials : Live(sales, t)' => SameBack(t)
  BY DEF SameSubtotal, SameBack
<1>2. Subtotals'
  BY SubtotalsKept DEF Exact
<1>3. Nets'
  BY <1>1, NetsKept DEF Exact
<1>4. ASSUME NEW q \in Procs, NEW h, NEW k, q # p, h = phase[q], k = job[q] PROVE ToldOn(h, k)
  <2>1. h = "return_net" => k.sale \in Serials
    BY <1>4 DEF TInv, SlotsOK, JobOK, ReturnJob, ReturnPhases
  <2> QED
    BY <1>1, <2>1 DEF ToldOn
<1>5. (\A q \in Procs : Told(phase[q], job[q]))'
  BY <1>4, ToldKept DEF Exact
<1> QED
  BY <1>2, <1>3, <1>5 DEF Exact

LEMMA StatusExact ==
  ASSUME TInv, Exact, NEW p \in Procs,
         (\E s \in Serials : UpdateOrderSaleStatus(p, s)) \/ UpdateOrderRequestStatus(p)
  PROVE  Exact'
<1>1. phase' = phase /\ job' = job /\ phase[p] = "idle"
  BY DEF UpdateOrderSaleStatus, UpdateOrderRequestStatus, Instant, Free
<1>2. PICK j : j = job[p]
  OBVIOUS
<1>3. phase' = [phase EXCEPT ![p] = "idle"] /\ job' = [job EXCEPT ![p] = j]
  BY <1>1, <1>2 DEF TInv, SlotsOK
<1>4. ordered' = ordered /\ sold' = sold /\ returns' = returns /\ returned' = returned
  BY DEF UpdateOrderSaleStatus, UpdateOrderRequestStatus
<1>5. \A t : ReturnsOn(t)' = ReturnsOn(t)
  BY <1>4 DEF ReturnsOn, Live, Active
<1>6. LinesOnce'
  BY <1>4 DEF Exact, LinesOnce
<1>7. \A t \in Serials : Live(sales, t)' => SameSubtotal(t) /\ sales'[t].net = sales[t].net
  <2>1. CASE UpdateOrderRequestStatus(p)
    <3>1. sales' = sales
      BY <2>1 DEF UpdateOrderRequestStatus
    <3> QED
      BY <1>4, <3>1 DEF SameSubtotal, Live
  <2>2. ASSUME NEW s \in Serials, UpdateOrderSaleStatus(p, s), NEW t \in Serials, Live(sales, t)'
        PROVE  SameSubtotal(t) /\ sales'[t].net = sales[t].net
    <3>1. sales[s] # NoRow /\ sales[s].active /\ sales[s] \in Sale
      BY <2>2 DEF UpdateOrderSaleStatus, Live, TInv, DataOK
    <3>2. PICK x : x = [sales[s] EXCEPT !.open = ~@]
      OBVIOUS
    <3>3. /\ x.subtotal = sales[s].subtotal /\ x.auto = sales[s].auto
          /\ x.net = sales[s].net /\ x.active = sales[s].active
      BY <3>1, <3>2 DEF Sale
    <3>4. sales' = [sales EXCEPT ![s] = x] /\ sales \in [Serials -> Sale \cup {NoRow}]
      BY <2>2, <3>2 DEF UpdateOrderSaleStatus, TInv, DataOK
    <3>5. CASE t = s
      <4>1. sales'[t] = x
        BY <3>4, <3>5
      <4> QED
        BY <1>4, <3>1, <3>3, <3>5, <4>1 DEF SameSubtotal, Live
    <3>6. CASE t # s
      <4>1. sales'[t] = sales[t]
        BY <3>4, <3>6
      <4> QED
        BY <1>4, <2>2, <4>1 DEF SameSubtotal, Live
    <3> QED
      BY <3>5, <3>6
  <2> QED
    BY <2>1, <2>2
<1>8. Told("idle", j)'
  BY DEF Told
<1>9. phase[p] # "sale_delete" /\ phase[p] \notin MidReturn
  BY <1>1 DEF MidReturn
<1> QED
  BY <1>3, <1>5, <1>6, <1>7, <1>8, <1>9, KeepsExact

LEMMA DeleteSaleHeaderExact ==
  ASSUME TInv, Exact, NEW p \in Procs, DeleteSaleHeader(p)
  PROVE  Exact'
<1>1. PICK s : s = job[p].target
  OBVIOUS
<1>2. /\ s \in Serials /\ sales[s] # NoRow /\ sales[s] \in Sale /\ phase[p] = "sale_delete"
      /\ sales \in [Serials -> Sale \cup {NoRow}]
  BY <1>1 DEF DeleteSaleHeader, TInv, SlotsOK, JobOK, DataOK
<1>3. /\ phase' = [phase EXCEPT ![p] = "idle"] /\ job' = [job EXCEPT ![p] = NoJob]
      /\ sales' = [sales EXCEPT ![s].active = FALSE]
      /\ ordered' = ordered /\ sold' = sold /\ returns' = returns /\ returned' = returned
  BY <1>1 DEF DeleteSaleHeader, Finish, Goto
<1>4. PICK x : x = [sales[s] EXCEPT !.active = FALSE]
  OBVIOUS
<1>5. ~x.active
  BY <1>2, <1>4 DEF Sale
<1>6. sales' = [sales EXCEPT ![s] = x]
  BY <1>3, <1>4
<1>7. sales'[s] = x /\ \A t \in Serials : t # s => sales'[t] = sales[t]
  BY <1>2, <1>6
<1>8. ~Live(sales, s)'
  BY <1>5, <1>7 DEF Live
<1>9. \A t \in Serials : Live(sales, t)' => SameSubtotal(t) /\ sales'[t].net = sales[t].net
  BY <1>3, <1>7, <1>8 DEF SameSubtotal, Live
<1>10. \A t : ReturnsOn(t)' = ReturnsOn(t)
  BY <1>3 DEF ReturnsOn, Live, Active
<1>11. LinesOnce'
  BY <1>3 DEF Exact, LinesOnce
<1>12. \A t \in Serials : job[p].target = t => ~Live(sales, t)'
  BY <1>1, <1>8
<1>13. Told("idle", NoJob)' /\ phase[p] \notin MidReturn
  BY <1>2 DEF Told, MidReturn
<1> QED
  BY <1>3, <1>9, <1>10, <1>11, <1>12, <1>13, KeepsExact

\* The order request is written, and no sale.
LEMMA OrderExact ==
  ASSUME TInv, Exact, NEW p \in Procs, NEW ph, NEW j,
         phase' = [phase EXCEPT ![p] = ph], job' = [job EXCEPT ![p] = j],
         UNCHANGED <<sales, sold, returns, returned>>, ItemsOnce(ActiveOf(ordered, PEDIDO)'),
         ph # "sale_commit", ph # "return_net", phase[p] \in RequestPhases \cup RequestDeletes
  PROVE  Exact'
<1>1. sales' = sales /\ sold' = sold /\ returns' = returns /\ returned' = returned
  OBVIOUS
<1>2. \A t : ReturnsOn(t)' = ReturnsOn(t)
  BY <1>1 DEF ReturnsOn, Live, Active
<1>3. \A t \in Serials : Live(sales, t)' => SameSubtotal(t) /\ sales'[t].net = sales[t].net
  BY <1>1 DEF SameSubtotal, Live
<1>4. LinesOnce'
  BY <1>1 DEF Exact, LinesOnce
<1>5. Told(ph, j)'
  BY DEF Told
<1>6. phase[p] # "sale_delete" /\ phase[p] \notin MidReturn
  BY DEF MidReturn, RequestPhases, RequestDeletes
<1> QED
  BY <1>2, <1>3, <1>4, <1>5, <1>6, KeepsExact

LEMMA OrdersExact ==
  ASSUME TInv, Orderly, Exact, NEW p \in Procs,
         CommitRequest(p) \/ DeleteRequestLines(p) \/ DeleteRequestHeader(p)
  PROVE  Exact'
<1>1. UNCHANGED <<sales, sold, returns, returned>>
  BY DEF CommitRequest, DeleteRequestLines, DeleteRequestHeader
<1>2. phase[p] \in RequestPhases \cup RequestDeletes
  BY DEF CommitRequest, DeleteRequestLines, DeleteRequestHeader, RequestPhases, RequestDeletes
<1>3. PICK j : j = job[p]
  OBVIOUS
<1>4. CASE CommitRequest(p)
  <2>1. PICK W : W = Saved(ordered, j.lines, j.form, PEDIDO, j.n)
    OBVIOUS
  <2>2. phase[p] = "request_commit"
    BY <1>4 DEF CommitRequest
  <2>3. WriteOK(ordered, started, j.lines, j.form, PEDIDO, j.n)
    BY <1>3, <2>2, CommitRequestWrite
  <2>4. /\ phase' = [phase EXCEPT ![p] = "idle"] /\ job' = [job EXCEPT ![p] = NoJob]
        /\ ordered' = W
    BY <1>3, <1>4, <2>1 DEF CommitRequest, Finish, Goto
  <2>5. RequestFits("request_commit", j)
    BY <1>3, <2>2 DEF Orderly, StillFits, RequestPhases
  <2>6. \A r \in RowsOf(ordered, PEDIDO) : r.id \in Ids(j.lines)
    BY <2>5 DEF RequestFits, RowsOf
  <2>7. ItemsOnce(ActiveOf(W, PEDIDO))
    BY <2>1, <2>3, <2>6, SavedTotals
  <2>8. ItemsOnce(ActiveOf(ordered, PEDIDO)')
    BY <2>4, <2>7
  <2> QED
    BY <1>1, <1>2, <2>4, <2>8, OrderExact
<1>5. CASE DeleteRequestLines(p)
  <2>1. PICK W : W = Without(ordered, ordered)
    OBVIOUS
  <2>2. /\ phase' = [phase EXCEPT ![p] = "request_delete"] /\ job' = [job EXCEPT ![p] = j]
        /\ ordered' = W
    BY <1>3, <1>5, <2>1 DEF DeleteRequestLines, Goto, Without
  <2>3. \A w \in W : ~w.active
    <3>1. TableOK(ordered, started)
      BY DEF TInv, DataOK
    <3> QED
      BY <2>1, <3>1, Struck
  <2>4. ItemsOnce(ActiveOf(ordered, PEDIDO)')
    BY <2>2, <2>3 DEF ItemsOnce, ActiveOf, Active, RowsOf
  <2> QED
    BY <1>1, <1>2, <2>2, <2>4, OrderExact
<1>6. CASE DeleteRequestHeader(p)
  <2>1. /\ phase' = [phase EXCEPT ![p] = "idle"] /\ job' = [job EXCEPT ![p] = NoJob]
        /\ ordered' = ordered
    BY <1>6 DEF DeleteRequestHeader, Finish, Goto
  <2>2. ItemsOnce(ActiveOf(ordered, PEDIDO)')
    BY <2>1 DEF Exact, LinesOnce
  <2> QED
    BY <1>1, <1>2, <2>1, <2>2, OrderExact
<1> QED
  BY <1>4, <1>5, <1>6

LEMMA DeleteSaleLineExact ==
  ASSUME TInv, Exact, NEW p \in Procs, DeleteSaleLine(p)
  PROVE  Exact'
<1>1. PICK j : j = job[p]
  OBVIOUS
<1>2. /\ phase[p] = "sale_delete" /\ j = [target |-> j.target, left |-> j.left]
      /\ j.target \in Serials /\ j.left \subseteq Ids(RowsOf(sold, j.target))
  BY <1>1 DEF DeleteSaleLine, TInv, SlotsOK, JobOK
<1>3. PICK id \in j.left :
        /\ sold' = {IF r.id = id THEN Deleted(r) ELSE r : r \in sold}
        /\ Goto(p, "sale_delete", [j EXCEPT !.left = @ \ {id}])
  BY <1>1 DEF DeleteSaleLine
<1>4. PICK k : k = [j EXCEPT !.left = @ \ {id}]
  OBVIOUS
<1>5. /\ phase' = [phase EXCEPT ![p] = "sale_delete"] /\ job' = [job EXCEPT ![p] = k]
      /\ ordered' = ordered /\ sales' = sales /\ returns' = returns /\ returned' = returned
  BY <1>3, <1>4 DEF DeleteSaleLine, Goto
<1>6. k.target = j.target
  BY <1>2, <1>4
<1>7. PICK D : D = {r \in sold : r.id = id}
  OBVIOUS
<1>8. PICK W : W = Without(sold, D)
  OBVIOUS
<1>9. sold' = W
  BY <1>3, <1>7, <1>8 DEF Without
<1>10. TableOK(sold, started)
  BY DEF TInv, DataOK
<1>11. /\ \A w \in W : w.active => w \in sold /\ w \notin D
       /\ \A r \in sold : r \notin D => r \in W
  BY <1>8, <1>10, Struck
<1>12. \A r \in D : r.doc = j.target
  <2>1. PICK q \in RowsOf(sold, j.target) : q.id = id
    BY <1>2, <1>3 DEF Ids
  <2> QED
    BY <1>7, <1>10, <2>1 DEF TableOK, RowsOf
<1>13. \A t : ActiveOf(W, t) \subseteq ActiveOf(sold, t)
  BY <1>11 DEF ActiveOf, Active, RowsOf
<1>14. \A t : t # j.target => ActiveOf(W, t) = ActiveOf(sold, t)
  <2>1. ASSUME NEW t, t # j.target PROVE \A r \in ActiveOf(sold, t) : r \in ActiveOf(W, t)
    BY <1>11, <1>12, <2>1 DEF ActiveOf, Active, RowsOf
  <2> QED
    BY <1>13, <2>1
<1>15. LinesOnce'
  <2>1. ItemsOnce(ActiveOf(ordered, PEDIDO))'
    BY <1>5 DEF Exact, LinesOnce
  <2>2. ASSUME NEW t \in Serials PROVE ItemsOnce(ActiveOf(W, t))
    BY <1>13 DEF Exact, LinesOnce, ItemsOnce
  <2> QED
    BY <1>9, <2>1, <2>2 DEF LinesOnce
<1>16. \A t : ReturnsOn(t)' = ReturnsOn(t)
  BY <1>5 DEF ReturnsOn, Live, Active
<1>17. \A t : Live(sales, t)' => SameBack(t) /\ sales'[t].net = sales[t].net
  BY <1>5, <1>16 DEF SameBack, Live
<1>18. \A t : Live(sales, t)' /\ t # j.target => SameSubtotal(t)
  BY <1>5, <1>9, <1>14 DEF SameSubtotal, Live
<1>19. Subtotals'
  <2>1. \A t \in Serials : Live(sales, t)' => SameSubtotal(t) \/ k.target = t
    BY <1>6, <1>18
  <2> QED
    BY <1>1, <1>5, <1>6, <2>1, SubtotalsKept DEF Exact
<1>20. Nets'
  <2>1. phase[p] \notin MidReturn
    BY <1>2 DEF MidReturn
  <2> QED
    BY <1>5, <1>17, <2>1, NetsKept DEF Exact
<1>21. Told("sale_delete", k)'
  BY DEF Told
<1>22. \A q \in Procs : \A h, l : q # p /\ h = phase[q] /\ l = job[q] => ToldOn(h, l)
  BY <1>16, <1>17 DEF ToldOn
<1>23. (\A q \in Procs : Told(phase[q], job[q]))'
  BY <1>5, <1>21, <1>22, ToldKept DEF Exact
<1> QED
  BY <1>15, <1>19, <1>20, <1>23 DEF Exact

LEMMA ReturnHeaderExact ==
  ASSUME TInv, Exact, NEW p \in Procs, ReturnHeader(p)
  PROVE  Exact'
<1>1. PICK j : j = job[p]
  OBVIOUS
<1>2. phase[p] = "return_header" /\ ReturnJob("return_header", j)
  BY <1>1 DEF ReturnHeader, TInv, SlotsOK, JobOK, ReturnPhases
<1>3. PICK k : k = [j EXCEPT !.old = RowsOf(returned, j.target)]
  OBVIOUS
<1>4. /\ phase' = [phase EXCEPT ![p] = "return_lines"] /\ job' = [job EXCEPT ![p] = k]
      /\ returns' = [returns EXCEPT ![j.target] =
             IF @ = NoRow THEN [sale |-> j.sale, active |-> TRUE] ELSE @]
      /\ returned' = returned /\ ordered' = ordered /\ sales' = sales /\ sold' = sold
  BY <1>1, <1>3 DEF ReturnHeader, Goto
<1>5. /\ \A b \in Serials : b # j.target => returns'[b] = returns[b]
      /\ returns[j.target] # NoRow => returns'[j.target] = returns[j.target]
  BY <1>2, <1>4 DEF ReturnJob, TInv, DataOK
<1>6. \A t : ReturnsOn(t)' = ReturnsOn(t)
  <2>1. \A r \in returned : returns'[r.doc] = returns[r.doc]
    BY <1>5 DEF TInv, DataOK
  <2> QED
    BY <1>4, <2>1 DEF ReturnsOn, Live, Active
<1>7. \A t \in Serials : Live(sales, t)' => SameSubtotal(t) /\ sales'[t].net = sales[t].net
  BY <1>4 DEF SameSubtotal, Live
<1>8. LinesOnce'
  BY <1>4 DEF Exact, LinesOnce
<1>9. Told("return_lines", k)' /\ phase[p] # "sale_delete" /\ phase[p] \notin MidReturn
  BY <1>2 DEF Told, MidReturn
<1> QED
  BY <1>4, <1>6, <1>7, <1>8, <1>9, KeepsExact

\* What came back of one sale is written, by a return that has yet to tell its net.
LEMMA ReturnsExact ==
  ASSUME TInv, TInv', Exact, Orderly', NEW p \in Procs, NEW ph \in MidReturn, NEW j,
         phase' = [phase EXCEPT ![p] = ph], job' = [job EXCEPT ![p] = j],
         UNCHANGED <<ordered, sales, sold>>, ph # "return_net",
         \A t : t # j.sale => ReturnsOn(t)' = ReturnsOn(t),
         phase[p] # "sale_delete", phase[p] \in MidReturn => j.sale = job[p].sale
  PROVE  Exact'
<1>1. ordered' = ordered /\ sales' = sales /\ sold' = sold
  OBVIOUS
<1>2. LinesOnce'
  BY <1>1 DEF Exact, LinesOnce
<1>3. \A t : Live(sales, t)' => SameSubtotal(t) /\ sales'[t].net = sales[t].net
  BY <1>1 DEF SameSubtotal, Live
<1>4. \A t : Live(sales, t)' /\ t # j.sale => SameBack(t)
  BY <1>1 DEF SameBack, Live
<1>5. Subtotals'
  BY <1>3, SubtotalsKept DEF Exact
<1>6. Nets'
  <2>1. \A t \in Serials : Live(sales, t)' =>
           (SameBack(t) /\ sales'[t].net = sales[t].net) \/ j.sale = t
    BY <1>3, <1>4
  <2> QED
    BY <2>1, NetsKept DEF Exact
<1>7. Told(ph, j)'
  BY DEF Told, MidReturn
<1>8. ASSUME NEW q \in Procs, NEW h, NEW k, q # p, h = phase[q], k = job[q] PROVE ToldOn(h, k)
  <2>1. phase'[p] = ph /\ job'[p] = j /\ phase'[q] = h /\ job'[q] = k
    BY <1>8 DEF TInv, SlotsOK
  <2>2. Apart'
    BY DEF Orderly
  <2>3. h \in ReturnPhases => k.sale # j.sale
    BY <1>8, <2>1, <2>2 DEF Apart, MidReturn, ReturnPhases
  <2>4. h \in SalePhases => k.target # j.sale
    BY <1>8, <2>1, <2>2 DEF Apart, MidReturn, ReturnPhases
  <2> QED
    BY <1>4, <2>3, <2>4 DEF ToldOn, ReturnPhases, SalePhases
<1>9. (\A q \in Procs : Told(phase[q], job[q]))'
  BY <1>7, <1>8, ToldKept DEF Exact
<1> QED
  BY <1>2, <1>5, <1>6, <1>9 DEF Exact

LEMMA ReturnLineExact ==
  ASSUME TInv, TInv', Exact, Orderly', NEW p \in Procs, ReturnLine(p)
  PROVE  Exact'
<1>1. PICK j : j = job[p]
  OBVIOUS
<1>2. phase[p] = "return_lines" /\ ReturnJob("return_lines", j)
  BY <1>1 DEF ReturnLine, TInv, SlotsOK, JobOK, ReturnPhases
<1>3. PICK w \in NextWrites(j.old, j.form) :
        /\ returned' = Saved(returned, w[1], w[2], j.target, j.n)
        /\ Goto(p, "return_lines", [j EXCEPT !.old = @ \ w[1], !.form = @ \ w[2]])
  BY <1>1 DEF ReturnLine
<1>4. PICK d, f : d = w[1] /\ f = w[2]
  OBVIOUS
<1>5. WriteOK(returned, started, d, f, j.target, j.n)
  BY <1>1, <1>2, <1>4, ReturnLineWrite
<1>6. PICK W : W = Saved(returned, d, f, j.target, j.n)
  OBVIOUS
<1>7. PICK k : k = [j EXCEPT !.old = @ \ d, !.form = @ \ f]
  OBVIOUS
<1>8. /\ phase' = [phase EXCEPT ![p] = "return_lines"] /\ job' = [job EXCEPT ![p] = k]
      /\ returned' = W /\ returns' = returns /\ UNCHANGED <<ordered, sales, sold>>
  BY <1>3, <1>4, <1>6, <1>7 DEF ReturnLine, Goto
<1>9. k.sale = j.sale
  BY <1>2, <1>7 DEF ReturnJob
<1>10. /\ \A r \in returned : r.doc # j.target => r \in W
       /\ \A r \in W : r.doc # j.target => r \in returned
  BY <1>5, <1>6, SavedRows
<1>11. Live(returns, j.target) => returns[j.target].sale = j.sale
  BY <1>2 DEF ReturnJob, Live
<1>12. \A t : t # j.sale => ReturnsOn(t)' = ReturnsOn(t)
  BY <1>8, <1>10, <1>11 DEF ReturnsOn, Active, Live
<1>13. "return_lines" \in MidReturn /\ k.sale = job[p].sale
  BY <1>1, <1>9 DEF MidReturn
<1> QED
  BY <1>2, <1>8, <1>9, <1>12, <1>13, ReturnsExact

LEMMA DeleteReturnExact ==
  ASSUME TInv, TInv', Exact, Orderly', NEW p \in Procs, NEW a \in Serials, DeleteReturn(p, a)
  PROVE  Exact'
<1>1. PICK j : j = [n |-> NextSerial, target |-> a, sale |-> returns[a].sale,
                    form |-> {}, old |-> {}, net |-> 0]
  OBVIOUS
<1>2. /\ phase' = [phase EXCEPT ![p] = "return_delete"] /\ job' = [job EXCEPT ![p] = j]
      /\ returns' = [returns EXCEPT ![a].active = FALSE] /\ returned' = returned
      /\ UNCHANGED <<ordered, sales, sold>>
      /\ returns[a] # NoRow /\ phase[p] = "idle"
  BY <1>1 DEF DeleteReturn, Start, Free
<1>3. j.sale = returns[a].sale
  BY <1>1
<1>4. /\ returns \in [Serials -> Return \cup {NoRow}] /\ returns[a] \in Return
      /\ \A r \in returned : r.doc \in Serials
  BY <1>2 DEF TInv, DataOK
<1>5. PICK x : x = [returns[a] EXCEPT !.active = FALSE]
  OBVIOUS
<1>6. ~x.active /\ returns' = [returns EXCEPT ![a] = x]
  BY <1>2, <1>4, <1>5 DEF Return
<1>7. /\ \A b \in Serials : b # a => returns'[b] = returns[b]
      /\ ~returns'[a].active
  BY <1>4, <1>6
<1>8. \A t : t # j.sale => ReturnsOn(t)' = ReturnsOn(t)
  BY <1>2, <1>3, <1>4, <1>7 DEF ReturnsOn, Active, Live
<1>9. "return_delete" \in MidReturn /\ phase[p] \notin MidReturn
  BY <1>2 DEF MidReturn
<1> QED
  BY <1>2, <1>8, <1>9, ReturnsExact

LEMMA DeleteReturnLinesExact ==
  ASSUME TInv, TInv', Exact, Orderly', NEW p \in Procs, DeleteReturnLines(p)
  PROVE  Exact'
<1>1. PICK j : j = job[p]
  OBVIOUS
<1>2. phase[p] = "return_delete" /\ ReturnJob("return_delete", j)
  BY <1>1 DEF DeleteReturnLines, TInv, SlotsOK, JobOK, ReturnPhases
<1>3. PICK D : D = {r \in returned : r.doc = j.target}
  OBVIOUS
<1>4. PICK W : W = Without(returned, D)
  OBVIOUS
<1>5. /\ phase' = [phase EXCEPT ![p] = "return_lines"] /\ job' = [job EXCEPT ![p] = j]
      /\ returned' = W /\ returns' = returns /\ UNCHANGED <<ordered, sales, sold>>
  BY <1>1, <1>3, <1>4 DEF DeleteReturnLines, Goto, Without
<1>6. /\ \A w \in W : w.active => w \in returned /\ w \notin D
      /\ \A r \in returned : r \notin D => r \in W
  BY <1>4, Struck DEF TInv, DataOK
<1>7. Live(returns, j.target) => returns[j.target].sale = j.sale
  BY <1>2 DEF ReturnJob, Live
<1>8. \A t : t # j.sale => ReturnsOn(t)' = ReturnsOn(t)
  BY <1>3, <1>5, <1>6, <1>7 DEF ReturnsOn, Active, Live
<1>9. "return_lines" \in MidReturn /\ j.sale = job[p].sale
  BY <1>1 DEF MidReturn
<1> QED
  BY <1>2, <1>5, <1>8, <1>9, ReturnsExact

LEMMA WriteNetExact ==
  ASSUME TInv, Exact, NEW p \in Procs, WriteNet(p)
  PROVE  Exact'
<1>1. PICK j : j = job[p]
  OBVIOUS
<1>2. PICK s : s = j.sale
  OBVIOUS
<1>3. phase[p] = "return_net" /\ ReturnJob("return_net", j)
  BY <1>1 DEF WriteNet, TInv, SlotsOK, JobOK, ReturnPhases
<1>4. /\ phase' = [phase EXCEPT ![p] = "idle"] /\ job' = [job EXCEPT ![p] = NoJob]
      /\ sales' = [sales EXCEPT ![s].net = j.net]
      /\ ordered' = ordered /\ sold' = sold /\ returns' = returns /\ returned' = returned
  BY <1>1, <1>2 DEF WriteNet, Finish, Goto
<1>5. /\ s \in Serials /\ j.net \in Int /\ sales[s] # NoRow /\ sales[s] \in Sale
      /\ sales \in [Serials -> Sale \cup {NoRow}]
  BY <1>2, <1>3 DEF ReturnJob, TInv, DataOK
<1>6. PICK x : x = [sales[s] EXCEPT !.net = j.net]
  OBVIOUS
<1>7. /\ x.subtotal = sales[s].subtotal /\ x.auto = sales[s].auto /\ x.net = j.net
      /\ x.active = sales[s].active
  BY <1>5, <1>6 DEF Sale
<1>8. sales' = [sales EXCEPT ![s] = x]
  BY <1>4, <1>6
<1>9. sales'[s] = x /\ \A t \in Serials : t # s => sales'[t] = sales[t]
  BY <1>5, <1>8
<1>10. \A t : ReturnsOn(t)' = ReturnsOn(t)
  BY <1>4 DEF ReturnsOn, Live, Active
<1>11. \A t \in Serials : Live(sales, t)' =>
          /\ Live(sales, t) /\ sales'[t].subtotal = sales[t].subtotal
          /\ sales'[t].auto = sales[t].auto
  BY <1>5, <1>7, <1>9 DEF Live
<1>12. \A t \in Serials : Live(sales, t)' => SameSubtotal(t) /\ SameBack(t)
  BY <1>4, <1>10, <1>11 DEF SameSubtotal, SameBack
<1>13. Live(sales, s)' => NetTold(s)'
  <2>1. Told("return_net", j)
    BY <1>1, <1>3 DEF Exact
  <2>2. Live(sales, s) => j.net = sales[s].subtotal - Total(ReturnsOn(s))
    BY <1>2, <2>1 DEF Told
  <2> QED
    BY <1>5, <1>7, <1>9, <1>10, <1>11, <2>2 DEF NetTold
<1>14. LinesOnce'
  BY <1>4 DEF Exact, LinesOnce
<1>15. phase[p] # "sale_delete"
  BY <1>3
<1>16. Subtotals'
  BY <1>4, <1>12, <1>15, SubtotalsKept DEF Exact
<1>17. Nets'
  <2>1. \A t \in Serials : Live(sales, t)' =>
           \/ SameBack(t) /\ sales'[t].net = sales[t].net
           \/ NetTold(t)'
    BY <1>9, <1>12, <1>13
  <2>2. \A t \in Serials : job[p].sale = t /\ Live(sales, t)' => NetTold(t)'
    BY <1>1, <1>2, <1>13
  <2> QED
    BY <1>4, <2>1, <2>2, NetsKept DEF Exact
<1>18. Told("idle", NoJob)'
  BY DEF Told
<1>19. ASSUME NEW q \in Procs, NEW h, NEW k, q # p, h = phase[q], k = job[q] PROVE ToldOn(h, k)
  <2>1. h = "return_net" => k.sale \in Serials
    BY <1>19 DEF TInv, SlotsOK, JobOK, ReturnJob, ReturnPhases
  <2> QED
    BY <1>10, <1>12, <2>1 DEF ToldOn
<1>20. (\A q \in Procs : Told(phase[q], job[q]))'
  BY <1>4, <1>18, <1>19, ToldKept DEF Exact
<1> QED
  BY <1>14, <1>16, <1>17, <1>20 DEF Exact

\* A request that has failed halfway stays in the history.
LEMMA FailuresStay ==
  ASSUME TInv, [SalesNext]_vars
  PROVE  interrupted => interrupted'
<1>1. ASSUME NEW p \in Procs, NEW ph, NEW j, NEW rivals, Start(p, ph, j, rivals)
      PROVE  interrupted' = interrupted
  BY <1>1 DEF Start
<1>2. ASSUME NEW p \in Procs, NEW ph, NEW j, Goto(p, ph, j) PROVE interrupted' = interrupted
  BY <1>2 DEF Goto
<1>3. CASE UNCHANGED vars
  BY <1>3 DEF vars, slotVars
<1>4. ASSUME NEW p \in Procs, NEW s \in Serials, NEW linked \in BOOLEAN,
             BeginSale(p, s, linked)
      PROVE  interrupted' = interrupted
  BY <1>1, <1>4 DEF BeginSale
<1>5. ASSUME NEW p \in Procs, NEW a \in Serials, NEW s \in Serials, BeginReturn(p, a, s)
      PROVE  interrupted' = interrupted
  BY <1>1, <1>5 DEF BeginReturn
<1>6. ASSUME NEW p \in Procs, BeginRequestSave(p) \/ BeginDeleteRequest(p)
      PROVE  interrupted' = interrupted
  BY <1>1, <1>6 DEF BeginRequestSave, BeginDeleteRequest
<1>7. ASSUME NEW p \in Procs, NEW s \in Serials, BeginDeleteSale(p, s) \/ DeleteReturn(p, s)
      PROVE  interrupted' = interrupted
  BY <1>1, <1>7 DEF BeginDeleteSale, DeleteReturn
<1>8. ASSUME NEW p \in Procs, NEW s \in Serials, UpdateOrderSaleStatus(p, s)
      PROVE  interrupted' = interrupted
  BY <1>8 DEF UpdateOrderSaleStatus, Instant
<1>9. ASSUME NEW p \in Procs, UpdateOrderRequestStatus(p) PROVE interrupted' = interrupted
  BY <1>9 DEF UpdateOrderRequestStatus, Instant
<1>10. ASSUME NEW p \in Procs,
              SnapshotSale(p) \/ SnapshotRequest(p) \/ CommitSale(p) \/ CommitRequest(p)
       PROVE  interrupted' = interrupted
  BY <1>2, <1>10 DEF SnapshotSale, SnapshotRequest, CommitSale, CommitRequest, Finish
<1>11. ASSUME NEW p \in Procs, DeleteSaleLine(p) \/ DeleteSaleHeader(p)
       PROVE  interrupted' = interrupted
  BY <1>2, <1>11 DEF DeleteSaleLine, DeleteSaleHeader, Finish
<1>12. ASSUME NEW p \in Procs, DeleteRequestLines(p) \/ DeleteRequestHeader(p)
       PROVE  interrupted' = interrupted
  BY <1>2, <1>12 DEF DeleteRequestLines, DeleteRequestHeader, Finish
<1>13. ASSUME NEW p \in Procs, ReturnHeader(p) \/ ReturnLine(p) \/ DeleteReturnLines(p)
       PROVE  interrupted' = interrupted
  BY <1>2, <1>13 DEF ReturnHeader, ReturnLine, DeleteReturnLines
<1>14. ASSUME NEW p \in Procs, ReadNet(p) \/ WriteNet(p) PROVE interrupted' = interrupted
  BY <1>2, <1>14 DEF ReadNet, WriteNet, Finish
<1>15. ASSUME NEW p \in Procs, FailSale(p) PROVE interrupted => interrupted'
  BY <1>15 DEF FailSale, Fail
<1> QED
  BY <1>3, <1>4, <1>5, <1>6, <1>7, <1>8, <1>9, <1>10, <1>11, <1>12, <1>13, <1>14, <1>15
     DEF SalesNext

LEMMA StepExact ==
  ASSUME TInv, TInv', Orderly, Orderly', Exact, ~interrupted', [SalesNext]_vars
  PROVE  Exact'
<1>1. CASE UNCHANGED vars
  <2>1. /\ phase' = phase /\ job' = job /\ ordered' = ordered /\ sales' = sales
        /\ sold' = sold /\ returns' = returns /\ returned' = returned
    BY <1>1 DEF vars, slotVars, saleVars
  <2>2. \A s : ReturnsOn(s)' = ReturnsOn(s) /\ ActiveOf(sold, s)' = ActiveOf(sold, s)
    BY <2>1 DEF ReturnsOn, Live, Active
  <2>3. LinesOnce'
    BY <2>1 DEF Exact, LinesOnce
  <2>4. Subtotals'
    BY <2>1, <2>2 DEF Exact, Subtotals, SubtotalTold, Live
  <2>5. Nets'
    BY <2>1, <2>2 DEF Exact, Nets, NetTold, Live
  <2>6. ASSUME NEW q \in Procs PROVE Told(phase[q], job[q])'
    <3>1. PICK h, k : h = phase[q] /\ k = job[q]
      OBVIOUS
    <3>2. Told(h, k)
      BY <3>1 DEF Exact
    <3>3. Told(h, k)'
      BY <2>1, <2>2, <3>2 DEF Told, Live
    <3> QED
      BY <2>1, <3>1, <3>3
  <2> QED
    BY <2>3, <2>4, <2>5, <2>6 DEF Exact
<1>2. ASSUME NEW p \in Procs,
             \/ \E s \in Serials, linked \in BOOLEAN : BeginSale(p, s, linked)
             \/ \E s \in Serials : BeginDeleteSale(p, s)
             \/ BeginRequestSave(p) \/ BeginDeleteRequest(p)
             \/ \E a, s \in Serials : BeginReturn(p, a, s)
      PROVE  Exact'
  BY <1>2, BeginsExact
<1>3. ASSUME NEW p \in Procs, SnapshotSale(p) \/ SnapshotRequest(p) PROVE Exact'
  BY <1>3, SnapshotExact
<1>4. ASSUME NEW p \in Procs, CommitSale(p) PROVE Exact'
  BY <1>4, CommitSaleExact
<1>5. ASSUME NEW p \in Procs,
             (\E s \in Serials : UpdateOrderSaleStatus(p, s)) \/ UpdateOrderRequestStatus(p)
      PROVE  Exact'
  BY <1>5, StatusExact
<1>6. ASSUME NEW p \in Procs, DeleteSaleLine(p) PROVE Exact'
  BY <1>6, DeleteSaleLineExact
<1>7. ASSUME NEW p \in Procs, DeleteSaleHeader(p) PROVE Exact'
  BY <1>7, DeleteSaleHeaderExact
<1>8. ASSUME NEW p \in Procs,
             CommitRequest(p) \/ DeleteRequestLines(p) \/ DeleteRequestHeader(p)
      PROVE  Exact'
  BY <1>8, OrdersExact
<1>9. ASSUME NEW p \in Procs, ReturnHeader(p) PROVE Exact'
  BY <1>9, ReturnHeaderExact
<1>10. ASSUME NEW p \in Procs, ReturnLine(p) PROVE Exact'
  BY <1>10, ReturnLineExact
<1>11. ASSUME NEW p \in Procs, ReadNet(p) PROVE Exact'
  BY <1>11, ReadNetExact
<1>12. ASSUME NEW p \in Procs, WriteNet(p) PROVE Exact'
  BY <1>12, WriteNetExact
<1>13. ASSUME NEW p \in Procs, NEW a \in Serials, DeleteReturn(p, a) PROVE Exact'
  BY <1>13, DeleteReturnExact
<1>14. ASSUME NEW p \in Procs, DeleteReturnLines(p) PROVE Exact'
  BY <1>14, DeleteReturnLinesExact
<1>15. ASSUME NEW p \in Procs, FailSale(p) PROVE Exact'
  BY <1>15, FailExact
<1> QED
  BY <1>1, <1>2, <1>3, <1>4, <1>5, <1>6, <1>7, <1>8, <1>9, <1>10, <1>11, <1>12, <1>13, <1>14,
     <1>15 DEF SalesNext

LEMMA InitExact == SlotsInit /\ SalesInit => Exact
<1> SUFFICES ASSUME SlotsInit, SalesInit PROVE Exact
  OBVIOUS
<1>1. \A p \in Procs : phase[p] = "idle"
  BY DEF SlotsInit
<1>2. \A s \in Serials : ~Live(sales, s)
  BY DEF SalesInit, Live
<1>3. sold = {}
  BY DEF SalesInit
<1>4. PICK form \in Forms({}, Products, Kilos) : ordered = {NewRow(l, PEDIDO, 0) : l \in form}
  BY DEF SalesInit
<1>5. \A l, m \in form : l.item = m.item => l = m
  <2>1. PICK rows : rows = {}
    OBVIOUS
  <2>2. rows \subseteq Row /\ form \in Forms(rows, Products, Kilos)
    BY <1>4, <2>1
  <2> QED
    BY <2>2, FormsOK DEF FormOK
<1>6. ItemsOnce(ordered)
  <2>1. ASSUME NEW r \in ordered, NEW q \in ordered, r.item = q.item PROVE r = q
    <3>1. PICK l \in form : r = NewRow(l, PEDIDO, 0)
      BY <1>4
    <3>2. PICK m \in form : q = NewRow(m, PEDIDO, 0)
      BY <1>4
    <3>3. r.item = l.item /\ q.item = m.item
      BY <3>1, <3>2 DEF NewRow
    <3> QED
      BY <1>5, <2>1, <3>1, <3>2, <3>3
  <2> QED
    BY <2>1 DEF ItemsOnce
<1>7. ItemsOnce(ActiveOf(ordered, PEDIDO))
  BY <1>6 DEF ItemsOnce, ActiveOf, Active, RowsOf
<1>8. \A s : ItemsOnce(ActiveOf(sold, s))
  BY <1>3 DEF ItemsOnce, ActiveOf, Active, RowsOf
<1>9. \A p \in Procs : Told(phase[p], job[p])
  BY <1>1 DEF Told
<1> QED
  BY <1>2, <1>7, <1>8, <1>9 DEF Exact, LinesOnce, Subtotals, Nets

\* The summary of a sale is its net total, line by line.
LEMMA SummaryIsNet ==
  ASSUME TInv, Nested, LinesOnce, NEW s \in Serials, Live(sales, s)
  PROVE  SalesSummary(s) = Total(ActiveOf(sold, s)) - Total(ReturnsOn(s))
<1>1. PICK A : A = ActiveOf(sold, s)
  OBVIOUS
<1>2. PICK B : B = ReturnsOn(s)
  OBVIOUS
<1>3. Rows(A) /\ Rows(B) /\ \A r \in A : r.doc = s
  BY <1>1, <1>2, InForceAreRows DEF ActiveOf, Active, RowsOf
<1>4. \A r, q \in A : r.item = q.item => r = q
  BY <1>1 DEF LinesOnce, ItemsOnce
<1>5. PICK I : I = Items(A)
  OBVIOUS
<1>6. \A r \in B : r.item \in I
  BY <1>1, <1>2, <1>5, BackIsSold
<1>7. PICK named : named = [r \in A |-> r.item]
  OBVIOUS
<1>8. IsFiniteSet(A) /\ IsFiniteSet(I)
  <2>1. DOMAIN named = A /\ named = [r \in A |-> named[r]] /\ \A r \in A : named[r] \in I
    BY <1>5, <1>7 DEF Items
  <2>2. \A i \in I : \E r \in A : named[r] = i
    BY <1>5, <1>7 DEF Items
  <2>3. IsFiniteSet(A)
    BY <1>3 DEF Rows
  <2> QED
    BY <2>1, <2>2, <2>3, FiniteImage
<1>9. PICK g : g = [i \in I |-> TotalOf(B, i)]
  OBVIOUS
<1>10. Total(B) = SumFunctionOnSet(g, I)
  BY <1>3, <1>6, <1>8, <1>9, TotalByItem
<1>11. PICK back : back = [r \in A |-> TotalOf(B, r.item)]
  OBVIOUS
<1>12. \A i : TotalOf(B, i) \in Nat
  BY <1>3, TotalIsNatural
<1>13. SumFunctionOnSet(back, A) = SumFunctionOnSet(g, I)
  <2>1. named \in [A -> I]
    BY <1>5, <1>7 DEF Items
  <2>2. \A r, q \in A : named[r] = named[q] => r = q
    BY <1>4, <1>7
  <2>3. \A i \in I : \E r \in A : i = named[r]
    BY <1>5, <1>7 DEF Items
  <2>4. \A r \in A : back[r] \in Int /\ g[named[r]] = back[r]
    <3>1. ASSUME NEW r \in A PROVE back[r] \in Int /\ g[named[r]] = back[r]
      <4>1. named[r] = r.item /\ named[r] \in I
        BY <1>7, <2>1
      <4>2. back[r] = TotalOf(B, r.item) /\ g[named[r]] = TotalOf(B, r.item)
        BY <1>9, <1>11, <4>1
      <4>3. TotalOf(B, r.item) \in Int
        BY <1>12
      <4> QED
        BY <4>2, <4>3
    <3> QED
      BY <3>1
  <2> QED
    BY <1>8, <2>1, <2>2, <2>3, <2>4, SumRenamed
<1>14. PICK f : f = [r \in A |-> r.amount]
  OBVIOUS
<1>15. Total(A) = SumFunctionOnSet(f, A)
  BY <1>14 DEF Total, SumFunction
<1>16. PICK h : h = [r \in A |-> NetLine(r)]
  OBVIOUS
<1>17. \A r \in A : f[r] \in Int /\ back[r] \in Int /\ h[r] = f[r] - back[r]
  <2>1. ASSUME NEW r \in A PROVE f[r] \in Int /\ back[r] \in Int /\ h[r] = f[r] - back[r]
    <3>1. f[r] = r.amount /\ r.amount \in Nat /\ r.doc = s
      BY <1>3, <1>14 DEF Rows
    <3>2. back[r] = TotalOf(B, r.item)
      BY <1>11
    <3>3. TotalOf(B, r.item) \in Nat
      BY <1>12
    <3>4. h[r] = r.amount - TotalOf(B, r.item)
      BY <1>2, <1>16, <3>1 DEF NetLine, BackOf
    <3> QED
      BY <3>1, <3>2, <3>3, <3>4
  <2> QED
    BY <2>1
<1>18. SumFunctionOnSet(h, A) = SumFunctionOnSet(f, A) - SumFunctionOnSet(back, A)
  BY <1>8, <1>17, SumOfDifferences
<1>19. SalesSummary(s) = SumFunctionOnSet(h, A)
  BY <1>1, <1>16 DEF SalesSummary, SumFunction
<1> QED
  BY <1>1, <1>2, <1>10, <1>13, <1>15, <1>18, <1>19

\* No line of the order request shows as fulfilled beyond what it asks.
LEMMA FulfilledWithin ==
  ASSUME TInv, Nested, LinesOnce, NEW r \in ActiveOf(ordered, PEDIDO), NEW canceled
  PROVE  FulfilledBy(r.item, canceled) <= r.amount
<1>1. PICK i : i = r.item
  OBVIOUS
<1>2. PICK O : O = Active(ordered)
  OBVIOUS
<1>3. r \in O /\ Rows(O) /\ Rows(SoldLines)
  BY <1>2, InForceAreRows DEF ActiveOf, Active, RowsOf
<1>4. \A q \in O : q \in ActiveOf(ordered, PEDIDO)
  BY <1>2 DEF TInv, DataOK, ActiveOf, Active, RowsOf
<1>5. \A q \in O : q.item = i => q = r
  BY <1>1, <1>4 DEF LinesOnce, ItemsOnce
<1>6. TotalOf(O, i) = r.amount
  BY <1>1, <1>3, <1>5, TotalOfFew
<1>7. i \in Products
  <2>1. r \in Row
    BY DEF ActiveOf, Active, RowsOf, TInv, DataOK, TableOK
  <2> QED
    BY <1>1, <2>1, RowParts
<1>8. TotalOf(SoldLines, i) <= TotalOf(O, i)
  BY <1>2, <1>7 DEF Nested
<1>9. PICK F : F = {q \in SoldLines : q.doc \notin canceled}
  OBVIOUS
<1>10. F \subseteq SoldLines
  BY <1>9
<1>11. TotalOf(F, i) <= TotalOf(SoldLines, i) /\ TotalOf(F, i) \in Nat /\ TotalOf(SoldLines, i) \in Nat
  BY <1>3, <1>10, TotalGrows
<1>12. FulfilledBy(i, canceled) = TotalOf(F, i)
  BY <1>9 DEF FulfilledBy
<1>13. TotalOf(O, i) \in Nat
  BY <1>3, TotalIsNatural
<1> QED
  BY <1>1, <1>6, <1>8, <1>11, <1>12, <1>13

\* What documents and summaries tell of the sales when no request is in flight.
SalesTell ==
    Idle /\ ~contended /\ ~interrupted =>
        /\ \A s \in Serials : Live(sales, s) =>
              /\ sales[s].auto => SalesSummary(s) = sales[s].net
              /\ sales[s].net - SalesSummary(s) =
                    sales[s].subtotal - Total(ActiveOf(sold, s))
        /\ \A r \in ActiveOf(ordered, PEDIDO), canceled \in SUBSET ActiveSales :
              FulfilledBy(r.item, canceled) <= r.amount

LEMMA ExactTells ==
  ASSUME TInv, Orderly, Exact, Idle
  PROVE  NetTotalsExact /\ SalesTell
<1>1. \A p \in Procs : phase[p] # "sale_delete" /\ phase[p] \notin MidReturn
  BY DEF Idle, MidReturn
<1>2. ASSUME NEW s \in Serials, Live(sales, s)
      PROVE  /\ sales[s].auto => sales[s].subtotal = Total(ActiveOf(sold, s))
             /\ sales[s].net = sales[s].subtotal - Total(ReturnsOn(s))
             /\ sales[s].auto => SalesSummary(s) = sales[s].net
             /\ sales[s].net - SalesSummary(s) = sales[s].subtotal - Total(ActiveOf(sold, s))
  <2>1. sales[s].auto => sales[s].subtotal = Total(ActiveOf(sold, s))
    BY <1>1, <1>2 DEF Exact, Subtotals, SubtotalTold
  <2>2. sales[s].net = sales[s].subtotal - Total(ReturnsOn(s))
    BY <1>1, <1>2 DEF Exact, Nets, NetTold
  <2>3. SalesSummary(s) = Total(ActiveOf(sold, s)) - Total(ReturnsOn(s))
    BY <1>2, SummaryIsNet DEF Orderly, Exact
  <2>4. Rows(ActiveOf(sold, s)) /\ Rows(ReturnsOn(s)) /\ sales[s].subtotal \in Int
    <3>1. sales[s] \in Sale
      BY <1>2 DEF Live, TInv, DataOK
    <3> QED
      BY <3>1, InForceAreRows DEF Sale
  <2>5. Total(ActiveOf(sold, s)) \in Nat /\ Total(ReturnsOn(s)) \in Nat
    BY <2>4, TotalType
  <2> QED
    BY <2>1, <2>2, <2>3, <2>4, <2>5
<1>3. \A r \in ActiveOf(ordered, PEDIDO), canceled \in SUBSET ActiveSales :
         FulfilledBy(r.item, canceled) <= r.amount
  BY FulfilledWithin DEF Orderly, Exact
<1> QED
  BY <1>2, <1>3 DEF NetTotalsExact, SalesTell

SalesInv ==
    /\ TInv
    /\ ~contended => Orderly
    /\ ~contended /\ ~interrupted => Exact

LEMMA InitSales == SlotsInit /\ SalesInit => SalesInv
  BY InitTypes, InitOrderly, InitExact DEF SalesInv

LEMMA StepSales ==
  ASSUME SalesInv, [SalesNext]_vars
  PROVE  SalesInv'
<1>1. TInv /\ TInv'
  BY StepTypes DEF SalesInv
<1>2. ASSUME ~contended' PROVE Orderly /\ Orderly'
  <2>1. Orderly
    BY <1>1, <1>2, RivalsStay DEF SalesInv
  <2> QED
    BY <1>1, <1>2, <2>1, StepOrderly
<1>3. ASSUME ~contended', ~interrupted' PROVE Exact'
  <2>1. Exact
    BY <1>1, <1>3, RivalsStay, FailuresStay DEF SalesInv
  <2> QED
    BY <1>1, <1>2, <1>3, <2>1, StepExact
<1> QED
  BY <1>1, <1>2, <1>3 DEF SalesInv

LEMMA SalesInvTells ==
  ASSUME SalesInv
  PROVE  NetTotalsExact /\ SalesTell
<1>1. CASE Idle /\ ~contended /\ ~interrupted
  BY <1>1, ExactTells DEF SalesInv
<1> QED
  BY <1>1 DEF NetTotalsExact, SalesTell

----------------------------------------------------------------------------
(* Expenses: what holds whatever overlaps *)

ExpenseSaves == {"expense_header", "expense_lines"}
ExpenseDeletes == {"expense_delete", "expense_delete_lines"}
Generating == {"generate_tx", "generate_commit"}
Numbered == ExpenseSaves \cup Generating
ExpensePhases == {"idle"} \cup ExpenseDeletes \cup Numbered

\* The lines have an id each, named by the request that inserted them and by their
\* resource.
LinesOK(rows, n) ==
    /\ IsFiniteSet(rows)
    /\ rows \subseteq Line
    /\ \A r \in rows : r.id[2] = r.item /\ r.id[1][1] <= n
    /\ \A r, q \in rows : r.id = q.id => r = q

\* A form has a line for each of some resources, new or for a line of the expense.
ExpenseForm(form, rows) ==
    /\ IsFiniteSet(form)
    /\ \A l \in form : /\ l.item \in Resources
                       /\ l.amount \in UNION Range(Units)
                       /\ l.id # NoId => l.id \in Ids(rows) /\ l.id[2] = l.item
    /\ \A l, m \in form : l.item = m.item => l = m

\* The number of the request, which names what it inserts.
NumberOf(ph, j) == IF ph \in ExpenseSaves THEN j.n[1] ELSE j.n

SaveOfExpense(ph, j) ==
    /\ j = [n |-> j.n, target |-> j.target, form |-> j.form, old |-> j.old,
            record |-> j.record]
    /\ j.n \in Expense /\ j.target \in Expense /\ j.record \in ExpenseRecord
    /\ ExpenseForm(j.form, RowsOf(lines, j.target))
    /\ \A l \in j.form : \A r \in lines : r.id # <<j.n, l.item>>
    /\ ph = "expense_header" =>
          j.record.subtotal = Total(j.form) /\ (Stored(j.target) \/ j.target = j.n)
    /\ ph = "expense_lines" =>
          /\ Stored(j.target)
          /\ Read(j.old, j.form, RowsOf(lines, j.target))
          /\ \A r, q \in j.old : r.id = q.id => r = q

GenerationOf(j) ==
    /\ j = [n |-> j.n, table |-> j.table, items |-> j.items]
    /\ j.n \in Serials
    /\ DOMAIN j.items \subseteq {1, 2}
    /\ \A k \in DOMAIN j.items : /\ j.items[k].source \in Expense
                                 /\ j.items[k].period \in Periods
                                 /\ ExpenseForm(j.items[k].form, {})
    /\ \A k \in {1, 2} : ~Stored(<<j.n, k>>)
    /\ \A r \in lines : r.id[1][1] # j.n

ExpenseJob(ph, j) ==
    /\ ph \in ExpenseSaves => SaveOfExpense(ph, j)
    /\ ph \in Generating => GenerationOf(j)
    /\ ph \in ExpenseDeletes => j = [target |-> j.target] /\ Stored(j.target)

ExpenseData ==
    /\ MaxRequests \in Nat /\ started \in 0..MaxRequests
    /\ {contended, interrupted, moved, revived} \subseteq BOOLEAN
    /\ expenses \in [DOMAIN expenses -> ExpenseRecord]
    /\ \A e \in DOMAIN expenses : e \in Expense /\ e[1] <= started
    /\ LinesOK(lines, started)
    /\ \A r \in lines : Stored(r.doc)

ExpenseSlots ==
    /\ phase \in [Procs -> ExpensePhases]
    /\ job = [p \in Procs |-> job[p]]
    /\ \A p \in Procs : ExpenseJob(phase[p], job[p])
    /\ \A p \in Procs : phase[p] \in Numbered =>
          NumberOf(phase[p], job[p]) \in Nat /\ NumberOf(phase[p], job[p]) <= started
    /\ \A p, q \in Procs :
          p # q /\ phase[p] \in Numbered /\ phase[q] \in Numbered =>
             NumberOf(phase[p], job[p]) # NumberOf(phase[q], job[q])

EInv == ExpenseData /\ ExpenseSlots

LEMMA UnitsPositive == \A k \in UNION Range(Units) : k \in Nat /\ k > 0
<1>1. ASSUME NEW U \in Range(Units), NEW k \in U PROVE k \in Nat /\ k > 0
  <2>1. PICK i \in Resources : U = Units[i]
    BY ExpensesBounds DEF Range
  <2>2. U \subseteq Nat \ {0}
    BY <2>1, ExpensesBounds
  <2> QED
    BY <2>2
<1> QED
  BY <1>1

LEMMA LineParts ==
  ASSUME NEW r \in Line
  PROVE  /\ r = [id |-> r.id, doc |-> r.doc, item |-> r.item, amount |-> r.amount,
                 active |-> r.active]
         /\ r.id \in Expense \X Resources /\ r.id # NoId /\ r.doc \in Expense
         /\ r.item \in Resources /\ r.amount \in Nat /\ r.active \in BOOLEAN
         /\ r.amount \in UNION Range(Units) /\ r.id[1] \in Expense /\ r.id[1][1] \in Nat
<1>1. r.amount \in UNION Range(Units) /\ r.id \in Expense \X Resources
  BY DEF Line
<1>2. r.id[1] \in Expense
  BY <1>1
<1>3. r.id[1][1] \in Nat
  BY <1>2 DEF Expense, Serials
<1> QED
  BY <1>1, <1>2, <1>3, UnitsPositive, ExpenseNames DEF Line

LEMMA LinesAreRows ==
  ASSUME NEW rows, NEW n, LinesOK(rows, n), NEW S, S \subseteq rows
  PROVE  Rows(S)
<1>1. IsFiniteSet(S)
  BY FS_Subset DEF LinesOK
<1>2. \A r \in S : r \in Line
  BY DEF LinesOK
<1> QED
  BY <1>1, <1>2, LineParts DEF Rows

LEMMA ExpenseForms ==
  ASSUME NEW rows, NEW form \in Forms(rows, Resources, Units)
  PROVE  ExpenseForm(form, rows)
<1> DEFINE Lines == {l \in [id : Ids(rows) \cup {NoId}, item : Resources,
                             amount : UNION Range(Units)] :
                        l.amount \in Units[l.item] /\ (l.id # NoId => l.id[2] = l.item)}
<1>1. PICK S \in SUBSET Resources :
        form \in {{f[i] : i \in S} : f \in {g \in [S -> Lines] : \A i \in S : g[i].item = i}}
  BY DEF Forms
<1>2. PICK f \in [S -> Lines] : (\A i \in S : f[i].item = i) /\ form = {f[i] : i \in S}
  BY <1>1
<1>3. IsFiniteSet(S)
  BY ExpenseNames, FS_Subset
<1>4. IsFiniteSet(form)
  <2>1. \A x \in S : f[x] \in form
    BY <1>2
  <2>2. \A l \in form : \E x \in S : f[x] = l
    BY <1>2
  <2>3. DOMAIN f = S /\ f = [x \in S |-> f[x]]
    BY <1>2
  <2> QED
    BY <1>3, <2>1, <2>2, <2>3, FiniteImage
<1>5. \A l \in form : l \in Lines
  BY <1>2
<1>6. \A l, m \in form : l.item = m.item => l = m
  BY <1>2
<1>7. \A l \in form : l.id # NoId => l.id \in Ids(rows) /\ l.id[2] = l.item
  BY <1>5
<1>8. \A l \in form : l.item \in Resources /\ l.amount \in UNION Range(Units)
  BY <1>5
<1> QED
  BY <1>4, <1>6, <1>7, <1>8 DEF ExpenseForm

LEMMA FormIsRows ==
  ASSUME NEW form, NEW rows, ExpenseForm(form, rows)
  PROVE  Rows(form) /\ Total(form) \in Nat
<1>1. Rows(form)
  BY UnitsPositive DEF ExpenseForm, Rows
<1>2. PICK P : P = form
  OBVIOUS
<1>3. PICK R : R = form \ P
  OBVIOUS
<1>4. P \subseteq form
  BY <1>2
<1>5. Total(form) \in Nat
  BY <1>1, <1>3, <1>4, TotalSplits
<1> QED
  BY <1>1, <1>5

\* What a step of p leaves: no row is lost, and new ones bear the number of p.
Writes(p) ==
    /\ \A r \in lines : \E w \in lines' : w.id = r.id /\ w.doc = r.doc
    /\ \A w \in lines' :
          \/ \E r \in lines : w.id = r.id /\ w.doc = r.doc
          \/ phase[p] \in Numbered /\ w.id[1][1] = NumberOf(phase[p], job[p])
    /\ \A e : Stored(e) => Stored(e)'
    /\ \A e : Stored(e)' =>
          Stored(e) \/ (phase[p] \in Numbered /\ e[1] = NumberOf(phase[p], job[p]))

LEMMA IdsOfLines ==
  ASSUME LinesOK(lines, started), NEW t
  PROVE  \A x : x \in Ids(RowsOf(lines, t)) <=> \E r \in lines : r.doc = t /\ r.id = x
<1>1. \A r \in lines : r.id # NoId
  BY LineParts DEF LinesOK
<1> QED
  BY <1>1 DEF Ids, RowsOf

LEMMA IdsGrow ==
  ASSUME EInv, NEW p \in Procs, Writes(p), LinesOK(lines, started)', NEW t
  PROVE  Ids(RowsOf(lines, t)) \subseteq Ids(RowsOf(lines, t)')
<1>1. \A r \in lines' : r.id # NoId
  BY LineParts DEF LinesOK
<1>2. \A x \in Ids(RowsOf(lines, t)) : \E r \in lines : r.doc = t /\ r.id = x
  BY DEF Ids, RowsOf
<1>3. \A x \in Ids(RowsOf(lines, t)) : \E w \in lines' : w.doc = t /\ w.id = x
  BY <1>2 DEF Writes
<1> QED
  BY <1>1, <1>3 DEF Ids, RowsOf

LEMMA ExpenseJobKept ==
  ASSUME EInv, NEW p \in Procs, Writes(p), LinesOK(lines, started)', NEW h, NEW k,
         ExpenseJob(h, k),
         h \in Numbered /\ phase[p] \in Numbered => NumberOf(h, k) # NumberOf(phase[p], job[p])
  PROVE  ExpenseJob(h, k)'
<1>1. ASSUME h \in ExpenseSaves PROVE SaveOfExpense(h, k)'
  <2>1. SaveOfExpense(h, k)
    BY <1>1 DEF ExpenseJob
  <2>2. Ids(RowsOf(lines, k.target)) \subseteq Ids(RowsOf(lines, k.target)')
    BY IdsGrow
  <2>3. PICK R : R = RowsOf(lines, k.target)
    OBVIOUS
  <2>4. PICK W : W = RowsOf(lines, k.target)'
    OBVIOUS
  <2>5. ExpenseForm(k.form, W)
    <3>1. ExpenseForm(k.form, R) /\ Ids(R) \subseteq Ids(W)
      BY <2>1, <2>2, <2>3, <2>4 DEF SaveOfExpense
    <3> QED
      BY <3>1 DEF ExpenseForm
  <2>6. ASSUME NEW l \in k.form, NEW w \in lines' PROVE w.id # <<k.n, l.item>>
    <3>1. CASE \E r \in lines : w.id = r.id
      BY <2>1, <3>1 DEF SaveOfExpense
    <3>2. CASE phase[p] \in Numbered /\ w.id[1][1] = NumberOf(phase[p], job[p])
      <4>1. NumberOf(h, k) = k.n[1] /\ h \in Numbered
        BY <1>1 DEF NumberOf, Numbered
      <4>2. w.id[1][1] # k.n[1]
        BY <3>2, <4>1
      <4> QED
        BY <4>2
    <3> QED
      BY <3>1, <3>2 DEF Writes
  <2>7. Stored(k.target) => Stored(k.target)'
    BY DEF Writes
  <2>8. h = "expense_lines" => Read(k.old, k.form, W)
    <3>1. h = "expense_lines" => Read(k.old, k.form, R) /\ Ids(R) \subseteq Ids(W)
      BY <2>1, <2>2, <2>3, <2>4 DEF SaveOfExpense
    <3> QED
      BY <3>1 DEF Read
  <2> QED
    BY <2>1, <2>4, <2>5, <2>6, <2>7, <2>8 DEF SaveOfExpense
<1>2. ASSUME h \in Generating PROVE GenerationOf(k)'
  <2>1. GenerationOf(k)
    BY <1>2 DEF ExpenseJob
  <2>2. NumberOf(h, k) = k.n /\ h \in Numbered
    BY <1>2 DEF NumberOf, Numbered, ExpenseSaves, Generating
  <2>3. ASSUME NEW i \in {1, 2} PROVE ~Stored(<<k.n, i>>)'
    <3>1. PICK e : e = <<k.n, i>>
      OBVIOUS
    <3>2. ~Stored(e) /\ e[1] = k.n
      BY <2>1, <3>1 DEF GenerationOf
    <3>3. ~Stored(e)'
      BY <2>2, <3>2 DEF Writes
    <3> QED
      BY <3>1, <3>3
  <2>4. ASSUME NEW w \in lines' PROVE w.id[1][1] # k.n
    <3>1. ASSUME NEW r \in lines, w.id = r.id PROVE w.id[1][1] # k.n
      BY <2>1, <3>1 DEF GenerationOf
    <3>2. CASE phase[p] \in Numbered /\ w.id[1][1] = NumberOf(phase[p], job[p])
      BY <2>2, <3>2
    <3> QED
      BY <3>1, <3>2 DEF Writes
  <2> QED
    BY <2>1, <2>3, <2>4 DEF GenerationOf
<1>3. ASSUME h \in ExpenseDeletes PROVE k = [target |-> k.target] /\ Stored(k.target)'
  BY <1>3 DEF ExpenseJob, Writes
<1> QED
  BY <1>1, <1>2, <1>3 DEF ExpenseJob

LEMMA ExpenseSlotsKept ==
  ASSUME EInv, NEW p \in Procs, Writes(p), ExpenseData', started <= started',
         NEW ph \in ExpensePhases, NEW j, ExpenseJob(ph, j)',
         phase' = [phase EXCEPT ![p] = ph], job' = [job EXCEPT ![p] = j],
         ph \in Numbered =>
            /\ NumberOf(ph, j) \in Nat /\ NumberOf(ph, j) <= started'
            /\ \/ phase[p] \in Numbered /\ NumberOf(ph, j) = NumberOf(phase[p], job[p])
               \/ NumberOf(ph, j) > started
  PROVE  EInv'
<1>1. phase' \in [Procs -> ExpensePhases] /\ phase'[p] = ph /\ job'[p] = j
      /\ job' = [q \in Procs |-> job'[q]]
  BY DEF EInv, ExpenseSlots
<1>2. \A q \in Procs : q # p => phase'[q] = phase[q] /\ job'[q] = job[q]
  BY DEF EInv, ExpenseSlots
<1>3. LinesOK(lines, started)' /\ started \in Nat /\ started' \in Nat
  BY DEF EInv, ExpenseData
<1>4. ASSUME NEW q \in Procs, q # p PROVE ExpenseJob(phase[q], job[q])'
  <2>1. PICK h, k : h = phase[q] /\ k = job[q]
    OBVIOUS
  <2>2. /\ ExpenseJob(h, k)
        /\ h \in Numbered /\ phase[p] \in Numbered => NumberOf(h, k) # NumberOf(phase[p], job[p])
    BY <1>4, <2>1 DEF EInv, ExpenseSlots
  <2>3. ExpenseJob(h, k)'
    BY <1>3, <2>2, ExpenseJobKept
  <2> QED
    BY <1>2, <1>4, <2>1, <2>3
<1>5. PICK N : N = [q \in Procs |-> NumberOf(phase[q], job[q])]
  OBVIOUS
<1>6. PICK M : M = [q \in Procs |-> NumberOf(phase'[q], job'[q])]
  OBVIOUS
<1>7. /\ \A q \in Procs : phase[q] \in Numbered => N[q] \in Nat /\ N[q] <= started
      /\ \A q, r \in Procs : q # r /\ phase[q] \in Numbered /\ phase[r] \in Numbered => N[q] # N[r]
  BY <1>5 DEF EInv, ExpenseSlots
<1>8. \A q \in Procs : q # p => M[q] = N[q]
  BY <1>2, <1>5, <1>6
<1>9. ph \in Numbered =>
         /\ M[p] \in Nat /\ M[p] <= started'
         /\ \/ phase[p] \in Numbered /\ M[p] = N[p]
            \/ M[p] > started
  BY <1>1, <1>5, <1>6
<1>10. \A q \in Procs : phase'[q] \in Numbered => M[q] \in Nat /\ M[q] <= started'
  BY <1>1, <1>2, <1>3, <1>7, <1>8, <1>9
<1>11. ASSUME NEW q \in Procs, q # p, ph \in Numbered, phase[q] \in Numbered PROVE M[q] # M[p]
  BY <1>3, <1>7, <1>8, <1>9, <1>11
<1>12. \A q, r \in Procs :
          q # r /\ phase'[q] \in Numbered /\ phase'[r] \in Numbered => M[q] # M[r]
  BY <1>1, <1>2, <1>7, <1>8, <1>11
<1>13. /\ \A q \in Procs : phase'[q] \in Numbered =>
             NumberOf(phase'[q], job'[q]) \in Nat /\ NumberOf(phase'[q], job'[q]) <= started'
       /\ \A q, r \in Procs :
             q # r /\ phase'[q] \in Numbered /\ phase'[r] \in Numbered =>
                NumberOf(phase'[q], job'[q]) # NumberOf(phase'[r], job'[r])
  BY <1>6, <1>10, <1>12
<1>14. \A q \in Procs : ExpenseJob(phase[q], job[q])'
  BY <1>1, <1>4
<1>15. ExpenseSlots'
  BY <1>1, <1>13, <1>14 DEF ExpenseSlots
<1> QED
  BY <1>15 DEF EInv

LEMMA LaterLines ==
  ASSUME NEW rows, NEW m \in Nat, NEW n \in Nat, m <= n, LinesOK(rows, m)
  PROVE  LinesOK(rows, n)
<1>1. \A r \in rows : r.id[1][1] \in Nat
  BY LineParts DEF LinesOK
<1> QED
  BY <1>1 DEF LinesOK

\* Rows that keep their ids and items, and rows with new ids.
LEMMA LinesMapped ==
  ASSUME NEW rows, NEW n, LinesOK(rows, n), NEW f, f = [r \in rows |-> f[r]],
         \A r \in rows : f[r] \in Line /\ f[r].id = r.id /\ f[r].item = r.item,
         NEW W, W = {f[r] : r \in rows}
  PROVE  LinesOK(W, n)
<1>1. IsFiniteSet(W)
  <2>1. \A t \in W : \E r \in rows : f[r] = t
    OBVIOUS
  <2>2. DOMAIN f = rows /\ \A r \in rows : f[r] \in W
    OBVIOUS
  <2>3. IsFiniteSet(rows)
    BY DEF LinesOK
  <2> QED
    BY <2>1, <2>2, <2>3, FiniteImage
<1>2. \A w \in W : w \in Line /\ w.id[2] = w.item /\ w.id[1][1] <= n
  <2>1. ASSUME NEW r \in rows PROVE f[r].id[2] = f[r].item /\ f[r].id[1][1] <= n
    <3>1. r.id[2] = r.item /\ r.id[1][1] <= n
      BY DEF LinesOK
    <3>2. f[r].id = r.id /\ f[r].item = r.item
      OBVIOUS
    <3> QED
      BY <3>1, <3>2
  <2> QED
    BY <2>1
<1>3. ASSUME NEW w \in W, NEW v \in W, w.id = v.id PROVE w = v
  <2>1. PICK r \in rows : w = f[r]
    OBVIOUS
  <2>2. PICK q \in rows : v = f[q]
    OBVIOUS
  <2>3. r.id = q.id
    BY <1>3, <2>1, <2>2
  <2>4. r = q
    BY <2>3 DEF LinesOK
  <2> QED
    BY <2>1, <2>2, <2>4
<1> QED
  BY <1>1, <1>2, <1>3 DEF LinesOK

LEMMA LinesAdded ==
  ASSUME NEW rows, NEW n, LinesOK(rows, n), NEW N, IsFiniteSet(N),
         \A w \in N : w \in Line /\ w.id[2] = w.item /\ w.id[1][1] <= n,
         \A w, v \in N : w.id = v.id => w = v,
         \A w \in N : \A r \in rows : r.id # w.id,
         NEW W, W = rows \cup N
  PROVE  LinesOK(W, n)
<1>1. IsFiniteSet(W)
  BY FS_Union DEF LinesOK
<1>2. \A w \in W : w \in Line /\ w.id[2] = w.item /\ w.id[1][1] <= n
  BY DEF LinesOK
<1>3. \A w, v \in W : w.id = v.id => w = v
  BY DEF LinesOK
<1> QED
  BY <1>1, <1>2, <1>3 DEF LinesOK

\* A row marked removed, and a row with another amount.
LEMMA RowsChanged ==
  ASSUME NEW r \in Line, NEW a \in UNION Range(Units), NEW d, d = Deleted(r),
         NEW u, u = [r EXCEPT !.amount = a]
  PROVE  /\ d \in Line /\ u \in Line
         /\ d.id = r.id /\ d.doc = r.doc /\ d.item = r.item /\ d.amount = r.amount /\ ~d.active
         /\ u.id = r.id /\ u.doc = r.doc /\ u.item = r.item /\ u.amount = a
         /\ u.active <=> r.active
<1>1. d = [r EXCEPT !.active = FALSE]
  BY DEF Deleted
<1>2. /\ d \in Line
      /\ d.id = r.id /\ d.doc = r.doc /\ d.item = r.item /\ d.amount = r.amount /\ ~d.active
  BY <1>1 DEF Line
<1>3. /\ u \in Line
      /\ u.id = r.id /\ u.doc = r.doc /\ u.item = r.item /\ u.amount = a
  BY DEF Line
<1>4. u.active <=> r.active
  <2>1. u.active = r.active
    BY DEF Line
  <2> QED
    BY <2>1
<1> QED
  BY <1>2, <1>3, <1>4

LEMMA QuietJob ==
  ASSUME EInv, NEW ph, NEW j, ExpenseJob(ph, j), UNCHANGED expenseVars
  PROVE  ExpenseJob(ph, j)'
<1>1. expenses' = expenses /\ lines' = lines
  BY DEF expenseVars
<1> QED
  BY <1>1 DEF ExpenseJob, SaveOfExpense, GenerationOf, Stored

\* A step that writes no table.
LEMMA QuietExpenses ==
  ASSUME EInv, NEW p \in Procs, UNCHANGED expenseVars, NEW ph \in ExpensePhases, NEW j,
         phase' = [phase EXCEPT ![p] = ph], job' = [job EXCEPT ![p] = j], ExpenseJob(ph, j),
         {contended', interrupted'} \subseteq BOOLEAN,
         \/ started' = started
         \/ started' = started + 1 /\ started < MaxRequests,
         ph \in Numbered =>
            \/ phase[p] \in Numbered /\ NumberOf(ph, j) = NumberOf(phase[p], job[p])
            \/ NumberOf(ph, j) = started + 1 /\ started' = started + 1
  PROVE  EInv'
<1>1. /\ started \in Nat /\ started' \in Nat /\ started <= started'
      /\ started' \in 0..MaxRequests /\ MaxRequests \in Nat
  BY DEF EInv, ExpenseData
<1>2. expenses' = expenses /\ lines' = lines /\ moved' = moved /\ revived' = revived
  BY DEF expenseVars
<1>3. LinesOK(lines, started')
  BY <1>1, LaterLines DEF EInv, ExpenseData
<1>4. \A e \in DOMAIN expenses : e \in Expense /\ e[1] <= started'
  <2>1. ASSUME NEW e \in DOMAIN expenses PROVE e \in Expense /\ e[1] <= started'
    <3>1. e \in Expense /\ e[1] <= started
      BY DEF EInv, ExpenseData
    <3>2. e[1] \in Nat
      BY <3>1 DEF Expense, Serials
    <3> QED
      BY <1>1, <3>1, <3>2
  <2> QED
    BY <2>1
<1>5. ExpenseData'
  BY <1>1, <1>2, <1>3, <1>4 DEF EInv, ExpenseData, Stored
<1>6. Writes(p)
  BY <1>2 DEF Writes, Stored
<1>7. ExpenseJob(ph, j)'
  BY QuietJob
<1>8. phase[p] \in Numbered =>
         NumberOf(phase[p], job[p]) \in Nat /\ NumberOf(phase[p], job[p]) <= started
  BY DEF EInv, ExpenseSlots
<1>9. ph \in Numbered =>
         /\ NumberOf(ph, j) \in Nat /\ NumberOf(ph, j) <= started'
         /\ \/ phase[p] \in Numbered /\ NumberOf(ph, j) = NumberOf(phase[p], job[p])
            \/ NumberOf(ph, j) > started
  BY <1>1, <1>8
<1> QED
  BY <1>1, <1>5, <1>6, <1>7, <1>9, ExpenseSlotsKept

LEMMA ExpensePhaseSets ==
  /\ {"idle", "expense_header", "expense_lines", "expense_delete", "expense_delete_lines",
      "generate_tx", "generate_commit"} \subseteq ExpensePhases
  /\ "idle" \notin Numbered
  /\ ExpenseSaves \cap Generating = {} /\ ExpenseDeletes \cap Numbered = {}
  /\ "idle" \notin ExpenseSaves \cup ExpenseDeletes \cup Generating
BY DEF ExpensePhases, Numbered, ExpenseSaves, ExpenseDeletes, Generating

LEMMA StartedNumbers ==
  ASSUME EInv, started < MaxRequests
  PROVE  /\ NextSerial \in Serials /\ <<NextSerial, 1>> \in Expense
         /\ \A e : Stored(e) => e[1] # NextSerial
         /\ \A r \in lines : r.id[1][1] # NextSerial
<1>1. started \in Nat /\ MaxRequests \in Nat /\ NextSerial = started + 1
  BY DEF EInv, ExpenseData, NextSerial
<1>2. NextSerial \in Serials
  BY <1>1 DEF Serials
<1>3. \A e : Stored(e) => e[1] # NextSerial
  <2>1. ASSUME NEW e, Stored(e) PROVE e[1] # NextSerial
    <3>1. e \in Expense /\ e[1] <= started
      BY <2>1 DEF EInv, ExpenseData, Stored
    <3>2. e[1] \in Nat
      BY <3>1 DEF Expense, Serials
    <3> QED
      BY <1>1, <3>1, <3>2
  <2> QED
    BY <2>1
<1>4. \A r \in lines : r.id[1][1] # NextSerial
  <2>1. ASSUME NEW r \in lines PROVE r.id[1][1] # NextSerial
    <3>1. r \in Line /\ r.id[1][1] <= started
      BY DEF EInv, ExpenseData, LinesOK
    <3>2. r.id[1][1] \in Nat
      BY <3>1, LineParts
    <3> QED
      BY <1>1, <3>1, <3>2
  <2> QED
    BY <2>1
<1> QED
  BY <1>2, <1>3, <1>4 DEF Expense

LEMMA BeginExpenseTypes ==
  ASSUME EInv, NEW p \in Procs, NEW e \in Expense, NEW period \in Periods,
         BeginExpense(p, e, period)
  PROVE  EInv'
<1>1. PICK form \in Forms(RowsOf(lines, e), Resources, Units) \ {{}} :
         Start(p, "expense_header",
               [n |-> <<NextSerial, 1>>, target |-> e, form |-> form, old |-> {},
                record |-> [active |-> TRUE, period |-> period,
                            subtotal |-> Total(form), from |-> NoExpense]],
               SavesOfExpense(e))
  BY DEF BeginExpense
<1>2. PICK n : n = <<NextSerial, 1>>
  OBVIOUS
<1>3. PICK total : total = Total(form)
  OBVIOUS
<1>4. PICK record : record = [active |-> TRUE, period |-> period, subtotal |-> total,
                              from |-> NoExpense]
  OBVIOUS
<1>5. PICK j : j = [n |-> n, target |-> e, form |-> form, old |-> {}, record |-> record]
  OBVIOUS
<1>6. /\ phase' = [phase EXCEPT ![p] = "expense_header"] /\ job' = [job EXCEPT ![p] = j]
      /\ started' = NextSerial /\ started < MaxRequests
      /\ contended' = (contended \/ SavesOfExpense(e) # {}) /\ interrupted' = interrupted
      /\ UNCHANGED expenseVars
  BY <1>1, <1>2, <1>3, <1>4, <1>5 DEF Start, Free, BeginExpense
<1>7. e = n \/ Stored(e)
  BY <1>2 DEF BeginExpense
<1>8. ExpenseForm(form, RowsOf(lines, e))
  BY ExpenseForms
<1>9. total \in Nat
  BY <1>3, <1>8, FormIsRows
<1>10. record \in ExpenseRecord
  BY <1>4, <1>9 DEF ExpenseRecord
<1>11. /\ n \in Expense /\ n[1] = NextSerial
       /\ \A r \in lines : r.id[1][1] # NextSerial
  BY <1>2, <1>6, StartedNumbers
<1>12. \A l \in form : \A r \in lines : r.id # <<n, l.item>>
  BY <1>11
<1>13. j.record.subtotal = Total(j.form)
  BY <1>3, <1>4, <1>5
<1>14. /\ j.n = n /\ j.target = e /\ j.form = form /\ j.record = record
       /\ j = [n |-> j.n, target |-> j.target, form |-> j.form, old |-> j.old,
               record |-> j.record]
  BY <1>5
<1>15. SaveOfExpense("expense_header", j)
  BY <1>7, <1>8, <1>10, <1>11, <1>12, <1>13, <1>14 DEF SaveOfExpense
<1>16. ExpenseJob("expense_header", j) /\ NumberOf("expense_header", j) = started + 1
  BY <1>11, <1>14, <1>15, ExpensePhaseSets
     DEF ExpenseJob, NumberOf, NextSerial, ExpenseSaves, ExpenseDeletes, Generating
<1>17. {contended', interrupted'} \subseteq BOOLEAN
  BY <1>6 DEF EInv, ExpenseData
<1>18. started' = started + 1
  BY <1>6 DEF NextSerial
<1> QED
  BY <1>6, <1>16, <1>17, <1>18, ExpensePhaseSets, QuietExpenses

LEMMA BeginGenerationTypes ==
  ASSUME EInv, NEW p \in Procs, BeginGeneration(p)
  PROVE  EInv'
<1>1. PICK n \in 1..2, sources \in [1..2 -> DOMAIN expenses], period \in Periods,
           form \in Forms({}, Resources, Units) :
         Start(p, "generate_tx",
               [n |-> NextSerial, table |-> <<>>,
                items |-> [k \in 1..n |-> [source |-> sources[k], period |-> period,
                                           form |-> form]]],
               Generations)
  BY DEF BeginGeneration
<1>2. PICK items : items = [k \in 1..n |-> [source |-> sources[k], period |-> period,
                                            form |-> form]]
  OBVIOUS
<1>3. PICK j : j = [n |-> NextSerial, table |-> <<>>, items |-> items]
  OBVIOUS
<1>4. /\ phase' = [phase EXCEPT ![p] = "generate_tx"] /\ job' = [job EXCEPT ![p] = j]
      /\ started' = NextSerial /\ started < MaxRequests
      /\ contended' = (contended \/ Generations # {}) /\ interrupted' = interrupted
      /\ UNCHANGED expenseVars
  BY <1>1, <1>2, <1>3 DEF Start, Free, BeginGeneration
<1>5. PICK none : none = {}
  OBVIOUS
<1>6. ExpenseForm(form, {})
  <2>1. form \in Forms(none, Resources, Units)
    BY <1>5
  <2> QED
    BY <1>5, <2>1, ExpenseForms
<1>7. DOMAIN items \subseteq {1, 2}
  BY <1>2
<1>8. ASSUME NEW k \in DOMAIN items
      PROVE  /\ items[k].source \in Expense /\ items[k].period \in Periods
             /\ ExpenseForm(items[k].form, {})
  <2>1. k \in 1..n /\ k \in 1..2
    BY <1>2
  <2>2. sources[k] \in DOMAIN expenses
    BY <2>1
  <2>3. sources[k] \in Expense
    BY <2>2 DEF EInv, ExpenseData
  <2>4. items[k] = [source |-> sources[k], period |-> period, form |-> form]
    BY <1>2, <2>1
  <2> QED
    BY <1>6, <2>3, <2>4
<1>9. /\ NextSerial \in Serials /\ \A e : Stored(e) => e[1] # NextSerial
      /\ \A r \in lines : r.id[1][1] # NextSerial
  BY <1>4, StartedNumbers
<1>10. \A k \in {1, 2} : ~Stored(<<NextSerial, k>>)
  BY <1>9
<1>11. /\ j.n = NextSerial /\ j.items = items
       /\ j = [n |-> j.n, table |-> j.table, items |-> j.items]
  BY <1>3
<1>12. GenerationOf(j)
  BY <1>7, <1>8, <1>9, <1>10, <1>11 DEF GenerationOf
<1>13. ExpenseJob("generate_tx", j) /\ NumberOf("generate_tx", j) = started + 1
  BY <1>11, <1>12 DEF ExpenseJob, NumberOf, NextSerial, ExpenseSaves, ExpenseDeletes, Generating
<1>14. {contended', interrupted'} \subseteq BOOLEAN
  BY <1>4 DEF EInv, ExpenseData
<1>15. started' = started + 1
  BY <1>4 DEF NextSerial
<1> QED
  BY <1>4, <1>13, <1>14, <1>15, ExpensePhaseSets, QuietExpenses

LEMMA SnapshotGenerationTypes ==
  ASSUME EInv, NEW p \in Procs, GenerationSnapshot(p)
  PROVE  EInv'
<1>1. PICK j : j = job[p]
  OBVIOUS
<1>2. phase[p] = "generate_tx" /\ GenerationOf(j)
  BY <1>1 DEF GenerationSnapshot, EInv, ExpenseSlots, ExpenseJob, Generating
<1>3. PICK k : k = [j EXCEPT !.table = expenses]
  OBVIOUS
<1>4. /\ phase' = [phase EXCEPT ![p] = "generate_commit"] /\ job' = [job EXCEPT ![p] = k]
      /\ started' = started /\ contended' = contended /\ interrupted' = interrupted
      /\ UNCHANGED expenseVars
  BY <1>1, <1>3 DEF GenerationSnapshot, Goto
<1>5. /\ k.n = j.n /\ k.items = j.items
      /\ k = [n |-> k.n, table |-> k.table, items |-> k.items]
  BY <1>2, <1>3 DEF GenerationOf
<1>6. GenerationOf(k)
  BY <1>2, <1>5 DEF GenerationOf
<1>7. ExpenseJob("generate_commit", k)
  BY <1>6 DEF ExpenseJob, ExpenseSaves, ExpenseDeletes
<1>8. NumberOf("generate_commit", k) = NumberOf("generate_tx", j) /\ "generate_tx" \in Numbered
  BY <1>5 DEF NumberOf, ExpenseSaves, Numbered, Generating
<1>9. {contended', interrupted'} \subseteq BOOLEAN
  BY <1>4 DEF EInv, ExpenseData
<1> QED
  BY <1>1, <1>2, <1>4, <1>7, <1>8, <1>9, ExpensePhaseSets, QuietExpenses

\* A request that begins a delete, is done or fails.
LEMMA EndExpenseTypes ==
  ASSUME EInv, NEW p \in Procs,
         ExpenseSaved(p) \/ FailExpense(p) \/ \E e \in Expense : BeginDeleteExpense(p, e)
  PROVE  EInv'
<1>1. CASE ExpenseSaved(p) \/ FailExpense(p)
  <2>1. /\ phase' = [phase EXCEPT ![p] = "idle"] /\ job' = [job EXCEPT ![p] = NoJob]
        /\ started' = started /\ contended' = contended /\ interrupted' \in BOOLEAN
        /\ UNCHANGED expenseVars
    BY <1>1 DEF ExpenseSaved, FailExpense, Finish, Goto, Fail, EInv, ExpenseData
  <2>2. ExpenseJob("idle", NoJob)
    BY ExpensePhaseSets DEF ExpenseJob
  <2>3. {contended', interrupted'} \subseteq BOOLEAN
    BY <2>1 DEF EInv, ExpenseData
  <2> QED
    BY <2>1, <2>2, <2>3, ExpensePhaseSets, QuietExpenses
<1>2. ASSUME NEW e \in Expense, BeginDeleteExpense(p, e) PROVE EInv'
  <2>1. PICK j : j = [target |-> e]
    OBVIOUS
  <2>2. /\ phase' = [phase EXCEPT ![p] = "expense_delete"] /\ job' = [job EXCEPT ![p] = j]
        /\ started' = started + 1 /\ started < MaxRequests
        /\ contended' = contended /\ interrupted' = interrupted
        /\ UNCHANGED expenseVars
    BY <1>2, <2>1 DEF BeginDeleteExpense, Start, Free, NextSerial, EInv, ExpenseData
  <2>3. Stored(j.target)
    BY <1>2, <2>1 DEF BeginDeleteExpense, LiveExpense
  <2>4. ExpenseJob("expense_delete", j)
    BY <2>1, <2>3 DEF ExpenseJob, ExpenseSaves, Generating
  <2>5. {contended', interrupted'} \subseteq BOOLEAN
    BY <2>2 DEF EInv, ExpenseData
  <2>6. "expense_delete" \notin Numbered
    BY DEF Numbered, ExpenseSaves, Generating
  <2> QED
    BY <2>2, <2>4, <2>5, <2>6, ExpensePhaseSets, QuietExpenses
<1> QED
  BY <1>1, <1>2

----------------------------------------------------------------------------
(* Expenses: the steps that write *)

LEMMA ExpenseHeaderTypes ==
  ASSUME EInv, NEW p \in Procs, ExpenseHeader(p)
  PROVE  EInv'
<1>1. PICK j : j = job[p]
  OBVIOUS
<1>2. phase[p] = "expense_header" /\ SaveOfExpense("expense_header", j)
  BY <1>1 DEF ExpenseHeader, EInv, ExpenseSlots, ExpenseJob, ExpenseSaves
<1>3. PICK e : e = j.target
  OBVIOUS
<1>4. PICK old : old = RowsOf(lines, e)
  OBVIOUS
<1>5. PICK k : k = [j EXCEPT !.old = old]
  OBVIOUS
<1>6. PICK rec : rec = IF Stored(e) THEN [j.record EXCEPT !.active = expenses[e].active,
                                                          !.from = expenses[e].from]
                       ELSE j.record
  OBVIOUS
<1>7. /\ expenses' = Put(e, rec) /\ lines' = lines
      /\ {moved', revived'} \subseteq BOOLEAN
      /\ phase' = [phase EXCEPT ![p] = "expense_lines"] /\ job' = [job EXCEPT ![p] = k]
      /\ started' = started /\ contended' = contended /\ interrupted' = interrupted
  BY <1>1, <1>3, <1>4, <1>5, <1>6 DEF ExpenseHeader, Goto
<1>8. rec \in ExpenseRecord
  <2>1. j.record \in ExpenseRecord
    BY <1>2 DEF SaveOfExpense
  <2>2. Stored(e) => expenses[e] \in ExpenseRecord
    BY DEF Stored, EInv, ExpenseData
  <2> QED
    BY <1>6, <2>1, <2>2 DEF ExpenseRecord
<1>9. /\ e \in Expense /\ j.n \in Expense /\ (Stored(e) \/ e = j.n)
      /\ "expense_header" \in Numbered /\ NumberOf("expense_header", j) = j.n[1]
      /\ j.n[1] \in Nat /\ j.n[1] <= started
  <2>1. e \in Expense /\ j.n \in Expense /\ (Stored(e) \/ e = j.n)
    BY <1>2, <1>3 DEF SaveOfExpense
  <2>2. "expense_header" \in Numbered /\ NumberOf("expense_header", j) = j.n[1]
    BY DEF Numbered, NumberOf, ExpenseSaves
  <2>3. NumberOf(phase[p], job[p]) \in Nat /\ NumberOf(phase[p], job[p]) <= started
    BY <1>2, <2>2 DEF EInv, ExpenseSlots
  <2> QED
    BY <1>1, <1>2, <2>1, <2>2, <2>3
<1>10. /\ DOMAIN expenses' = DOMAIN expenses \cup {e}
       /\ expenses' \in [DOMAIN expenses' -> ExpenseRecord]
  <2>1. \A x \in DOMAIN expenses : expenses[x] \in ExpenseRecord
    BY DEF EInv, ExpenseData
  <2> QED
    BY <1>7, <1>8, <2>1 DEF Put
<1>11. /\ \A x : Stored(x) => Stored(x)'
       /\ \A x : Stored(x)' => Stored(x) \/ x = e
  BY <1>10 DEF Stored
<1>12. ExpenseData'
  <2>1. \A x \in DOMAIN expenses' : x \in Expense /\ x[1] <= started
    <3>1. \A x \in DOMAIN expenses : x \in Expense /\ x[1] <= started
      BY DEF EInv, ExpenseData
    <3>2. e \in Expense /\ e[1] <= started
      BY <1>9, <3>1 DEF Stored
    <3> QED
      BY <1>10, <3>1, <3>2
  <2>2. \A r \in lines : Stored(r.doc)'
    BY <1>11 DEF EInv, ExpenseData
  <2>3. {contended', interrupted', moved', revived'} \subseteq BOOLEAN
    BY <1>7 DEF EInv, ExpenseData
  <2> QED
    BY <1>7, <1>10, <2>1, <2>2, <2>3 DEF EInv, ExpenseData
<1>13. Writes(p)
  <2>1. \A x : Stored(x)' => Stored(x) \/ (phase[p] \in Numbered /\ x[1] = NumberOf(phase[p], job[p]))
    BY <1>1, <1>2, <1>9, <1>11
  <2> QED
    BY <1>7, <1>11, <2>1 DEF Writes
<1>14. /\ k.n = j.n /\ k.target = e /\ k.form = j.form /\ k.old = old /\ k.record = j.record
       /\ k = [n |-> k.n, target |-> k.target, form |-> k.form, old |-> k.old,
               record |-> k.record]
  BY <1>2, <1>3, <1>5 DEF SaveOfExpense
<1>15. /\ ExpenseForm(j.form, old) /\ j.record \in ExpenseRecord
       /\ \A l \in j.form : \A r \in lines : r.id # <<j.n, l.item>>
  BY <1>2, <1>3, <1>4 DEF SaveOfExpense
<1>16. Read(old, j.form, old) /\ (\A r, q \in old : r.id = q.id => r = q)
  <2>1. \A r \in old : r \in lines
    BY <1>4 DEF RowsOf
  <2>2. \A r \in old : r.id \in Ids(old)
    BY <2>1, LineParts DEF EInv, ExpenseData, LinesOK, Ids
  <2>3. \A r, q \in old : r.id = q.id => r = q
    BY <2>1 DEF EInv, ExpenseData, LinesOK
  <2>4. \A l \in j.form : l.id # NoId => l.id \in Ids(old)
    BY <1>15 DEF ExpenseForm
  <2> QED
    BY <2>2, <2>3, <2>4 DEF Read
<1>17. RowsOf(lines', e) = old
  BY <1>4, <1>7
<1>18. Stored(e)'
  BY <1>10 DEF Stored
<1>19. SaveOfExpense("expense_lines", k)'
  BY <1>7, <1>9, <1>14, <1>15, <1>16, <1>17, <1>18 DEF SaveOfExpense
<1>20. ExpenseJob("expense_lines", k)' /\ "expense_lines" \in Numbered
       /\ NumberOf("expense_lines", k) = NumberOf("expense_header", j)
  BY <1>14, <1>19 DEF ExpenseJob, Generating, ExpenseDeletes, NumberOf, ExpenseSaves, Numbered
<1>21. started \in Nat
  BY DEF EInv, ExpenseData
<1>22. started <= started'
  BY <1>7, <1>21
<1> QED
  BY <1>1, <1>2, <1>7, <1>9, <1>12, <1>13, <1>20, <1>22, ExpensePhaseSets, ExpenseSlotsKept

\* What a write of a line does: it removes one of the old lines, creates one of the
\* form or gives an old one the amount of its line in the form.
Strikes(form, old, d, f, W) ==
    \E r \in old : /\ r.id \notin Ids(form) /\ d = {r} /\ f = {}
                   /\ W = {IF x.id = r.id THEN Deleted(x) ELSE x : x \in lines}
Inserts(form, old, d, f, W, t, n) ==
    \E l \in form : /\ l.id = NoId /\ d = {} /\ f = {l}
                    /\ W = lines \cup {NewRow(l, t, n)}
Rewrites(form, old, d, f, W) ==
    \E r \in old, l \in form :
        /\ l.id = r.id /\ d = {r} /\ f = {l}
        /\ W = {IF x.id = r.id THEN [x EXCEPT !.amount = l.amount] ELSE x : x \in lines}
LineEffect(form, old, d, f, W, t, n) ==
    \/ Strikes(form, old, d, f, W)
    \/ Inserts(form, old, d, f, W, t, n)
    \/ Rewrites(form, old, d, f, W)

LEMMA ExpenseLineWrite ==
  ASSUME NEW form, NEW rows, ExpenseForm(form, rows), NEW old, Read(old, form, rows),
         \A r \in old : r.id # NoId, NEW t, NEW n,
         NEW d, NEW f, <<d, f>> \in NextWrites(old, form),
         NEW W, W = LineWritten(d, f, t, n)
  PROVE  LineEffect(form, old, d, f, W, t, n)
<1>1. CASE Removed(old, form) # {}
  <2>1. PICK r \in Removed(old, form) : d = {r} /\ f = {}
    BY <1>1 DEF NextWrites
  <2>2. r \in old /\ r.id \notin Ids(form) /\ r.id # NoId
    BY <2>1 DEF Removed
  <2>3. Ids(f) = {}
    BY <2>1 DEF Ids
  <2>4. Ids(Removed(d, f)) = {r.id}
    BY <2>1, <2>2, <2>3 DEF Ids, Removed
  <2>5. Created(d, f) = {}
    BY <2>1 DEF Created
  <2>6. Ids(Kept(d, f)) = {}
    BY <2>3 DEF Ids, Kept
  <2>7. {NewRow(l, t, n) : l \in Created(d, f)} = {}
    BY <2>5
  <2>8. W = {IF x.id = r.id THEN Deleted(x) ELSE x : x \in lines}
    BY <2>4, <2>6, <2>7 DEF LineWritten
  <2> QED
    BY <2>1, <2>2, <2>8 DEF LineEffect, Strikes
<1>2. CASE Removed(old, form) = {} /\ Created(old, form) # {}
  <2>1. PICK l \in Created(old, form) : d = {} /\ f = {l}
    BY <1>2 DEF NextWrites
  <2>2. l \in form /\ l.id \notin Ids(old)
    BY <2>1 DEF Created
  <2>3. l.id = NoId
    BY <2>2 DEF Read
  <2>4. Ids(Removed(d, f)) = {} /\ Ids(Kept(d, f)) = {} /\ Ids(d) = {}
    BY <2>1 DEF Ids, Removed, Kept
  <2>5. Created(d, f) = {l}
    BY <2>1, <2>4 DEF Created
  <2>6. {NewRow(m, t, n) : m \in Created(d, f)} = {NewRow(l, t, n)}
    BY <2>5
  <2>7. {IF x.id \in Ids(Removed(d, f)) THEN Deleted(x)
         ELSE IF x.id \in Ids(Kept(d, f)) THEN LineUpdated(x, f) ELSE x : x \in lines} = lines
    BY <2>4
  <2>8. W = lines \cup {NewRow(l, t, n)}
    BY <2>6, <2>7 DEF LineWritten
  <2> QED
    BY <2>1, <2>2, <2>3, <2>8 DEF LineEffect, Inserts
<1>3. CASE Removed(old, form) = {} /\ Created(old, form) = {}
  <2>1. PICK r \in old : d = {r} /\ f = {LineOf(form, r.id)}
    BY <1>3 DEF NextWrites
  <2>2. r.id \in Ids(form) /\ r.id # NoId
    BY <1>3, <2>1 DEF Removed
  <2>3. PICK l : l = LineOf(form, r.id)
    OBVIOUS
  <2>4. l \in form /\ l.id = r.id
    BY <2>2, <2>3 DEF Ids, LineOf
  <2>5. f = {l} /\ Ids(f) = {r.id}
    BY <2>1, <2>2, <2>3, <2>4 DEF Ids
  <2>6. Ids(Removed(d, f)) = {} /\ Ids(d) = {r.id}
    BY <2>1, <2>2, <2>5 DEF Ids, Removed
  <2>7. Ids(Kept(d, f)) = {r.id}
    BY <2>1, <2>2, <2>5 DEF Ids, Kept
  <2>8. Created(d, f) = {}
    BY <2>4, <2>5, <2>6 DEF Created
  <2>9. LineOf(f, r.id) = l
    BY <2>4, <2>5 DEF LineOf
  <2>10. {NewRow(m, t, n) : m \in Created(d, f)} = {}
    BY <2>8
  <2>11. \A x : x.id = r.id => LineUpdated(x, f) = [x EXCEPT !.amount = l.amount]
    BY <2>9 DEF LineUpdated
  <2>12. W = {IF x.id = r.id THEN LineUpdated(x, f) ELSE x : x \in lines}
    BY <2>6, <2>7, <2>10 DEF LineWritten
  <2>13. W = {IF x.id = r.id THEN [x EXCEPT !.amount = l.amount] ELSE x : x \in lines}
    BY <2>11, <2>12
  <2> QED
    BY <2>1, <2>4, <2>5, <2>13 DEF LineEffect, Rewrites
<1> QED
  BY <1>1, <1>2, <1>3

\* Rows that keep their ids, items and documents.
LEMMA LinesMappedWrites ==
  ASSUME EInv, NEW f, f = [r \in lines |-> f[r]],
         \A r \in lines : f[r] \in Line /\ f[r].id = r.id /\ f[r].item = r.item /\ f[r].doc = r.doc,
         NEW W, W = {f[r] : r \in lines}
  PROVE  /\ LinesOK(W, started)
         /\ \A r \in lines : \E w \in W : w.id = r.id /\ w.doc = r.doc
         /\ \A w \in W : \E r \in lines : w.id = r.id /\ w.doc = r.doc
<1>1. LinesOK(lines, started)
  BY DEF EInv, ExpenseData
<1>2. LinesOK(W, started)
  <2>1. \A r \in lines : f[r] \in Line /\ f[r].id = r.id /\ f[r].item = r.item
    OBVIOUS
  <2> QED
    BY <1>1, <2>1, LinesMapped
<1> QED
  BY <1>2

\* No row is lost, and new ones are of lines in f.
LinesGrow(W, f, t, n) ==
    /\ LinesOK(W, started)
    /\ \A r \in lines : \E w \in W : w.id = r.id /\ w.doc = r.doc
    /\ \A w \in W :
          \/ \E r \in lines : w.id = r.id /\ w.doc = r.doc
          \/ \E l \in f : w = NewRow(l, t, n)

LEMMA LineWriteRows ==
  ASSUME EInv, NEW form, NEW old, NEW d, NEW f, NEW t \in Expense, NEW n \in Expense, NEW W,
         n[1] \in Nat, n[1] <= started,
         \A l \in form : l.item \in Resources /\ l.amount \in UNION Range(Units),
         \A l \in form : \A r \in lines : r.id # <<n, l.item>>,
         LineEffect(form, old, d, f, W, t, n)
  PROVE  LinesGrow(W, f, t, n)
<1>1. CASE Strikes(form, old, d, f, W)
  <2>1. PICK r \in old : W = {IF x.id = r.id THEN Deleted(x) ELSE x : x \in lines}
    BY <1>1 DEF Strikes
  <2>2. PICK g : g = [x \in lines |-> IF x.id = r.id THEN Deleted(x) ELSE x]
    OBVIOUS
  <2>3. ASSUME NEW x \in lines
        PROVE  g[x] \in Line /\ g[x].id = x.id /\ g[x].item = x.item /\ g[x].doc = x.doc
    <3>1. x \in Line
      BY DEF EInv, ExpenseData, LinesOK
    <3>2. PICK a \in UNION Range(Units) : a = x.amount
      BY <3>1, LineParts
    <3>3. PICK c, u : c = Deleted(x) /\ u = [x EXCEPT !.amount = a]
      OBVIOUS
    <3>4. c \in Line /\ c.id = x.id /\ c.doc = x.doc /\ c.item = x.item
      BY <3>1, <3>2, <3>3, RowsChanged
    <3> QED
      BY <2>2, <3>1, <3>3, <3>4
  <2>4. g = [x \in lines |-> g[x]] /\ W = {g[x] : x \in lines}
    BY <2>1, <2>2
  <2> QED
    BY <2>3, <2>4, LinesMappedWrites DEF LinesGrow
<1>2. CASE Rewrites(form, old, d, f, W)
  <2>1. PICK r \in old, l \in form :
          W = {IF x.id = r.id THEN [x EXCEPT !.amount = l.amount] ELSE x : x \in lines}
    BY <1>2 DEF Rewrites
  <2>2. PICK g : g = [x \in lines |-> IF x.id = r.id THEN [x EXCEPT !.amount = l.amount] ELSE x]
    OBVIOUS
  <2>3. ASSUME NEW x \in lines
        PROVE  g[x] \in Line /\ g[x].id = x.id /\ g[x].item = x.item /\ g[x].doc = x.doc
    <3>1. x \in Line
      BY DEF EInv, ExpenseData, LinesOK
    <3>2. PICK a \in UNION Range(Units) : a = l.amount
      OBVIOUS
    <3>3. PICK u : u = [x EXCEPT !.amount = a]
      OBVIOUS
    <3>4. u \in Line /\ u.id = x.id /\ u.doc = x.doc /\ u.item = x.item
      BY <3>1, <3>2, <3>3, RowsChanged
    <3> QED
      BY <2>2, <3>1, <3>2, <3>3, <3>4
  <2>4. g = [x \in lines |-> g[x]] /\ W = {g[x] : x \in lines}
    BY <2>1, <2>2
  <2> QED
    BY <2>3, <2>4, LinesMappedWrites DEF LinesGrow
<1>3. CASE Inserts(form, old, d, f, W, t, n)
  <2>1. PICK l \in form : f = {l} /\ W = lines \cup {NewRow(l, t, n)}
    BY <1>3 DEF Inserts
  <2>2. PICK w : w = NewRow(l, t, n)
    OBVIOUS
  <2>3. /\ w.id = <<n, l.item>> /\ w.item = l.item /\ w \in Line
    BY <2>2 DEF NewRow, Line
  <2>4. w.id[2] = w.item /\ w.id[1][1] <= started
    BY <2>3
  <2>5. PICK N : N = {w}
    OBVIOUS
  <2>6. W = lines \cup N
    BY <2>1, <2>2, <2>5
  <2>8. LinesOK(W, started)
    <3>1. IsFiniteSet(N)
      BY <2>5, FS_Singleton
    <3>2. \A v \in N : v \in Line /\ v.id[2] = v.item /\ v.id[1][1] <= started
      BY <2>3, <2>4, <2>5
    <3>3. \A v, u \in N : v.id = u.id => v = u
      BY <2>5
    <3>4. \A v \in N : \A r \in lines : r.id # v.id
      BY <2>3, <2>5
    <3>5. LinesOK(lines, started)
      BY DEF EInv, ExpenseData
    <3> QED
      BY <2>6, <3>1, <3>2, <3>3, <3>4, <3>5, LinesAdded
  <2> QED
    BY <2>1, <2>8 DEF LinesGrow
<1> QED
  BY <1>1, <1>2, <1>3 DEF LineEffect

LEMMA ExpenseLineTypes ==
  ASSUME EInv, NEW p \in Procs, ExpenseLine(p)
  PROVE  EInv'
<1>1. PICK j : j = job[p]
  OBVIOUS
<1>2. phase[p] = "expense_lines" /\ SaveOfExpense("expense_lines", j)
  BY <1>1 DEF ExpenseLine, EInv, ExpenseSlots, ExpenseJob, ExpenseSaves
<1>3. PICK d, f : /\ <<d, f>> \in NextWrites(j.old, j.form)
                  /\ lines' = LineWritten(d, f, j.target, j.n)
                  /\ Goto(p, "expense_lines", [j EXCEPT !.old = @ \ d, !.form = @ \ f])
  <2>1. PICK w \in NextWrites(j.old, j.form) :
           /\ lines' = LineWritten(w[1], w[2], j.target, j.n)
           /\ Goto(p, "expense_lines", [j EXCEPT !.old = @ \ w[1], !.form = @ \ w[2]])
    BY <1>1 DEF ExpenseLine
  <2>2. PICK d, f : w = <<d, f>>
    BY DEF NextWrites
  <2>3. w[1] = d /\ w[2] = f
    BY <2>2
  <2> QED
    BY <2>1, <2>2, <2>3
<1>4. PICK t, n, old, form : t = j.target /\ n = j.n /\ old = j.old /\ form = j.form
  OBVIOUS
<1>5. PICK rows : rows = RowsOf(lines, t)
  OBVIOUS
<1>6. PICK k : k = [j EXCEPT !.old = old \ d, !.form = form \ f]
  OBVIOUS
<1>7. PICK W : W = LineWritten(d, f, t, n)
  OBVIOUS
<1>8. /\ lines' = W /\ expenses' = expenses /\ moved' = moved /\ revived' = revived
      /\ phase' = [phase EXCEPT ![p] = "expense_lines"] /\ job' = [job EXCEPT ![p] = k]
      /\ started' = started /\ contended' = contended /\ interrupted' = interrupted
  BY <1>1, <1>3, <1>4, <1>6, <1>7 DEF ExpenseLine, Goto
<1>9. /\ t \in Expense /\ n \in Expense /\ Stored(t) /\ j.record \in ExpenseRecord
      /\ ExpenseForm(form, rows) /\ Read(old, form, rows)
      /\ \A r, q \in old : r.id = q.id => r = q
      /\ \A l \in form : \A r \in lines : r.id # <<n, l.item>>
  BY <1>2, <1>4, <1>5 DEF SaveOfExpense
<1>10. \A r \in old : r.id # NoId
  BY <1>9 DEF Read, Ids
<1>11. LineEffect(form, old, d, f, W, t, n)
  BY <1>3, <1>4, <1>7, <1>9, <1>10, ExpenseLineWrite
<1>12. "expense_lines" \in Numbered /\ NumberOf("expense_lines", j) = n[1]
       /\ NumberOf("expense_lines", k) = NumberOf("expense_lines", j)
       /\ n[1] \in Nat /\ n[1] <= started
  <2>1. "expense_lines" \in Numbered /\ NumberOf("expense_lines", j) = n[1]
    BY <1>4 DEF Numbered, NumberOf, ExpenseSaves
  <2>2. NumberOf(phase[p], job[p]) \in Nat /\ NumberOf(phase[p], job[p]) <= started
    BY <1>2, <2>1 DEF EInv, ExpenseSlots
  <2>3. k.n = j.n
    BY <1>2, <1>6 DEF SaveOfExpense
  <2>4. NumberOf("expense_lines", k) = NumberOf("expense_lines", j)
    BY <2>3 DEF NumberOf, ExpenseSaves
  <2> QED
    BY <1>1, <1>2, <2>1, <2>2, <2>4
<1>13. /\ LinesOK(lines', started)
       /\ \A r \in lines : \E w \in lines' : w.id = r.id /\ w.doc = r.doc
       /\ \A w \in lines' :
             \/ \E r \in lines : w.id = r.id /\ w.doc = r.doc
             \/ \E l \in f : w = NewRow(l, t, n)
  <2>1. \A l \in form : l.item \in Resources /\ l.amount \in UNION Range(Units)
    BY <1>9 DEF ExpenseForm
  <2>2. t \in Expense /\ n \in Expense /\ n[1] \in Nat /\ n[1] <= started
    BY <1>9, <1>12
  <2>3. \A l \in form : \A r \in lines : r.id # <<n, l.item>>
    BY <1>9
  <2>4. LinesGrow(W, f, t, n)
    BY <1>11, <2>1, <2>2, <2>3, LineWriteRows
  <2> QED
    BY <1>8, <2>4 DEF LinesGrow
<1>14. ExpenseData'
  <2>1. \A w \in lines' : Stored(w.doc)
    <3>1. \A r \in lines : Stored(r.doc)
      BY DEF EInv, ExpenseData
    <3>2. \A l : NewRow(l, t, n).doc = t
      BY DEF NewRow
    <3> QED
      BY <1>9, <1>13, <3>1, <3>2
  <2> QED
    BY <1>8, <1>13, <2>1 DEF EInv, ExpenseData, Stored
<1>15. Writes(p)
  <2>1. \A l : NewRow(l, t, n).id[1] = n
    BY DEF NewRow
  <2>2. \A w \in lines' :
          \/ \E r \in lines : w.id = r.id /\ w.doc = r.doc
          \/ phase[p] \in Numbered /\ w.id[1][1] = NumberOf(phase[p], job[p])
    BY <1>1, <1>2, <1>12, <1>13, <2>1
  <2> QED
    BY <1>8, <1>13, <2>2 DEF Writes, Stored
<1>16. /\ k.n = n /\ k.target = t /\ k.form = form \ f /\ k.old = old \ d /\ k.record = j.record
       /\ k = [n |-> k.n, target |-> k.target, form |-> k.form, old |-> k.old,
               record |-> k.record]
  BY <1>2, <1>4, <1>6 DEF SaveOfExpense
<1>17. PICK new : new = RowsOf(lines', t)
  OBVIOUS
<1>18. Ids(rows) \subseteq Ids(new)
  <2>1. LinesOK(lines, started)'
    BY <1>8, <1>13
  <2>2. Ids(RowsOf(lines, t)) \subseteq Ids(RowsOf(lines, t)')
    BY <1>15, <2>1, IdsGrow
  <2> QED
    BY <1>5, <1>17, <2>2
<1>19. ExpenseForm(k.form, new)
  <2>1. k.form \subseteq form
    BY <1>16
  <2>2. IsFiniteSet(k.form)
    BY <1>9, <2>1, FS_Subset DEF ExpenseForm
  <2> QED
    BY <1>9, <1>18, <2>1, <2>2 DEF ExpenseForm
<1>20. \A l \in k.form : \A w \in lines' : w.id # <<n, l.item>>
  <2>1. ASSUME NEW l \in k.form, NEW w \in lines' PROVE w.id # <<n, l.item>>
    <3>1. l \in form /\ l \notin f
      BY <1>16
    <3>2. CASE \E r \in lines : w.id = r.id
      BY <1>9, <3>1, <3>2
    <3>3. CASE \E m \in f : w = NewRow(m, t, n)
      <4>1. PICK m \in f : w = NewRow(m, t, n)
        BY <3>3
      <4>2. m \in form
        BY <1>11, <4>1 DEF LineEffect, Strikes, Inserts, Rewrites
      <4>3. m.item # l.item
        BY <1>9, <3>1, <4>1, <4>2 DEF ExpenseForm
      <4>4. w.id = <<n, m.item>>
        BY <4>1 DEF NewRow
      <4> QED
        BY <4>3, <4>4
    <3> QED
      BY <1>13, <3>2, <3>3
  <2> QED
    BY <2>1
<1>21. Read(k.old, k.form, new)
  <2>1. \A r \in k.old : r.id \in Ids(new)
    BY <1>9, <1>16, <1>18 DEF Read
  <2>2. ASSUME NEW l \in k.form, l.id # NoId PROVE l.id \in Ids(k.old)
    <3>1. l \in form /\ l \notin f /\ l.id \in Ids(old)
      BY <1>9, <1>16, <2>2 DEF Read
    <3>2. PICK r \in old : r.id = l.id
      BY <3>1 DEF Ids
    <3>3. r \notin d
      <4>1. CASE Strikes(form, old, d, f, W)
        <5>1. PICK q \in old : q.id \notin Ids(form) /\ d = {q}
          BY <4>1 DEF Strikes
        <5>2. l.id \in Ids(form)
          BY <2>2, <3>1 DEF Ids
        <5> QED
          BY <3>2, <5>1, <5>2
      <4>2. CASE Inserts(form, old, d, f, W, t, n)
        BY <4>2 DEF Inserts
      <4>3. CASE Rewrites(form, old, d, f, W)
        <5>1. PICK q \in old, m \in form : m.id = q.id /\ d = {q} /\ f = {m}
          BY <4>3 DEF Rewrites
        <5>2. ASSUME q = r PROVE FALSE
          <6>1. m.id = l.id /\ m.id # NoId
            BY <2>2, <3>2, <5>1, <5>2
          <6>2. m.item = l.item
            BY <1>9, <3>1, <6>1 DEF ExpenseForm
          <6>3. m = l
            BY <1>9, <3>1, <6>2 DEF ExpenseForm
          <6> QED
            BY <3>1, <5>1, <6>3
        <5> QED
          BY <5>1, <5>2
      <4> QED
        BY <1>11, <4>1, <4>2, <4>3 DEF LineEffect
    <3>4. r \in k.old
      BY <1>16, <3>3
    <3> QED
      BY <2>2, <3>2, <3>4 DEF Ids
  <2> QED
    BY <2>1, <2>2 DEF Read
<1>22. \A r, q \in k.old : r.id = q.id => r = q
  BY <1>9, <1>16
<1>23. Stored(t)'
  BY <1>8, <1>9 DEF Stored
<1>24. SaveOfExpense("expense_lines", k)'
  <2>1. ExpenseForm(k.form, RowsOf(lines, k.target)')
    BY <1>16, <1>17, <1>19
  <2>2. Read(k.old, k.form, RowsOf(lines, k.target)')
    BY <1>16, <1>17, <1>21
  <2>3. \A l \in k.form : \A w \in lines' : w.id # <<k.n, l.item>>
    BY <1>16, <1>20
  <2>4. k.n \in Expense /\ k.target \in Expense /\ k.record \in ExpenseRecord /\ Stored(k.target)'
    BY <1>9, <1>16, <1>23
  <2> QED
    BY <1>16, <1>22, <2>1, <2>2, <2>3, <2>4 DEF SaveOfExpense
<1>25. ExpenseJob("expense_lines", k)'
  BY <1>24 DEF ExpenseJob, Generating, ExpenseDeletes
<1>26. started \in Nat
  BY DEF EInv, ExpenseData
<1>27. started <= started'
  BY <1>8, <1>26
<1> QED
  BY <1>1, <1>2, <1>8, <1>12, <1>14, <1>15, <1>25, <1>27, ExpensePhaseSets, ExpenseSlotsKept

LEMMA DeleteExpenseHeaderTypes ==
  ASSUME EInv, NEW p \in Procs, DeleteExpenseHeader(p)
  PROVE  EInv'
<1>1. PICK j : j = job[p]
  OBVIOUS
<1>2. /\ phase[p] = "expense_delete" /\ "expense_delete" \in ExpenseDeletes
      /\ j = [target |-> j.target] /\ Stored(j.target)
  BY <1>1 DEF DeleteExpenseHeader, EInv, ExpenseSlots, ExpenseJob, ExpenseDeletes
<1>3. /\ expenses' = [expenses EXCEPT ![j.target].active = FALSE] /\ lines' = lines
      /\ moved' = moved /\ revived' = revived
      /\ phase' = [phase EXCEPT ![p] = "expense_delete_lines"] /\ job' = [job EXCEPT ![p] = j]
      /\ started' = started /\ contended' = contended /\ interrupted' = interrupted
  BY <1>1 DEF DeleteExpenseHeader, Goto
<1>4. DOMAIN expenses' = DOMAIN expenses
  BY <1>3
<1>5. expenses' \in [DOMAIN expenses' -> ExpenseRecord]
  <2>1. expenses \in [DOMAIN expenses -> ExpenseRecord]
    BY DEF EInv, ExpenseData
  <2>2. expenses[j.target] \in ExpenseRecord
    BY <1>2, <2>1 DEF Stored
  <2>3. PICK rec : rec = [expenses[j.target] EXCEPT !.active = FALSE]
    OBVIOUS
  <2>4. rec \in ExpenseRecord
    BY <2>2, <2>3 DEF ExpenseRecord
  <2>5. expenses' = [expenses EXCEPT ![j.target] = rec]
    BY <1>3, <2>3
  <2> QED
    BY <1>4, <2>1, <2>4, <2>5
<1>6. ExpenseData'
  BY <1>3, <1>4, <1>5 DEF EInv, ExpenseData, Stored
<1>7. Writes(p)
  BY <1>3, <1>4 DEF Writes, Stored
<1>8. ExpenseJob("expense_delete_lines", j)'
  BY <1>2, <1>4 DEF ExpenseJob, ExpenseSaves, Generating, Stored
<1>9. started \in Nat
  BY DEF EInv, ExpenseData
<1>10. started <= started' /\ "expense_delete_lines" \notin Numbered
  BY <1>3, <1>9 DEF Numbered, ExpenseSaves, Generating
<1> QED
  BY <1>3, <1>6, <1>7, <1>8, <1>10, ExpensePhaseSets, ExpenseSlotsKept

LEMMA DeleteExpenseLinesTypes ==
  ASSUME EInv, NEW p \in Procs, DeleteExpenseLines(p)
  PROVE  EInv'
<1>1. PICK t : t = job[p].target
  OBVIOUS
<1>2. /\ lines' = {IF r.doc = t THEN Deleted(r) ELSE r : r \in lines} /\ expenses' = expenses
      /\ moved' = moved /\ revived' = revived
      /\ phase' = [phase EXCEPT ![p] = "idle"] /\ job' = [job EXCEPT ![p] = NoJob]
      /\ started' = started /\ contended' = contended /\ interrupted' = interrupted
  BY <1>1 DEF DeleteExpenseLines, Finish, Goto
<1>3. PICK g : g = [r \in lines |-> IF r.doc = t THEN Deleted(r) ELSE r]
  OBVIOUS
<1>4. ASSUME NEW x \in lines
      PROVE  g[x] \in Line /\ g[x].id = x.id /\ g[x].item = x.item /\ g[x].doc = x.doc
  <2>1. x \in Line
    BY DEF EInv, ExpenseData, LinesOK
  <2>2. PICK a \in UNION Range(Units) : a = x.amount
    BY <2>1, LineParts
  <2>3. PICK c, u : c = Deleted(x) /\ u = [x EXCEPT !.amount = a]
    OBVIOUS
  <2>4. c \in Line /\ c.id = x.id /\ c.doc = x.doc /\ c.item = x.item
    BY <2>1, <2>2, <2>3, RowsChanged
  <2> QED
    BY <1>3, <2>1, <2>3, <2>4
<1>5. PICK W : W = lines'
  OBVIOUS
<1>6. g = [r \in lines |-> g[r]] /\ W = {g[r] : r \in lines}
  BY <1>2, <1>3, <1>5
<1>7. /\ LinesOK(W, started)
      /\ \A r \in lines : \E w \in W : w.id = r.id /\ w.doc = r.doc
      /\ \A w \in W : \E r \in lines : w.id = r.id /\ w.doc = r.doc
  BY <1>4, <1>6, LinesMappedWrites
<1>8. ExpenseData'
  <2>1. \A w \in W : Stored(w.doc)
    <3>1. \A r \in lines : Stored(r.doc)
      BY DEF EInv, ExpenseData
    <3> QED
      BY <1>7, <3>1
  <2> QED
    BY <1>2, <1>5, <1>7, <2>1 DEF EInv, ExpenseData, Stored
<1>9. Writes(p)
  BY <1>2, <1>5, <1>7 DEF Writes, Stored
<1>10. ExpenseJob("idle", NoJob)'
  BY ExpensePhaseSets DEF ExpenseJob
<1>11. started \in Nat
  BY DEF EInv, ExpenseData
<1>12. started <= started'
  BY <1>2, <1>11
<1> QED
  BY <1>2, <1>8, <1>9, <1>10, <1>12, ExpensePhaseSets, ExpenseSlotsKept

\* The lines of the copy of one item of a generation.
CopiedRows(form, e) == {NewRow(l, e, e) : l \in form}

LEMMA CopiedLines ==
  ASSUME NEW form, ExpenseForm(form, {}), NEW e \in Expense, NEW N, N = CopiedRows(form, e)
  PROVE  /\ IsFiniteSet(N)
         /\ \A w \in N : w \in Line /\ w.id[2] = w.item /\ w.id[1] = e /\ w.doc = e /\ w.active
         /\ \A w, v \in N : w.id = v.id => w = v
<1>1. PICK f : f = [l \in form |-> NewRow(l, e, e)]
  OBVIOUS
<1>2. ASSUME NEW l \in form
      PROVE  /\ f[l] \in Line /\ f[l].id = <<e, l.item>> /\ f[l].item = l.item /\ f[l].doc = e
             /\ f[l].active
  <2>1. l.item \in Resources /\ l.amount \in UNION Range(Units)
    BY DEF ExpenseForm
  <2>2. f[l] = [id |-> <<e, l.item>>, doc |-> e, item |-> l.item, amount |-> l.amount,
                active |-> TRUE]
    BY <1>1 DEF NewRow
  <2>3. f[l] \in Line
    BY <2>1, <2>2 DEF Line
  <2>4. f[l].active = TRUE
    BY <2>2
  <2> QED
    BY <2>2, <2>3, <2>4
<1>3. (\A l \in form : f[l] \in N) /\ (\A w \in N : \E l \in form : f[l] = w)
  BY <1>1 DEF CopiedRows
<1>4. IsFiniteSet(N)
  <2>1. DOMAIN f = form /\ f = [l \in form |-> f[l]]
    BY <1>1
  <2>2. IsFiniteSet(form)
    BY DEF ExpenseForm
  <2>3. \A l \in form : f[l] \in N
    BY <1>3
  <2>4. \A w \in N : \E l \in form : f[l] = w
    BY <1>3
  <2> QED
    BY <2>1, <2>2, <2>3, <2>4, FiniteImage
<1>5. \A w \in N : w \in Line /\ w.id[2] = w.item /\ w.id[1] = e /\ w.doc = e /\ w.active
  BY <1>2, <1>3
<1>6. ASSUME NEW w \in N, NEW v \in N, w.id = v.id PROVE w = v
  <2>1. PICK l \in form : f[l] = w
    BY <1>3
  <2>2. PICK m \in form : f[m] = v
    BY <1>3
  <2>3. l.item = m.item
    BY <1>2, <1>6, <2>1, <2>2
  <2>4. l = m
    BY <2>3 DEF ExpenseForm
  <2> QED
    BY <2>1, <2>2, <2>4
<1> QED
  BY <1>4, <1>5, <1>6

\* What a generation commits: the copies of some items, each with its lines.
CopyLines(copied, n, items) == UNION {CopiedRows(items[k].form, <<n, k>>) : k \in copied}
Commits(copied, n, items) ==
    /\ copied \subseteq DOMAIN items /\ n \in Serials
    /\ DOMAIN expenses' = DOMAIN expenses \cup {<<n, k>> : k \in copied}
    /\ \A e \in DOMAIN expenses : expenses'[e] = expenses[e]
    /\ \A k \in copied :
          /\ ~Stored(<<n, k>>) /\ ExpenseForm(items[k].form, {})
          /\ expenses'[<<n, k>>] =
                [active |-> TRUE, period |-> items[k].period,
                 subtotal |-> Total(items[k].form), from |-> items[k].source]
          /\ items[k].period \in Periods /\ items[k].source \in Expense
    /\ lines' = lines \cup CopyLines(copied, n, items)

LEMMA CommitParts ==
  ASSUME EInv, NEW p \in Procs, GenerationCommit(p), NEW j, j = job[p],
         NEW n, n = j.n, NEW items, items = j.items
  PROVE  \E copied \in SUBSET {1, 2} : Commits(copied, n, items)
<1>1. GenerationOf(j)
  BY DEF GenerationCommit, EInv, ExpenseSlots, ExpenseJob, Generating
<1>2. PICK copied : copied = Copied(j.table, items)
  OBVIOUS
<1>3. copied \subseteq DOMAIN items /\ DOMAIN items \subseteq {1, 2}
  BY <1>1, <1>2 DEF Copied, GenerationOf
<1>4. PICK new : new = {<<n, k>> : k \in copied}
  OBVIOUS
<1>5. /\ expenses' = [e \in DOMAIN expenses \cup new |->
             IF e \notin new THEN expenses[e]
             ELSE [active |-> TRUE, period |-> items[e[2]].period,
                   subtotal |-> Total(items[e[2]].form), from |-> items[e[2]].source]]
      /\ lines' = lines \cup UNION {{NewRow(l, <<n, k>>, <<n, k>>) : l \in items[k].form} :
                                       k \in copied}
  BY <1>2, <1>4 DEF GenerationCommit
<1>6. \A k \in copied : /\ ~Stored(<<n, k>>) /\ ExpenseForm(items[k].form, {})
                        /\ items[k].period \in Periods /\ items[k].source \in Expense
  BY <1>1, <1>3 DEF GenerationOf
<1>7. ASSUME NEW e \in DOMAIN expenses PROVE expenses'[e] = expenses[e]
  <2>1. e \notin new
    BY <1>4, <1>6 DEF Stored
  <2> QED
    BY <1>5, <2>1
<1>8. ASSUME NEW k \in copied
      PROVE  expenses'[<<n, k>>] = [active |-> TRUE, period |-> items[k].period,
                                    subtotal |-> Total(items[k].form), from |-> items[k].source]
  <2>1. PICK e : e = <<n, k>>
    OBVIOUS
  <2>2. e \in new /\ e[2] = k
    BY <1>4, <2>1
  <2> QED
    BY <1>5, <2>1, <2>2
<1>9. lines' = lines \cup CopyLines(copied, n, items)
  BY <1>5 DEF CopyLines, CopiedRows
<1>10. DOMAIN expenses' = DOMAIN expenses \cup {<<n, k>> : k \in copied} /\ n \in Serials
  BY <1>1, <1>4, <1>5 DEF GenerationOf
<1> QED
  BY <1>3, <1>6, <1>7, <1>8, <1>9, <1>10 DEF Commits

\* The new lines of a generation.
NewLines(N, copied, n) ==
    /\ IsFiniteSet(N)
    /\ \A w \in N : /\ w \in Line /\ w.id[2] = w.item /\ w.active
                    /\ \E k \in copied : w.id[1] = <<n, k>> /\ w.doc = <<n, k>>
    /\ \A w, v \in N : w.id = v.id => w = v

LEMMA CopiesLines ==
  ASSUME NEW copied \in SUBSET {1, 2}, NEW n \in Serials, NEW items,
         \A k \in copied : ExpenseForm(items[k].form, {}),
         NEW N, N = CopyLines(copied, n, items)
  PROVE  NewLines(N, copied, n)
<1>1. PICK R : R = [k \in {1, 2} |-> IF k \in copied THEN CopiedRows(items[k].form, <<n, k>>) ELSE {}]
  OBVIOUS
<1>2. ASSUME NEW k \in {1, 2}
      PROVE  /\ IsFiniteSet(R[k])
             /\ \A w \in R[k] : /\ w \in Line /\ w.id[2] = w.item /\ w.active
                                /\ k \in copied /\ w.id[1] = <<n, k>> /\ w.doc = <<n, k>>
             /\ \A w, v \in R[k] : w.id = v.id => w = v
  <2>1. CASE k \in copied
    <3>1. PICK e : e = <<n, k>>
      OBVIOUS
    <3>2. e \in Expense
      BY <3>1 DEF Expense
    <3>3. PICK form : form = items[k].form
      OBVIOUS
    <3>4. PICK M : M = R[k]
      OBVIOUS
    <3>5. M = CopiedRows(form, e)
      BY <1>1, <2>1, <3>1, <3>3, <3>4
    <3>6. ExpenseForm(form, {})
      BY <2>1, <3>3
    <3>7. /\ IsFiniteSet(M)
          /\ \A w \in M : w \in Line /\ w.id[2] = w.item /\ w.id[1] = e /\ w.doc = e /\ w.active
          /\ \A w, v \in M : w.id = v.id => w = v
      BY <3>2, <3>5, <3>6, CopiedLines
    <3> QED
      BY <2>1, <3>1, <3>4, <3>7
  <2>2. CASE k \notin copied
    <3>1. R[k] = {}
      BY <1>1, <2>2
    <3> QED
      BY <3>1, FS_EmptySet
  <2> QED
    BY <2>1, <2>2
<1>3. N = R[1] \cup R[2]
  <2>1. ASSUME NEW w \in N PROVE w \in R[1] \cup R[2]
    <3>1. PICK k \in copied : w \in CopiedRows(items[k].form, <<n, k>>)
      BY DEF CopyLines
    <3>2. k \in {1, 2} /\ w \in R[k]
      BY <1>1, <3>1
    <3> QED
      BY <3>2
  <2>2. ASSUME NEW k \in {1, 2}, NEW w \in R[k] PROVE w \in N
    <3>1. k \in copied /\ w \in CopiedRows(items[k].form, <<n, k>>)
      BY <1>1, <1>2
    <3> QED
      BY <3>1 DEF CopyLines
  <2> QED
    BY <2>1, <2>2
<1>4. IsFiniteSet(N)
  <2>1. PICK A, B : A = R[1] /\ B = R[2]
    OBVIOUS
  <2>2. IsFiniteSet(A) /\ IsFiniteSet(B) /\ N = A \cup B
    BY <1>2, <1>3, <2>1
  <2> QED
    BY <2>2, FS_Union
<1>5. \A w \in N : /\ w \in Line /\ w.id[2] = w.item /\ w.active
                   /\ \E k \in copied : w.id[1] = <<n, k>> /\ w.doc = <<n, k>>
  BY <1>2, <1>3
<1>6. ASSUME NEW w \in N, NEW v \in N, w.id = v.id PROVE w = v
  <2>1. PICK k \in {1, 2} : w \in R[k]
    BY <1>3
  <2>2. PICK i \in {1, 2} : v \in R[i]
    BY <1>3
  <2>3. w.id[1] = <<n, k>> /\ v.id[1] = <<n, i>>
    BY <1>2, <2>1, <2>2
  <2>4. k = i
    BY <1>6, <2>3
  <2> QED
    BY <1>2, <1>6, <2>1, <2>2, <2>4
<1> QED
  BY <1>4, <1>5, <1>6 DEF NewLines

LEMMA GenerationCommitTypes ==
  ASSUME EInv, NEW p \in Procs, GenerationCommit(p)
  PROVE  EInv'
<1>1. PICK j : j = job[p]
  OBVIOUS
<1>2. PICK n, items : n = j.n /\ items = j.items
  OBVIOUS
<1>3. PICK copied \in SUBSET {1, 2} : Commits(copied, n, items)
  BY <1>1, <1>2, CommitParts
<1>4. /\ phase[p] = "generate_commit" /\ moved' = moved /\ revived' = revived
      /\ phase' = [phase EXCEPT ![p] = "idle"] /\ job' = [job EXCEPT ![p] = NoJob]
      /\ started' = started /\ contended' = contended /\ interrupted' = interrupted
  BY DEF GenerationCommit, Finish, Goto
<1>5. GenerationOf(j)
  BY <1>1, <1>4 DEF EInv, ExpenseSlots, ExpenseJob, Generating
<1>6. /\ "generate_commit" \in Numbered /\ NumberOf(phase[p], job[p]) = n
      /\ n \in Nat /\ n <= started
  <2>1. "generate_commit" \in Numbered /\ NumberOf(phase[p], job[p]) = n
    BY <1>1, <1>2, <1>4 DEF Numbered, Generating, NumberOf, ExpenseSaves
  <2> QED
    BY <1>4, <2>1 DEF EInv, ExpenseSlots
<1>7. PICK N : N = CopyLines(copied, n, items)
  OBVIOUS
<1>8. /\ IsFiniteSet(N)
      /\ \A w \in N : /\ w \in Line /\ w.id[2] = w.item /\ w.active
                      /\ \E k \in copied : w.id[1] = <<n, k>> /\ w.doc = <<n, k>>
      /\ \A w, v \in N : w.id = v.id => w = v
  <2>1. \A k \in copied : ExpenseForm(items[k].form, {})
    BY <1>3 DEF Commits
  <2>2. n \in Serials
    BY <1>3 DEF Commits
  <2>3. NewLines(N, copied, n)
    BY <1>7, <2>1, <2>2, CopiesLines
  <2> QED
    BY <2>3 DEF NewLines
<1>9. PICK W : W = lines'
  OBVIOUS
<1>10. W = lines \cup N
  BY <1>3, <1>7, <1>9 DEF Commits
<1>11. LinesOK(W, started)
  <2>1. LinesOK(lines, started)
    BY DEF EInv, ExpenseData
  <2>2. \A w \in N : w \in Line /\ w.id[2] = w.item /\ w.id[1][1] <= started
    <3>1. ASSUME NEW w \in N PROVE w.id[1][1] <= started
      <4>1. PICK k \in copied : w.id[1] = <<n, k>>
        BY <1>8
      <4> QED
        BY <1>6, <4>1
    <3> QED
      BY <1>8, <3>1
  <2>3. \A w \in N : \A r \in lines : r.id # w.id
    <3>1. ASSUME NEW w \in N, NEW r \in lines PROVE r.id # w.id
      <4>1. PICK k \in copied : w.id[1] = <<n, k>>
        BY <1>8
      <4>2. w.id[1][1] = n
        BY <4>1
      <4>3. r.id[1][1] # n
        BY <1>2, <1>5 DEF GenerationOf
      <4> QED
        BY <4>2, <4>3
    <3> QED
      BY <3>1
  <2>4. \A w, v \in N : w.id = v.id => w = v
    BY <1>8
  <2>5. IsFiniteSet(N)
    BY <1>8
  <2> QED
    BY <1>10, <2>1, <2>2, <2>3, <2>4, <2>5, LinesAdded
<1>12. expenses' \in [DOMAIN expenses' -> ExpenseRecord]
  <2>1. ASSUME NEW e \in DOMAIN expenses' PROVE expenses'[e] \in ExpenseRecord
    <3>1. CASE e \in DOMAIN expenses
      <4>1. expenses[e] \in ExpenseRecord
        BY <3>1 DEF EInv, ExpenseData
      <4> QED
        BY <1>3, <3>1, <4>1 DEF Commits
    <3>2. ASSUME NEW k \in copied, e = <<n, k>> PROVE expenses'[e] \in ExpenseRecord
      <4>1. PICK form, none : form = items[k].form /\ none = {}
        OBVIOUS
      <4>2. ExpenseForm(form, none)
        BY <1>3, <4>1 DEF Commits
      <4>3. Total(form) \in Nat
        BY <4>2, FormIsRows
      <4> QED
        <5>1. expenses'[e] = [active |-> TRUE, period |-> items[k].period,
                              subtotal |-> Total(form), from |-> items[k].source]
          BY <1>3, <3>2, <4>1 DEF Commits
        <5>2. items[k].period \in Periods /\ items[k].source \in Expense
          BY <1>3 DEF Commits
        <5> QED
          BY <4>3, <5>1, <5>2 DEF ExpenseRecord
    <3> QED
      BY <1>3, <3>1, <3>2 DEF Commits
  <2>2. \A e \in DOMAIN expenses' : expenses'[e] \in ExpenseRecord
    BY <2>1
  <2>3. expenses' = [e \in DOMAIN expenses' |-> expenses'[e]]
    BY DEF GenerationCommit
  <2> QED
    BY <2>2, <2>3
<1>13. /\ \A e : Stored(e) => Stored(e)'
       /\ \A e : Stored(e)' => Stored(e) \/ \E k \in copied : e = <<n, k>>
  BY <1>3 DEF Commits, Stored
<1>14. ExpenseData'
  <2>1. \A e \in DOMAIN expenses' : e \in Expense /\ e[1] <= started
    <3>1. \A e \in DOMAIN expenses : e \in Expense /\ e[1] <= started
      BY DEF EInv, ExpenseData
    <3>2. \A k \in copied : <<n, k>> \in Expense /\ <<n, k>>[1] <= started
      BY <1>3, <1>6 DEF Commits, Expense
    <3> QED
      BY <1>3, <3>1, <3>2 DEF Commits
  <2>2. \A w \in W : Stored(w.doc)'
    <3>1. \A r \in lines : Stored(r.doc)
      BY DEF EInv, ExpenseData
    <3>2. ASSUME NEW w \in N PROVE Stored(w.doc)'
      <4>1. PICK k \in copied : w.doc = <<n, k>>
        BY <1>8
      <4> QED
        BY <1>3, <4>1 DEF Commits, Stored
    <3> QED
      BY <1>10, <1>13, <3>1, <3>2
  <2> QED
    BY <1>4, <1>9, <1>11, <1>12, <2>1, <2>2 DEF EInv, ExpenseData
<1>15. Writes(p)
  <2>1. \A w \in W :
          \/ \E r \in lines : w.id = r.id /\ w.doc = r.doc
          \/ phase[p] \in Numbered /\ w.id[1][1] = NumberOf(phase[p], job[p])
    <3>1. ASSUME NEW w \in N PROVE phase[p] \in Numbered /\ w.id[1][1] = NumberOf(phase[p], job[p])
      <4>1. PICK k \in copied : w.id[1] = <<n, k>>
        BY <1>8
      <4> QED
        BY <1>4, <1>6, <4>1
    <3> QED
      BY <1>10, <3>1
  <2>2. \A e : Stored(e)' =>
          Stored(e) \/ (phase[p] \in Numbered /\ e[1] = NumberOf(phase[p], job[p]))
    BY <1>4, <1>6, <1>13
  <2>3. \A r \in lines : \E w \in W : w.id = r.id /\ w.doc = r.doc
    BY <1>10
  <2> QED
    BY <1>9, <1>13, <2>1, <2>2, <2>3 DEF Writes
<1>16. ExpenseJob("idle", NoJob)'
  BY ExpensePhaseSets DEF ExpenseJob
<1>17. started \in Nat
  BY DEF EInv, ExpenseData
<1>18. started <= started'
  BY <1>4, <1>17
<1> QED
  BY <1>4, <1>14, <1>15, <1>16, <1>18, ExpensePhaseSets, ExpenseSlotsKept

LEMMA InitExpenses == SlotsInit /\ ExpensesInit => EInv
<1> SUFFICES ASSUME SlotsInit, ExpensesInit PROVE EInv
  OBVIOUS
<1>1. ExpenseData
  <2>1. LinesOK(lines, started)
    BY FS_EmptySet DEF ExpensesInit, LinesOK
  <2>2. expenses \in [DOMAIN expenses -> ExpenseRecord] /\ DOMAIN expenses = {}
    BY DEF ExpensesInit
  <2>3. MaxRequests \in Nat /\ started \in 0..MaxRequests
    BY ExpensesBounds DEF SlotsInit
  <2> QED
    BY <2>1, <2>2, <2>3 DEF SlotsInit, ExpensesInit, ExpenseData
<1>2. ExpenseSlots
  <2>1. \A p \in Procs : phase[p] = "idle"
    BY DEF SlotsInit
  <2>2. \A p \in Procs : ExpenseJob(phase[p], job[p])
    BY <2>1, ExpensePhaseSets DEF ExpenseJob
  <2>3. phase \in [Procs -> ExpensePhases] /\ job = [p \in Procs |-> job[p]]
    BY ExpensePhaseSets DEF SlotsInit
  <2> QED
    BY <2>1, <2>2, <2>3, ExpensePhaseSets DEF ExpenseSlots
<1> QED
  BY <1>1, <1>2 DEF EInv

LEMMA StepExpenses ==
  ASSUME EInv, [ExpensesNext]_<<slotVars, expenseVars>>
  PROVE  EInv'
<1>1. CASE ExpensesNext
  <2>1. PICK p \in Procs :
        \/ \E e \in Expense, period \in Periods : BeginExpense(p, e, period)
        \/ ExpenseHeader(p) \/ ExpenseLine(p) \/ ExpenseSaved(p)
        \/ \E e \in Expense : BeginDeleteExpense(p, e)
        \/ DeleteExpenseHeader(p) \/ DeleteExpenseLines(p)
        \/ BeginGeneration(p) \/ GenerationSnapshot(p) \/ GenerationCommit(p)
        \/ FailExpense(p)
    BY <1>1 DEF ExpensesNext
  <2>2. ASSUME NEW e \in Expense, NEW period \in Periods, BeginExpense(p, e, period)
        PROVE  EInv'
    BY <2>2, BeginExpenseTypes
  <2>3. CASE ExpenseHeader(p)
    BY <2>3, ExpenseHeaderTypes
  <2>4. CASE ExpenseLine(p)
    BY <2>4, ExpenseLineTypes
  <2>5. CASE ExpenseSaved(p) \/ FailExpense(p) \/ \E e \in Expense : BeginDeleteExpense(p, e)
    BY <2>5, EndExpenseTypes
  <2>6. CASE DeleteExpenseHeader(p)
    BY <2>6, DeleteExpenseHeaderTypes
  <2>7. CASE DeleteExpenseLines(p)
    BY <2>7, DeleteExpenseLinesTypes
  <2>8. CASE BeginGeneration(p)
    BY <2>8, BeginGenerationTypes
  <2>9. CASE GenerationSnapshot(p)
    BY <2>9, SnapshotGenerationTypes
  <2>10. CASE GenerationCommit(p)
    BY <2>10, GenerationCommitTypes
  <2> QED
    BY <2>1, <2>2, <2>3, <2>4, <2>5, <2>6, <2>7, <2>8, <2>9, <2>10
<1>2. CASE UNCHANGED <<slotVars, expenseVars>>
  <2>1. /\ phase' = phase /\ job' = job /\ started' = started
        /\ contended' = contended /\ interrupted' = interrupted
        /\ UNCHANGED expenseVars
    BY <1>2 DEF slotVars
  <2>2. ExpenseData'
    BY <2>1 DEF EInv, ExpenseData, LinesOK, Stored, expenseVars
  <2>3. \A p \in Procs : ExpenseJob(phase[p], job[p])'
    <3>1. ASSUME NEW p \in Procs PROVE ExpenseJob(phase[p], job[p])'
      <4>1. PICK ph, j : ph = phase[p] /\ j = job[p]
        OBVIOUS
      <4>2. ExpenseJob(ph, j)
        BY <4>1 DEF EInv, ExpenseSlots
      <4>3. ExpenseJob(ph, j)'
        BY <2>1, <4>2, QuietJob
      <4> QED
        BY <2>1, <4>1, <4>3
    <3> QED
      BY <3>1
  <2>4. ExpenseSlots'
    BY <2>1, <2>3 DEF EInv, ExpenseSlots
  <2> QED
    BY <2>2, <2>4 DEF EInv
<1> QED
  BY <1>1, <1>2

LEMMA EInvTypes == EInv => ExpensesTypeOK
<1> SUFFICES ASSUME EInv PROVE ExpensesTypeOK
  OBVIOUS
<1>1. DOMAIN expenses \subseteq Expense /\ lines \subseteq Line /\ {moved, revived} \subseteq BOOLEAN
  BY DEF EInv, ExpenseData, LinesOK
<1>2. Range(expenses) \subseteq ExpenseRecord
  BY DEF EInv, ExpenseData, Range
<1> QED
  BY <1>1, <1>2 DEF ExpensesTypeOK

\* Expenses and their lines have their types, whatever overlaps and fails: an expense
\* by itself, a save of it or a generation.
THEOREM ExpensesTyped == ExpensesSpec => []ExpensesTypeOK
<1>1. SlotsInit /\ ExpensesInit => EInv
  BY InitExpenses
<1>2. EInv /\ [ExpensesNext]_<<slotVars, expenseVars>> => EInv'
  BY StepExpenses
<1>3. EInv => ExpensesTypeOK
  BY EInvTypes
<1> QED
  BY <1>1, <1>2, <1>3, PTL DEF ExpensesSpec

----------------------------------------------------------------------------
(* Expenses: what they come to while nothing overlaps or fails halfway *)

\* The lines in force that a save is done with.
Settled(j) == {r \in ActiveOf(lines, j.target) : r.id \notin Ids(j.old)}

\* The subtotal, which is written first, is that of the lines a save leaves: those it
\* is done with and those still in its form, whose rows are in force.
Foresees(ph, j) ==
    /\ ph = "expense_lines" /\ LiveExpense(j.target) =>
          /\ expenses[j.target].subtotal = Total(j.form) + Total(Settled(j))
          /\ \A l \in j.form : l.id # NoId => \E r \in ActiveOf(lines, j.target) : r.id = l.id
    /\ ph = "expense_delete_lines" => ~LiveExpense(j.target)

OneSaver ==
    \A p, q \in Procs : p # q /\ phase[p] \in ExpenseSaves /\ phase[q] \in ExpenseSaves =>
        job[p].target # job[q].target

\* Nobody is writing its lines.
Unsaved(e) == \A q \in Procs : phase[q] = "expense_lines" => job[q].target # e
AddsUp(e) == expenses[e].subtotal = Total(ActiveOf(lines, e))

ExpensesExact ==
    /\ OneSaver
    /\ \A e : LiveExpense(e) /\ Unsaved(e) => AddsUp(e)
    /\ \A p \in Procs : Foresees(phase[p], job[p])

\* If it is in force after the step, it has what it had.
SameExpense(e) ==
    LiveExpense(e)' => /\ LiveExpense(e) /\ expenses'[e].subtotal = expenses[e].subtotal
                       /\ ActiveOf(lines, e)' = ActiveOf(lines, e)

LEMMA ForeseenKept ==
  ASSUME NEW ph, NEW j, Foresees(ph, j),
         ph \in {"expense_lines", "expense_delete_lines"} => SameExpense(j.target)
  PROVE  Foresees(ph, j)'
<1>1. PICK t : t = j.target
  OBVIOUS
<1>2. ASSUME ph = "expense_lines", LiveExpense(t)'
      PROVE  /\ expenses'[t].subtotal = Total(j.form) + Total(Settled(j)')
             /\ \A l \in j.form : l.id # NoId => \E r \in ActiveOf(lines, t)' : r.id = l.id
  <2>1. /\ LiveExpense(t) /\ expenses'[t].subtotal = expenses[t].subtotal
        /\ ActiveOf(lines, t)' = ActiveOf(lines, t)
    BY <1>1, <1>2 DEF SameExpense
  <2>2. Settled(j)' = Settled(j)
    BY <1>1, <2>1 DEF Settled
  <2> QED
    BY <1>1, <1>2, <2>1, <2>2 DEF Foresees
<1>3. ASSUME ph = "expense_delete_lines" PROVE ~LiveExpense(t)'
  BY <1>1, <1>3 DEF Foresees, SameExpense
<1> QED
  BY <1>1, <1>2, <1>3 DEF Foresees

LEMMA ExpensesExactKept ==
  ASSUME EInv, ExpensesExact, NEW p \in Procs, NEW ph, NEW j,
         phase' = [phase EXCEPT ![p] = ph], job' = [job EXCEPT ![p] = j],
         \A e : LiveExpense(e)' =>
            \/ SameExpense(e) /\ (phase[p] = "expense_lines" => job[p].target # e)
            \/ AddsUp(e)'
            \/ ph = "expense_lines" /\ j.target = e,
         \A q \in Procs : \A e :
            /\ q # p /\ phase[q] \in {"expense_lines", "expense_delete_lines"}
            /\ job[q].target = e
            => SameExpense(e),
         Foresees(ph, j)',
         ph \in ExpenseSaves =>
            \A q \in Procs : q # p /\ phase[q] \in ExpenseSaves => job[q].target # j.target
  PROVE  ExpensesExact'
<1>1. phase'[p] = ph /\ job'[p] = j
  BY DEF EInv, ExpenseSlots
<1>2. \A q \in Procs : q # p => phase'[q] = phase[q] /\ job'[q] = job[q]
  BY DEF EInv, ExpenseSlots
<1>3. OneSaver'
  BY <1>1, <1>2 DEF ExpensesExact, OneSaver
<1>4. ASSUME NEW e, LiveExpense(e)', Unsaved(e)' PROVE AddsUp(e)'
  <2>1. ~(ph = "expense_lines" /\ j.target = e)
    BY <1>1, <1>4 DEF Unsaved
  <2>2. CASE SameExpense(e) /\ (phase[p] = "expense_lines" => job[p].target # e)
    <3>1. Unsaved(e)
      BY <1>1, <1>2, <1>4, <2>2 DEF Unsaved
    <3>2. /\ LiveExpense(e) /\ expenses'[e].subtotal = expenses[e].subtotal
          /\ ActiveOf(lines, e)' = ActiveOf(lines, e)
      BY <1>4, <2>2 DEF SameExpense
    <3>3. AddsUp(e)
      BY <3>1, <3>2 DEF ExpensesExact
    <3> QED
      BY <3>2, <3>3 DEF AddsUp
  <2> QED
    BY <1>4, <2>1, <2>2
<1>5. ASSUME NEW q \in Procs PROVE Foresees(phase[q], job[q])'
  <2>1. CASE q = p
    BY <1>1, <2>1
  <2>2. CASE q # p
    <3>1. PICK h, k : h = phase[q] /\ k = job[q]
      OBVIOUS
    <3>2. Foresees(h, k) /\ (h \in {"expense_lines", "expense_delete_lines"} => SameExpense(k.target))
      BY <2>2, <3>1 DEF ExpensesExact
    <3>3. Foresees(h, k)'
      BY <3>2, ForeseenKept
    <3> QED
      BY <1>2, <2>2, <3>1, <3>3
  <2> QED
    BY <2>1, <2>2
<1> QED
  BY <1>3, <1>4, <1>5 DEF ExpensesExact

\* A step that writes no table.
LEMMA QuietExpensesExact ==
  ASSUME EInv, ExpensesExact, NEW p \in Procs, NEW ph, NEW j, UNCHANGED expenseVars,
         phase' = [phase EXCEPT ![p] = ph], job' = [job EXCEPT ![p] = j],
         phase[p] # "expense_lines",
         ph \notin {"expense_lines", "expense_delete_lines"},
         ph \in ExpenseSaves =>
            \A q \in Procs : q # p /\ phase[q] \in ExpenseSaves => job[q].target # j.target
  PROVE  ExpensesExact'
<1>1. expenses' = expenses /\ lines' = lines
  BY DEF expenseVars
<1>2. \A e : SameExpense(e)
  BY <1>1 DEF SameExpense, LiveExpense, Stored
<1>3. Foresees(ph, j)'
  BY DEF Foresees
<1> QED
  BY <1>2, <1>3, ExpensesExactKept

LEMMA QuietStepsExact ==
  ASSUME EInv, ExpensesExact, NEW p \in Procs, ~contended', ~interrupted',
         \/ \E e \in Expense, period \in Periods : BeginExpense(p, e, period)
         \/ \E e \in Expense : BeginDeleteExpense(p, e)
         \/ BeginGeneration(p) \/ GenerationSnapshot(p) \/ FailExpense(p)
  PROVE  ExpensesExact'
<1>1. ASSUME NEW e \in Expense, NEW period \in Periods, BeginExpense(p, e, period)
      PROVE  ExpensesExact'
  <2>1. PICK j : /\ j.target = e /\ Start(p, "expense_header", j, SavesOfExpense(e))
                 /\ UNCHANGED expenseVars
    <3>1. PICK form \in Forms(RowsOf(lines, e), Resources, Units) \ {{}} :
         Start(p, "expense_header",
               [n |-> <<NextSerial, 1>>, target |-> e, form |-> form, old |-> {},
                record |-> [active |-> TRUE, period |-> period,
                            subtotal |-> Total(form), from |-> NoExpense]],
               SavesOfExpense(e))
      BY <1>1 DEF BeginExpense
    <3> QED
      BY <1>1, <3>1 DEF BeginExpense
  <2>2. /\ phase[p] = "idle" /\ SavesOfExpense(e) = {}
        /\ phase' = [phase EXCEPT ![p] = "expense_header"] /\ job' = [job EXCEPT ![p] = j]
    BY <2>1 DEF Start, Free
  <2>3. \A q \in Procs : q # p /\ phase[q] \in ExpenseSaves => job[q].target # j.target
    BY <2>1, <2>2 DEF SavesOfExpense, InFlight, ExpenseSaves
  <2> QED
    BY <2>1, <2>2, <2>3, QuietExpensesExact
<1>2. ASSUME NEW e \in Expense, BeginDeleteExpense(p, e) PROVE ExpensesExact'
  <2>1. PICK j : j = [target |-> e]
    OBVIOUS
  <2>2. /\ phase[p] = "idle" /\ UNCHANGED expenseVars
        /\ phase' = [phase EXCEPT ![p] = "expense_delete"] /\ job' = [job EXCEPT ![p] = j]
    BY <1>2, <2>1 DEF BeginDeleteExpense, Start, Free
  <2>3. "expense_delete" \notin ExpenseSaves
    BY DEF ExpenseSaves
  <2> QED
    BY <2>2, <2>3, QuietExpensesExact
<1>3. CASE BeginGeneration(p)
  <2>1. PICK j, rivals : Start(p, "generate_tx", j, rivals)
    BY <1>3 DEF BeginGeneration
  <2>2. /\ phase[p] = "idle" /\ UNCHANGED expenseVars
        /\ phase' = [phase EXCEPT ![p] = "generate_tx"] /\ job' = [job EXCEPT ![p] = j]
    BY <1>3, <2>1 DEF BeginGeneration, Start, Free
  <2>3. "generate_tx" \notin ExpenseSaves
    BY DEF ExpenseSaves
  <2> QED
    BY <2>2, <2>3, QuietExpensesExact
<1>4. CASE GenerationSnapshot(p)
  <2>1. PICK j : j = [job[p] EXCEPT !.table = expenses]
    OBVIOUS
  <2>2. /\ phase[p] = "generate_tx" /\ UNCHANGED expenseVars
        /\ phase' = [phase EXCEPT ![p] = "generate_commit"] /\ job' = [job EXCEPT ![p] = j]
    BY <1>4, <2>1 DEF GenerationSnapshot, Goto
  <2>3. "generate_commit" \notin ExpenseSaves
    BY DEF ExpenseSaves
  <2> QED
    BY <2>2, <2>3, QuietExpensesExact
<1>5. CASE FailExpense(p)
  <2>1. /\ phase[p] # "expense_lines" /\ UNCHANGED expenseVars
        /\ phase' = [phase EXCEPT ![p] = "idle"] /\ job' = [job EXCEPT ![p] = NoJob]
    BY <1>5 DEF FailExpense, Fail
  <2>2. PICK j : j = NoJob
    OBVIOUS
  <2>3. job' = [job EXCEPT ![p] = j]
    BY <2>1, <2>2
  <2>4. PICK ph : ph = "idle"
    OBVIOUS
  <2>5. ph \notin ExpenseSaves /\ ph \notin {"expense_lines", "expense_delete_lines"}
    BY <2>4 DEF ExpenseSaves
  <2>6. phase' = [phase EXCEPT ![p] = ph] /\ phase[p] # "expense_lines" /\ UNCHANGED expenseVars
    BY <2>1, <2>4
  <2> QED
    BY <2>3, <2>5, <2>6, QuietExpensesExact
<1> QED
  BY <1>1, <1>2, <1>3, <1>4, <1>5

LEMMA HeaderExact ==
  ASSUME EInv, ExpensesExact, NEW p \in Procs, ExpenseHeader(p), ~revived'
  PROVE  ExpensesExact'
<1>1. PICK j : j = job[p]
  OBVIOUS
<1>2. phase[p] = "expense_header" /\ SaveOfExpense("expense_header", j)
  BY <1>1 DEF ExpenseHeader, EInv, ExpenseSlots, ExpenseJob, ExpenseSaves
<1>3. PICK t, form : t = j.target /\ form = j.form
  OBVIOUS
<1>4. PICK old : old = RowsOf(lines, t)
  OBVIOUS
<1>5. PICK k : k = [j EXCEPT !.old = old]
  OBVIOUS
<1>6. PICK rec : rec = IF Stored(t) THEN [j.record EXCEPT !.active = expenses[t].active,
                                                          !.from = expenses[t].from]
                       ELSE j.record
  OBVIOUS
<1>7. /\ expenses' = Put(t, rec) /\ lines' = lines
      /\ \A r \in old : r.active \/ r.id \notin Ids(form)
      /\ phase' = [phase EXCEPT ![p] = "expense_lines"] /\ job' = [job EXCEPT ![p] = k]
  BY <1>1, <1>3, <1>4, <1>5, <1>6 DEF ExpenseHeader, Goto
<1>8. /\ k.target = t /\ k.form = form /\ k.old = old
      /\ ExpenseForm(form, old) /\ j.record.subtotal = Total(form) /\ j.record \in ExpenseRecord
  BY <1>2, <1>3, <1>4, <1>5 DEF SaveOfExpense
<1>9. /\ expenses'[t] = rec
      /\ rec.subtotal = Total(form)
      /\ Stored(t) => (rec.active <=> expenses[t].active)
  <2>1. expenses'[t] = rec
    BY <1>7 DEF Put
  <2>2. rec.subtotal = Total(form)
    BY <1>6, <1>8 DEF ExpenseRecord
  <2>3. Stored(t) => rec.active = expenses[t].active
    BY <1>6, <1>8 DEF ExpenseRecord
  <2>4. Stored(t) => (rec.active <=> expenses[t].active)
    BY <2>3
  <2> QED
    BY <2>1, <2>2, <2>4
<1>10. ASSUME NEW e, e # t PROVE SameExpense(e)
  BY <1>7, <1>10 DEF SameExpense, LiveExpense, Stored, Put
<1>11. \A q \in Procs : q # p /\ phase[q] \in ExpenseSaves => job[q].target # t
  BY <1>1, <1>2, <1>3 DEF ExpensesExact, OneSaver, ExpenseSaves
<1>12. ASSUME NEW q \in Procs, NEW e, q # p, job[q].target = e,
              phase[q] \in {"expense_lines", "expense_delete_lines"}
       PROVE  SameExpense(e)
  <2>1. CASE phase[q] = "expense_lines"
    BY <1>10, <1>11, <1>12, <2>1 DEF ExpenseSaves
  <2>2. CASE e # t
    BY <1>10, <2>2
  <2>3. CASE phase[q] = "expense_delete_lines" /\ e = t
    <3>1. Stored(t) /\ ~LiveExpense(t)
      <4>1. ExpenseJob(phase[q], job[q]) /\ Foresees(phase[q], job[q])
        BY DEF EInv, ExpenseSlots, ExpensesExact
      <4> QED
        BY <1>12, <2>3, <4>1 DEF ExpenseJob, ExpenseDeletes, Foresees
    <3>2. ~LiveExpense(t)'
      BY <1>9, <3>1 DEF LiveExpense
    <3>3. SameExpense(t)
      BY <3>2 DEF SameExpense
    <3> QED
      BY <2>3, <3>3
  <2> QED
    BY <1>12, <2>1, <2>2, <2>3
<1>13. Foresees("expense_lines", k)'
  <2>1. Settled(k)' = {}
    <3>1. ASSUME NEW r \in ActiveOf(lines', t) PROVE r.id \in Ids(old)
      <4>1. r \in old /\ r \in lines
        BY <1>4, <1>7 DEF ActiveOf, Active, RowsOf
      <4>2. r.id # NoId
        BY <4>1, LineParts DEF EInv, ExpenseData, LinesOK
      <4> QED
        BY <4>1, <4>2 DEF Ids
    <3>2. Settled(k)' = {r \in ActiveOf(lines', t) : r.id \notin Ids(old)}
      BY <1>8 DEF Settled
    <3> QED
      BY <3>1, <3>2
  <2>2. Total(form) \in Nat
    BY <1>8, FormIsRows
  <2>3. Total({}) = 0
    <3>1. PICK r : r = [amount |-> 0]
      OBVIOUS
    <3>2. r.amount \in Nat
      BY <3>1
    <3> QED
      BY <3>2, TotalOfOne
  <2>4. expenses'[t].subtotal = Total(form) + Total(Settled(k)')
    BY <1>9, <2>1, <2>2, <2>3
  <2>5. ASSUME NEW l \in form, l.id # NoId PROVE \E r \in ActiveOf(lines', t) : r.id = l.id
    <3>1. l.id \in Ids(old)
      BY <1>8, <2>5 DEF ExpenseForm
    <3>2. PICK r \in old : r.id = l.id
      BY <3>1 DEF Ids
    <3>3. r.active
      BY <1>7, <2>5, <3>2 DEF Ids
    <3> QED
      BY <1>4, <1>7, <3>2, <3>3 DEF ActiveOf, Active, RowsOf
  <2> QED
    BY <1>8, <2>4, <2>5 DEF Foresees
<1>14. \A e : LiveExpense(e)' =>
          \/ SameExpense(e) /\ (phase[p] = "expense_lines" => job[p].target # e)
          \/ AddsUp(e)'
          \/ "expense_lines" = "expense_lines" /\ k.target = e
  BY <1>2, <1>8, <1>10
<1> QED
  BY <1>7, <1>8, <1>11, <1>12, <1>13, <1>14, ExpensesExactKept

\* A line is written of an expense that a single save writes.
LEMMA RowsElsewhere ==
  ASSUME EInv, NEW old, NEW form, NEW d, NEW f, NEW t, NEW n, NEW W,
         \A r \in old : r.id \in Ids(RowsOf(lines, t)),
         LineEffect(form, old, d, f, W, t, n), NEW e, e # t
  PROVE  ActiveOf(W, e) = ActiveOf(lines, e)
<1>1. /\ \A x \in lines : x \in Line
      /\ \A x, y \in lines : x.id = y.id => x = y
  BY DEF EInv, ExpenseData, LinesOK
<1>2. ASSUME NEW r \in old, NEW x \in lines, x.id = r.id PROVE x.doc = t
  <2>1. PICK y \in lines : y.doc = t /\ y.id = r.id
    BY DEF Ids, RowsOf
  <2> QED
    BY <1>1, <1>2, <2>1
<1>3. CASE Strikes(form, old, d, f, W)
  <2>1. PICK r \in old : W = {IF x.id = r.id THEN Deleted(x) ELSE x : x \in lines}
    BY <1>3 DEF Strikes
  <2>2. ASSUME NEW x \in lines, x.id = r.id PROVE Deleted(x).doc = t
    <3>1. x.doc = t /\ x \in Line
      BY <1>1, <1>2, <2>2
    <3>2. PICK a \in UNION Range(Units) : a = x.amount
      BY <3>1, LineParts
    <3>3. PICK c, u : c = Deleted(x) /\ u = [x EXCEPT !.amount = a]
      OBVIOUS
    <3>4. c.doc = x.doc
      BY <3>1, <3>2, <3>3, RowsChanged
    <3> QED
      BY <3>1, <3>3, <3>4
  <2>3. RowsOf(W, e) = RowsOf(lines, e)
    BY <1>2, <2>1, <2>2 DEF RowsOf
  <2> QED
    BY <2>3 DEF ActiveOf
<1>4. CASE Rewrites(form, old, d, f, W)
  <2>1. PICK r \in old, l \in form :
           W = {IF x.id = r.id THEN [x EXCEPT !.amount = l.amount] ELSE x : x \in lines}
    BY <1>4 DEF Rewrites
  <2>2. ASSUME NEW x \in lines, x.id = r.id PROVE [x EXCEPT !.amount = l.amount].doc = t
    <3>1. x.doc = t /\ x \in Line
      BY <1>1, <1>2, <2>2
    <3>2. [x EXCEPT !.amount = l.amount].doc = x.doc
      BY <3>1 DEF Line
    <3> QED
      BY <3>1, <3>2
  <2>3. RowsOf(W, e) = RowsOf(lines, e)
    BY <1>2, <2>1, <2>2 DEF RowsOf
  <2> QED
    BY <2>3 DEF ActiveOf
<1>5. CASE Inserts(form, old, d, f, W, t, n)
  <2>1. PICK l : W = lines \cup {NewRow(l, t, n)}
    BY <1>5 DEF Inserts
  <2>2. NewRow(l, t, n).doc = t
    BY DEF NewRow
  <2>3. RowsOf(W, e) = RowsOf(lines, e)
    BY <2>1, <2>2 DEF RowsOf
  <2> QED
    BY <2>3 DEF ActiveOf
<1> QED
  BY <1>3, <1>4, <1>5 DEF LineEffect

\* What a save holds between two of its writes.
Writing(form, old, t, n) ==
    /\ n \in Expense /\ t \in Expense
    /\ ExpenseForm(form, RowsOf(lines, t)) /\ Read(old, form, RowsOf(lines, t))
    /\ \A r, q \in old : r.id = q.id => r = q
    /\ \A l \in form : \A r \in lines : r.id # <<n, l.item>>
    /\ \A l \in form : l.id # NoId => \E r \in ActiveOf(lines, t) : r.id = l.id

Done(rows, old, t) == {r \in ActiveOf(rows, t) : r.id \notin Ids(old)}
Foreseen(form, old, d, f, W, t) ==
    /\ Total(form) + Total(Done(lines, old, t)) = Total(form \ f) + Total(Done(W, old \ d, t))
    /\ \A l \in form \ f : l.id # NoId => \E r \in ActiveOf(W, t) : r.id = l.id

LEMMA LinesKnown ==
  ASSUME EInv
  PROVE  /\ \A x \in lines : x \in Line /\ x.id # NoId
         /\ \A x, y \in lines : x.id = y.id => x = y
<1>1. \A x \in lines : x \in Line
  BY DEF EInv, ExpenseData, LinesOK
<1>2. \A x \in lines : x.id # NoId
  BY <1>1, LineParts
<1> QED
  BY <1>1, <1>2 DEF EInv, ExpenseData, LinesOK

LEMMA StrikeForeseen ==
  ASSUME EInv, NEW form, NEW old, NEW t, NEW n, Writing(form, old, t, n),
         NEW d, NEW f, NEW W, Strikes(form, old, d, f, W)
  PROVE  Foreseen(form, old, d, f, W, t)
<1>1. PICK r \in old : /\ r.id \notin Ids(form) /\ d = {r} /\ f = {}
                       /\ W = {IF x.id = r.id THEN Deleted(x) ELSE x : x \in lines}
  BY DEF Strikes
<1>2. r.id # NoId
  BY DEF Writing, Read, Ids
<1>3. \A x \in lines : ~Deleted(x).active
  <2>1. ASSUME NEW x \in lines PROVE ~Deleted(x).active
    <3>1. x \in Line
      BY LinesKnown
    <3>2. PICK a \in UNION Range(Units) : a = x.amount
      BY <3>1, LineParts
    <3>3. PICK c, u : c = Deleted(x) /\ u = [x EXCEPT !.amount = a]
      OBVIOUS
    <3>4. ~c.active
      BY <3>1, <3>2, <3>3, RowsChanged
    <3> QED
      BY <3>3, <3>4
  <2> QED
    BY <2>1
<1>4. \A w : w \in ActiveOf(W, t) <=> w \in ActiveOf(lines, t) /\ w.id # r.id
  <2>1. \A w \in W : w.active => w \in lines /\ w.id # r.id
    BY <1>1, <1>3
  <2>2. \A w \in lines : w.id # r.id => w \in W
    BY <1>1
  <2> QED
    BY <2>1, <2>2 DEF ActiveOf, Active, RowsOf
<1>5. \A x : x \in Ids(old) <=> x \in Ids(old \ d) \/ x = r.id
  <2>1. \A q \in old : q.id # r.id => q \in old \ d
    BY <1>1
  <2> QED
    BY <1>1, <1>2, <2>1 DEF Ids
<1>6. Done(W, old \ d, t) = Done(lines, old, t)
  BY <1>4, <1>5 DEF Done
<1>7. form \ f = form
  BY <1>1
<1>8. \A l \in form : l.id # NoId => \E x \in ActiveOf(W, t) : x.id = l.id
  <2>1. ASSUME NEW l \in form, l.id # NoId PROVE \E x \in ActiveOf(W, t) : x.id = l.id
    <3>1. PICK x \in ActiveOf(lines, t) : x.id = l.id
      BY <2>1 DEF Writing
    <3>2. l.id # r.id
      BY <1>1, <2>1 DEF Ids
    <3> QED
      BY <1>4, <3>1, <3>2
  <2> QED
    BY <2>1
<1> QED
  BY <1>6, <1>7, <1>8 DEF Foreseen

\* The line written counts among those done with instead of among those to come.
LEMMA Moved ==
  ASSUME NEW form, NEW rows, ExpenseForm(form, rows), NEW l \in form, NEW S, Rows(S),
         NEW w, w \notin S, w.amount = l.amount
  PROVE  Total(form) + Total(S) = Total(form \ {l}) + Total(S \cup {w})
<1>1. Rows(form)
  BY FormIsRows
<1>2. /\ Total(form) = l.amount + Total(form \ {l})
      /\ l.amount \in Nat /\ Total(form \ {l}) \in Nat
  BY <1>1, TotalTakesOut
<1>3. PICK R : R = S \cup {w}
  OBVIOUS
<1>4. Rows(R)
  <2>1. IsFiniteSet(S) /\ IsFiniteSet({w})
    BY FS_Singleton DEF Rows
  <2>2. PICK U : U = {w}
    OBVIOUS
  <2>3. IsFiniteSet(R)
    BY <1>3, <2>1, FS_Union
  <2>4. \A r \in R : r.amount \in Nat
    BY <1>2, <1>3 DEF Rows
  <2> QED
    BY <2>3, <2>4 DEF Rows
<1>5. w \in R /\ R \ {w} = S
  BY <1>3
<1>6. Total(R) = w.amount + Total(R \ {w}) /\ Total(R \ {w}) \in Nat
  BY <1>4, <1>5, TotalTakesOut
<1>7. Total(R) = l.amount + Total(S) /\ Total(S) \in Nat
  BY <1>5, <1>6
<1>8. PICK a, b, c : a = l.amount /\ b = Total(form \ {l}) /\ c = Total(S)
  OBVIOUS
<1>9. (a + b) + c = b + (a + c)
  BY <1>2, <1>7, <1>8
<1> QED
  BY <1>2, <1>3, <1>7, <1>8, <1>9

LEMMA InsertForeseen ==
  ASSUME EInv, NEW form, NEW old, NEW t, NEW n, Writing(form, old, t, n),
         NEW d, NEW f, NEW W, Inserts(form, old, d, f, W, t, n)
  PROVE  Foreseen(form, old, d, f, W, t)
<1>1. PICK l \in form : l.id = NoId /\ d = {} /\ f = {l} /\ W = lines \cup {NewRow(l, t, n)}
  BY DEF Inserts
<1>2. PICK w : w = NewRow(l, t, n)
  OBVIOUS
<1>3. w.id = <<n, l.item>> /\ w.doc = t /\ w.amount = l.amount /\ w.active
  BY <1>2 DEF NewRow
<1>4. w \notin lines /\ w.id \notin Ids(old)
  <2>1. \A r \in lines : r.id # w.id
    BY <1>3 DEF Writing
  <2>2. \A r \in old : \E x \in lines : x.id = r.id
    BY DEF Writing, Read, Ids, RowsOf
  <2> QED
    BY <2>1, <2>2 DEF Ids
<1>5. ActiveOf(W, t) = ActiveOf(lines, t) \cup {w}
  BY <1>1, <1>2, <1>3 DEF ActiveOf, Active, RowsOf
<1>6. PICK S : S = Done(lines, old, t)
  OBVIOUS
<1>7. old \ d = old /\ Done(W, old \ d, t) = S \cup {w}
  BY <1>1, <1>4, <1>5, <1>6 DEF Done
<1>8. Rows(S) /\ w \notin S
  <2>1. S \subseteq lines
    BY <1>6 DEF Done, ActiveOf, Active, RowsOf
  <2>2. LinesOK(lines, started)
    BY DEF EInv, ExpenseData
  <2>3. Rows(S)
    BY <2>1, <2>2, LinesAreRows
  <2> QED
    BY <1>4, <2>1, <2>3
<1>9. Total(form) + Total(S) = Total(form \ {l}) + Total(S \cup {w})
  <2>1. PICK rows : rows = RowsOf(lines, t)
    OBVIOUS
  <2>2. ExpenseForm(form, rows)
    BY <2>1 DEF Writing
  <2> QED
    BY <1>3, <1>8, <2>2, Moved
<1>10. \A m \in form : m.id # NoId => \E r \in ActiveOf(W, t) : r.id = m.id
  BY <1>5 DEF Writing
<1> QED
  BY <1>1, <1>6, <1>7, <1>9, <1>10 DEF Foreseen

LEMMA RewriteForeseen ==
  ASSUME EInv, NEW form, NEW old, NEW t, NEW n, Writing(form, old, t, n),
         NEW d, NEW f, NEW W, Rewrites(form, old, d, f, W)
  PROVE  Foreseen(form, old, d, f, W, t)
<1>1. PICK r \in old, l \in form :
         /\ l.id = r.id /\ d = {r} /\ f = {l}
         /\ W = {IF x.id = r.id THEN [x EXCEPT !.amount = l.amount] ELSE x : x \in lines}
  BY DEF Rewrites
<1>2. r.id # NoId
  BY DEF Writing, Read, Ids
<1>3. PICK x \in ActiveOf(lines, t) : x.id = l.id
  BY <1>1, <1>2 DEF Writing
<1>4. PICK w : w = [x EXCEPT !.amount = l.amount]
  OBVIOUS
<1>5. x \in lines /\ x.doc = t /\ x.active
  BY <1>3 DEF ActiveOf, Active, RowsOf
<1>6. w.id = r.id /\ w.doc = t /\ w.amount = l.amount /\ w.active
  <2>1. PICK a \in UNION Range(Units) : a = l.amount
    BY DEF Writing, ExpenseForm
  <2>2. PICK c : c = Deleted(x)
    OBVIOUS
  <2>3. x \in Line
    BY <1>5, LinesKnown
  <2>4. w = [x EXCEPT !.amount = a]
    BY <1>4, <2>1
  <2>5. w.id = x.id /\ w.doc = x.doc /\ w.amount = a /\ (w.active <=> x.active)
    BY <2>2, <2>3, <2>4, RowsChanged
  <2> QED
    BY <1>1, <1>3, <1>5, <2>1, <2>5
<1>7. \A v : v \in W <=> (v \in lines /\ v.id # r.id) \/ v = w
  <2>1. \A y \in lines : y.id = r.id => y = x
    BY <1>1, <1>3, <1>5, LinesKnown
  <2>2. x.id = r.id
    BY <1>1, <1>3
  <2> QED
    BY <1>1, <1>4, <1>5, <2>1, <2>2
<1>8. \A v : v \in ActiveOf(W, t) <=> (v \in ActiveOf(lines, t) /\ v.id # r.id) \/ v = w
  BY <1>6, <1>7 DEF ActiveOf, Active, RowsOf
<1>9. \A i : i \in Ids(old \ d) <=> i \in Ids(old) /\ i # r.id
  <2>1. \A q \in old : q \in old \ d <=> q.id # r.id
    BY <1>1 DEF Writing
  <2> QED
    BY <2>1 DEF Ids
<1>10. PICK S : S = Done(lines, old, t)
  OBVIOUS
<1>11. r.id \in Ids(old)
  BY <1>2 DEF Ids
<1>12. Done(W, old \ d, t) = S \cup {w} /\ w \notin S
  <2>1. \A v : v \in Done(W, old \ d, t) <=>
                 /\ v \in ActiveOf(W, t)
                 /\ v.id \notin Ids(old) \/ v.id = r.id
    BY <1>9 DEF Done
  <2>2. \A v : v \in S <=> v \in ActiveOf(lines, t) /\ v.id \notin Ids(old)
    BY <1>10 DEF Done
  <2>3. \A v : v \in Done(W, old \ d, t) <=> v \in S \/ v = w
    BY <1>6, <1>8, <1>11, <2>1, <2>2
  <2> QED
    BY <1>6, <1>11, <2>2, <2>3
<1>13. Rows(S)
  <2>1. S \subseteq lines
    BY <1>10 DEF Done, ActiveOf, Active, RowsOf
  <2>2. LinesOK(lines, started)
    BY DEF EInv, ExpenseData
  <2> QED
    BY <2>1, <2>2, LinesAreRows
<1>14. Total(form) + Total(S) = Total(form \ {l}) + Total(S \cup {w})
  <2>1. PICK rows : rows = RowsOf(lines, t)
    OBVIOUS
  <2>2. ExpenseForm(form, rows)
    BY <2>1 DEF Writing
  <2> QED
    BY <1>6, <1>12, <1>13, <2>2, Moved
<1>15. ASSUME NEW m \in form \ f, m.id # NoId PROVE \E v \in ActiveOf(W, t) : v.id = m.id
  <2>1. m \in form /\ m # l
    BY <1>1
  <2>2. m.id # l.id
    <3>1. m.id[2] = m.item /\ (l.id = m.id => l.id[2] = l.item)
      BY <1>15, <2>1 DEF Writing, ExpenseForm
    <3>2. m.item # l.item
      BY <2>1 DEF Writing, ExpenseForm
    <3> QED
      BY <3>1, <3>2
  <2>3. PICK v \in ActiveOf(lines, t) : v.id = m.id
    BY <1>15, <2>1 DEF Writing
  <2> QED
    BY <1>1, <1>8, <2>2, <2>3
<1> QED
  BY <1>1, <1>10, <1>12, <1>14, <1>15 DEF Foreseen

LEMMA WriteForeseen ==
  ASSUME EInv, NEW form, NEW old, NEW t, NEW n, Writing(form, old, t, n),
         NEW d, NEW f, NEW W, LineEffect(form, old, d, f, W, t, n)
  PROVE  Foreseen(form, old, d, f, W, t)
BY StrikeForeseen, InsertForeseen, RewriteForeseen DEF LineEffect

LEMMA LineExact ==
  ASSUME EInv, ExpensesExact, NEW p \in Procs, ExpenseLine(p)
  PROVE  ExpensesExact'
<1>1. PICK j : j = job[p]
  OBVIOUS
<1>2. /\ phase[p] = "expense_lines" /\ SaveOfExpense("expense_lines", j)
      /\ Foresees("expense_lines", j)
  BY <1>1 DEF ExpenseLine, EInv, ExpenseSlots, ExpenseJob, ExpenseSaves, ExpensesExact
<1>3. PICK d, f : /\ <<d, f>> \in NextWrites(j.old, j.form)
                  /\ lines' = LineWritten(d, f, j.target, j.n)
                  /\ Goto(p, "expense_lines", [j EXCEPT !.old = @ \ d, !.form = @ \ f])
  <2>1. PICK w \in NextWrites(j.old, j.form) :
           /\ lines' = LineWritten(w[1], w[2], j.target, j.n)
           /\ Goto(p, "expense_lines", [j EXCEPT !.old = @ \ w[1], !.form = @ \ w[2]])
    BY <1>1 DEF ExpenseLine
  <2>2. PICK d, f : w = <<d, f>>
    BY DEF NextWrites
  <2>3. w[1] = d /\ w[2] = f
    BY <2>2
  <2> QED
    BY <2>1, <2>2, <2>3
<1>4. PICK t, n, old, form : t = j.target /\ n = j.n /\ old = j.old /\ form = j.form
  OBVIOUS
<1>5. PICK rows : rows = RowsOf(lines, t)
  OBVIOUS
<1>6. PICK k : k = [j EXCEPT !.old = old \ d, !.form = form \ f]
  OBVIOUS
<1>7. PICK W : W = LineWritten(d, f, t, n)
  OBVIOUS
<1>8. /\ lines' = W /\ expenses' = expenses
      /\ phase' = [phase EXCEPT ![p] = "expense_lines"] /\ job' = [job EXCEPT ![p] = k]
  BY <1>1, <1>3, <1>4, <1>6, <1>7 DEF ExpenseLine, Goto
<1>9. /\ t \in Expense /\ n \in Expense
      /\ ExpenseForm(form, rows) /\ Read(old, form, rows)
      /\ \A r, q \in old : r.id = q.id => r = q
      /\ \A l \in form : \A r \in lines : r.id # <<n, l.item>>
  BY <1>2, <1>4, <1>5 DEF SaveOfExpense
<1>10. \A r \in old : r.id # NoId /\ r.id \in Ids(rows)
  BY <1>9 DEF Read, Ids
<1>11. LineEffect(form, old, d, f, W, t, n)
  BY <1>3, <1>4, <1>7, <1>9, <1>10, ExpenseLineWrite
<1>12. k.target = t /\ k.form = form \ f /\ k.old = old \ d
  BY <1>2, <1>4, <1>6 DEF SaveOfExpense
<1>13. ASSUME NEW e, e # t PROVE SameExpense(e)
  <2>1. \A r \in old : r.id \in Ids(RowsOf(lines, t))
    BY <1>5, <1>10
  <2>2. ActiveOf(W, e) = ActiveOf(lines, e)
    BY <1>11, <1>13, <2>1, RowsElsewhere
  <2> QED
    BY <1>8, <2>2 DEF SameExpense, LiveExpense, Stored
<1>14. \A q \in Procs : q # p /\ phase[q] \in ExpenseSaves => job[q].target # t
  BY <1>1, <1>2, <1>4 DEF ExpensesExact, OneSaver, ExpenseSaves
<1>15. ASSUME NEW q \in Procs, NEW e, q # p, job[q].target = e,
              phase[q] \in {"expense_lines", "expense_delete_lines"}
       PROVE  SameExpense(e)
  <2>1. CASE phase[q] = "expense_lines"
    BY <1>13, <1>14, <1>15, <2>1 DEF ExpenseSaves
  <2>2. CASE e # t
    BY <1>13, <2>2
  <2>3. CASE phase[q] = "expense_delete_lines"
    <3>1. ~LiveExpense(e)
      <4>1. Foresees(phase[q], job[q])
        BY DEF ExpensesExact
      <4> QED
        BY <1>15, <2>3, <4>1 DEF Foresees
    <3> QED
      BY <1>8, <3>1 DEF SameExpense, LiveExpense, Stored
  <2> QED
    BY <1>15, <2>1, <2>2, <2>3
<1>16. Foresees("expense_lines", k)'
  <2>1. CASE ~LiveExpense(t)
    <3>1. ~LiveExpense(t)'
      BY <1>8, <2>1 DEF LiveExpense, Stored
    <3> QED
      BY <1>12, <3>1 DEF Foresees
  <2>2. CASE LiveExpense(t)
    <3>1. /\ expenses[t].subtotal = Total(form) + Total(Settled(j))
          /\ \A l \in form : l.id # NoId => \E r \in ActiveOf(lines, t) : r.id = l.id
      BY <1>2, <1>4, <2>2 DEF Foresees
    <3>2. Settled(j) = Done(lines, old, t)
      BY <1>4 DEF Settled, Done
    <3>3. Settled(k)' = Done(W, old \ d, t)
      BY <1>8, <1>12 DEF Settled, Done
    <3>4. Writing(form, old, t, n)
      BY <1>5, <1>9, <3>1 DEF Writing
    <3>5. Foreseen(form, old, d, f, W, t)
      BY <1>11, <3>4, WriteForeseen
    <3>6. expenses'[t].subtotal = Total(k.form) + Total(Settled(k)')
      BY <1>8, <1>12, <3>1, <3>2, <3>3, <3>5 DEF Foreseen
    <3>7. \A l \in k.form : l.id # NoId => \E r \in ActiveOf(W, t) : r.id = l.id
      BY <1>12, <3>5 DEF Foreseen
    <3> QED
      BY <1>8, <1>12, <3>6, <3>7 DEF Foresees
  <2> QED
    BY <2>1, <2>2
<1>17. \A e : LiveExpense(e)' =>
          \/ SameExpense(e) /\ (phase[p] = "expense_lines" => job[p].target # e)
          \/ AddsUp(e)'
          \/ "expense_lines" = "expense_lines" /\ k.target = e
  BY <1>1, <1>4, <1>12, <1>13
<1> QED
  BY <1>8, <1>12, <1>14, <1>15, <1>16, <1>17, ExpensesExactKept

LEMMA SavedExact ==
  ASSUME EInv, ExpensesExact, NEW p \in Procs, ExpenseSaved(p)
  PROVE  ExpensesExact'
<1>1. PICK j : j = job[p]
  OBVIOUS
<1>2. PICK t : t = j.target
  OBVIOUS
<1>3. /\ phase[p] = "expense_lines" /\ j.old = {} /\ j.form = {}
      /\ expenses' = expenses /\ lines' = lines
      /\ phase' = [phase EXCEPT ![p] = "idle"] /\ job' = [job EXCEPT ![p] = NoJob]
  BY <1>1 DEF ExpenseSaved, Finish, Goto, expenseVars
<1>4. \A e : SameExpense(e)
  BY <1>3 DEF SameExpense, LiveExpense, Stored
<1>5. LiveExpense(t) => AddsUp(t)
  <2>1. Foresees("expense_lines", j)
    BY <1>1, <1>3 DEF ExpensesExact
  <2>2. Settled(j) = ActiveOf(lines, t)
    BY <1>2, <1>3 DEF Settled, Ids
  <2>3. PICK S : S = ActiveOf(lines, t)
    OBVIOUS
  <2>4. Rows(S)
    <3>1. S \subseteq lines
      BY <2>3 DEF ActiveOf, Active, RowsOf
    <3>2. LinesOK(lines, started)
      BY DEF EInv, ExpenseData
    <3> QED
      BY <3>1, <3>2, LinesAreRows
  <2>5. Total(S) \in Nat
    <3>1. PICK R : R = S \ S
      OBVIOUS
    <3>2. S \subseteq S
      OBVIOUS
    <3> QED
      BY <2>4, <3>1, <3>2, TotalSplits
  <2>6. Total({}) = 0
    <3>1. PICK r : r = [amount |-> 0]
      OBVIOUS
    <3>2. r.amount \in Nat
      BY <3>1
    <3> QED
      BY <3>2, TotalOfOne
  <2>7. LiveExpense(t) => expenses[t].subtotal = 0 + Total(S)
    BY <1>2, <1>3, <2>1, <2>2, <2>3, <2>6 DEF Foresees
  <2> QED
    BY <2>3, <2>5, <2>7 DEF AddsUp
<1>6. ASSUME NEW e, LiveExpense(e)'
      PROVE  \/ SameExpense(e) /\ (phase[p] = "expense_lines" => job[p].target # e)
             \/ AddsUp(e)'
  <2>1. CASE e # t
    BY <1>1, <1>2, <1>4, <2>1
  <2>2. CASE e = t
    <3>1. LiveExpense(t)
      BY <1>3, <1>6, <2>2 DEF LiveExpense, Stored
    <3>2. AddsUp(e)'
      BY <1>3, <1>5, <2>2, <3>1 DEF AddsUp
    <3> QED
      BY <3>2
  <2> QED
    BY <2>1, <2>2
<1>7. PICK ph, k : ph = "idle" /\ k = NoJob
  OBVIOUS
<1>8. ph \notin ExpenseSaves /\ Foresees(ph, k)'
  BY <1>7 DEF ExpenseSaves, Foresees
<1>9. phase' = [phase EXCEPT ![p] = ph] /\ job' = [job EXCEPT ![p] = k]
  BY <1>3, <1>7
<1> QED
  BY <1>4, <1>6, <1>8, <1>9, ExpensesExactKept

LEMMA DeleteExpenseHeaderExact ==
  ASSUME EInv, ExpensesExact, NEW p \in Procs, DeleteExpenseHeader(p)
  PROVE  ExpensesExact'
<1>1. PICK j : j = job[p]
  OBVIOUS
<1>2. PICK t : t = j.target
  OBVIOUS
<1>3. /\ phase[p] = "expense_delete" /\ lines' = lines
      /\ expenses' = [expenses EXCEPT ![t].active = FALSE]
      /\ phase' = [phase EXCEPT ![p] = "expense_delete_lines"] /\ job' = [job EXCEPT ![p] = j]
  BY <1>1, <1>2 DEF DeleteExpenseHeader, Goto
<1>4. ~LiveExpense(t)'
  <2>1. Stored(t)
    <3>1. ExpenseJob(phase[p], j)
      BY <1>1 DEF EInv, ExpenseSlots
    <3> QED
      BY <1>2, <1>3, <3>1 DEF ExpenseJob, ExpenseDeletes
  <2>2. expenses[t] \in ExpenseRecord
    BY <2>1 DEF Stored, EInv, ExpenseData
  <2>3. expenses'[t] = [expenses[t] EXCEPT !.active = FALSE]
    BY <1>3, <2>1 DEF Stored
  <2>4. expenses'[t].active = FALSE
    BY <2>2, <2>3 DEF ExpenseRecord
  <2> QED
    BY <2>4 DEF LiveExpense
<1>5. ASSUME NEW e PROVE SameExpense(e)
  <2>1. CASE e = t
    <3>1. SameExpense(t)
      BY <1>4 DEF SameExpense
    <3> QED
      BY <2>1, <3>1
  <2>2. CASE e # t
    BY <1>3, <2>2 DEF SameExpense, LiveExpense, Stored
  <2> QED
    BY <2>1, <2>2
<1>6. PICK ph : ph = "expense_delete_lines"
  OBVIOUS
<1>7. ph \notin ExpenseSaves /\ Foresees(ph, j)'
  BY <1>2, <1>4, <1>6 DEF ExpenseSaves, Foresees
<1>8. phase' = [phase EXCEPT ![p] = ph] /\ job' = [job EXCEPT ![p] = j]
      /\ phase[p] # "expense_lines"
  BY <1>3, <1>6
<1> QED
  BY <1>5, <1>7, <1>8, ExpensesExactKept

LEMMA DeleteExpenseLinesExact ==
  ASSUME EInv, ExpensesExact, NEW p \in Procs, DeleteExpenseLines(p)
  PROVE  ExpensesExact'
<1>1. PICK t : t = job[p].target
  OBVIOUS
<1>2. /\ phase[p] = "expense_delete_lines" /\ expenses' = expenses
      /\ lines' = {IF r.doc = t THEN Deleted(r) ELSE r : r \in lines}
      /\ phase' = [phase EXCEPT ![p] = "idle"] /\ job' = [job EXCEPT ![p] = NoJob]
  BY <1>1 DEF DeleteExpenseLines, Finish, Goto
<1>3. ~LiveExpense(t)
  <2>1. Foresees(phase[p], job[p])
    BY DEF ExpensesExact
  <2> QED
    BY <1>1, <1>2, <2>1 DEF Foresees
<1>4. ASSUME NEW x \in lines, x.doc = t PROVE Deleted(x).doc = t
  <2>1. x \in Line
    BY LinesKnown
  <2>2. PICK a \in UNION Range(Units) : a = x.amount
    BY <2>1, LineParts
  <2>3. PICK c, u : c = Deleted(x) /\ u = [x EXCEPT !.amount = a]
    OBVIOUS
  <2>4. c.doc = x.doc
    BY <2>1, <2>2, <2>3, RowsChanged
  <2> QED
    BY <1>4, <2>3, <2>4
<1>5. ASSUME NEW e PROVE SameExpense(e)
  <2>1. CASE e = t
    BY <1>2, <1>3, <2>1 DEF SameExpense, LiveExpense, Stored
  <2>2. CASE e # t
    <3>1. RowsOf(lines', e) = RowsOf(lines, e)
      BY <1>2, <1>4, <2>2 DEF RowsOf
    <3>2. ActiveOf(lines', e) = ActiveOf(lines, e)
      BY <3>1 DEF ActiveOf
    <3> QED
      BY <1>2, <3>2 DEF SameExpense, LiveExpense, Stored
  <2> QED
    BY <2>1, <2>2
<1>6. PICK ph, k : ph = "idle" /\ k = NoJob
  OBVIOUS
<1>7. ph \notin ExpenseSaves /\ Foresees(ph, k)'
  BY <1>6 DEF ExpenseSaves, Foresees
<1>8. phase' = [phase EXCEPT ![p] = ph] /\ job' = [job EXCEPT ![p] = k]
      /\ phase[p] # "expense_lines"
  BY <1>2, <1>6
<1> QED
  BY <1>5, <1>7, <1>8, ExpensesExactKept

\* The lines of a copy come to what its form comes to.
LEMMA CopiedTotal ==
  ASSUME NEW form, ExpenseForm(form, {}), NEW e \in Expense, NEW N, N = CopiedRows(form, e)
  PROVE  Total(N) = Total(form)
<1>1. PICK none : none = {}
  OBVIOUS
<1>2. Rows(form)
  <2>1. ExpenseForm(form, none)
    BY <1>1
  <2> QED
    BY <2>1, FormIsRows
<1>3. /\ IsFiniteSet(N) /\ N \subseteq Line
      /\ \A w, v \in N : w.id = v.id => w = v
      /\ \A w \in N : w.id[2] = w.item /\ w.id[1] = e
  BY CopiedLines
<1>4. Rows(N)
  BY <1>3, LineParts DEF Rows
<1>5. \A w \in N : \E l \in form : w = NewRow(l, e, e)
  BY DEF CopiedRows
<1>6. \A l \in form : NewRow(l, e, e) \in N
  BY DEF CopiedRows
<1>7. \A l : NewRow(l, e, e).item = l.item /\ NewRow(l, e, e).amount = l.amount
             /\ NewRow(l, e, e).id = <<e, l.item>>
  BY DEF NewRow
<1>8. \A l, m \in form : l.item = m.item => l = m
  BY DEF ExpenseForm
<1>9. ASSUME NEW i PROVE TotalOf(N, i) = TotalOf(form, i)
  <2>1. CASE \A l \in form : l.item # i
    <3>1. \A w \in N : w.item # i
      BY <1>5, <1>7, <2>1
    <3>2. TotalOf(N, i) = 0
      BY <1>4, <3>1, TotalOfFew
    <3>3. TotalOf(form, i) = 0
      BY <1>2, <2>1, TotalOfFew
    <3> QED
      BY <3>2, <3>3
  <2>2. ASSUME NEW l \in form, l.item = i PROVE TotalOf(N, i) = TotalOf(form, i)
    <3>1. PICK w : w = NewRow(l, e, e)
      OBVIOUS
    <3>2. w \in N /\ w.item = i /\ w.amount = l.amount /\ w.id = <<e, i>>
      BY <1>6, <1>7, <2>2, <3>1
    <3>3. \A v \in N : v.item = i => v = w
      <4>1. ASSUME NEW v \in N, v.item = i PROVE v = w
        <5>1. PICK m \in form : v = NewRow(m, e, e)
          BY <1>5
        <5>2. m.item = l.item
          BY <1>7, <2>2, <4>1, <5>1
        <5>3. m = l
          BY <1>8, <5>2
        <5> QED
          BY <3>1, <5>1, <5>3
      <4> QED
        BY <4>1
    <3>4. TotalOf(N, i) = w.amount
      BY <1>4, <3>2, <3>3, TotalOfFew
    <3>5. \A m \in form : m.item = i => m = l
      BY <1>8, <2>2
    <3>6. TotalOf(form, i) = l.amount
      BY <1>2, <2>2, <3>5, TotalOfFew
    <3> QED
      BY <3>2, <3>4, <3>6
  <2> QED
    BY <2>1, <2>2
<1> QED
  BY <1>2, <1>4, <1>9, SameTotals

LEMMA GenerationExact ==
  ASSUME EInv, ExpensesExact, NEW p \in Procs, GenerationCommit(p)
  PROVE  ExpensesExact'
<1>1. PICK j : j = job[p]
  OBVIOUS
<1>2. PICK n, items : n = j.n /\ items = j.items
  OBVIOUS
<1>3. PICK copied \in SUBSET {1, 2} : Commits(copied, n, items)
  BY <1>1, <1>2, CommitParts
<1>4. /\ phase[p] = "generate_commit"
      /\ phase' = [phase EXCEPT ![p] = "idle"] /\ job' = [job EXCEPT ![p] = NoJob]
  BY DEF GenerationCommit, Finish, Goto
<1>5. PICK N : N = CopyLines(copied, n, items)
  OBVIOUS
<1>6. lines' = lines \cup N
  BY <1>3, <1>5 DEF Commits
<1>7. /\ \A w \in N : \E k \in copied : w \in CopiedRows(items[k].form, <<n, k>>)
      /\ \A k \in copied : \A w \in CopiedRows(items[k].form, <<n, k>>) : w \in N
  BY <1>5 DEF CopyLines
<1>8. \A k : \A w \in CopiedRows(items[k].form, <<n, k>>) : w.doc = <<n, k>> /\ w.active
  BY DEF CopiedRows, NewRow
<1>9. \A r \in lines : Stored(r.doc)
  BY DEF EInv, ExpenseData
<1>10. ASSUME NEW e, \A k \in copied : e # <<n, k>> PROVE SameExpense(e)
  <2>1. RowsOf(lines', e) = RowsOf(lines, e)
    BY <1>6, <1>7, <1>8, <1>10 DEF RowsOf
  <2>2. ActiveOf(lines', e) = ActiveOf(lines, e)
    BY <2>1 DEF ActiveOf
  <2>3. Stored(e)' => Stored(e) /\ expenses'[e] = expenses[e]
    BY <1>3, <1>10 DEF Commits, Stored
  <2> QED
    BY <2>2, <2>3 DEF SameExpense, LiveExpense
<1>11. ASSUME NEW k \in copied PROVE \A e : e = <<n, k>> => AddsUp(e)'
  <2>1. PICK e : e = <<n, k>>
    OBVIOUS
  <2>2. PICK form : form = items[k].form
    OBVIOUS
  <2>3. PICK M : M = CopiedRows(form, e)
    OBVIOUS
  <2>4. /\ ~Stored(e) /\ ExpenseForm(form, {}) /\ n \in Serials
        /\ expenses'[e] = [active |-> TRUE, period |-> items[k].period,
                           subtotal |-> Total(form), from |-> items[k].source]
    BY <1>3, <2>1, <2>2 DEF Commits
  <2>5. e \in Expense
    BY <2>1, <2>4 DEF Expense
  <2>6. Total(M) = Total(form)
    BY <2>3, <2>4, <2>5, CopiedTotal
  <2>7. ActiveOf(lines', e) = M
    <3>1. \A r \in lines : r.doc # e
      BY <1>9, <2>4
    <3>2. \A w \in M : w \in N /\ w.doc = e /\ w.active
      BY <1>7, <1>8, <2>1, <2>2, <2>3
    <3>3. ASSUME NEW w \in N, w.doc = e PROVE w \in M
      <4>1. PICK i \in copied : w \in CopiedRows(items[i].form, <<n, i>>)
        BY <1>7
      <4>2. <<n, i>> = <<n, k>>
        BY <1>8, <2>1, <3>3, <4>1
      <4>3. i = k
        BY <4>2
      <4> QED
        BY <2>1, <2>2, <2>3, <4>1, <4>3
    <3> QED
      BY <1>6, <3>1, <3>2, <3>3 DEF ActiveOf, Active, RowsOf
  <2>8. AddsUp(e)'
    BY <2>4, <2>6, <2>7 DEF AddsUp
  <2> QED
    BY <2>1, <2>8
<1>12. ASSUME NEW q \in Procs, NEW e, q # p, job[q].target = e,
              phase[q] \in {"expense_lines", "expense_delete_lines"}
       PROVE  SameExpense(e)
  <2>1. Stored(e)
    <3>1. ExpenseJob(phase[q], job[q])
      BY DEF EInv, ExpenseSlots
    <3> QED
      BY <1>12, <3>1 DEF ExpenseJob, SaveOfExpense, ExpenseSaves, ExpenseDeletes
  <2>2. \A k \in copied : e # <<n, k>>
    BY <1>3, <2>1 DEF Commits
  <2> QED
    BY <1>10, <2>2
<1>13. \A e : SameExpense(e) \/ AddsUp(e)'
  BY <1>10, <1>11
<1>14. PICK ph, k : ph = "idle" /\ k = NoJob
  OBVIOUS
<1>15. ph \notin ExpenseSaves /\ Foresees(ph, k)'
  BY <1>14 DEF ExpenseSaves, Foresees
<1>16. phase' = [phase EXCEPT ![p] = ph] /\ job' = [job EXCEPT ![p] = k]
       /\ phase[p] # "expense_lines"
  BY <1>4, <1>14
<1> QED
  BY <1>12, <1>13, <1>15, <1>16, ExpensesExactKept

\* What has once overlapped, failed halfway or named a removed line has done so for good.
Calmly == ~contended /\ ~interrupted /\ ~revived

LEMMA CalmBefore ==
  ASSUME [ExpensesNext]_<<slotVars, expenseVars>>, Calmly'
  PROVE  Calmly
<1>1. ASSUME NEW p \in Procs, NEW ph, NEW j, NEW rivals, Start(p, ph, j, rivals),
             UNCHANGED expenseVars
      PROVE  Calmly
  BY <1>1 DEF Start, Calmly, expenseVars
<1>2. ASSUME NEW p \in Procs, NEW ph, NEW j, Goto(p, ph, j), ~revived
      PROVE  Calmly
  BY <1>2 DEF Goto, Calmly
<1>3. CASE UNCHANGED <<slotVars, expenseVars>>
  BY <1>3 DEF slotVars, expenseVars, Calmly
<1>4. ASSUME NEW p \in Procs, NEW e \in Expense, NEW period \in Periods, BeginExpense(p, e, period)
      PROVE  Calmly
  BY <1>1, <1>4 DEF BeginExpense
<1>5. ASSUME NEW p \in Procs, NEW e \in Expense, BeginDeleteExpense(p, e) PROVE Calmly
  BY <1>1, <1>5 DEF BeginDeleteExpense
<1>6. ASSUME NEW p \in Procs, BeginGeneration(p) PROVE Calmly
  BY <1>1, <1>6 DEF BeginGeneration
<1>7. ASSUME NEW p \in Procs, ExpenseHeader(p) PROVE Calmly
  <2>1. ~revived
    BY <1>7 DEF ExpenseHeader, Calmly
  <2> QED
    BY <1>2, <1>7, <2>1 DEF ExpenseHeader
<1>8. ASSUME NEW p \in Procs, ExpenseLine(p) PROVE Calmly
  <2>1. ~revived
    BY <1>8 DEF ExpenseLine, Calmly
  <2> QED
    BY <1>2, <1>8, <2>1 DEF ExpenseLine
<1>9. ASSUME NEW p \in Procs, ExpenseSaved(p) \/ GenerationSnapshot(p) PROVE Calmly
  <2>1. ~revived
    BY <1>9 DEF ExpenseSaved, GenerationSnapshot, expenseVars, Calmly
  <2> QED
    BY <1>2, <1>9, <2>1 DEF ExpenseSaved, GenerationSnapshot, Finish
<1>10. ASSUME NEW p \in Procs,
              DeleteExpenseHeader(p) \/ DeleteExpenseLines(p) \/ GenerationCommit(p)
       PROVE  Calmly
  <2>1. ~revived
    BY <1>10 DEF DeleteExpenseHeader, DeleteExpenseLines, GenerationCommit, Calmly
  <2> QED
    BY <1>2, <1>10, <2>1
       DEF DeleteExpenseHeader, DeleteExpenseLines, GenerationCommit, Finish
<1>11. ASSUME NEW p \in Procs, FailExpense(p) PROVE Calmly
  BY <1>11 DEF FailExpense, Fail, expenseVars, Calmly
<1> QED
  BY <1>3, <1>4, <1>5, <1>6, <1>7, <1>8, <1>9, <1>10, <1>11 DEF ExpensesNext

ExpensesInv == EInv /\ (Calmly => ExpensesExact)

LEMMA InitExpensesInv == SlotsInit /\ ExpensesInit => ExpensesInv
<1> SUFFICES ASSUME SlotsInit, ExpensesInit PROVE ExpensesInv
  OBVIOUS
<1>1. EInv
  BY InitExpenses
<1>2. \A p \in Procs : phase[p] = "idle"
  BY DEF SlotsInit
<1>3. OneSaver
  BY <1>2 DEF OneSaver, ExpenseSaves
<1>4. \A e : ~LiveExpense(e)
  BY DEF ExpensesInit, LiveExpense, Stored
<1>5. \A p \in Procs : Foresees(phase[p], job[p])
  BY <1>2 DEF Foresees
<1> QED
  BY <1>1, <1>3, <1>4, <1>5 DEF ExpensesInv, ExpensesExact

LEMMA StepExpensesInv ==
  ASSUME ExpensesInv, [ExpensesNext]_<<slotVars, expenseVars>>
  PROVE  ExpensesInv'
<1>1. EInv /\ EInv'
  BY StepExpenses DEF ExpensesInv
<1>2. ASSUME Calmly' PROVE ExpensesExact'
  <2>1. ExpensesExact /\ ~contended' /\ ~interrupted' /\ ~revived'
    BY <1>2, CalmBefore DEF ExpensesInv, Calmly
  <2>2. CASE ExpensesNext
    <3>1. PICK p \in Procs :
        \/ \E e \in Expense, period \in Periods : BeginExpense(p, e, period)
        \/ ExpenseHeader(p) \/ ExpenseLine(p) \/ ExpenseSaved(p)
        \/ \E e \in Expense : BeginDeleteExpense(p, e)
        \/ DeleteExpenseHeader(p) \/ DeleteExpenseLines(p)
        \/ BeginGeneration(p) \/ GenerationSnapshot(p) \/ GenerationCommit(p)
        \/ FailExpense(p)
      BY <2>2 DEF ExpensesNext
    <3>2. CASE \/ \E e \in Expense, period \in Periods : BeginExpense(p, e, period)
               \/ \E e \in Expense : BeginDeleteExpense(p, e)
               \/ BeginGeneration(p) \/ GenerationSnapshot(p) \/ FailExpense(p)
      BY <1>1, <2>1, <3>2, QuietStepsExact
    <3>3. CASE ExpenseHeader(p)
      BY <1>1, <2>1, <3>3, HeaderExact
    <3>4. CASE ExpenseLine(p)
      BY <1>1, <2>1, <3>4, LineExact
    <3>5. CASE ExpenseSaved(p)
      BY <1>1, <2>1, <3>5, SavedExact
    <3>6. CASE DeleteExpenseHeader(p)
      BY <1>1, <2>1, <3>6, DeleteExpenseHeaderExact
    <3>7. CASE DeleteExpenseLines(p)
      BY <1>1, <2>1, <3>7, DeleteExpenseLinesExact
    <3>8. CASE GenerationCommit(p)
      BY <1>1, <2>1, <3>8, GenerationExact
    <3> QED
      BY <3>1, <3>2, <3>3, <3>4, <3>5, <3>6, <3>7, <3>8
  <2>3. CASE UNCHANGED <<slotVars, expenseVars>>
    <3>1. phase' = phase /\ job' = job /\ expenses' = expenses /\ lines' = lines
      BY <2>3 DEF slotVars, expenseVars
    <3>2. OneSaver'
      BY <2>1, <3>1 DEF ExpensesExact, OneSaver
    <3>3. (\A e : LiveExpense(e) /\ Unsaved(e) => AddsUp(e))'
      BY <2>1, <3>1 DEF ExpensesExact, LiveExpense, Stored, Unsaved, AddsUp
    <3>4. (\A p \in Procs : Foresees(phase[p], job[p]))'
      BY <2>1, <3>1 DEF ExpensesExact, Foresees, LiveExpense, Stored, Settled
    <3> QED
      BY <3>2, <3>3, <3>4 DEF ExpensesExact
  <2> QED
    BY <2>2, <2>3
<1> QED
  BY <1>1, <1>2 DEF ExpensesInv

LEMMA ExpensesInvTells ==
  ASSUME ExpensesInv, Idle, Calmly, NEW e, LiveExpense(e)
  PROVE  /\ expenses[e].subtotal = Total(ActiveOf(lines, e))
         /\ ExpensesSummary(e) = expenses[e].subtotal
<1>1. Unsaved(e)
  BY DEF Idle, Unsaved
<1>2. AddsUp(e)
  BY <1>1 DEF ExpensesInv, ExpensesExact
<1> QED
  BY <1>2 DEF AddsUp, ExpensesSummary

----------------------------------------------------------------------------
(* The summaries *)

\* Where the other component has not begun.
NoExpenses == DOMAIN expenses = {}
NoSales ==
    /\ \A s \in Serials : ~Live(sales, s)
    /\ \A r \in ActiveOf(ordered, PEDIDO) : r.amount \in Nat

LEMMA SalesReported ==
  ASSUME SalesInv, NoExpenses
  PROVE  SummariesAddUp
<1>1. NetTotalsExact /\ SalesTell
  BY SalesInvTells
<1>2. \A e : ~LiveExpense(e)
  BY DEF NoExpenses, LiveExpense, Stored
<1>3. ExpenseAddsUp
  BY <1>2 DEF ExpenseAddsUp
<1>4. \A e \in DOMAIN expenses : LiveExpense(e) => ExpensesSummary(e) = expenses[e].subtotal
  BY <1>2
<1> QED
  BY <1>1, <1>3, <1>4 DEF SummariesAddUp, SalesTell

LEMMA ExpensesReported ==
  ASSUME ExpensesInv, NoSales
  PROVE  SummariesAddUp
<1>1. \A s \in Serials : ~Live(sales, s)
  BY DEF NoSales
<1>2. NetTotalsExact
  BY <1>1 DEF NetTotalsExact
<1>3. ExpenseAddsUp
  BY ExpensesInvTells DEF ExpenseAddsUp, Calmly
<1>4. Idle /\ ~contended /\ ~interrupted /\ ~revived =>
         \A e \in DOMAIN expenses : LiveExpense(e) => ExpensesSummary(e) = expenses[e].subtotal
  BY ExpensesInvTells DEF Calmly
<1>5. ASSUME NEW r \in ActiveOf(ordered, PEDIDO), NEW canceled
      PROVE  FulfilledBy(r.item, canceled) <= r.amount
  <2>1. PICK S : S = {q \in SoldLines : q.doc \notin canceled}
    OBVIOUS
  <2>2. S = {}
    BY <1>1, <2>1 DEF SoldLines, ActiveSales
  <2>3. {q \in S : q.item = r.item} = {}
    BY <2>2
  <2>4. TotalOf(S, r.item) = 0
    <3>1. PICK q : q = [amount |-> 0]
      OBVIOUS
    <3>2. q.amount \in Nat
      BY <3>1
    <3>3. Total({}) = 0
      BY <3>2, TotalOfOne
    <3> QED
      BY <2>3, <3>3 DEF TotalOf
  <2>5. r.amount \in Nat
    BY DEF NoSales
  <2> QED
    BY <2>1, <2>4, <2>5 DEF FulfilledBy
<1> QED
  BY <1>1, <1>2, <1>3, <1>4, <1>5 DEF SummariesAddUp

LEMMA NothingSold == SlotsInit /\ SalesInit => NoSales
<1> SUFFICES ASSUME SlotsInit, SalesInit PROVE NoSales
  OBVIOUS
<1>1. \A s \in Serials : ~Live(sales, s)
  BY DEF SalesInit, Live
<1>2. ASSUME NEW r \in ActiveOf(ordered, PEDIDO) PROVE r.amount \in Nat
  <2>1. r \in ordered
    BY DEF ActiveOf, Active, RowsOf
  <2>2. TableOK(ordered, started)
    BY InitTypes DEF TInv, DataOK
  <2>3. PICK S : S = ordered
    OBVIOUS
  <2>4. Rows(S)
    BY <2>2, <2>3, TableParts
  <2> QED
    BY <2>1, <2>3, <2>4 DEF Rows
<1> QED
  BY <1>1, <1>2 DEF NoSales

\* What the documents store and what the reports read from their lines come to the
\* same, for any products, resources, amounts and requests: while no rivals have
\* overlapped and no request has failed halfway, of sales less what came back where their
\* totals were computed (and up to what totals that were sent differ from the lines), of
\* order requests whichever of their sales are canceled, and of expenses no form of which has
\* named a removed line.
THEOREM SummariesTell == ReportsSpec => []SummariesAddUp
<1>1. SlotsInit /\ SalesInit /\ ExpensesInit => SalesInv /\ NoExpenses
  BY InitSales DEF ExpensesInit, NoExpenses
<1>2. SlotsInit /\ SalesInit /\ ExpensesInit => ExpensesInv /\ NoSales
  BY InitExpensesInv, NothingSold
<1>3. SalesInv /\ NoExpenses
      /\ [SalesNext /\ UNCHANGED expenseVars]_<<slotVars, saleVars, expenseVars>>
      => (SalesInv /\ NoExpenses)'
  BY StepSales DEF vars, expenseVars, NoExpenses
<1>4. ExpensesInv /\ NoSales
      /\ [ExpensesNext /\ UNCHANGED saleVars]_<<slotVars, saleVars, expenseVars>>
      => (ExpensesInv /\ NoSales)'
  BY StepExpensesInv DEF saleVars, NoSales, Live
<1>5. SalesInv /\ NoExpenses => SummariesAddUp
  BY SalesReported
<1>6. ExpensesInv /\ NoSales => SummariesAddUp
  BY ExpensesReported
<1> QED
  BY <1>1, <1>2, <1>3, <1>4, <1>5, <1>6, PTL DEF ReportsSpec

=============================================================================
