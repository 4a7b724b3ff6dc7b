------------------------ MODULE TransferTotalsProofs ------------------------
(***************************************************************************)
(* Proofs about TransferTotals, for any documents, amounts and requests:   *)
(* the totals stored on documents, under saves and deletes.                *)
(***************************************************************************)
EXTENDS TransferTotals, Sums

Deleting == {"delete_header", "delete_receipts", "recompute", "recompute_write"}

\* A save's own ids are new, what it has seen is still there, and the lines of its
\* form name active receipts of its transfer, each at most once.
SaveOK(j) ==
    /\ j \in Save
    /\ j.n <= started
    /\ \A d \in Docs : receipts[<<j.n, d>>] = NoRow
    /\ \A r \in Receipts : j.seen_receipts[r] # NoRow => receipts[r] # NoRow
    /\ \A d \in Docs : j.lines[d] # NoRow => j.lines[d].id \in Old(j) \cup {NoRow}
    /\ \A d, e \in Docs :
          /\ j.lines[d] # NoRow /\ j.lines[e] # NoRow
          /\ j.lines[d].id = j.lines[e].id /\ j.lines[d].id # NoRow
          => d = e

DeleteOK(j) == j \in Delete /\ transfers[j.target] # NoRow

RequestsOK ==
    /\ \A p \in Procs :
          /\ phase[p] = "save" => SaveOK(job[p])
          /\ phase[p] \in Deleting => DeleteOK(job[p])
          /\ phase[p] = "recompute_write" => job[p].doc \in Docs
    /\ \A p, q \in Procs :
          phase[p] = "save" /\ phase[q] = "save" /\ job[p].n = job[q].n => p = q
    /\ \A r \in Receipts : receipts[r] # NoRow => r[1] <= started

TInv == TypeOK /\ RequestsOK

----------------------------------------------------------------------------
(* Sums *)

LEMMA SetsAreFinite ==
  /\ IsFiniteSet(Serials) /\ IsFiniteSet(Receipts) /\ IsFiniteSet(Docs)
<1>1. IsFiniteSet(Serials)
  BY TransferBounds, FS_Interval DEF Serials
<1> QED
  BY <1>1, TransferSets, FS_Product DEF Receipts

LEMMA SumOfType ==
  ASSUME NEW rows \in ReceiptTable, NEW S, S \subseteq {r \in Receipts : rows[r] # NoRow}
  PROVE  SumOf(rows, S) \in Int
<1> DEFINE f == [r \in S |-> rows[r].amount]
<1>1. IsFiniteSet(S)
  BY SetsAreFinite, FS_Subset
<1>2. \A r \in S : f[r] \in Int
  BY TransferBounds DEF ReceiptTable, Receipt
<1>3. SumFunctionOnSet(f, S) \in Int
  <2> HIDE DEF f
  <2> QED
    BY <1>1, <1>2, SumIsAnInteger
<1> QED
  BY <1>3 DEF SumOf, SumFunction

LEMMA SumsType ==
  ASSUME NEW rows \in ReceiptTable, NEW ts, NEW d
  PROVE  SumsOf(ts, rows, d) \in Totals
<1> DEFINE S == ActiveOn(rows, d)
           T == {r \in S : ts[rows[r].transfer].type # "adjustment"}
<1>1. S \subseteq {r \in Receipts : rows[r] # NoRow} /\ T \subseteq S
  BY DEF ActiveOn, IsActive
<1>2. SumOf(rows, S) \in Int /\ SumOf(rows, T) \in Int
  <2> HIDE DEF S, T
  <2> QED
    BY <1>1, SumOfType
<1> QED
  BY <1>2 DEF SumsOf, Totals

\* The sums of a document are of its active receipts, their amounts and whether they
\* are adjustments, and of nothing else.
LEMMA SameReceiptsSameSums ==
  ASSUME NEW ts1, NEW rows1, NEW ts2, NEW rows2, NEW d,
         ActiveOn(rows1, d) = ActiveOn(rows2, d),
         \A r \in ActiveOn(rows1, d) :
            /\ rows1[r].amount = rows2[r].amount
            /\ ts1[rows1[r].transfer].type = ts2[rows2[r].transfer].type
  PROVE  /\ SumsOf(ts1, rows1, d) = SumsOf(ts2, rows2, d)
         /\ SumOf(rows1, ActiveOn(rows1, d)) = SumOf(rows2, ActiveOn(rows2, d))
<1> DEFINE S == ActiveOn(rows1, d)
           T1 == {r \in S : ts1[rows1[r].transfer].type # "adjustment"}
           T2 == {r \in S : ts2[rows2[r].transfer].type # "adjustment"}
<1>1. T1 = T2
  OBVIOUS
<1>2. /\ [r \in S |-> rows1[r].amount] = [r \in S |-> rows2[r].amount]
      /\ [r \in T1 |-> rows1[r].amount] = [r \in T2 |-> rows2[r].amount]
  BY <1>1
<1>3. SumOf(rows1, S) = SumOf(rows2, S) /\ SumOf(rows1, T1) = SumOf(rows2, T2)
  <2> HIDE DEF S, T1, T2
  <2> QED
    BY <1>2 DEF SumOf
<1> QED
  BY <1>3 DEF SumsOf

----------------------------------------------------------------------------
(* The commit of a save *)

\* The parts of a save that its rows are in.
LEMMA SaveParts ==
  ASSUME TInv, NEW p \in Procs, phase[p] = "save", NEW j, j = job[p]
  PROVE  /\ j \in Save
         /\ Old(j) \subseteq {r \in Receipts : receipts[r] # NoRow}
         /\ Created(j) \subseteq {r \in Receipts : receipts[r] = NoRow}
         /\ \A r \in Created(j) : r[1] = j.n /\ r[2] \in Docs /\ j.lines[r[2]] \in FormLine
         /\ \A r \in Kept(j) : /\ DocOfLine(j, r) \in Docs
                               /\ j.lines[DocOfLine(j, r)] \in FormLine
                               /\ j.lines[DocOfLine(j, r)].id = r
<1>1. SaveOK(j)
  BY DEF TInv, RequestsOK
<1>2. j \in Save
  BY <1>1 DEF SaveOK
<1>3. Old(j) \subseteq {r \in Receipts : receipts[r] # NoRow}
  BY <1>1 DEF Old, ActiveOf, IsActive, SaveOK
<1>4. \A d \in Docs : j.lines[d] # NoRow => j.lines[d] \in FormLine
  BY <1>2 DEF Save, Lines
<1>5. \A r \in Created(j) : /\ r \in Receipts /\ receipts[r] = NoRow /\ r[1] = j.n
                            /\ r[2] \in Docs /\ j.lines[r[2]] \in FormLine
  BY <1>1, <1>2, <1>4 DEF Created, Receipts, SaveOK, Save
<1>6. ASSUME NEW r \in Kept(j)
      PROVE  /\ DocOfLine(j, r) \in Docs
             /\ j.lines[DocOfLine(j, r)] # NoRow
             /\ j.lines[DocOfLine(j, r)].id = r
  <2>1. \E d \in Docs : j.lines[d] # NoRow /\ j.lines[d].id = r
    BY <1>6 DEF Kept, LineIds
  <2> QED
    BY <2>1 DEF DocOfLine
<1> QED
  BY <1>2, <1>3, <1>4, <1>5, <1>6

LEMMA WrittenType ==
  ASSUME TInv, NEW p \in Procs, phase[p] = "save", NEW j, j = job[p]
  PROVE  /\ WrittenReceipts(j) \in ReceiptTable
         /\ View(j) \in ReceiptTable
         /\ \A r \in Receipts : /\ receipts[r] # NoRow => WrittenReceipts(j)[r] # NoRow
                                /\ r \notin Created(j) =>
                                      (WrittenReceipts(j)[r] # NoRow => receipts[r] # NoRow)
<1> DEFINE W == WrittenReceipts(j)
<1>1. /\ j \in Save
      /\ Old(j) \subseteq {r \in Receipts : receipts[r] # NoRow}
      /\ Created(j) \subseteq {r \in Receipts : receipts[r] = NoRow}
      /\ \A r \in Created(j) : r[1] = j.n /\ r[2] \in Docs /\ j.lines[r[2]] \in FormLine
      /\ \A r \in Kept(j) : /\ DocOfLine(j, r) \in Docs
                            /\ j.lines[DocOfLine(j, r)] \in FormLine
  BY SaveParts
<1>2. Removed(j) \subseteq Old(j) /\ Kept(j) \subseteq Old(j)
  BY DEF Removed, Kept
<1>3. \A r \in Receipts :
         /\ r \in Removed(j) => W[r] = [receipts[r] EXCEPT !.active = FALSE]
         /\ r \in Kept(j) => W[r] = [receipts[r] EXCEPT
                                       !.transfer = j.target, !.doc = DocOfLine(j, r),
                                       !.amount = j.lines[DocOfLine(j, r)].amount]
         /\ r \in Created(j) => W[r] = [transfer |-> j.target, doc |-> r[2],
                                        amount |-> j.lines[r[2]].amount, active |-> TRUE]
         /\ r \notin Removed(j) \cup Kept(j) \cup Created(j) => W[r] = receipts[r]
  BY <1>1, <1>2 DEF WrittenReceipts, Removed
<1>4. \A r \in Old(j) : receipts[r] \in Receipt
  BY <1>1 DEF TInv, TypeOK, ReceiptTable
<1>5. j.target \in Serials /\ j.seen_receipts \in ReceiptTable
  BY <1>1 DEF Save
<1>6. \A r \in Removed(j) \cup Kept(j) \cup Created(j) : r \in Receipts /\ W[r] \in Receipt
  <2>1. ASSUME NEW r \in Removed(j) PROVE r \in Receipts /\ W[r] \in Receipt
    <3>1. r \in Receipts /\ receipts[r] \in Receipt /\ W[r] = [receipts[r] EXCEPT !.active = FALSE]
      BY <1>1, <1>2, <1>3, <1>4, <2>1
    <3> HIDE DEF W
    <3> QED
      BY <3>1 DEF Receipt
  <2>2. ASSUME NEW r \in Kept(j) PROVE r \in Receipts /\ W[r] \in Receipt
    <3> DEFINE d == DocOfLine(j, r)
    <3>1. /\ r \in Receipts /\ receipts[r] \in Receipt
          /\ W[r] = [receipts[r] EXCEPT !.transfer = j.target, !.doc = d, !.amount = j.lines[d].amount]
          /\ d \in Docs /\ j.lines[d] \in FormLine
      BY <1>1, <1>2, <1>3, <1>4, <2>2
    <3> HIDE DEF W, d
    <3>2. j.lines[d].amount \in Amounts
      BY <3>1 DEF FormLine
    <3> QED
      BY <1>5, <3>1, <3>2 DEF Receipt
  <2>3. ASSUME NEW r \in Created(j) PROVE r \in Receipts /\ W[r] \in Receipt
    <3>1. /\ r \in Receipts /\ r[2] \in Docs /\ j.lines[r[2]] \in FormLine
          /\ W[r] = [transfer |-> j.target, doc |-> r[2],
                     amount |-> j.lines[r[2]].amount, active |-> TRUE]
      BY <1>1, <1>3, <2>3
    <3> HIDE DEF W
    <3>2. j.lines[r[2]].amount \in Amounts
      BY <3>1 DEF FormLine
    <3> QED
      BY <1>5, <3>1, <3>2 DEF Receipt
  <2> QED
    BY <2>1, <2>2, <2>3
<1>7. \A r \in Receipts : W[r] \in Receipt \cup {NoRow}
  BY <1>3, <1>6 DEF TInv, TypeOK, ReceiptTable
<1>8. W \in ReceiptTable
  BY <1>7 DEF WrittenReceipts, ReceiptTable
<1> HIDE DEF W
<1>9. View(j) \in ReceiptTable
  BY <1>5, <1>8 DEF View, W, ReceiptTable
<1>10. \A r \in Receipts : receipts[r] # NoRow => W[r] # NoRow
  <2> SUFFICES ASSUME NEW r \in Receipts, receipts[r] # NoRow PROVE W[r] # NoRow
    OBVIOUS
  <2>1. CASE r \in Removed(j) \cup Kept(j) \cup Created(j)
    BY <1>6, <2>1, TransferRows
  <2>2. CASE r \notin Removed(j) \cup Kept(j) \cup Created(j)
    BY <1>3, <2>2
  <2> QED
    BY <2>1, <2>2
<1>11. \A r \in Receipts : r \notin Created(j) => (W[r] # NoRow => receipts[r] # NoRow)
  BY <1>1, <1>2, <1>3
<1> QED
  BY <1>8, <1>9, <1>10, <1>11 DEF W

LEMMA HeaderType ==
  ASSUME TypeOK, NEW j \in Save
  PROVE  /\ Header(j) \in Transfer
         /\ Header(j).type = j.type
         /\ Header(j).active = IF transfers[j.target] = NoRow THEN TRUE
                               ELSE transfers[j.target].active
<1> DEFINE f == [d \in Docs |-> IF j.lines[d] = NoRow THEN 0 ELSE j.lines[d].amount]
<1>1. \A d \in Docs : f[d] \in Int
  <2>1. \A d \in Docs : j.lines[d] # NoRow => j.lines[d] \in FormLine
    BY DEF Save, Lines
  <2>2. \A line \in FormLine : line.amount \in Int
    BY TransferBounds DEF FormLine
  <2> QED
    BY <2>1, <2>2
<1>2. SumFunctionOnSet(f, Docs) \in Int
  <2> HIDE DEF f
  <2> QED
    BY <1>1, SetsAreFinite, SumIsAnInteger
<1>3. j.target \in Serials /\ j.type \in Types
  BY DEF Save
<1>4. transfers[j.target] # NoRow => transfers[j.target].active \in BOOLEAN
  BY <1>3 DEF TypeOK, Transfers, Transfer
<1> DEFINE active == IF transfers[j.target] = NoRow THEN TRUE ELSE transfers[j.target].active
           amount == IF j.type = "payment" THEN SumFunctionOnSet(f, Docs) ELSE 0
<1>5. Header(j) = [active |-> active, type |-> j.type, amount |-> amount]
  BY DEF Header
<1> HIDE DEF f
<1>6. active \in BOOLEAN /\ amount \in Int
  <2>1. CASE transfers[j.target] = NoRow
    BY <1>2, <2>1
  <2>2. CASE transfers[j.target] # NoRow
    BY <1>2, <1>4, <2>2
  <2> QED
    BY <2>1, <2>2
<1> HIDE DEF amount, active
<1>7. /\ Header(j) \in Transfer
      /\ Header(j).type = j.type
      /\ Header(j).active = active
  BY <1>3, <1>5, <1>6 DEF Transfer
<1> QED
  BY <1>7 DEF active

----------------------------------------------------------------------------
(* Types *)

\* What a step must do to keep the types: rows stay, the rows it adds are a save's
\* own, and what the request holds next is in order.
LEMMA TypeStep ==
  ASSUME TInv, NEW p \in Procs, NEW ph \in Phases, NEW j \in Save \cup Delete \cup {NoJob},
         phase' = [phase EXCEPT ![p] = ph], job' = [job EXCEPT ![p] = j],
         transfers' \in Transfers, receipts' \in ReceiptTable, total' \in [Docs -> Totals],
         started' \in 0..MaxRequests, started <= started',
         {contended', interrupted', revived'} \subseteq BOOLEAN,
         \A t \in Serials : transfers[t] # NoRow => transfers'[t] # NoRow,
         \A r \in Receipts :
            /\ receipts[r] # NoRow => receipts'[r] # NoRow
            /\ receipts'[r] # NoRow => \/ receipts[r] # NoRow
                                       \/ phase[p] = "save" /\ ph # "save" /\ r[1] = job[p].n,
         ph = "save" => /\ SaveOK(j)'
                        /\ \A q \in Procs \ {p} : phase[q] = "save" => job[q].n # j.n,
         ph \in Deleting => DeleteOK(j)',
         ph = "recompute_write" => j.doc \in Docs
  PROVE  TInv'
<1> USE DEF TInv
<1>1. /\ phase'[p] = ph /\ job'[p] = j
      /\ \A q \in Procs \ {p} : phase'[q] = phase[q] /\ job'[q] = job[q]
  BY DEF TypeOK
<1>2. TypeOK'
  BY DEF TypeOK
<1>3. ASSUME NEW q \in Procs \ {p}, phase[q] = "save" PROVE SaveOK(job[q])'
  <2> DEFINE i == job[q]
  <2>1. SaveOK(i) /\ job' [q] = i
    BY <1>1, <1>3 DEF RequestsOK
  <2>2. i.n <= started' /\ i \in Save
    BY <2>1 DEF SaveOK, TypeOK, Save, Serials
  <2>3. ASSUME NEW d \in Docs PROVE receipts'[<<i.n, d>>] = NoRow
    <3>1. receipts[<<i.n, d>>] = NoRow /\ <<i.n, d>> \in Receipts
      BY <2>1, <2>2 DEF SaveOK, Receipts, Save
    <3>2. phase[p] = "save" => job[p].n # i.n
      BY <1>3 DEF RequestsOK
    <3> QED
      BY <3>1, <3>2
  <2> QED
    BY <2>1, <2>2, <2>3 DEF SaveOK, Old
<1>4. ASSUME NEW q \in Procs \ {p}, phase[q] \in Deleting PROVE DeleteOK(job[q])'
  <2>1. DeleteOK(job[q]) /\ job'[q] = job[q]
    BY <1>1, <1>4 DEF RequestsOK
  <2> QED
    BY <2>1 DEF DeleteOK, Delete
<1>5. \A q \in Procs : /\ phase'[q] = "save" => SaveOK(job[q])'
                       /\ phase'[q] \in Deleting => DeleteOK(job[q])'
                       /\ phase'[q] = "recompute_write" => job'[q].doc \in Docs
  <2>1. \A q \in Procs \ {p} : phase[q] = "recompute_write" => job[q].doc \in Docs
    BY DEF RequestsOK
  <2>2. /\ ph = "save" => SaveOK(job[p])'
        /\ ph \in Deleting => DeleteOK(job[p])'
    BY <1>1 DEF SaveOK, DeleteOK, Old
  <2> QED
    BY <1>1, <1>3, <1>4, <2>1, <2>2
<1>6. \A q, o \in Procs :
         phase'[q] = "save" /\ phase'[o] = "save" /\ job'[q].n = job'[o].n => q = o
  BY <1>1 DEF RequestsOK
<1>7. \A r \in Receipts : receipts'[r] # NoRow => r[1] <= started'
  <2> SUFFICES ASSUME NEW r \in Receipts, receipts'[r] # NoRow PROVE r[1] <= started'
    OBVIOUS
  <2>1. r[1] \in Int /\ started \in Int /\ started' \in Int
    BY TransferBounds DEF Receipts, Serials, TypeOK
  <2>2. CASE receipts[r] # NoRow
    BY <2>1, <2>2 DEF RequestsOK
  <2>3. CASE phase[p] = "save" /\ r[1] = job[p].n
    BY <2>1, <2>3 DEF RequestsOK, SaveOK
  <2> QED
    BY <2>2, <2>3
<1> QED
  BY <1>2, <1>5, <1>6, <1>7 DEF RequestsOK

LEMMA InitTypes == Init => TInv
<1> SUFFICES ASSUME Init PROVE TInv
  OBVIOUS
<1> USE DEF Init
<1>1. ZeroTotals \in Totals /\ "idle" \in Phases
  BY DEF ZeroTotals, Totals, Phases
<1>2. TypeOK
  <2>1. transfers \in Transfers /\ receipts \in ReceiptTable
    BY DEF Transfers, ReceiptTable
  <2>2. total \in [Docs -> Totals]
    BY <1>1
  <2>3. phase \in [Procs -> Phases] /\ job \in [Procs -> Save \cup Delete \cup {NoJob}]
    BY <1>1
  <2>4. started \in 0..MaxRequests
    BY TransferBounds
  <2>5. {contended, interrupted, revived} \subseteq BOOLEAN
    BY Zenon
  <2> QED
    BY <2>1, <2>2, <2>3, <2>4, <2>5 DEF TypeOK
<1>3. RequestsOK
  BY DEF RequestsOK, Deleting
<1> QED
  BY <1>2, <1>3 DEF TInv

\* The form of a save, as it begins.
LEMMA BeginSaveHolds ==
  ASSUME TInv, NEW p \in Procs, NEW t \in Serials, NEW type \in Types, BeginSave(p, t, type)
  PROVE  \E j \in Save :
            /\ Start(p, "save", j)
            /\ SaveOK(j)'
            /\ j.n = started + 1
            /\ j.seen_transfers = transfers /\ j.seen_receipts = receipts
<1> USE DEF TInv
<1>1. PICK lines \in FormLines(t) :
         Start(p, "save", [n |-> started + 1, target |-> t, type |-> type, lines |-> lines,
                           seen_transfers |-> transfers, seen_receipts |-> receipts])
  BY DEF BeginSave
<1>2. PICK j : j = [n |-> started + 1, target |-> t, type |-> type, lines |-> lines,
                    seen_transfers |-> transfers, seen_receipts |-> receipts]
  OBVIOUS
<1>3. /\ j.n = started + 1 /\ j.lines = lines
      /\ j.seen_transfers = transfers /\ j.seen_receipts = receipts
      /\ j.target = t /\ j.type = type
  BY <1>2
<1>4. started \in Int /\ started' = started + 1 /\ started + 1 \in Serials
  BY <1>1, TransferBounds DEF Start, TypeOK, Serials
<1>5. lines \in [Docs -> [id : ActiveOf(receipts, t) \cup {NoRow}, amount : Amounts] \cup {NoRow}]
  BY <1>1 DEF FormLines
<1>6. ASSUME NEW d \in Docs
      PROVE  /\ lines[d] \in FormLine \cup {NoRow}
             /\ lines[d] # NoRow => lines[d].id \in ActiveOf(receipts, t) \cup {NoRow}
  <2>1. lines[d] \in [id : ActiveOf(receipts, t) \cup {NoRow}, amount : Amounts] \cup {NoRow}
    BY <1>5
  <2>2. ActiveOf(receipts, t) \subseteq Receipts
    BY DEF ActiveOf
  <2> QED
    BY <2>1, <2>2 DEF FormLine
<1>7. j \in Save
  <2>1. lines \in Lines
    BY <1>5, <1>6 DEF Lines
  <2> QED
    BY <1>2, <1>4, <2>1 DEF Save, TypeOK
<1>8. \A d \in Docs : receipts[<<j.n, d>>] = NoRow
  BY <1>3, <1>4 DEF RequestsOK, Receipts
<1>9. \A d, e \in Docs :
         /\ lines[d] # NoRow /\ lines[e] # NoRow
         /\ lines[d].id = lines[e].id /\ lines[d].id # NoRow
         => d = e
  BY <1>1 DEF FormLines
<1>10. Old(j) = ActiveOf(receipts, t)
  BY <1>3 DEF Old
<1>11. receipts' = receipts
  BY DEF BeginSave
<1>12. SaveOK(j)'
  BY <1>3, <1>4, <1>6, <1>7, <1>8, <1>9, <1>10, <1>11 DEF SaveOK, Old
<1> QED
  BY <1>1, <1>2, <1>3, <1>7, <1>12

LEMMA BeginSaveTypes ==
  ASSUME TInv, NEW p \in Procs, NEW t \in Serials, NEW type \in Types, BeginSave(p, t, type)
  PROVE  TInv'
<1>1. PICK j \in Save : Start(p, "save", j) /\ SaveOK(j)' /\ j.n = started + 1
  BY BeginSaveHolds
<1>2. \A q \in Procs \ {p} : phase[q] = "save" => job[q].n # j.n
  BY <1>1, TransferBounds DEF TInv, TypeOK, RequestsOK, SaveOK, Save, Serials
<1>3. "save" \in Phases /\ "save" \notin Deleting
  BY DEF Phases, Deleting
<1>4. /\ started' \in 0..MaxRequests /\ started <= started'
      /\ {contended', interrupted', revived'} \subseteq BOOLEAN
      /\ UNCHANGED <<transfers, receipts, total>>
  BY <1>1, TransferBounds DEF Start, BeginSave, TInv, TypeOK
<1> QED
  BY <1>1, <1>2, <1>3, <1>4, TypeStep DEF Start, TInv, TypeOK

LEMMA CommitSaveTypes ==
  ASSUME TInv, NEW p \in Procs, CommitSave(p)
  PROVE  TInv'
<1> USE DEF TInv
<1>1. PICK j : j = job[p]
  OBVIOUS
<1>2. phase[p] = "save"
  BY DEF CommitSave
<1>3. /\ j \in Save
      /\ \A r \in Created(j) : r[1] = j.n
  BY <1>1, <1>2, SaveParts
<1>4. /\ WrittenReceipts(j) \in ReceiptTable
      /\ View(j) \in ReceiptTable
      /\ \A r \in Receipts : /\ receipts[r] # NoRow => WrittenReceipts(j)[r] # NoRow
                             /\ r \notin Created(j) =>
                                   (WrittenReceipts(j)[r] # NoRow => receipts[r] # NoRow)
  BY <1>1, <1>2, WrittenType
<1>5. PICK header : header = Header(j)
  OBVIOUS
<1>6. header \in Transfer /\ header.active \in BOOLEAN
  BY <1>3, <1>5, HeaderType DEF Transfer
<1>7. PICK ts : ts = [j.seen_transfers EXCEPT ![j.target] = header]
  OBVIOUS
<1>8. /\ transfers' = [transfers EXCEPT ![j.target] = header]
      /\ receipts' = WrittenReceipts(j)
      /\ total' = [d \in Docs |-> IF d \in Recomputed(j) THEN SumsOf(ts, View(j), d)
                                  ELSE total[d]]
      /\ revived' = (revived \/ ~header.active)
      /\ Finish(p)
      /\ UNCHANGED interrupted
  BY <1>1, <1>5, <1>7 DEF CommitSave
<1>9. \A d \in Docs : SumsOf(ts, View(j), d) \in Totals
  BY <1>4, SumsType
<1>10. total' \in [Docs -> Totals]
  BY <1>8, <1>9 DEF TypeOK
<1>11. /\ transfers' \in Transfers
       /\ \A t \in Serials : transfers[t] # NoRow => transfers'[t] # NoRow
  BY <1>6, <1>8, TransferRows DEF TypeOK, Transfers
<1>12. "idle" \in Phases /\ "idle" \notin Deleting
  BY DEF Phases, Deleting
<1>13. {contended', interrupted', revived'} \subseteq BOOLEAN
  BY <1>8 DEF Finish, Goto, TypeOK
<1>14. /\ phase' = [phase EXCEPT ![p] = "idle"] /\ job' = [job EXCEPT ![p] = NoJob]
       /\ started' = started /\ started \in 0..MaxRequests /\ started <= started
  BY <1>8, TransferBounds DEF Finish, Goto, TypeOK
<1>15. \A r \in Receipts :
          /\ receipts[r] # NoRow => receipts'[r] # NoRow
          /\ receipts'[r] # NoRow => receipts[r] # NoRow \/ r[1] = job[p].n
  BY <1>1, <1>3, <1>4, <1>8
<1> QED
  BY <1>2, <1>4, <1>8, <1>10, <1>11, <1>12, <1>13, <1>14, <1>15, TypeStep

LEMMA DeletedType ==
  ASSUME TypeOK, NEW t
  PROVE  /\ ReceiptsDeleted(t) \in ReceiptTable
         /\ \A r \in Receipts :
               /\ receipts[r] # NoRow <=> ReceiptsDeleted(t)[r] # NoRow
               /\ receipts[r] # NoRow /\ receipts[r].transfer = t =>
                     ReceiptsDeleted(t)[r] = [receipts[r] EXCEPT !.active = FALSE]
               /\ ~(receipts[r] # NoRow /\ receipts[r].transfer = t) =>
                     ReceiptsDeleted(t)[r] = receipts[r]
<1>1. \A r \in Receipts :
         /\ receipts[r] # NoRow /\ receipts[r].transfer = t =>
               ReceiptsDeleted(t)[r] = [receipts[r] EXCEPT !.active = FALSE]
         /\ ~(receipts[r] # NoRow /\ receipts[r].transfer = t) =>
               ReceiptsDeleted(t)[r] = receipts[r]
  BY DEF ReceiptsDeleted
<1>2. \A r \in Receipts : receipts[r] # NoRow => receipts[r] \in Receipt
  BY DEF TypeOK, ReceiptTable
<1>3. \A r \in Receipts : receipts[r] # NoRow => ReceiptsDeleted(t)[r] \in Receipt
  BY <1>1, <1>2 DEF Receipt
<1>4. ReceiptsDeleted(t) \in ReceiptTable
  BY <1>1, <1>3 DEF ReceiptsDeleted, ReceiptTable
<1>5. \A r \in Receipts : receipts[r] # NoRow <=> ReceiptsDeleted(t)[r] # NoRow
  BY <1>1, <1>3, TransferRows
<1> QED
  BY <1>1, <1>4, <1>5

\* A step of a delete goes on with the same transfer.
LEMMA DeleteTypes ==
  ASSUME TInv, NEW p \in Procs, NEW ph \in Deleting, NEW j \in Delete,
         phase' = [phase EXCEPT ![p] = ph], job' = [job EXCEPT ![p] = j],
         transfers' \in Transfers, receipts' \in ReceiptTable, total' \in [Docs -> Totals],
         started' \in 0..MaxRequests, started <= started',
         {contended', interrupted', revived'} \subseteq BOOLEAN,
         \A t \in Serials : transfers[t] # NoRow => transfers'[t] # NoRow,
         \A r \in Receipts : receipts[r] # NoRow <=> receipts'[r] # NoRow,
         transfers[j.target] # NoRow,
         ph = "recompute_write" => j.doc \in Docs
  PROVE  TInv'
<1>1. DeleteOK(j)'
  BY DEF DeleteOK, Delete
<1>2. ph \in Phases /\ ph # "save"
  BY DEF Phases, Deleting
<1> QED
  BY <1>1, <1>2, TypeStep

LEMMA EndTypes ==
  ASSUME TInv, NEW p \in Procs, Finish(p),
         transfers' = transfers, receipts' \in ReceiptTable, total' \in [Docs -> Totals],
         {interrupted', revived'} \subseteq BOOLEAN,
         \A r \in Receipts : receipts[r] # NoRow <=> receipts'[r] # NoRow
  PROVE  TInv'
<1>1. "idle" \in Phases /\ "idle" \notin Deleting
  BY DEF Phases, Deleting
<1>2. /\ phase' = [phase EXCEPT ![p] = "idle"] /\ job' = [job EXCEPT ![p] = NoJob]
      /\ started' \in 0..MaxRequests /\ started <= started'
      /\ {contended', interrupted', revived'} \subseteq BOOLEAN
      /\ transfers' \in Transfers
  BY TransferBounds DEF Finish, Goto, TInv, TypeOK
<1> QED
  BY <1>1, <1>2, TypeStep

\* What a delete holds, in any of its phases.
LEMMA DeleteJob ==
  ASSUME TInv, NEW p \in Procs, phase[p] \in Deleting
  PROVE  /\ job[p] \in Delete
         /\ job[p].target \in Serials /\ job[p].docs \subseteq Docs /\ job[p].sums \in Totals
         /\ transfers[job[p].target] \in Transfer
         /\ transfers[job[p].target] # NoRow
<1>1. job[p] \in Delete /\ transfers[job[p].target] # NoRow
  BY DEF TInv, RequestsOK, DeleteOK
<1> QED
  BY <1>1 DEF Delete, TInv, TypeOK, Transfers

LEMMA DeleteStepsType ==
  ASSUME TInv, NEW p \in Procs,
         \/ \E t \in Serials : BeginDelete(p, t)
         \/ DeleteHeader(p) \/ DeleteReceipts(p)
         \/ \E d \in Docs : RecomputeRead(p, d)
         \/ RecomputeWrite(p)
  PROVE  TInv'
<1> USE DEF TInv
<1>0. /\ "delete_header" \in Deleting /\ "delete_receipts" \in Deleting
      /\ "recompute" \in Deleting /\ "recompute_write" \in Deleting
  BY DEF Deleting
<1>1. ASSUME NEW t \in Serials, BeginDelete(p, t) PROVE TInv'
  <2>1. PICK j : /\ j = [target |-> t, docs |-> {receipts[r].doc : r \in ActiveOf(receipts, t)},
                        doc |-> NoRow, sums |-> ZeroTotals]
                 /\ Start(p, "delete_header", j)
    BY <1>1 DEF BeginDelete
  <2>2. {receipts[r].doc : r \in ActiveOf(receipts, t)} \subseteq Docs
    BY DEF ActiveOf, IsActive, TypeOK, ReceiptTable, Receipt
  <2>3. j \in Delete /\ j.target = t
    BY <2>1, <2>2 DEF Delete, ZeroTotals, Totals
  <2>4. /\ started' \in 0..MaxRequests /\ started <= started'
        /\ {contended', interrupted', revived'} \subseteq BOOLEAN
        /\ UNCHANGED <<transfers, receipts, total>> /\ transfers[t] # NoRow
    BY <1>1, <2>1, TransferBounds DEF Start, BeginDelete, TypeOK
  <2> QED
    BY <1>0, <2>1, <2>3, <2>4, DeleteTypes DEF Start, TypeOK
<1>2. CASE DeleteHeader(p)
  <2>1. PICK j : j = job[p]
    OBVIOUS
  <2>2. phase[p] \in Deleting
    BY <1>0, <1>2 DEF DeleteHeader
  <2>3. j \in Delete /\ j.target \in Serials /\ transfers[j.target] \in Transfer /\ transfers[j.target] # NoRow
    BY <2>1, <2>2, DeleteJob
  <2>4. [transfers[j.target] EXCEPT !.active = FALSE] \in Transfer
    BY <2>3 DEF Transfer
  <2>5. /\ transfers' = [transfers EXCEPT ![j.target].active = FALSE]
        /\ Goto(p, "delete_receipts", j)
        /\ UNCHANGED <<receipts, total, interrupted, revived>>
    BY <1>2, <2>1 DEF DeleteHeader
  <2>6. /\ transfers' \in Transfers
        /\ \A t \in Serials : transfers[t] # NoRow => transfers'[t] # NoRow
    BY <2>3, <2>4, <2>5, TransferRows DEF TypeOK, Transfers
  <2>7. /\ started' \in 0..MaxRequests /\ started <= started'
        /\ {contended', interrupted', revived'} \subseteq BOOLEAN
    BY <2>5, TransferBounds DEF Goto, TypeOK
  <2> QED
    BY <1>0, <2>3, <2>5, <2>6, <2>7, DeleteTypes DEF Goto, TypeOK
<1>3. CASE DeleteReceipts(p)
  <2>1. PICK j : j = job[p]
    OBVIOUS
  <2>2. phase[p] \in Deleting
    BY <1>0, <1>3 DEF DeleteReceipts
  <2>3. j \in Delete /\ transfers[j.target] # NoRow
    BY <2>1, <2>2, DeleteJob
  <2>4. /\ receipts' = ReceiptsDeleted(j.target)
        /\ UNCHANGED <<transfers, total, interrupted, revived>>
        /\ Finish(p) \/ Goto(p, "recompute", j)
    BY <1>3, <2>1 DEF DeleteReceipts
  <2>5. /\ receipts' \in ReceiptTable
        /\ \A r \in Receipts : receipts[r] # NoRow <=> receipts'[r] # NoRow
    BY <2>4, DeletedType
  <2>6. CASE Finish(p)
    BY <2>4, <2>5, <2>6, EndTypes DEF TypeOK
  <2>7. CASE Goto(p, "recompute", j)
    <3>1. /\ started' \in 0..MaxRequests /\ started <= started'
          /\ {contended', interrupted', revived'} \subseteq BOOLEAN
      BY <2>4, <2>7, TransferBounds DEF Goto, TypeOK
    <3> QED
      BY <1>0, <2>3, <2>4, <2>5, <2>7, <3>1, DeleteTypes DEF Goto, TypeOK
  <2> QED
    BY <2>4, <2>6, <2>7
<1>4. ASSUME NEW d \in Docs, RecomputeRead(p, d) PROVE TInv'
  <2>1. PICK j : j = [job[p] EXCEPT !.doc = d, !.sums = SumsOf(transfers, receipts, d)]
    OBVIOUS
  <2>2. phase[p] \in Deleting
    BY <1>0, <1>4 DEF RecomputeRead
  <2>3. job[p] \in Delete /\ transfers[job[p].target] # NoRow
    BY <2>2, DeleteJob
  <2>4. SumsOf(transfers, receipts, d) \in Totals
    BY SumsType DEF TypeOK
  <2>5. j \in Delete /\ j.target = job[p].target /\ j.doc = d
    BY <2>1, <2>3, <2>4 DEF Delete
  <2>6. Goto(p, "recompute_write", j) /\ UNCHANGED <<transfers, receipts, total, interrupted, revived>>
    BY <1>4, <2>1 DEF RecomputeRead
  <2>7. /\ started' \in 0..MaxRequests /\ started <= started'
        /\ {contended', interrupted', revived'} \subseteq BOOLEAN
    BY <2>6, TransferBounds DEF Goto, TypeOK
  <2> QED
    BY <1>0, <2>3, <2>5, <2>6, <2>7, DeleteTypes DEF Goto, TypeOK
<1>5. CASE RecomputeWrite(p)
  <2>1. PICK j : j = [job[p] EXCEPT !.docs = DocsLeft(job[p]), !.doc = NoRow]
    OBVIOUS
  <2>2. phase[p] \in Deleting
    BY <1>0, <1>5 DEF RecomputeWrite
  <2>3. /\ job[p] \in Delete /\ transfers[job[p].target] # NoRow
        /\ job[p].sums \in Totals /\ job[p].docs \subseteq Docs
    BY <2>2, DeleteJob
  <2>4. /\ total' = [total EXCEPT ![job[p].doc] = job[p].sums]
        /\ UNCHANGED <<transfers, receipts, interrupted, revived>>
        /\ Finish(p) \/ Goto(p, "recompute", j)
    BY <1>5, <2>1 DEF RecomputeWrite
  <2>5. total' \in [Docs -> Totals]
    BY <2>3, <2>4 DEF TypeOK
  <2>6. CASE Finish(p)
    BY <2>4, <2>5, <2>6, EndTypes DEF TypeOK
  <2>7. CASE Goto(p, "recompute", j)
    <3>1. j \in Delete /\ j.target = job[p].target
      BY <2>1, <2>3 DEF Delete, DocsLeft
    <3>2. /\ started' \in 0..MaxRequests /\ started <= started'
          /\ {contended', interrupted', revived'} \subseteq BOOLEAN
      BY <2>4, <2>7, TransferBounds DEF Goto, TypeOK
    <3> QED
      BY <1>0, <2>3, <2>4, <2>5, <2>7, <3>1, <3>2, DeleteTypes DEF Goto, TypeOK
  <2> QED
    BY <2>4, <2>6, <2>7
<1> QED
  BY <1>1, <1>2, <1>3, <1>4, <1>5

LEMMA NextTypes == TInv /\ [Next]_vars => TInv'
<1> SUFFICES ASSUME TInv, [Next]_vars PROVE TInv'
  OBVIOUS
<1>1. CASE UNCHANGED vars
  BY <1>1 DEF vars, requestVars, TInv, TypeOK, RequestsOK, SaveOK, DeleteOK, Old
<1>2. ASSUME NEW p \in Procs, Abort(p) PROVE TInv'
  BY <1>2, EndTypes DEF Abort, TInv, TypeOK
<1> QED
  BY <1>1, <1>2, BeginSaveTypes, CommitSaveTypes, DeleteStepsType DEF Next

\* The types hold in every reachable state: the totals a save or a delete writes are
\* integers, whatever rows they are the sums of, and every request finds its rows.
THEOREM TypeCorrect == Spec => []TypeOK
<1>1. TInv => TypeOK
  BY DEF TInv
<1> QED
  BY <1>1, InitTypes, NextTypes, PTL DEF Spec

----------------------------------------------------------------------------
(* A save that nothing disturbs *)

\* What its view is: the rows as it leaves them.
LEMMA ViewIsWritten ==
  ASSUME NEW j, j.seen_receipts = receipts
  PROVE  View(j) = WrittenReceipts(j)
<1>1. \A r \in Receipts : r \notin Old(j) \cup Created(j) => WrittenReceipts(j)[r] = receipts[r]
  BY DEF WrittenReceipts, Removed, Kept
<1>2. WrittenReceipts(j) = [r \in Receipts |-> WrittenReceipts(j)[r]]
  BY DEF WrittenReceipts
<1>3. View(j) = [r \in Receipts |-> IF r \in Old(j) \cup Created(j) THEN WrittenReceipts(j)[r]
                                    ELSE receipts[r]]
  BY DEF View
<1> QED
  BY <1>1, <1>2, <1>3

\* What it leaves of the active receipts: those its transfer had, without the ones
\* removed; the ones created; and those of other transfers, as they were.
LEMMA RowsAfterSave ==
  ASSUME TInv, NEW p \in Procs, phase[p] = "save", NEW j, j = job[p],
         j.seen_receipts = receipts,
         NEW W, W = WrittenReceipts(j)
  PROVE  /\ Old(j) = ActiveOf(receipts, j.target)
         /\ \A r \in Removed(j) : r \in Old(j) /\ ~W[r].active
         /\ \A r \in Kept(j) :
               /\ r \in Old(j) /\ IsActive(W, r) /\ W[r].transfer = j.target
               /\ W[r].doc = DocOfLine(j, r) /\ W[r].doc \in Recomputed(j)
               /\ W[r].amount = j.lines[DocOfLine(j, r)].amount
         /\ \A r \in Created(j) :
               /\ r \in Receipts /\ ~IsActive(receipts, r)
               /\ IsActive(W, r) /\ W[r].transfer = j.target
               /\ W[r].doc = r[2] /\ W[r].doc \in Recomputed(j)
               /\ W[r].amount = j.lines[r[2]].amount
         /\ \A r \in Receipts :
               r \notin Old(j) \cup Created(j) =>
                  /\ W[r] = receipts[r]
                  /\ IsActive(receipts, r) => receipts[r].transfer # j.target
         /\ \A r \in Old(j) : receipts[r].doc \in Recomputed(j)
<1>1. /\ j \in Save
      /\ Old(j) \subseteq {r \in Receipts : receipts[r] # NoRow}
      /\ Created(j) \subseteq {r \in Receipts : receipts[r] = NoRow}
      /\ \A r \in Created(j) : r[1] = j.n /\ r[2] \in Docs /\ j.lines[r[2]] \in FormLine
      /\ \A r \in Kept(j) : /\ DocOfLine(j, r) \in Docs
                            /\ j.lines[DocOfLine(j, r)] \in FormLine
  BY SaveParts
<1>2. Old(j) = ActiveOf(receipts, j.target)
  BY DEF Old
<1>3. Removed(j) \subseteq Old(j) /\ Kept(j) \subseteq Old(j) /\ Old(j) \subseteq Removed(j) \cup Kept(j)
  BY DEF Removed, Kept
<1>4. \A r \in Receipts :
         /\ r \in Removed(j) => W[r] = [receipts[r] EXCEPT !.active = FALSE]
         /\ r \in Kept(j) => W[r] = [receipts[r] EXCEPT
                                       !.transfer = j.target, !.doc = DocOfLine(j, r),
                                       !.amount = j.lines[DocOfLine(j, r)].amount]
         /\ r \in Created(j) => W[r] = [transfer |-> j.target, doc |-> r[2],
                                        amount |-> j.lines[r[2]].amount, active |-> TRUE]
         /\ r \notin Removed(j) \cup Kept(j) \cup Created(j) => W[r] = receipts[r]
  BY <1>1, <1>3 DEF WrittenReceipts, Removed
<1>5. \A r \in Old(j) : receipts[r] \in Receipt /\ receipts[r].active /\ r \in Receipts
  BY <1>1, <1>2 DEF TInv, TypeOK, ReceiptTable, ActiveOf, IsActive
<1>6. \A r \in Receipts : receipts[r] # NoRow => W[r] # NoRow
  BY WrittenType
<1>0. \A line \in FormLine : line # NoRow
  BY TransferRows
<1>7. ASSUME NEW r \in Removed(j) PROVE r \in Old(j) /\ ~W[r].active
  <2>1. r \in Receipts /\ receipts[r] \in Receipt /\ W[r] = [receipts[r] EXCEPT !.active = FALSE]
    BY <1>3, <1>4, <1>5, <1>7
  <2> QED
    BY <1>3, <1>7, <2>1 DEF Receipt
<1>8. ASSUME NEW r \in Kept(j)
      PROVE  /\ r \in Old(j) /\ IsActive(W, r) /\ W[r].transfer = j.target
             /\ W[r].doc = DocOfLine(j, r) /\ W[r].doc \in Recomputed(j)
             /\ W[r].amount = j.lines[DocOfLine(j, r)].amount
  <2> DEFINE d == DocOfLine(j, r)
  <2>4. r \in Old(j) /\ r \in Receipts /\ receipts[r] \in Receipt /\ receipts[r].active
    BY <1>3, <1>5, <1>8
  <2>5. W[r] = [receipts[r] EXCEPT !.transfer = j.target, !.doc = d, !.amount = j.lines[d].amount]
    BY <1>4, <1>8, <2>4
  <2>6. d \in Docs /\ j.lines[d] # NoRow
    BY <1>1, <1>8, <1>0
  <2>7. W[r] # NoRow
    BY <1>1, <1>6, <2>4
  <2> HIDE DEF d
  <2>1. /\ r \in Old(j) /\ r \in Receipts /\ receipts[r] \in Receipt /\ receipts[r].active
        /\ W[r] = [receipts[r] EXCEPT !.transfer = j.target, !.doc = d, !.amount = j.lines[d].amount]
        /\ W[r] # NoRow /\ d \in Docs /\ j.lines[d] # NoRow
    BY <2>4, <2>5, <2>6, <2>7
  <2>2. /\ W[r].active /\ W[r].transfer = j.target /\ W[r].doc = d
        /\ W[r].amount = j.lines[d].amount
    BY <2>1 DEF Receipt
  <2>3. d \in Recomputed(j)
    BY <2>1 DEF Recomputed
  <2> QED
    BY <2>1, <2>2, <2>3 DEF IsActive, d
<1>9. ASSUME NEW r \in Created(j)
      PROVE  /\ r \in Receipts /\ ~IsActive(receipts, r)
             /\ IsActive(W, r) /\ W[r].transfer = j.target
             /\ W[r].doc = r[2] /\ W[r].doc \in Recomputed(j)
             /\ W[r].amount = j.lines[r[2]].amount
  <2>5. r \in Receipts /\ receipts[r] = NoRow /\ r[2] \in Docs /\ j.lines[r[2]] # NoRow
    BY <1>1, <1>9, <1>0
  <2>1. /\ r \in Receipts /\ receipts[r] = NoRow /\ r[2] \in Docs /\ j.lines[r[2]] # NoRow
        /\ W[r] = [transfer |-> j.target, doc |-> r[2], amount |-> j.lines[r[2]].amount,
                   active |-> TRUE]
    BY <1>4, <1>9, <2>5
  <2>2. j.target \in Serials /\ j.lines[r[2]].amount \in Amounts
    BY <1>1, <1>9 DEF Save, FormLine
  <2>3. W[r] \in Receipt
    BY <2>1, <2>2 DEF Receipt
  <2>4. r[2] \in Recomputed(j)
    BY <2>1 DEF Recomputed
  <2>6. W[r] # NoRow
    BY <2>3, TransferRows
  <2>7. /\ W[r].active /\ W[r].transfer = j.target /\ W[r].doc = r[2]
        /\ W[r].amount = j.lines[r[2]].amount
    BY <2>1
  <2>8. ~IsActive(receipts, r) /\ IsActive(W, r)
    BY <2>1, <2>6, <2>7 DEF IsActive
  <2> QED
    BY <2>1, <2>4, <2>7, <2>8
<1>10. ASSUME NEW r \in Receipts, r \notin Old(j) \cup Created(j)
       PROVE  /\ W[r] = receipts[r]
              /\ IsActive(receipts, r) => receipts[r].transfer # j.target
  BY <1>2, <1>3, <1>4, <1>10 DEF ActiveOf
<1>11. \A r \in Old(j) : receipts[r].doc \in Recomputed(j)
  BY DEF Recomputed
<1> QED
  BY <1>2, <1>7, <1>8, <1>9, <1>10, <1>11

LEMMA SaveSettles ==
  ASSUME TInv, NEW p \in Procs, Undisturbed(p), CommitSave(p)
  PROVE  /\ \A d \in Recomputed(job[p]) \cap Docs : Exact(d)'
         /\ \A d \in Docs \ Recomputed(job[p]) : Exact(d) => Exact(d)'
<1>1. PICK j : j = job[p]
  OBVIOUS
<1>2. phase[p] = "save" /\ j.seen_transfers = transfers /\ j.seen_receipts = receipts
  BY <1>1 DEF Undisturbed
<1>3. PICK W : W = WrittenReceipts(j)
  OBVIOUS
<1>4. j \in Save /\ j.target \in Serials
  BY <1>1, <1>2, SaveParts DEF Save
<1>5. /\ transfers' = [transfers EXCEPT ![j.target] = Header(j)]
      /\ receipts' = W
      /\ \A d \in Docs : total'[d] = IF d \in Recomputed(j)
                                     THEN SumsOf([j.seen_transfers EXCEPT ![j.target] = Header(j)], View(j), d)
                                     ELSE total[d]
  BY <1>1, <1>3 DEF CommitSave
<1>6. View(j) = W
  BY <1>2, <1>3, ViewIsWritten
<1>7. ASSUME NEW d \in Recomputed(j) \cap Docs PROVE Exact(d)'
  BY <1>2, <1>5, <1>6, <1>7 DEF Exact
<1>8. ASSUME NEW d \in Docs \ Recomputed(j), Exact(d) PROVE Exact(d)'
  <2>1. total'[d] = SumsOf(transfers, receipts, d)
    BY <1>5, <1>8 DEF Exact
  <2>2. ASSUME NEW r \in Receipts
        PROVE  /\ r \in ActiveOn(receipts', d) <=> r \in ActiveOn(receipts, d)
               /\ r \in ActiveOn(receipts, d) =>
                     /\ receipts'[r] = receipts[r] /\ receipts[r].transfer # j.target
                     /\ receipts[r].transfer \in Serials
    <3> DEFINE own == Old(j) \cup Created(j)
    <3>1. CASE r \in own
      <4>1. r \notin ActiveOn(receipts, d)
        BY <1>1, <1>2, <1>3, <1>8, <3>1, RowsAfterSave DEF ActiveOn
      <4>2. r \in Removed(j) \cup Kept(j) \cup Created(j)
        BY <3>1 DEF Removed
      <4>3. r \notin ActiveOn(W, d)
        <5>1. CASE r \in Removed(j)
          <6>1. ~W[r].active
            BY <1>1, <1>2, <1>3, <5>1, RowsAfterSave
          <6> QED
            BY <6>1 DEF ActiveOn, IsActive
        <5>2. CASE r \in Kept(j) \cup Created(j)
          <6>1. W[r].doc \in Recomputed(j)
            BY <1>1, <1>2, <1>3, <5>2, RowsAfterSave
          <6> QED
            BY <1>8, <6>1 DEF ActiveOn
        <5> QED
          BY <4>2, <5>1, <5>2
      <4> QED
        BY <1>5, <4>1, <4>3
    <3>2. CASE r \notin own
      <4>1. receipts'[r] = receipts[r] /\ (IsActive(receipts, r) => receipts[r].transfer # j.target)
        BY <1>1, <1>2, <1>3, <1>5, <3>2, RowsAfterSave
      <4>2. receipts[r] # NoRow => receipts[r].transfer \in Serials
        BY DEF TInv, TypeOK, ReceiptTable, Receipt
      <4> QED
        BY <4>1, <4>2 DEF ActiveOn, IsActive
    <3> QED
      BY <3>1, <3>2
  <2>3. ActiveOn(receipts', d) = ActiveOn(receipts, d)
    BY <2>2 DEF ActiveOn
  <2>4. \A r \in ActiveOn(receipts, d) :
           /\ receipts[r].amount = receipts'[r].amount
           /\ transfers[receipts[r].transfer].type = transfers'[receipts'[r].transfer].type
    <3>1. \A t \in Serials : t # j.target => transfers'[t] = transfers[t]
      BY <1>5 DEF TInv, TypeOK, Transfers
    <3> QED
      BY <2>2, <3>1 DEF ActiveOn
  <2>5. SumsOf(transfers, receipts, d) = SumsOf(transfers', receipts', d)
    BY <2>3, <2>4, SameReceiptsSameSums
  <2> QED
    BY <2>1, <2>5 DEF Exact
<1> QED
  BY <1>1, <1>7, <1>8

LEMMA RecomputedDocs ==
  ASSUME TInv, NEW p \in Procs, phase[p] = "save", job[p].seen_receipts = receipts
  PROVE  /\ Recomputed(job[p]) \subseteq Docs
         /\ {receipts[r].doc : r \in ActiveOf(receipts, job[p].target)} \subseteq Recomputed(job[p])
<1>1. PICK j : j = job[p]
  OBVIOUS
<1>2. Old(j) = ActiveOf(receipts, j.target) /\ j.seen_receipts = receipts
  BY <1>1 DEF Old
<1>3. \A r \in Old(j) : receipts[r].doc \in Docs
  BY <1>2 DEF ActiveOf, IsActive, TInv, TypeOK, ReceiptTable, Receipt
<1> QED
  BY <1>1, <1>2, <1>3 DEF Recomputed

\* A save that nothing disturbs leaves exact the totals of every document its
\* transfer concerns or concerned, however wrong they were.
THEOREM SavesSettleTotals == Spec => SaveSettlesTotals
<1>1. ASSUME TInv, [Next]_vars
      PROVE  [\A p \in Procs :
                Undisturbed(p) /\ CommitSave(p) =>
                   \A d \in Recomputed(job[p])
                            \cup {receipts[r].doc : r \in ActiveOf(receipts, job[p].target)} :
                       Exact(d)']_vars
  <2> SUFFICES ASSUME NEW p \in Procs, Undisturbed(p), CommitSave(p),
                      NEW d \in Recomputed(job[p])
                                \cup {receipts[r].doc : r \in ActiveOf(receipts, job[p].target)}
               PROVE  Exact(d)'
    OBVIOUS
  <2>1. d \in Recomputed(job[p]) \cap Docs
    BY <1>1, RecomputedDocs DEF Undisturbed
  <2> QED
    BY <1>1, <2>1, SaveSettles
<1>2. TInv /\ [Next]_vars =>
         [\A p \in Procs :
             Undisturbed(p) /\ CommitSave(p) =>
                \A d \in Recomputed(job[p])
                         \cup {receipts[r].doc : r \in ActiveOf(receipts, job[p].target)} :
                    Exact(d)']_vars
  BY <1>1
<1> QED
  BY <1>2, InitTypes, NextTypes, PTL DEF Spec, SaveSettlesTotals

----------------------------------------------------------------------------
(* Requests that do not overlap *)

Alone == ~contended => \A p, q \in Procs : phase[p] # "idle" /\ phase[q] # "idle" => p = q

\* What a request in flight knows of the tables, and which totals may be wrong: those
\* a delete has still to recompute.
HeldBy(p) ==
    /\ phase[p] = "save" => job[p].seen_transfers = transfers /\ job[p].seen_receipts = receipts
    /\ phase[p] \in {"delete_header", "delete_receipts"} =>
          job[p].docs = {receipts[r].doc : r \in ActiveOf(receipts, job[p].target)}
    /\ phase[p] = "recompute_write" =>
          /\ job[p].doc \in job[p].docs
          /\ job[p].sums = SumsOf(transfers, receipts, job[p].doc)

Recomputing(p) == phase[p] \in {"recompute", "recompute_write"}

Known(p) ==
    /\ HeldBy(p)
    /\ \A d \in Docs : (Recomputing(p) => d \notin job[p].docs) => Exact(d)

Settled ==
    ~contended /\ ~interrupted =>
        /\ \A p \in Procs : phase[p] # "idle" => Known(p)
        /\ Idle => \A d \in Docs : Exact(d)

LEMMA AloneStep == TInv /\ Alone /\ [Next]_vars => Alone'
<1> SUFFICES ASSUME TInv, Alone, [Next]_vars PROVE Alone'
  OBVIOUS
<1>1. CASE UNCHANGED vars
  BY <1>1 DEF vars, requestVars, Alone
<1>2. ASSUME NEW p \in Procs, NEW ph, NEW j, Start(p, ph, j) PROVE Alone'
  BY <1>2 DEF Start, Alone, TInv, TypeOK
<1>3. ASSUME NEW p \in Procs, NEW ph, NEW j, phase[p] # "idle", Goto(p, ph, j) PROVE Alone'
  BY <1>3 DEF Goto, Alone, TInv, TypeOK
<1>4. ASSUME NEW p \in Procs,
             \/ \E t \in Serials, type \in Types : BeginSave(p, t, type)
             \/ \E t \in Serials : BeginDelete(p, t)
      PROVE  Alone'
  BY <1>2, <1>4 DEF BeginSave, BeginDelete
<1>5. ASSUME NEW p \in Procs,
             \/ CommitSave(p) \/ DeleteHeader(p) \/ DeleteReceipts(p)
             \/ \E d \in Docs : RecomputeRead(p, d)
             \/ RecomputeWrite(p) \/ Abort(p)
      PROVE  Alone'
  <2>1. phase[p] # "idle" /\ \E ph, j : Goto(p, ph, j)
    BY <1>5 DEF CommitSave, DeleteHeader, DeleteReceipts, RecomputeRead, RecomputeWrite, Abort, Finish
  <2> QED
    BY <1>3, <2>1
<1> QED
  BY <1>1, <1>4, <1>5 DEF Next

\* The steps of a request, from Next.
Steps(p) ==
    \/ \E t \in Serials, type \in Types : BeginSave(p, t, type)
    \/ CommitSave(p)
    \/ \E t \in Serials : BeginDelete(p, t)
    \/ DeleteHeader(p) \/ DeleteReceipts(p)
    \/ \E d \in Docs : RecomputeRead(p, d)
    \/ RecomputeWrite(p)
    \/ Abort(p)

LEMMA OthersIdle ==
  ASSUME TInv, Alone, NEW p \in Procs, Steps(p), ~contended'
  PROVE  /\ ~contended
         /\ interrupted => interrupted'
         /\ \A q \in Procs \ {p} : phase[q] = "idle" /\ phase'[q] = "idle"
         /\ \E ph, j : phase' = [phase EXCEPT ![p] = ph] /\ job' = [job EXCEPT ![p] = j]
<1>1. CASE \/ \E t \in Serials, type \in Types : BeginSave(p, t, type)
           \/ \E t \in Serials : BeginDelete(p, t)
  <2>1. PICK ph, j : Start(p, ph, j) /\ UNCHANGED interrupted
    BY <1>1 DEF BeginSave, BeginDelete
  <2> QED
    BY <2>1 DEF Start, TInv, TypeOK
<1>2. CASE \/ CommitSave(p) \/ DeleteHeader(p) \/ DeleteReceipts(p)
           \/ \E d \in Docs : RecomputeRead(p, d)
           \/ RecomputeWrite(p) \/ Abort(p)
  <2>1. phase[p] # "idle" /\ \E ph, j : Goto(p, ph, j)
    BY <1>2 DEF CommitSave, DeleteHeader, DeleteReceipts, RecomputeRead, RecomputeWrite, Abort, Finish
  <2>3. interrupted => interrupted'
    BY <1>2, Zenon DEF CommitSave, DeleteHeader, DeleteReceipts, RecomputeRead, RecomputeWrite, Abort
  <2>2. PICK ph, j : Goto(p, ph, j)
    BY <2>1
  <2> QED
    BY <2>1, <2>2, <2>3 DEF Goto, Alone, TInv, TypeOK
<1> QED
  BY <1>1, <1>2 DEF Steps

\* With the others idle, all depends on what the request knows when it has moved.
LEMMA SettledLands ==
  ASSUME TInv, NEW p \in Procs,
         \A q \in Procs \ {p} : phase'[q] = "idle",
         \/ phase'[p] # "idle" /\ Known(p)'
         \/ phase'[p] = "idle" /\ \A d \in Docs : Exact(d)'
  PROVE  Settled'
  BY DEF Settled, Idle

LEMMA SameTotals ==
  ASSUME UNCHANGED <<transfers, receipts, total>>, NEW d
  PROVE  Exact(d)' <=> Exact(d)
  BY DEF Exact, SumsOf, SumOf, ActiveOn, IsActive

LEMMA SettledStep == TInv /\ Alone /\ Settled /\ [Next]_vars => Settled'
<1> SUFFICES ASSUME TInv, Alone, Settled, [Next]_vars, ~contended', ~interrupted' PROVE Settled'
  BY DEF Settled
<1>1. CASE UNCHANGED vars
  <2>1. \A p \in Procs : Known(p) <=> Known(p)'
    BY <1>1 DEF vars, requestVars, Known, HeldBy, Recomputing, Exact, SumsOf, SumOf, ActiveOn,
                ActiveOf, IsActive
  <2>2. \A d \in Docs : Exact(d)' <=> Exact(d)
    BY <1>1, SameTotals DEF vars
  <2> QED
    BY <1>1, <2>1, <2>2 DEF vars, requestVars, Settled, Idle
<1>2. ASSUME NEW p \in Procs, Steps(p) PROVE Settled'
  <2>1. /\ ~contended /\ ~interrupted
        /\ \A q \in Procs \ {p} : phase[q] = "idle" /\ phase'[q] = "idle"
    BY <1>2, OthersIdle
  <2>2. PICK ph, j : phase' = [phase EXCEPT ![p] = ph] /\ job' = [job EXCEPT ![p] = j]
    BY <1>2, OthersIdle
  <2>3. phase'[p] = ph /\ job'[p] = j
    BY <2>2 DEF TInv, TypeOK
  <2>4. phase[p] # "idle" => Known(p)
    BY <2>1 DEF Settled
  <2>5. phase[p] = "idle" => \A d \in Docs : Exact(d)
    BY <2>1 DEF Settled, Idle
  <2>6. ASSUME NEW t \in Serials, NEW type \in Types, BeginSave(p, t, type) PROVE Settled'
    <3>1. PICK i \in Save : Start(p, "save", i) /\ i.seen_transfers = transfers /\ i.seen_receipts = receipts
      BY <2>6, BeginSaveHolds
    <3>2. phase[p] = "idle" /\ phase'[p] = "save" /\ job'[p] = i
      BY <3>1 DEF Start, TInv, TypeOK
    <3>3. UNCHANGED <<transfers, receipts, total>>
      BY <2>6 DEF BeginSave
    <3>4. \A d \in Docs : Exact(d)'
      BY <2>5, <3>2, <3>3, SameTotals
    <3>5. HeldBy(p)'
      BY <3>1, <3>2, <3>3 DEF HeldBy
    <3>6. Known(p)'
      BY <3>4, <3>5 DEF Known
    <3> QED
      BY <2>1, <3>2, <3>6, SettledLands
  <2>7. CASE CommitSave(p)
    <3>1. Undisturbed(p)
      BY <2>4, <2>7 DEF CommitSave, Undisturbed, Known, HeldBy
    <3>2. \A d \in Docs : Exact(d)
      BY <2>4, <2>7 DEF CommitSave, Known, Recomputing
    <3>3. \A d \in Docs : Exact(d)'
      BY <2>7, <3>1, <3>2, SaveSettles
    <3>4. phase'[p] = "idle"
      BY <2>7 DEF CommitSave, Finish, Goto, TInv, TypeOK
    <3> QED
      BY <2>1, <3>3, <3>4, SettledLands
  <2>8. ASSUME NEW t \in Serials, BeginDelete(p, t) PROVE Settled'
    <3>1. /\ phase[p] = "idle" /\ phase'[p] = "delete_header"
          /\ job'[p].target = t
          /\ job'[p].docs = {receipts[r].doc : r \in ActiveOf(receipts, t)}
          /\ UNCHANGED <<transfers, receipts, total>>
      BY <2>8 DEF BeginDelete, Start, TInv, TypeOK
    <3>2. \A d \in Docs : Exact(d)'
      BY <2>5, <3>1, SameTotals
    <3>3. HeldBy(p)'
      BY <3>1 DEF HeldBy, ActiveOf, IsActive
    <3>4. Known(p)'
      BY <3>2, <3>3 DEF Known
    <3> QED
      BY <2>1, <3>1, <3>4, SettledLands
  <2>9. CASE DeleteHeader(p)
    <3>1. /\ phase[p] = "delete_header" /\ phase'[p] = "delete_receipts" /\ job'[p] = job[p]
          /\ transfers' = [transfers EXCEPT ![job[p].target].active = FALSE]
          /\ UNCHANGED <<receipts, total>>
      BY <2>9 DEF DeleteHeader, Goto, TInv, TypeOK
    <3>2. /\ job[p].target \in Serials /\ transfers[job[p].target] \in Transfer
      BY <3>1, DeleteJob DEF Deleting
    <3>3. \A t \in Serials : transfers'[t].type = transfers[t].type
      BY <3>1, <3>2 DEF Transfer, TInv, TypeOK, Transfers
    <3>4. ASSUME NEW d \in Docs PROVE Exact(d)'
      <4>1. Exact(d)
        BY <2>4, <3>1 DEF Known, Recomputing
      <4>2. \A r \in ActiveOn(receipts, d) : receipts[r].transfer \in Serials
        BY DEF ActiveOn, IsActive, TInv, TypeOK, ReceiptTable, Receipt
      <4>3. /\ ActiveOn(receipts, d) = ActiveOn(receipts', d)
            /\ \A r \in ActiveOn(receipts, d) :
                  /\ receipts[r].amount = receipts'[r].amount
                  /\ transfers[receipts[r].transfer].type = transfers'[receipts'[r].transfer].type
        BY <3>1, <3>3, <4>2
      <4>4. SumsOf(transfers, receipts, d) = SumsOf(transfers', receipts', d)
        BY <4>3, SameReceiptsSameSums
      <4> QED
        BY <3>1, <4>1, <4>4 DEF Exact
    <3>5. HeldBy(p)'
      BY <2>4, <3>1 DEF Known, HeldBy, ActiveOf, IsActive
    <3>6. Known(p)'
      BY <3>4, <3>5 DEF Known
    <3> QED
      BY <2>1, <3>1, <3>6, SettledLands
  <2>10. CASE DeleteReceipts(p)
    <3> DEFINE t == job[p].target
    <3>1. /\ phase[p] = "delete_receipts"
          /\ receipts' = ReceiptsDeleted(t)
          /\ UNCHANGED <<transfers, total>>
          /\ \/ job[p].docs = {} /\ phase'[p] = "idle"
             \/ phase'[p] = "recompute" /\ job'[p] = job[p]
      BY <2>10 DEF DeleteReceipts, Finish, Goto, TInv, TypeOK
    <3>2. job[p].docs = {receipts[r].doc : r \in ActiveOf(receipts, t)}
      BY <2>4, <3>1 DEF Known, HeldBy
    <3>3. ASSUME NEW d \in Docs, d \notin job[p].docs PROVE Exact(d)'
      <4>1. Exact(d)
        BY <2>4, <3>1, <3>3 DEF Known, Recomputing
      <4>2. ASSUME NEW r \in Receipts
            PROVE  /\ r \in ActiveOn(receipts', d) <=> r \in ActiveOn(receipts, d)
                   /\ r \in ActiveOn(receipts, d) => receipts'[r] = receipts[r]
        <5>1. CASE receipts[r] # NoRow /\ receipts[r].transfer = t
          <6>1. receipts'[r] = [receipts[r] EXCEPT !.active = FALSE] /\ receipts[r] \in Receipt
            BY <3>1, <5>1, DeletedType DEF TInv, TypeOK, ReceiptTable
          <6>2. ~receipts'[r].active
            BY <6>1 DEF Receipt
          <6>3. r \notin ActiveOn(receipts, d)
            BY <3>2, <3>3, <5>1 DEF ActiveOn, ActiveOf
          <6> QED
            BY <6>2, <6>3 DEF ActiveOn, IsActive
        <5>2. CASE ~(receipts[r] # NoRow /\ receipts[r].transfer = t)
          <6>1. receipts'[r] = receipts[r]
            BY <3>1, <5>2, DeletedType DEF TInv
          <6> QED
            BY <6>1 DEF ActiveOn, IsActive
        <5> QED
          BY <5>1, <5>2
      <4>3. ActiveOn(receipts', d) = ActiveOn(receipts, d)
        BY <4>2 DEF ActiveOn
      <4>4. \A r \in ActiveOn(receipts, d) : receipts'[r] = receipts[r]
        BY <4>2 DEF ActiveOn
      <4>5. SumsOf(transfers, receipts, d) = SumsOf(transfers', receipts', d)
        BY <3>1, <4>3, <4>4, SameReceiptsSameSums
      <4> QED
        BY <3>1, <4>1, <4>5 DEF Exact
    <3>4. CASE job[p].docs = {} /\ phase'[p] = "idle"
      BY <2>1, <3>3, <3>4, SettledLands
    <3>5. CASE phase'[p] = "recompute" /\ job'[p] = job[p]
      <4>1. Known(p)'
        BY <3>3, <3>5 DEF Known, HeldBy, Recomputing
      <4> QED
        BY <2>1, <3>5, <4>1, SettledLands
    <3> QED
      BY <3>1, <3>4, <3>5
  <2>11. ASSUME NEW c \in Docs, RecomputeRead(p, c) PROVE Settled'
    <3>1. job[p] \in Delete
      BY <2>11, DeleteJob DEF RecomputeRead, Deleting
    <3>2. /\ phase[p] = "recompute" /\ phase'[p] = "recompute_write"
          /\ c \in job[p].docs
          /\ job'[p] = [job[p] EXCEPT !.doc = c, !.sums = SumsOf(transfers, receipts, c)]
          /\ UNCHANGED <<transfers, receipts, total>>
      BY <2>11 DEF RecomputeRead, Goto, TInv, TypeOK
    <3>3. /\ job'[p].docs = job[p].docs /\ job'[p].doc = c
          /\ job'[p].sums = SumsOf(transfers, receipts, c)
      BY <3>1, <3>2 DEF Delete
    <3>4. \A d \in Docs : d \notin job[p].docs => Exact(d)'
      BY <2>4, <3>2, SameTotals DEF Known
    <3>5. SumsOf(transfers, receipts, c)' = SumsOf(transfers, receipts, c)
      BY <3>2 DEF SumsOf, SumOf, ActiveOn, IsActive
    <3>6. HeldBy(p)'
      BY <3>2, <3>3, <3>5 DEF HeldBy
    <3>7. Known(p)'
      BY <3>2, <3>3, <3>4, <3>6 DEF Known, Recomputing
    <3> QED
      BY <2>1, <3>2, <3>7, SettledLands
  <2>12. CASE RecomputeWrite(p)
    <3> DEFINE c == job[p].doc
    <3>1. job[p] \in Delete /\ job[p].docs \subseteq Docs
      BY <2>12, DeleteJob DEF RecomputeWrite, Deleting
    <3>2. /\ phase[p] = "recompute_write"
          /\ total' = [total EXCEPT ![c] = job[p].sums]
          /\ UNCHANGED <<transfers, receipts>>
          /\ \/ DocsLeft(job[p]) = {} /\ phase'[p] = "idle"
             \/ /\ phase'[p] = "recompute"
                /\ job'[p] = [job[p] EXCEPT !.docs = DocsLeft(job[p]), !.doc = NoRow]
      BY <2>12 DEF RecomputeWrite, Finish, Goto, TInv, TypeOK
    <3>3. c \in job[p].docs /\ job[p].sums = SumsOf(transfers, receipts, c)
      BY <2>4, <3>2 DEF Known, HeldBy
    <3>4. ASSUME NEW d \in Docs, d \notin DocsLeft(job[p]) PROVE Exact(d)'
      <4>1. SumsOf(transfers', receipts', d) = SumsOf(transfers, receipts, d)
        BY <3>2
      <4>2. CASE d = c
        BY <3>2, <3>3, <4>1, <4>2 DEF Exact, TInv, TypeOK
      <4>3. CASE d # c
        <5>1. Exact(d)
          BY <2>4, <3>2, <3>4, <4>3 DEF Known, DocsLeft
        <5> QED
          BY <3>2, <4>1, <4>3, <5>1 DEF Exact, TInv, TypeOK
      <4> QED
        BY <4>2, <4>3
    <3>5. CASE DocsLeft(job[p]) = {} /\ phase'[p] = "idle"
      BY <2>1, <3>4, <3>5, SettledLands
    <3>6. CASE /\ phase'[p] = "recompute"
               /\ job'[p] = [job[p] EXCEPT !.docs = DocsLeft(job[p]), !.doc = NoRow]
      <4>1. job'[p].docs = DocsLeft(job[p])
        BY <3>1, <3>6 DEF Delete
      <4>2. Known(p)'
        BY <3>4, <3>6, <4>1 DEF Known, HeldBy, Recomputing
      <4> QED
        BY <2>1, <3>6, <4>2, SettledLands
    <3> QED
      BY <3>2, <3>5, <3>6
  <2>13. CASE Abort(p)
    <3>1. /\ phase[p] \in {"save", "delete_header"} /\ phase'[p] = "idle"
          /\ UNCHANGED <<transfers, receipts, total>>
      BY <2>13 DEF Abort, Finish, Goto, TInv, TypeOK
    <3>2. \A d \in Docs : Exact(d)'
      BY <2>4, <3>1, SameTotals DEF Known, Recomputing
    <3> QED
      BY <2>1, <3>1, <3>2, SettledLands
  <2> QED
    BY <1>2, <2>6, <2>7, <2>8, <2>9, <2>10, <2>11, <2>12, <2>13 DEF Steps
<1> QED
  BY <1>1, <1>2 DEF Next, Steps

LEMMA InitSettled == Init => Alone /\ Settled
<1> SUFFICES ASSUME Init PROVE Alone /\ Settled
  OBVIOUS
<1> USE DEF Init
<1>1. Alone
  BY DEF Alone
<1>2. ASSUME NEW d \in Docs PROVE Exact(d)
  <2>1. ActiveOn(receipts, d) = {}
    BY DEF ActiveOn, IsActive
  <2>2. SumOf(receipts, {}) = 0
    <3>1. DOMAIN [r \in {} |-> receipts[r].amount] = {}
      OBVIOUS
    <3> QED
      BY <3>1, SumOfNothing DEF SumOf, SumFunction
  <2>3. {r \in ActiveOn(receipts, d) : transfers[receipts[r].transfer].type # "adjustment"} = {}
    BY <2>1
  <2>4. SumsOf(transfers, receipts, d) = ZeroTotals
    BY <2>1, <2>2, <2>3 DEF SumsOf, ZeroTotals
  <2> QED
    BY <2>4 DEF Exact
<1>3. Settled
  BY <1>2 DEF Settled
<1> QED
  BY <1>1, <1>3

\* While no two requests have overlapped and no delete has failed halfway, the stored
\* totals of every document are the sums of its active receipts, whatever is
\* created, moved between documents, edited from an old form or deleted.
THEOREM TotalsSettle == Spec => []TotalsSettled
<1>1. Settled => TotalsSettled
  BY DEF Settled, TotalsSettled
<1> QED
  BY <1>1, InitTypes, NextTypes, InitSettled, AloneStep, SettledStep, PTL DEF Spec

----------------------------------------------------------------------------
(* The reports *)

\* An active receipt is of a transfer in force, or of one whose delete has come to
\* its receipts.
Backed(r) ==
    \/ transfers[receipts[r].transfer] # NoRow /\ transfers[receipts[r].transfer].active
    \/ \E p \in Procs : phase[p] = "delete_receipts" /\ job[p].target = receipts[r].transfer

InForce ==
    ~contended /\ ~interrupted /\ ~revived =>
        \A r \in Receipts : IsActive(receipts, r) => Backed(r)

LEMMA InForceStep == TInv /\ Alone /\ Settled /\ InForce /\ [Next]_vars => InForce'
<1> SUFFICES ASSUME TInv, Alone, Settled, InForce, [Next]_vars,
                    ~contended', ~interrupted', ~revived',
                    NEW r \in Receipts, IsActive(receipts, r)'
             PROVE  Backed(r)'
  BY DEF InForce
<1>1. CASE UNCHANGED vars
  BY <1>1 DEF vars, requestVars, InForce, Backed, IsActive
<1>2. ASSUME NEW p \in Procs, Steps(p) PROVE Backed(r)'
  <2>1. /\ ~contended /\ ~interrupted
        /\ \A q \in Procs \ {p} : phase[q] = "idle" /\ phase'[q] = "idle"
    BY <1>2, OthersIdle
  <2>2. ASSUME phase[p] # "delete_receipts", UNCHANGED <<transfers, receipts, revived>>
        PROVE  Backed(r)'
    BY <2>1, <2>2 DEF InForce, Backed, IsActive
  <2>3. CASE \/ \E t \in Serials, type \in Types : BeginSave(p, t, type)
             \/ \E t \in Serials : BeginDelete(p, t)
             \/ \E d \in Docs : RecomputeRead(p, d)
             \/ RecomputeWrite(p)
    BY <2>2, <2>3 DEF BeginSave, BeginDelete, Start, RecomputeRead, RecomputeWrite
  <2>4. CASE Abort(p)
    <3>1. phase[p] \in {"save", "delete_header"} /\ UNCHANGED <<transfers, receipts, revived>>
      BY <2>4 DEF Abort
    <3> QED
      BY <2>2, <3>1
  <2>5. CASE CommitSave(p)
    <3>1. PICK j : j = job[p]
      OBVIOUS
    <3>2. PICK W : W = WrittenReceipts(j)
      OBVIOUS
    <3>3. phase[p] = "save" /\ j.seen_receipts = receipts
      BY <2>1, <2>5, <3>1 DEF CommitSave, Settled, Known, HeldBy
    <3>4. PICK header : header = Header(j)
      OBVIOUS
    <3>5. /\ transfers' = [transfers EXCEPT ![j.target] = header]
          /\ receipts' = W
          /\ revived' = (revived \/ ~header.active)
      BY <2>5, <3>1, <3>2, <3>4 DEF CommitSave
    <3>6. ~revived /\ header.active
      BY <3>5, Zenon
    <3>7. j \in Save /\ j.target \in Serials
      BY <3>1, <3>3, SaveParts DEF Save
    <3>8. header # NoRow
      BY <3>4, <3>7, HeaderType, TransferRows DEF TInv
    <3>9. CASE r \in Old(j) \cup Created(j)
      <4>1. r \in Removed(j) \cup Kept(j) \cup Created(j)
        BY <3>9 DEF Removed
      <4>2. W[r].transfer = j.target
        <5>1. CASE r \in Removed(j)
          <6>1. ~W[r].active
            BY <3>1, <3>2, <3>3, <5>1, RowsAfterSave
          <6> QED
            BY <3>5, <6>1 DEF IsActive
        <5>2. CASE r \in Kept(j) \cup Created(j)
          BY <3>1, <3>2, <3>3, <5>2, RowsAfterSave
        <5> QED
          BY <4>1, <5>1, <5>2
      <4>3. transfers'[W[r].transfer] = header
        BY <3>5, <3>7, <4>2 DEF TInv, TypeOK, Transfers
      <4> QED
        BY <3>5, <3>6, <3>8, <4>3 DEF Backed
    <3>10. CASE r \notin Old(j) \cup Created(j)
      <4>1. W[r] = receipts[r] /\ (IsActive(receipts, r) => receipts[r].transfer # j.target)
        BY <3>1, <3>2, <3>3, <3>10, RowsAfterSave
      <4>2. IsActive(receipts, r)
        BY <3>5, <4>1 DEF IsActive
      <4>3. Backed(r)
        BY <2>1, <3>6, <4>2 DEF InForce
      <4>4. receipts[r].transfer # j.target /\ receipts[r].transfer \in Serials
        BY <4>1, <4>2 DEF IsActive, TInv, TypeOK, ReceiptTable, Receipt
      <4>5. transfers'[receipts[r].transfer] = transfers[receipts[r].transfer]
        BY <3>5, <4>4 DEF TInv, TypeOK, Transfers
      <4>6. \A q \in Procs : phase[q] # "delete_receipts"
        BY <2>1, <3>3
      <4> QED
        BY <3>5, <4>1, <4>3, <4>5, <4>6 DEF Backed
    <3> QED
      BY <3>9, <3>10
  <2>6. CASE DeleteHeader(p)
    <3>1. /\ phase[p] = "delete_header" /\ phase'[p] = "delete_receipts" /\ job'[p] = job[p]
          /\ transfers' = [transfers EXCEPT ![job[p].target].active = FALSE]
          /\ UNCHANGED <<receipts, revived>>
      BY <2>6 DEF DeleteHeader, Goto, TInv, TypeOK
    <3>2. CASE receipts[r].transfer = job[p].target
      BY <3>1, <3>2 DEF Backed
    <3>3. CASE receipts[r].transfer # job[p].target
      <4>1. Backed(r)
        BY <2>1, <3>1 DEF InForce, IsActive
      <4>2. receipts[r].transfer \in Serials
        BY <3>1 DEF IsActive, TInv, TypeOK, ReceiptTable, Receipt
      <4>3. transfers'[receipts[r].transfer] = transfers[receipts[r].transfer]
        BY <3>1, <3>3, <4>2 DEF TInv, TypeOK, Transfers
      <4>4. \A q \in Procs : phase[q] # "delete_receipts"
        BY <2>1, <3>1
      <4> QED
        BY <3>1, <4>1, <4>3, <4>4 DEF Backed
    <3> QED
      BY <3>2, <3>3
  <2>7. CASE DeleteReceipts(p)
    <3>1. /\ phase[p] = "delete_receipts" /\ receipts' = ReceiptsDeleted(job[p].target)
          /\ UNCHANGED <<transfers, revived>>
      BY <2>7 DEF DeleteReceipts
    <3>2. receipts'[r] = receipts[r] /\ receipts[r] # NoRow /\ receipts[r].transfer # job[p].target
      <4>1. receipts[r] # NoRow /\ receipts'[r].active
        BY <3>1, DeletedType DEF IsActive, TInv
      <4>2. receipts[r] \in Receipt
        BY <4>1 DEF TInv, TypeOK, ReceiptTable
      <4>3. receipts[r].transfer # job[p].target
        <5>1. SUFFICES ASSUME receipts[r].transfer = job[p].target PROVE FALSE
          OBVIOUS
        <5>2. receipts'[r] = [receipts[r] EXCEPT !.active = FALSE]
          BY <3>1, <4>1, <5>1, DeletedType DEF TInv
        <5> QED
          BY <4>1, <4>2, <5>2 DEF Receipt
      <4> QED
        BY <3>1, <4>1, <4>3, DeletedType DEF TInv
    <3>3. Backed(r)
      BY <2>1, <3>1, <3>2 DEF InForce, IsActive
    <3>4. \A q \in Procs : phase[q] = "delete_receipts" => q = p
      BY <2>1
    <3> QED
      BY <3>1, <3>2, <3>3, <3>4 DEF Backed
  <2> QED
    BY <1>2, <2>3, <2>4, <2>5, <2>6, <2>7 DEF Steps
<1> QED
  BY <1>1, <1>2 DEF Next, Steps

\* Unless requests overlap, a delete fails halfway or a deleted transfer is saved, the
\* reports, which ask whether the transfer of a receipt is active, sum what the
\* stored totals sum, which do not.
THEOREM ReportsSeeTheTotals == Spec => []ReportsAgree
<1>1. Settled /\ InForce => ReportsAgree
  <2> SUFFICES ASSUME Settled, InForce, Idle, ~contended, ~interrupted, ~revived, NEW d \in Docs
               PROVE  total[d].all = SumOf(receipts, {r \in ActiveOn(receipts, d) :
                                                 transfers[receipts[r].transfer].active})
    BY DEF ReportsAgree
  <2>1. \A r \in ActiveOn(receipts, d) : transfers[receipts[r].transfer].active
    BY DEF InForce, Backed, Idle, ActiveOn
  <2>2. {r \in ActiveOn(receipts, d) : transfers[receipts[r].transfer].active}
          = ActiveOn(receipts, d)
    BY <2>1
  <2>3. Exact(d)
    BY DEF Settled
  <2>4. total[d].all = SumOf(receipts, ActiveOn(receipts, d))
    BY <2>3 DEF Exact, SumsOf
  <2> QED
    BY <2>2, <2>4
<1>2. Init => InForce
  BY DEF Init, InForce, IsActive
<1> QED
  BY <1>1, <1>2, InitTypes, NextTypes, InitSettled, AloneStep, SettledStep, InForceStep, PTL DEF Spec

----------------------------------------------------------------------------
(* The amount of a payment *)

FilledLines(j) == {d \in Docs : j.lines[d] # NoRow}

\* Each line of the form stands for one active receipt of its amount, and every
\* active receipt of the transfer for a line.
OneReceiptPerLine(j, W) ==
    \E h \in [FilledLines(j) -> ActiveOf(W, j.target)] :
        /\ \A d, e \in FilledLines(j) : h[d] = h[e] => d = e
        /\ \A r \in ActiveOf(W, j.target) : \E d \in FilledLines(j) : r = h[d]
        /\ \A d \in FilledLines(j) : W[h[d]].amount = j.lines[d].amount

\* It does after a save: the receipts are those the form keeps and creates.
LEMMA LinesAreReceipts ==
  ASSUME TInv, NEW p \in Procs, phase[p] = "save", NEW j, j = job[p],
         j.seen_receipts = receipts,
         NEW W, W = WrittenReceipts(j)
  PROVE  OneReceiptPerLine(j, W)
<1> PICK D : D = {d \in Docs : j.lines[d] # NoRow}
  OBVIOUS
<1> PICK T : T = ActiveOf(W, j.target)
  OBVIOUS
<1>12. PICK h : h = [d \in D |-> IF j.lines[d].id \in Old(j) THEN j.lines[d].id ELSE <<j.n, d>>]
  OBVIOUS
<1>1. SaveOK(j)
  BY DEF TInv, RequestsOK
<1>2. /\ Old(j) \subseteq {r \in Receipts : receipts[r] # NoRow}
      /\ Created(j) \subseteq {r \in Receipts : receipts[r] = NoRow}
      /\ \A r \in Kept(j) : /\ DocOfLine(j, r) \in Docs
                            /\ j.lines[DocOfLine(j, r)] \in FormLine
                            /\ j.lines[DocOfLine(j, r)].id = r
  BY SaveParts
<1>3. \A line \in FormLine : line # NoRow
  BY TransferRows
<1>10. \A r \in Kept(j) : /\ r \in Old(j) /\ IsActive(W, r) /\ W[r].transfer = j.target
                         /\ W[r].amount = j.lines[DocOfLine(j, r)].amount
  BY RowsAfterSave
<1>11. \A r \in Created(j) : /\ r \in Receipts /\ IsActive(W, r) /\ W[r].transfer = j.target
                            /\ W[r].amount = j.lines[r[2]].amount
  BY RowsAfterSave
<1>4. T = Kept(j) \cup Created(j)
  <2>1. ASSUME NEW r \in T PROVE r \in Kept(j) \cup Created(j)
    <3>1. r \in Receipts /\ IsActive(W, r) /\ W[r].transfer = j.target
      BY <2>1 DEF ActiveOf
    <3>2. r \in Old(j) \cup Created(j)
      <4>1. SUFFICES ASSUME r \notin Old(j) \cup Created(j) PROVE FALSE
        OBVIOUS
      <4>2. W[r] = receipts[r] /\ (IsActive(receipts, r) => receipts[r].transfer # j.target)
        BY <3>1, <4>1, RowsAfterSave
      <4> QED
        BY <3>1, <4>2 DEF IsActive
    <3>3. r \notin Removed(j)
      BY <3>1, RowsAfterSave DEF IsActive
    <3> QED
      BY <3>2, <3>3 DEF Removed
  <2>2. ASSUME NEW r \in Kept(j) \cup Created(j) PROVE r \in T
    <3>1. r \in Receipts /\ IsActive(W, r) /\ W[r].transfer = j.target
      BY <1>2, <1>10, <1>11, <2>2
    <3> QED
      BY <3>1 DEF ActiveOf
  <2> QED
    BY <2>1, <2>2
<1>5. \A d \in D : /\ d \in Docs /\ j.lines[d] # NoRow
                   /\ j.lines[d].id \in Old(j) => h[d] = j.lines[d].id /\ h[d] \in Kept(j)
                   /\ j.lines[d].id \notin Old(j) => h[d] = <<j.n, d>> /\ h[d] \in Created(j)
  <2> SUFFICES ASSUME NEW d \in D
               PROVE  /\ d \in Docs /\ j.lines[d] # NoRow
                      /\ j.lines[d].id \in Old(j) => h[d] = j.lines[d].id /\ h[d] \in Kept(j)
                      /\ j.lines[d].id \notin Old(j) => h[d] = <<j.n, d>> /\ h[d] \in Created(j)
    OBVIOUS
  <2>1. d \in Docs /\ j.lines[d] # NoRow
    OBVIOUS
  <2>2. CASE j.lines[d].id \in Old(j)
    <3>1. j.lines[d].id # NoRow
      BY <1>2, <2>2, TransferRows
    <3>2. j.lines[d].id \in LineIds(j.lines)
      BY <2>1, <3>1 DEF LineIds
    <3> QED
      BY <1>12, <2>1, <2>2, <3>2 DEF Kept
  <2>3. CASE j.lines[d].id \notin Old(j)
    BY <1>12, <2>1, <2>3 DEF Created
  <2> QED
    BY <2>1, <2>2, <2>3
<1>6. h \in [D -> T]
  BY <1>4, <1>5, <1>12
<1>7. ASSUME NEW d \in D, NEW e \in D, h[d] = h[e] PROVE d = e
  <2>1. CASE j.lines[d].id \in Old(j) /\ j.lines[e].id \in Old(j)
    <3>1. j.lines[d].id = j.lines[e].id /\ j.lines[d].id # NoRow
      BY <1>2, <1>5, <1>7, <2>1, TransferRows
    <3> QED
      BY <1>1, <1>5, <3>1 DEF SaveOK
  <2>2. CASE j.lines[d].id \notin Old(j) /\ j.lines[e].id \notin Old(j)
    BY <1>5, <1>7, <2>2
  <2>3. \A r \in Kept(j) : r \notin Created(j)
    BY <1>2 DEF Kept
  <2> QED
    BY <1>5, <1>7, <2>1, <2>2, <2>3
<1>8. ASSUME NEW r \in T PROVE \E d \in D : r = h[d]
  <2>1. CASE r \in Kept(j)
    <3>1. /\ DocOfLine(j, r) \in D /\ j.lines[DocOfLine(j, r)].id = r
      BY <1>2, <1>3, <2>1
    <3>2. r \in Old(j)
      BY <2>1 DEF Kept
    <3> QED
      BY <1>5, <3>1, <3>2
  <2>2. CASE r \in Created(j)
    <3>1. PICK d \in Docs : r = <<j.n, d>> /\ j.lines[d] # NoRow /\ j.lines[d].id \notin Old(j)
      BY <2>2 DEF Created
    <3> QED
      BY <1>5, <3>1
  <2> QED
    BY <1>4, <2>1, <2>2
<1>9. ASSUME NEW d \in D PROVE W[h[d]].amount = j.lines[d].amount
  <2>1. CASE j.lines[d].id \in Old(j)
    <3>1. h[d] = j.lines[d].id /\ h[d] \in Kept(j)
      BY <1>5, <2>1
    <3>2. DocOfLine(j, h[d]) \in D /\ j.lines[DocOfLine(j, h[d])].id = h[d]
      BY <1>2, <1>3, <3>1
    <3>3. h[d] # NoRow
      BY <1>2, <2>1, <3>1, TransferRows
    <3>4. DocOfLine(j, h[d]) = d
      <4>1. PICK e : e = DocOfLine(j, h[d])
        OBVIOUS
      <4>2. /\ e \in Docs /\ j.lines[e] # NoRow /\ j.lines[e].id = j.lines[d].id
            /\ d \in Docs /\ j.lines[d] # NoRow /\ j.lines[e].id # NoRow
        BY <3>1, <3>2, <3>3, <4>1
      <4>3. e = d
        BY <1>1, <4>2 DEF SaveOK
      <4> QED
        BY <4>1, <4>3
    <3>5. PICK r : r = h[d]
      OBVIOUS
    <3>6. r \in Kept(j)
      BY <3>1, <3>5
    <3>7. W[r].amount = j.lines[DocOfLine(j, r)].amount
      BY <1>10, <3>6
    <3> QED
      BY <3>4, <3>5, <3>7
  <2>2. CASE j.lines[d].id \notin Old(j)
    <3>1. h[d] = <<j.n, d>> /\ h[d] \in Created(j)
      BY <1>5, <2>2
    <3>2. PICK r : r = <<j.n, d>>
      OBVIOUS
    <3>3. r \in Created(j) /\ h[d] = r
      BY <3>1, <3>2
    <3>4. W[r].amount = j.lines[r[2]].amount
      BY <1>11, <3>3
    <3>5. r[2] = d
      BY <3>2
    <3> QED
      BY <3>3, <3>4, <3>5
  <2> QED
    BY <2>1, <2>2
<1> QED
  BY <1>6, <1>7, <1>8, <1>9 DEF OneReceiptPerLine, FilledLines

LEMMA PaymentBalances ==
  ASSUME TInv, NEW p \in Procs, Undisturbed(p), CommitSave(p), job[p].type = "payment"
  PROVE  transfers'[job[p].target].amount = SumOf(receipts', ActiveOf(receipts', job[p].target))
<1>1. PICK j : j = job[p]
  OBVIOUS
<1>2. phase[p] = "save" /\ j.seen_receipts = receipts /\ j.type = "payment"
  BY <1>1 DEF Undisturbed
<1>3. PICK W : W = WrittenReceipts(j)
  OBVIOUS
<1>4. PICK D : D = {d \in Docs : j.lines[d] # NoRow}
  OBVIOUS
<1>5. PICK T : T = ActiveOf(W, j.target)
  OBVIOUS
<1>7. PICK f : f = [d \in Docs |-> IF j.lines[d] = NoRow THEN 0 ELSE j.lines[d].amount]
  OBVIOUS
<1>8. PICK g : g = [r \in T |-> W[r].amount]
  OBVIOUS
<1>9. j \in Save /\ j.target \in Serials
  BY <1>1, <1>2, SaveParts DEF Save
<1>10. W \in ReceiptTable
  BY <1>1, <1>2, <1>3, WrittenType
<1>11. /\ \A d \in Docs : f[d] \in Int
       /\ \A d \in Docs \ D : f[d] = 0
       /\ \A d \in D : d \in Docs /\ f[d] = j.lines[d].amount
  <2>1. \A d \in Docs : j.lines[d] # NoRow => j.lines[d] \in FormLine
    BY <1>9 DEF Save, Lines
  <2>2. \A line \in FormLine : line.amount \in Int
    BY TransferBounds DEF FormLine
  <2> QED
    BY <1>4, <1>7, <2>1, <2>2
<1>12. T \subseteq Receipts /\ IsFiniteSet(T) /\ IsFiniteSet(D) /\ D \subseteq Docs
  <2>1. T \subseteq Receipts /\ D \subseteq Docs
    BY <1>4, <1>5 DEF ActiveOf
  <2> QED
    BY <2>1, SetsAreFinite, FS_Subset
<1>13. SumFunctionOnSet(f, Docs) = SumFunctionOnSet(f, D)
  BY <1>11, <1>12, SetsAreFinite, SumWithoutZeros
<1>14. SumFunctionOnSet(f, D) = SumFunctionOnSet(g, T)
  <2>1. PICK h \in [D -> T] :
            /\ \A d, e \in D : h[d] = h[e] => d = e
            /\ \A r \in T : \E d \in D : r = h[d]
            /\ \A d \in D : W[h[d]].amount = j.lines[d].amount
    <3>1. OneReceiptPerLine(j, W)
      BY <1>1, <1>2, <1>3, LinesAreReceipts
    <3> QED
      BY <1>4, <1>5, <3>1 DEF OneReceiptPerLine, FilledLines
  <2>2. \A d \in D : f[d] \in Int /\ g[h[d]] = f[d]
    BY <1>8, <1>11, <2>1
  <2> QED
    BY <1>12, <2>1, <2>2, SumRenamed
<1>15. SumOf(W, T) = SumFunctionOnSet(g, T)
  BY <1>8 DEF SumOf, SumFunction
<1>16. /\ transfers'[j.target] = Header(j)
       /\ receipts' = W
  BY <1>1, <1>3, <1>9 DEF CommitSave, TInv, TypeOK, Transfers
<1>17. Header(j).amount = SumFunctionOnSet(f, Docs)
  BY <1>2, <1>7 DEF Header
<1> QED
  BY <1>1, <1>5, <1>13, <1>14, <1>15, <1>16, <1>17

\* After a save that nothing disturbs, the receipts of a payment add up to its
\* amount, whatever rows its form kept, moved, dropped and added.
THEOREM SavesBalance == Spec => SaveBalances
<1>1. TInv /\ [Next]_vars =>
         [\A p \in Procs :
             Undisturbed(p) /\ CommitSave(p) /\ job[p].type = "payment" =>
                LET t == job[p].target IN
                transfers'[t].amount = SumOf(receipts', ActiveOf(receipts', t))]_vars
  BY PaymentBalances
<1> QED
  BY <1>1, InitTypes, NextTypes, PTL DEF Spec, SaveBalances

=============================================================================
