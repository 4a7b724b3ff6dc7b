--------------------- MODULE QuotationAcceptanceProofs ---------------------
(***************************************************************************)
(* Proofs about QuotationAcceptance, for any number of requests, products, *)
(* prices and lines: the stamps of an acceptance tell the truth, once      *)
(* acceptance has started nothing but acceptance finishes it, no product   *)
(* is repeated in the catalog unless saves overlap, the merge keeps the    *)
(* rest of the catalog, and undisturbed the order request has exactly the  *)
(* lines of the quotation.                                                 *)
(*                                                                         *)
(* And about PagedLists, the lists the books are read by.                  *)
(***************************************************************************)
EXTENDS QuotationAcceptance, PagedLists, FiniteSetTheorems, WellFoundedInduction, TLAPS

\* What a request keeps has the shape of its phase.  The sets it holds (forms,
\* views, lines) are not looked into.
AcceptShape(j) ==
    j \in [n : {j.n}, late : BOOLEAN, quotation : Quotation, form : {j.form},
           seen : {j.seen}, view : {j.view}, lines : {j.lines}]

\* An acceptance has read no stamp that is not there; it is past a step only if
\* the step is done, and before the first only if it found it not done, which an
\* acceptance that came late did not.  The order request it is about to create has
\* a line.
AcceptOK(q) ==
    phase[q] \in AcceptPhases =>
        /\ AcceptShape(job[q])
        /\ job[q].quotation.account_products_updated_at
              => quotation.account_products_updated_at
        /\ job[q].quotation.order_request_completed_at
              => quotation.order_request_completed_at
        /\ phase[q] \in {"pedido", "pedido_commit", "mark"}
              => quotation.account_products_updated_at
        /\ phase[q] = "mark" => quotation.order_request_completed_at
        /\ phase[q] \in {"merge", "catalog_tx", "catalog_commit"}
              => ~job[q].quotation.account_products_updated_at
        /\ job[q].late => job[q].quotation.account_products_updated_at
        /\ phase[q] = "pedido_commit" => job[q].lines # {}

\* An ordinary write has passed the lock, and never sets Aceptada.
OrdinaryOK(q) ==
    phase[q] \in OrdinaryPhases =>
        /\ job[q].late = FALSE
        /\ phase[q] = "status_write" => job[q].status \in Statuses \ {"Aceptada"}

RequestOK(q) == AcceptOK(q) /\ OrdinaryOK(q)

AllPhases == {"idle"} \cup AcceptPhases \cup OrdinaryPhases \cup AccountPhases

IInv ==
    /\ quotation \in Quotation
    /\ phase \in [Procs -> AllPhases]
    /\ DOMAIN job = Procs
    /\ \A q \in Procs : phase[q] = "idle" => job[q] = NoJob
    /\ StepsInOrder
    /\ \A q \in Procs : RequestOK(q)

----------------------------------------------------------------------------

\* A step of p that clears no stamp leaves what is known of the other requests.
LEMMA OthersKept ==
    ASSUME IInv, NEW p \in Procs, NEW ph \in AllPhases, NEW j,
           phase' = [phase EXCEPT ![p] = ph],
           job' = [job EXCEPT ![p] = j],
           quotation.account_products_updated_at => quotation'.account_products_updated_at,
           quotation.order_request_completed_at => quotation'.order_request_completed_at
    PROVE  /\ phase' \in [Procs -> AllPhases]
           /\ DOMAIN job' = Procs
           /\ phase'[p] = ph /\ job'[p] = j
           /\ \A q \in Procs \ {p} : /\ RequestOK(q)'
                                     /\ phase'[q] = "idle" => job'[q] = NoJob
  <1>1. phase' \in [Procs -> AllPhases] /\ DOMAIN job' = Procs /\ phase'[p] = ph /\ job'[p] = j
    BY DEF IInv
  <1>2. \A q \in Procs \ {p} : phase'[q] = phase[q] /\ job'[q] = job[q]
    BY DEF IInv
  <1>3. ASSUME NEW q \in Procs \ {p}
        PROVE  RequestOK(q)' /\ (phase'[q] = "idle" => job'[q] = NoJob)
    BY <1>2, <1>3 DEF IInv, RequestOK, AcceptOK, OrdinaryOK
  <1> QED
    BY <1>1, <1>3

\* So a step keeps IInv if what it leaves of its own request and of the quotation
\* is right.
LEMMA StepKeeps ==
    ASSUME IInv, NEW p \in Procs, NEW ph \in AllPhases, NEW j,
           phase' = [phase EXCEPT ![p] = ph],
           job' = [job EXCEPT ![p] = j],
           ph = "idle" => j = NoJob,
           quotation' \in Quotation,
           quotation.account_products_updated_at => quotation'.account_products_updated_at,
           quotation.order_request_completed_at => quotation'.order_request_completed_at,
           StepsInOrder',
           RequestOK(p)'
    PROVE  IInv'
  <1>1. /\ phase' \in [Procs -> AllPhases]
        /\ DOMAIN job' = Procs
        /\ phase'[p] = ph /\ job'[p] = j
        /\ \A q \in Procs \ {p} : /\ RequestOK(q)'
                                  /\ phase'[q] = "idle" => job'[q] = NoJob
    BY OthersKept
  <1> QED
    BY <1>1 DEF IInv

\* A step that ends its request and changes no stamp.
LEMMA EndKeeps ==
    ASSUME IInv, NEW p \in Procs, Done(p),
           quotation' \in Quotation,
           quotation.account_products_updated_at => quotation'.account_products_updated_at,
           quotation.order_request_completed_at => quotation'.order_request_completed_at,
           StepsInOrder'
    PROVE  IInv'
  <1>1. phase' = [phase EXCEPT ![p] = "idle"] /\ job' = [job EXCEPT ![p] = NoJob]
    BY DEF Done, Goto
  <1>2. phase'[p] = "idle"
    BY <1>1 DEF IInv
  <1>3. RequestOK(p)'
    BY <1>2 DEF RequestOK, AcceptOK, OrdinaryOK, AcceptPhases, OrdinaryPhases
  <1> QED
    BY <1>1, <1>3, StepKeeps DEF AllPhases

\* A step that reads, or starts a request, and lands in phase ph with j.
LEMMA ReadKeeps ==
    ASSUME IInv, NEW p \in Procs, NEW ph \in AllPhases \ {"idle"}, NEW j,
           phase' = [phase EXCEPT ![p] = ph],
           job' = [job EXCEPT ![p] = j],
           UNCHANGED <<quotation, pedido>>,
           RequestOK(p)'
    PROVE  IInv'
  <1>1. StepsInOrder' /\ quotation' \in Quotation
    BY DEF IInv, StepsInOrder
  <1>2. ph = "idle" => j = NoJob
    OBVIOUS
  <1> QED
    BY <1>1, <1>2, StepKeeps

\* A request that starts in an ordinary phase.
LEMMA OrdinaryStarts ==
    ASSUME IInv, NEW p \in Procs, NEW ph \in OrdinaryPhases, NEW j,
           Start(p, ph, j),
           j.late = FALSE,
           ph = "status_write" => j.status \in Statuses \ {"Aceptada"}
    PROVE  IInv'
  <1>1. /\ phase' = [phase EXCEPT ![p] = ph] /\ job' = [job EXCEPT ![p] = j]
        /\ UNCHANGED <<quotation, pedido>>
    BY DEF Start, dataVars
  <1>2. phase'[p] = ph /\ job'[p] = j
    BY <1>1 DEF IInv
  <1>3. RequestOK(p)'
    BY <1>2 DEF RequestOK, AcceptOK, OrdinaryOK, AcceptPhases, OrdinaryPhases
  <1>4. ph \in AllPhases \ {"idle"}
    BY DEF AllPhases, OrdinaryPhases
  <1> QED
    BY <1>1, <1>3, <1>4, ReadKeeps

\* A request that passes the lock does not come late: the lock knows of every
\* way in which acceptance may have started.
LEMMA LockedOut ==
    ASSUME ~HasAcceptanceStarted(quotation)
    PROVE  Late = FALSE
  BY DEF HasAcceptanceStarted, Late, AcceptanceStarted

----------------------------------------------------------------------------

LEMMA InitIInv == Init => IInv
  BY DEF Init, IInv, StepsInOrder, RequestOK, AcceptOK, OrdinaryOK, AcceptPhases,
         OrdinaryPhases, AllPhases, Quotation, Statuses

\* The acceptance, one step per action.
LEMMA AcceptKeeps ==
    ASSUME IInv, NEW p \in Procs, Accept(p)
    PROVE  IInv'
  <1> USE DEF AcceptPhases
  <1>1. CASE BeginAccept(p)
    <2> DEFINE j == [n |-> started + 1, late |-> Late, quotation |-> quotation,
                     form |-> {}, seen |-> {}, view |-> {}, lines |-> {}]
    <2>1. /\ phase' = [phase EXCEPT ![p] = "check"] /\ job' = [job EXCEPT ![p] = j]
          /\ UNCHANGED <<quotation, pedido>>
      BY <1>1 DEF BeginAccept, Start, dataVars
    <2>2. phase'[p] = "check" /\ job'[p] = j
      BY <2>1 DEF IInv
    <2>3. j.late \in BOOLEAN /\ (j.late => quotation.account_products_updated_at)
      BY DEF Late, AcceptanceStarted, IInv, StepsInOrder, Quotation
    <2>4. AcceptShape(j)
      BY <2>3 DEF AcceptShape, IInv
    <2>5. RequestOK(p)'
      BY <2>1, <2>2, <2>3, <2>4 DEF RequestOK, AcceptOK, OrdinaryOK, OrdinaryPhases, AcceptShape
    <2> QED
      BY <2>1, <2>5, ReadKeeps DEF AllPhases
  <1>2. CASE CheckAcceptance(p)
    <2> DEFINE ph == NextStep(job[p].quotation)
    <2>1. /\ phase' = [phase EXCEPT ![p] = ph] /\ job' = [job EXCEPT ![p] = job[p]]
          /\ UNCHANGED <<quotation, pedido>> /\ phase[p] = "check"
      BY <1>2 DEF CheckAcceptance, Goto, dataVars
    <2>2. AcceptShape(job[p]) /\ AcceptOK(p)
      BY <2>1 DEF IInv, RequestOK, AcceptOK
    <2>3. ph \in {"merge", "pedido", "mark"}
      BY <2>2 DEF NextStep, AcceptShape, Quotation
    <2>4. phase'[p] = ph /\ job'[p] = job[p]
      BY <2>1 DEF IInv
    <2>5. /\ ph = "merge" => ~job[p].quotation.account_products_updated_at
          /\ ph \in {"pedido", "mark"} => quotation.account_products_updated_at
          /\ ph = "mark" => quotation.order_request_completed_at
      BY <2>1, <2>2 DEF NextStep, AcceptShape, AcceptOK, Quotation
    <2>6. RequestOK(p)'
      BY <2>1, <2>2, <2>3, <2>4, <2>5 DEF RequestOK, AcceptOK, OrdinaryOK, OrdinaryPhases
    <2> QED
      BY <2>1, <2>3, <2>6, ReadKeeps DEF AllPhases
  <1>3. CASE MergeCatalog(p)
    <2> DEFINE j == [job[p] EXCEPT !.form = Merged(lines, catalog), !.seen = catalog]
    <2>1. /\ phase' = [phase EXCEPT ![p] = "catalog_tx"] /\ job' = [job EXCEPT ![p] = j]
          /\ UNCHANGED <<quotation, pedido>> /\ phase[p] = "merge"
      BY <1>3 DEF MergeCatalog, Goto, dataVars
    <2>2. AcceptShape(job[p]) /\ AcceptOK(p)
      BY <2>1 DEF IInv, RequestOK, AcceptOK
    <2>3. AcceptShape(j) /\ j.quotation = job[p].quotation /\ j.late = job[p].late
      BY <2>2 DEF AcceptShape
    <2>4. phase'[p] = "catalog_tx" /\ job'[p] = j
      BY <2>1 DEF IInv
    <2>5. RequestOK(p)'
      BY <2>1, <2>2, <2>3, <2>4 DEF RequestOK, AcceptOK, OrdinaryOK, OrdinaryPhases
    <2> QED
      BY <2>1, <2>5, ReadKeeps DEF AllPhases
  <1>4. CASE SnapshotCatalog(p, "catalog_tx", "catalog_commit")
    <2> DEFINE j == [job[p] EXCEPT !.view = CatalogIds]
    <2>1. /\ phase' = [phase EXCEPT ![p] = "catalog_commit"] /\ job' = [job EXCEPT ![p] = j]
          /\ UNCHANGED <<quotation, pedido>> /\ phase[p] = "catalog_tx"
      BY <1>4 DEF SnapshotCatalog, Goto, dataVars
    <2>2. AcceptShape(job[p]) /\ AcceptOK(p)
      BY <2>1 DEF IInv, RequestOK, AcceptOK
    <2>3. AcceptShape(j) /\ j.quotation = job[p].quotation /\ j.late = job[p].late
      BY <2>2 DEF AcceptShape
    <2>4. phase'[p] = "catalog_commit" /\ job'[p] = j
      BY <2>1 DEF IInv
    <2>5. RequestOK(p)'
      BY <2>1, <2>2, <2>3, <2>4 DEF RequestOK, AcceptOK, OrdinaryOK, OrdinaryPhases
    <2> QED
      BY <2>1, <2>5, ReadKeeps DEF AllPhases
  <1>5. CASE CommitCatalog(p)
    <2> DEFINE ph == IF job[p].quotation.order_request_completed_at THEN "mark" ELSE "pedido"
    <2>1. /\ phase' = [phase EXCEPT ![p] = ph] /\ job' = [job EXCEPT ![p] = job[p]]
          /\ quotation' = [quotation EXCEPT !.account_products_updated_at = TRUE]
          /\ pedido' = pedido /\ phase[p] = "catalog_commit"
      BY <1>5 DEF CommitCatalog, Goto
    <2>2. AcceptShape(job[p]) /\ AcceptOK(p)
      BY <2>1 DEF IInv, RequestOK, AcceptOK
    <2>3. /\ quotation' \in Quotation
          /\ quotation'.account_products_updated_at
          /\ quotation'.order_request_completed_at = quotation.order_request_completed_at
          /\ quotation'.status = quotation.status
      BY <2>1 DEF IInv, Quotation
    <2>4. StepsInOrder'
      BY <2>1, <2>3 DEF IInv, StepsInOrder
    <2>5. phase'[p] = ph /\ job'[p] = job[p]
      BY <2>1 DEF IInv
    <2>6. RequestOK(p)'
      BY <2>1, <2>2, <2>3, <2>5 DEF RequestOK, AcceptOK, OrdinaryOK, OrdinaryPhases
    <2> QED
      BY <2>1, <2>3, <2>4, <2>6, StepKeeps DEF AllPhases
  <1>6. CASE ReadPedido(p)
    <2> DEFINE j == [job[p] EXCEPT !.lines = Linked(lines)]
    <2>1. /\ phase' = [phase EXCEPT ![p] = "pedido_commit"] /\ job' = [job EXCEPT ![p] = j]
          /\ UNCHANGED <<quotation, pedido>> /\ phase[p] = "pedido"
      BY <1>6 DEF ReadPedido, Goto, dataVars
    <2>2. AcceptShape(job[p]) /\ AcceptOK(p)
      BY <2>1 DEF IInv, RequestOK, AcceptOK
    <2>3. AcceptShape(j) /\ j.quotation = job[p].quotation /\ j.late = job[p].late
      BY <2>2 DEF AcceptShape
    <2>4. phase'[p] = "pedido_commit" /\ job'[p] = j
      BY <2>1 DEF IInv
    <2>6. j.lines # {}
      BY <1>6, <2>2 DEF ReadPedido, CatalogAllows, AcceptShape
    <2>5. RequestOK(p)'
      BY <2>1, <2>2, <2>3, <2>4, <2>6 DEF RequestOK, AcceptOK, OrdinaryOK, OrdinaryPhases
    <2> QED
      BY <2>1, <2>5, ReadKeeps DEF AllPhases
  <1>7. CASE CommitPedido(p)
    <2>1. /\ phase' = [phase EXCEPT ![p] = "mark"] /\ job' = [job EXCEPT ![p] = job[p]]
          /\ quotation' = [quotation EXCEPT !.order_request_completed_at = TRUE]
          /\ pedido' = job[p].lines /\ phase[p] = "pedido_commit"
      BY <1>7 DEF CommitPedido, Goto
    <2>2. /\ AcceptShape(job[p]) /\ AcceptOK(p)
          /\ quotation.account_products_updated_at /\ job[p].lines # {}
      BY <2>1 DEF IInv, RequestOK, AcceptOK
    <2>3. /\ quotation' \in Quotation
          /\ quotation'.order_request_completed_at
          /\ quotation'.account_products_updated_at
          /\ quotation'.status = quotation.status
      BY <2>1, <2>2 DEF IInv, Quotation
    <2>4. StepsInOrder'
      BY <2>1, <2>2, <2>3 DEF IInv, StepsInOrder, NoPedido
    <2>5. phase'[p] = "mark" /\ job'[p] = job[p]
      BY <2>1 DEF IInv
    <2>6. RequestOK(p)'
      BY <2>1, <2>2, <2>3, <2>5 DEF RequestOK, AcceptOK, OrdinaryOK, OrdinaryPhases
    <2> QED
      BY <2>1, <2>3, <2>4, <2>6, StepKeeps DEF AllPhases
  <1>8. CASE MarkAccepted(p)
    <2>1. /\ Done(p) /\ phase[p] = "mark" /\ pedido' = pedido
          /\ quotation' = [quotation EXCEPT !.status = "Aceptada"]
      BY <1>8 DEF MarkAccepted
    <2>2. quotation.order_request_completed_at
      BY <2>1 DEF IInv, RequestOK, AcceptOK
    <2>3. /\ quotation' \in Quotation
          /\ quotation'.account_products_updated_at = quotation.account_products_updated_at
          /\ quotation'.order_request_completed_at = quotation.order_request_completed_at
      BY <2>1 DEF IInv, Quotation, Statuses
    <2>4. StepsInOrder'
      BY <2>1, <2>2, <2>3 DEF IInv, StepsInOrder
    <2> QED
      BY <2>1, <2>3, <2>4, EndKeeps
  <1> QED
    BY <1>1, <1>2, <1>3, <1>4, <1>5, <1>6, <1>7, <1>8 DEF Accept

\* The ordinary writes: none starts behind the lock, and none touches a stamp.
LEMMA OrdinaryKeeps ==
    ASSUME IInv, NEW p \in Procs, Ordinary(p)
    PROVE  IInv'
  <1> USE DEF OrdinaryPhases
  <1>1. ASSUME NEW s \in Statuses, BeginStatus(p, s)
        PROVE  IInv'
    <2> DEFINE j == [late |-> Late, status |-> s]
    <2>1. Start(p, "status_write", j) /\ s # "Aceptada" /\ Late = FALSE
      BY <1>1, LockedOut DEF BeginStatus
    <2>2. j.late = FALSE /\ j.status \in Statuses \ {"Aceptada"}
      BY <2>1
    <2> QED
      BY <2>1, <2>2, OrdinaryStarts
  <1>2. CASE WriteStatus(p)
    <2>1. /\ Done(p) /\ phase[p] = "status_write" /\ pedido' = pedido
          /\ quotation' = [quotation EXCEPT !.status = job[p].status]
      BY <1>2 DEF WriteStatus, OrdinaryWrite
    <2>2. job[p].status \in Statuses \ {"Aceptada"}
      BY <2>1 DEF IInv, RequestOK, OrdinaryOK
    <2>3. /\ quotation' \in Quotation
          /\ quotation'.status # "Aceptada"
          /\ quotation'.account_products_updated_at = quotation.account_products_updated_at
          /\ quotation'.order_request_completed_at = quotation.order_request_completed_at
      BY <2>1, <2>2 DEF IInv, Quotation
    <2>4. StepsInOrder'
      BY <2>1, <2>3 DEF IInv, StepsInOrder
    <2> QED
      BY <2>1, <2>3, <2>4, EndKeeps
  <1>3. ASSUME NEW form \in Forms, BeginEdit(p, form)
        PROVE  IInv'
    <2> DEFINE j == [late |-> Late, lines |-> form]
    <2>1. Start(p, "edit_commit", j) /\ IsEditable
      BY <1>3 DEF BeginEdit
    <2>2. Late = FALSE
      BY <2>1, LockedOut DEF IsEditable, Late
    <2>3. j.late = FALSE
      BY <2>2
    <2> QED
      BY <2>1, <2>3, OrdinaryStarts
  <1>4. ASSUME NEW l \in lines, NEW prod \in Products, BeginLink(p, l, prod)
        PROVE  IInv'
    <2> DEFINE j == [late |-> Late, line |-> l.id, product |-> prod]
    <2>1. Start(p, "link_write", j) /\ Late = FALSE
      BY <1>4, LockedOut DEF BeginLink
    <2>2. j.late = FALSE
      BY <2>1
    <2> QED
      BY <2>1, <2>2, OrdinaryStarts
  <1>5. CASE BeginDelete(p)
    <2> DEFINE j == [late |-> Late]
    <2>1. Start(p, "delete_lines", j) /\ IsEditable
      BY <1>5 DEF BeginDelete
    <2>2. Late = FALSE
      BY <2>1, LockedOut DEF IsEditable, Late
    <2>3. j.late = FALSE
      BY <2>2
    <2> QED
      BY <2>1, <2>3, OrdinaryStarts
  <1>6. CASE CommitEdit(p) \/ WriteLink(p)
    <2>1. Done(p) /\ UNCHANGED <<quotation, pedido>>
      BY <1>6 DEF CommitEdit, WriteLink, OrdinaryWrite
    <2>2. StepsInOrder' /\ quotation' \in Quotation
      BY <2>1 DEF IInv, StepsInOrder
    <2> QED
      BY <2>1, <2>2, EndKeeps
  <1>7. CASE DeleteLines(p)
    <2>1. /\ phase' = [phase EXCEPT ![p] = "delete_header"]
          /\ job' = [job EXCEPT ![p] = job[p]]
          /\ UNCHANGED <<quotation, pedido>> /\ phase[p] = "delete_lines"
      BY <1>7 DEF DeleteLines, Goto, OrdinaryWrite
    <2>2. phase'[p] = "delete_header" /\ job'[p] = job[p] /\ job[p].late = FALSE
      BY <2>1 DEF IInv, RequestOK, OrdinaryOK
    <2>3. RequestOK(p)'
      BY <2>2 DEF RequestOK, AcceptOK, OrdinaryOK, AcceptPhases
    <2> QED
      BY <2>1, <2>3, ReadKeeps DEF AllPhases
  <1>8. CASE DeleteHeader(p)
    <2>1. /\ Done(p) /\ pedido' = pedido
          /\ quotation' = [quotation EXCEPT !.active = FALSE]
      BY <1>8 DEF DeleteHeader, OrdinaryWrite
    <2>2. /\ quotation' \in Quotation
          /\ quotation'.status = quotation.status
          /\ quotation'.account_products_updated_at = quotation.account_products_updated_at
          /\ quotation'.order_request_completed_at = quotation.order_request_completed_at
      BY <2>1 DEF IInv, Quotation
    <2>3. StepsInOrder'
      BY <2>1, <2>2 DEF IInv, StepsInOrder
    <2> QED
      BY <2>1, <2>2, <2>3, EndKeeps
  <1> QED
    BY <1>1, <1>2, <1>3, <1>4, <1>5, <1>6, <1>7, <1>8 DEF Ordinary

\* A save of the account does not touch the quotation.
LEMMA AccountSaveKeeps ==
    ASSUME IInv, NEW p \in Procs, AccountSave(p)
    PROVE  IInv'
  <1>1. ASSUME NEW ph \in {"save_tx", "save_commit"}, NEW j,
               phase' = [phase EXCEPT ![p] = ph], job' = [job EXCEPT ![p] = j],
               UNCHANGED <<quotation, pedido>>
        PROVE  IInv'
    <2>1. phase'[p] = ph
      BY <1>1 DEF IInv
    <2>2. RequestOK(p)'
      BY <2>1 DEF RequestOK, AcceptOK, OrdinaryOK, AcceptPhases, OrdinaryPhases
    <2> QED
      BY <1>1, <2>2, ReadKeeps DEF AllPhases, AccountPhases
  <1>2. ASSUME NEW form \in AccountForms, BeginSave(p, form)
        PROVE  IInv'
    BY <1>1, <1>2 DEF BeginSave, Start, dataVars
  <1>3. CASE SnapshotCatalog(p, "save_tx", "save_commit")
    BY <1>1, <1>3 DEF SnapshotCatalog, Goto, dataVars
  <1>4. CASE CommitSave(p)
    <2>1. Done(p) /\ UNCHANGED <<quotation, pedido>>
      BY <1>4 DEF CommitSave
    <2>2. StepsInOrder' /\ quotation' \in Quotation
      BY <2>1 DEF IInv, StepsInOrder
    <2> QED
      BY <2>1, <2>2, EndKeeps
  <1> QED
    BY <1>2, <1>3, <1>4 DEF AccountSave

LEMMA AbortKeeps ==
    ASSUME IInv, NEW p \in Procs, Abort(p)
    PROVE  IInv'
  <1>1. Done(p) /\ UNCHANGED <<quotation, pedido>>
    BY DEF Abort, dataVars
  <1>2. StepsInOrder' /\ quotation' \in Quotation
    BY <1>1 DEF IInv, StepsInOrder
  <1> QED
    BY <1>1, <1>2, EndKeeps

LEMMA NextKeeps == IInv /\ [Next]_vars => IInv'
  <1> SUFFICES ASSUME IInv, [Next]_vars
               PROVE  IInv'
    OBVIOUS
  <1>1. CASE Next
    BY <1>1, AcceptKeeps, OrdinaryKeeps, AccountSaveKeeps, AbortKeeps DEF Next
  <1>2. CASE UNCHANGED vars
    BY <1>2 DEF vars, dataVars, IInv, StepsInOrder, RequestOK, AcceptOK, OrdinaryOK
  <1> QED
    BY <1>1, <1>2

LEMMA Invariance == Spec => []IInv
  BY InitIInv, NextKeeps, PTL DEF Spec

----------------------------------------------------------------------------

\* However acceptances, edits, saves and failures interleave, the two stamps and the
\* status of a quotation say exactly which steps of its acceptance are done.
THEOREM StampsTellTheTruth == Spec => []StepsInOrder
  <1>1. IInv => StepsInOrder
    BY DEF IInv
  <1> QED
    BY Invariance, <1>1, PTL

\* What a step of a late request may change: nothing but the stamps, the status
\* Aceptada and the first order request.
LateStep ==
    \A p \in Procs :
        StepOf(p) /\ job[p] # NoJob /\ job[p].late /\ phase[p] \notin AccountPhases =>
             /\ UNCHANGED <<lines, catalog>>
             /\ quotation'.active = quotation.active
             /\ quotation'.status \in {quotation.status, "Aceptada"}
             /\ pedido # NoPedido => pedido' = pedido

\* A step belongs to one request: the one whose phase it changes.
LEMMA OneRequestSteps ==
    ASSUME NEW p, NEW ph, NEW q \in DOMAIN phase,
           phase' = [phase EXCEPT ![p] = ph], StepOf(q)
    PROVE  q = p
  BY DEF StepOf

LEMMA LateSteps == IInv /\ [Next]_vars => LateStep
  <1> SUFFICES ASSUME IInv, [Next]_vars, NEW q \in Procs,
                      StepOf(q), job[q] # NoJob, job[q].late,
                      phase[q] \notin AccountPhases
               PROVE  /\ UNCHANGED <<lines, catalog>>
                      /\ quotation'.active = quotation.active
                      /\ quotation'.status \in {quotation.status, "Aceptada"}
                      /\ pedido # NoPedido => pedido' = pedido
    BY DEF LateStep
  <1>1. Next
    BY DEF vars, StepOf
  <1>2. PICK p \in Procs : Accept(p) \/ Ordinary(p) \/ AccountSave(p) \/ Abort(p)
    BY <1>1 DEF Next
  <1>3. \E ph : phase' = [phase EXCEPT ![p] = ph]
    BY <1>2 DEF Accept, Ordinary, AccountSave, Abort, BeginAccept, CheckAcceptance,
         MergeCatalog, SnapshotCatalog, CommitCatalog, ReadPedido, CommitPedido,
         MarkAccepted, BeginStatus, WriteStatus, BeginEdit, CommitEdit, BeginLink,
         WriteLink, BeginDelete, DeleteLines, DeleteHeader, BeginSave, CommitSave,
         Start, Goto, Done
  <1>4. q = p
    BY <1>3, OneRequestSteps DEF IInv
  <1>5. phase[p] \in AcceptPhases
    BY <1>4 DEF IInv, AllPhases, RequestOK, OrdinaryOK
  <1>6. /\ phase[p] \notin {"merge", "catalog_tx", "catalog_commit"}
        /\ quotation \in Quotation
    BY <1>4, <1>5 DEF IInv, RequestOK, AcceptOK
  <1>7. CASE Accept(p)
    BY <1>5, <1>6, <1>7 DEF Accept, AcceptPhases, BeginAccept, CheckAcceptance,
         MergeCatalog, SnapshotCatalog, CommitCatalog, ReadPedido, CommitPedido,
         MarkAccepted, Start, dataVars, Quotation
  <1>8. CASE Ordinary(p)
    BY <1>5, <1>8 DEF Ordinary, AcceptPhases, BeginStatus, WriteStatus, BeginEdit,
         CommitEdit, BeginLink, WriteLink, BeginDelete, DeleteLines, DeleteHeader, Start
  <1>9. CASE AccountSave(p)
    BY <1>5, <1>9 DEF AccountSave, AcceptPhases, BeginSave, SnapshotCatalog, CommitSave, Start
  <1>10. CASE Abort(p)
    BY <1>10 DEF Abort, dataVars
  <1> QED
    BY <1>2, <1>7, <1>8, <1>9, <1>10

\* Once acceptance of a live quotation has started, no request that comes later
\* edits, deletes or re-opens the quotation, writes the catalog a second time or
\* creates a second order request.
THEOREM AcceptanceIsLocked == Spec => OnlyAcceptanceFinishes
  <1>1. IInv /\ [Next]_vars => [LateStep]_vars
    BY LateSteps
  <1>2. Spec => [][LateStep]_vars
    BY Invariance, <1>1, PTL DEF Spec
  <1> QED
    BY <1>2 DEF OnlyAcceptanceFinishes, LateStep

----------------------------------------------------------------------------
(* Types *)

\* What a request holds in phase ph is of the kind of its phase.
JobFits(ph, j) ==
    /\ ph = "idle" => j = NoJob
    /\ ph \in AcceptPhases => j \in AcceptJob
    /\ ph \in AccountPhases => j \in SaveJob
    /\ ph = "status_write" => j \in [late : BOOLEAN, status : Statuses]
    /\ ph = "edit_commit" => j \in [late : BOOLEAN, lines : SUBSET Line]
    /\ ph = "link_write" => j \in [late : BOOLEAN, line : Serials, product : Products]
    /\ ph \in {"delete_lines", "delete_header"} => j \in [late : BOOLEAN]

DataTypes ==
    /\ quotation \in Quotation
    /\ lines \subseteq Line
    /\ catalog \subseteq Row
    /\ pedido \subseteq Line
    /\ started \in Serials
    /\ overlapped \in BOOLEAN /\ disturbed \in BOOLEAN

TInv ==
    /\ DataTypes
    /\ phase \in [Procs -> AllPhases]
    /\ DOMAIN job = Procs
    /\ \A q \in Procs : JobFits(phase[q], job[q])

LEMMA TInvTypes == TInv => TypeOK
  <1> SUFFICES ASSUME TInv PROVE TypeOK
    OBVIOUS
  <1>1. ASSUME NEW q \in Procs
        PROVE  CASE phase[q] = "idle" -> job[q] = NoJob
                 [] phase[q] \in AcceptPhases -> job[q] \in AcceptJob
                 [] phase[q] \in OrdinaryPhases -> job[q] \in OrdinaryJob
                 [] phase[q] \in AccountPhases -> job[q] \in SaveJob
    <2> DEFINE ph == phase[q]
               j == job[q]
    <2>1. JobFits(ph, j) /\ ph \in AllPhases
      BY <1>1 DEF TInv
    <2> HIDE DEF ph, j
    <2>2. CASE ph = "idle"
      <3>1. j = NoJob /\ ph \notin AcceptPhases /\ ph \notin OrdinaryPhases /\ ph \notin AccountPhases
        BY <2>1, <2>2 DEF JobFits, AcceptPhases, OrdinaryPhases, AccountPhases
      <3> QED
        BY <2>2, <3>1 DEF ph, j
    <2>3. CASE ph \in AcceptPhases
      <3>1. j \in AcceptJob /\ ph # "idle" /\ ph \notin OrdinaryPhases /\ ph \notin AccountPhases
        BY <2>1, <2>3 DEF JobFits, AcceptPhases, OrdinaryPhases, AccountPhases
      <3> QED
        BY <2>3, <3>1 DEF ph, j
    <2>4. CASE ph \in OrdinaryPhases
      <3>1. j \in OrdinaryJob /\ ph # "idle" /\ ph \notin AcceptPhases /\ ph \notin AccountPhases
        BY <2>1, <2>4 DEF JobFits, AcceptPhases, OrdinaryPhases, AccountPhases, OrdinaryJob
      <3> QED
        BY <2>4, <3>1 DEF ph, j
    <2>5. CASE ph \in AccountPhases
      <3>1. j \in SaveJob /\ ph # "idle" /\ ph \notin AcceptPhases /\ ph \notin OrdinaryPhases
        BY <2>1, <2>5 DEF JobFits, AcceptPhases, OrdinaryPhases, AccountPhases
      <3> QED
        BY <2>5, <3>1 DEF ph, j
    <2>6. \/ ph = "idle" \/ ph \in AcceptPhases \/ ph \in OrdinaryPhases \/ ph \in AccountPhases
      BY <2>1 DEF AllPhases
    <2> QED
      BY <2>2, <2>3, <2>4, <2>5, <2>6
  <1> QED
    BY <1>1 DEF TInv, DataTypes, TypeOK, AllPhases

\* Of finitely many ids one is the largest.
LEMMA LargestId ==
    ASSUME NEW T \in SUBSET Serials, T # {}
    PROVE  \E m \in T : \A k \in T : k <= m
  <1> DEFINE R == OpToRel(<, Nat)
             D == {MaxRequests - i : i \in T}
  <1>1. \A i \in T : i \in Nat /\ MaxRequests - i \in Nat
    BY AcceptanceBounds DEF Serials
  <1>2. D \subseteq Nat /\ D # {}
    BY <1>1
  <1>3. PICK d \in D : \A e \in D : ~(<<e, d>> \in R)
    <2> HIDE DEF D
    <2> QED
      BY <1>2, NatLessThanWellFounded, WFMin
  <1>4. PICK m \in T : d = MaxRequests - m
    BY <1>3
  <1>5. ASSUME NEW k \in T
        PROVE  k <= m
    <2>1. ~(MaxRequests - k < MaxRequests - m)
      BY <1>1, <1>3, <1>4 DEF OpToRel
    <2> QED
      BY <1>1, <2>1, AcceptanceBounds
  <1> QED
    BY <1>5

\* A quoted product has a price: that of one of its lines.
LEMMA QuotedPriceType ==
    ASSUME NEW ls \in SUBSET Line, NEW prod \in QuotedProducts(ls)
    PROVE  prod \in Products /\ QuotedPrice(ls, prod) \in Prices
  <1> DEFINE T == {l.id : l \in {k \in ls : k.product = prod}}
             P(l) == l.product = prod /\ \A k \in ls : k.product = prod => k.id <= l.id
  <1>1. PICK l0 \in ls : l0.product = prod /\ prod # NoProduct
    BY DEF QuotedProducts, Linked
  <1>2. \A l \in ls : l.id \in Serials /\ l.price \in Prices /\ l.product \in Products \cup {NoProduct}
    BY DEF Line
  <1>3. T \in SUBSET Serials /\ T # {}
    BY <1>1, <1>2
  <1>4. PICK m \in T : \A k \in T : k <= m
    <2> HIDE DEF T
    <2> QED
      BY <1>3, LargestId
  <1>5. \E l \in ls : P(l)
    BY <1>4
  <1>6. (CHOOSE l \in ls : P(l)) \in ls
    BY <1>5
  <1> QED
    BY <1>1, <1>2, <1>6 DEF QuotedPrice

\* The merged form is an account form, and names each product of its rows.
LEMMA MergedType ==
    ASSUME NEW ls \in SUBSET Line, NEW rows \in SUBSET Row
    PROVE  Merged(ls, rows) \in SUBSET FormRow
  <1>1. Added(ls, rows) \subseteq FormRow
    BY QuotedPriceType DEF Added, FormRow
  <1>2. \A r \in Row : r \in FormRow
    BY DEF Row, FormRow
  <1>3. Repriced(ls, rows) \subseteq FormRow
    <2>1. ASSUME NEW r \in rows, r.product \in QuotedProducts(ls)
          PROVE  [r EXCEPT !.price = QuotedPrice(ls, r.product)] \in FormRow
      BY <2>1, QuotedPriceType DEF Row, FormRow
    <2> QED
      BY <2>1 DEF Repriced
  <1> QED
    BY <1>1, <1>2, <1>3 DEF Merged

LEMMA SyncedType ==
    ASSUME catalog \subseteq Row, NEW form \in SUBSET FormRow, NEW view \in SUBSET RowIds,
           NEW n \in Serials
    PROVE  Synced(form, view, n) \subseteq Row
  <1>1. Unseen(view) \subseteq Row
    BY DEF Unseen
  <1>2. Kept(form, view) \subseteq Row
    BY DEF Kept, FormRow, Row, RowIds
  <1>3. \A r \in FormRow : [r EXCEPT !.serial = n] \in Row
    BY DEF FormRow, Row
  <1>4. Created(form, view, n) \subseteq Row
    BY <1>3 DEF Created
  <1> QED
    BY <1>1, <1>2, <1>4 DEF Synced

LEMMA FormsTypes ==
    ASSUME DataTypes, started < MaxRequests
    PROVE  /\ Forms \subseteq SUBSET Line
           /\ AccountForms \subseteq SUBSET FormRow
           /\ started + 1 \in Serials
  <1>1. started + 1 \in Serials
    BY AcceptanceBounds DEF DataTypes, Serials
  <1>2. Forms \subseteq SUBSET Line
    <2>1. [id : {started + 1}, product : Products \cup {NoProduct}, price : Prices] \subseteq Line
      BY <1>1 DEF Line
    <2>2. \A l \in lines :
             [id : {l.id}, product : Products \cup {NoProduct}, price : Prices] \subseteq Line
      BY DEF DataTypes, Line
    <2> QED
      BY <2>1, <2>2 DEF DataTypes, Forms
  <1>3. AccountForms \subseteq SUBSET FormRow
    <2>1. \A r \in Row : r \in FormRow
      BY DEF Row, FormRow
    <2>2. \A r \in catalog, c \in Prices : [r EXCEPT !.price = c] \in FormRow
      BY DEF DataTypes, Row, FormRow
    <2>3. [serial : {NoId}, product : Products, price : Prices] \subseteq FormRow
      BY DEF FormRow
    <2>4. catalog \subseteq FormRow
      BY <2>1 DEF DataTypes
    <2>5. ASSUME NEW form \in AccountForms
          PROVE  \/ \E r \in catalog : form = catalog \ {r}
                 \/ \E r \in catalog, c \in Prices :
                       form = (catalog \ {r}) \cup {[r EXCEPT !.price = c]}
                 \/ \E r \in [serial : {NoId}, product : Products, price : Prices] :
                       form = catalog \cup {r}
      BY <2>5 DEF AccountForms
    <2> QED
      BY <2>2, <2>3, <2>4, <2>5
  <1> QED
    BY <1>1, <1>2, <1>3

LEMMA TypeStep ==
    ASSUME TInv, NEW p \in Procs, NEW ph \in AllPhases, NEW j, JobFits(ph, j),
           phase' = [phase EXCEPT ![p] = ph], job' = [job EXCEPT ![p] = j], DataTypes'
    PROVE  TInv'
  <1>1. phase' \in [Procs -> AllPhases] /\ DOMAIN job' = Procs
    BY DEF TInv
  <1>2. \A q \in Procs : JobFits(phase'[q], job'[q])
    BY DEF TInv
  <1> QED
    BY <1>1, <1>2 DEF TInv

\* What a step does to its request: the phase it lands in, and what it holds there.
Lands(p, ph, j) == phase' = [phase EXCEPT ![p] = ph] /\ job' = [job EXCEPT ![p] = j]

LEMMA AcceptTypes ==
    ASSUME TInv, NEW p \in Procs, Accept(p)
    PROVE  TInv'
  <1> USE DEF AcceptPhases, AllPhases
  <1>0. DataTypes /\ JobFits(phase[p], job[p])
    BY DEF TInv
  <1>1. CASE BeginAccept(p)
    <2> DEFINE j == [n |-> started + 1, late |-> Late, quotation |-> quotation,
                     form |-> {}, seen |-> {}, view |-> {}, lines |-> {}]
    <2>1. /\ phase' = [phase EXCEPT ![p] = "check"] /\ job' = [job EXCEPT ![p] = j]
          /\ started < MaxRequests /\ started' = started + 1 /\ UNCHANGED <<dataVars, overlapped, disturbed>>
      BY <1>1 DEF BeginAccept, Start
    <2>2. started + 1 \in Serials
      BY <1>0, <2>1, FormsTypes
    <2>3. Late \in BOOLEAN
      BY DEF Late
    <2>4. j \in AcceptJob
      BY <1>0, <2>2, <2>3 DEF AcceptJob, DataTypes
    <2>5. JobFits("check", j) /\ DataTypes'
      BY <1>0, <2>1, <2>2, <2>4 DEF JobFits, DataTypes, dataVars, AccountPhases
    <2> QED
      BY <2>1, <2>5, TypeStep
  <1>2. CASE CheckAcceptance(p)
    <2> DEFINE ph == NextStep(job[p].quotation)
    <2>1. /\ phase' = [phase EXCEPT ![p] = ph] /\ job' = [job EXCEPT ![p] = job[p]]
          /\ phase[p] = "check" /\ UNCHANGED <<dataVars, overlapped, disturbed, started>>
      BY <1>2 DEF CheckAcceptance, Goto
    <2>2. job[p] \in AcceptJob
      BY <1>0, <2>1 DEF JobFits
    <2>3. ph \in {"merge", "pedido", "mark"}
      BY <2>2 DEF NextStep, AcceptJob, Quotation
    <2>4. JobFits(ph, job[p]) /\ DataTypes'
      BY <1>0, <2>1, <2>2, <2>3 DEF JobFits, DataTypes, dataVars, AccountPhases
    <2> QED
      BY <2>1, <2>3, <2>4, TypeStep
  <1>3. CASE MergeCatalog(p)
    <2> DEFINE j == [job[p] EXCEPT !.form = Merged(lines, catalog), !.seen = catalog]
    <2>1. /\ phase' = [phase EXCEPT ![p] = "catalog_tx"] /\ job' = [job EXCEPT ![p] = j]
          /\ phase[p] = "merge" /\ UNCHANGED <<dataVars, overlapped, disturbed, started>>
      BY <1>3 DEF MergeCatalog, Goto
    <2>2. job[p] \in AcceptJob /\ Merged(lines, catalog) \in SUBSET FormRow
      BY <1>0, <2>1, MergedType DEF JobFits, DataTypes
    <2>3. j \in AcceptJob
      BY <1>0, <2>2 DEF AcceptJob, DataTypes
    <2>4. JobFits("catalog_tx", j) /\ DataTypes'
      BY <1>0, <2>1, <2>3 DEF JobFits, DataTypes, dataVars, AccountPhases
    <2> QED
      BY <2>1, <2>4, TypeStep
  <1>4. CASE SnapshotCatalog(p, "catalog_tx", "catalog_commit")
    <2> DEFINE j == [job[p] EXCEPT !.view = CatalogIds]
    <2>1. /\ phase' = [phase EXCEPT ![p] = "catalog_commit"] /\ job' = [job EXCEPT ![p] = j]
          /\ phase[p] = "catalog_tx" /\ UNCHANGED <<dataVars, overlapped, disturbed, started>>
      BY <1>4 DEF SnapshotCatalog, Goto
    <2>2. job[p] \in AcceptJob /\ CatalogIds \in SUBSET RowIds
      BY <1>0, <2>1 DEF JobFits, DataTypes, CatalogIds, RowIds, Row
    <2>3. j \in AcceptJob
      BY <2>2 DEF AcceptJob
    <2>4. JobFits("catalog_commit", j) /\ DataTypes'
      BY <1>0, <2>1, <2>3 DEF JobFits, DataTypes, dataVars, AccountPhases
    <2> QED
      BY <2>1, <2>4, TypeStep
  <1>5. CASE CommitCatalog(p)
    <2> DEFINE ph == IF job[p].quotation.order_request_completed_at THEN "mark" ELSE "pedido"
    <2>1. /\ phase' = [phase EXCEPT ![p] = ph] /\ job' = [job EXCEPT ![p] = job[p]]
          /\ quotation' = [quotation EXCEPT !.account_products_updated_at = TRUE]
          /\ catalog' = Synced(job[p].form, job[p].view, job[p].n)
          /\ phase[p] = "catalog_commit" /\ UNCHANGED <<lines, pedido, disturbed, started>>
          /\ overlapped' = (overlapped \/ job[p].view # CatalogIds)
      BY <1>5 DEF CommitCatalog, SyncCatalog, Goto
    <2>2. job[p] \in AcceptJob
      BY <1>0, <2>1 DEF JobFits
    <2>3. catalog' \subseteq Row
      BY <1>0, <2>1, <2>2, SyncedType DEF AcceptJob, DataTypes
    <2>4. JobFits(ph, job[p])
      BY <2>2 DEF JobFits, AccountPhases
    <2>5. quotation' \in Quotation
      BY <1>0, <2>1 DEF DataTypes, Quotation
    <2>6. DataTypes'
      BY <1>0, <2>1, <2>3, <2>5 DEF DataTypes
    <2> QED
      BY <2>1, <2>4, <2>6, TypeStep
  <1>6. CASE ReadPedido(p)
    <2> DEFINE j == [job[p] EXCEPT !.lines = Linked(lines)]
    <2>1. /\ phase' = [phase EXCEPT ![p] = "pedido_commit"] /\ job' = [job EXCEPT ![p] = j]
          /\ phase[p] = "pedido" /\ UNCHANGED <<dataVars, overlapped, disturbed, started>>
      BY <1>6 DEF ReadPedido, Goto
    <2>2. job[p] \in AcceptJob /\ Linked(lines) \in SUBSET Line
      BY <1>0, <2>1 DEF JobFits, DataTypes, Linked
    <2>3. j \in AcceptJob
      BY <2>2 DEF AcceptJob
    <2>4. JobFits("pedido_commit", j) /\ DataTypes'
      BY <1>0, <2>1, <2>3 DEF JobFits, DataTypes, dataVars, AccountPhases
    <2> QED
      BY <2>1, <2>4, TypeStep
  <1>7. CASE CommitPedido(p)
    <2>1. /\ phase' = [phase EXCEPT ![p] = "mark"] /\ job' = [job EXCEPT ![p] = job[p]]
          /\ quotation' = [quotation EXCEPT !.order_request_completed_at = TRUE]
          /\ pedido' = job[p].lines /\ phase[p] = "pedido_commit"
          /\ UNCHANGED <<lines, catalog, overlapped, disturbed, started>>
      BY <1>7 DEF CommitPedido, Goto
    <2>2. job[p] \in AcceptJob
      BY <1>0, <2>1 DEF JobFits
    <2>3. pedido' \subseteq Line /\ quotation' \in Quotation
      BY <1>0, <2>1, <2>2 DEF AcceptJob, DataTypes, Quotation
    <2>4. JobFits("mark", job[p]) /\ DataTypes'
      BY <1>0, <2>1, <2>2, <2>3 DEF JobFits, DataTypes, AccountPhases
    <2> QED
      BY <2>1, <2>4, TypeStep
  <1>8. CASE MarkAccepted(p)
    <2>1. /\ phase' = [phase EXCEPT ![p] = "idle"] /\ job' = [job EXCEPT ![p] = NoJob]
          /\ quotation' = [quotation EXCEPT !.status = "Aceptada"]
          /\ UNCHANGED <<lines, catalog, pedido, overlapped, disturbed, started>>
      BY <1>8 DEF MarkAccepted, Done, Goto
    <2>2. quotation' \in Quotation
      BY <1>0, <2>1 DEF DataTypes, Quotation, Statuses
    <2>3. JobFits("idle", NoJob) /\ DataTypes'
      BY <1>0, <2>1, <2>2 DEF JobFits, DataTypes, AccountPhases
    <2> QED
      BY <2>1, <2>3, TypeStep
  <1> QED
    BY <1>1, <1>2, <1>3, <1>4, <1>5, <1>6, <1>7, <1>8 DEF Accept

\* A request that has just come.
LEMMA StartTypes ==
    ASSUME TInv, NEW p \in Procs, NEW ph \in AllPhases, NEW j, Start(p, ph, j), JobFits(ph, j)
    PROVE  TInv'
  <1>1. /\ phase' = [phase EXCEPT ![p] = ph] /\ job' = [job EXCEPT ![p] = j]
        /\ started < MaxRequests /\ started' = started + 1
        /\ UNCHANGED <<dataVars, overlapped, disturbed>>
    BY DEF Start
  <1>2. started + 1 \in Serials
    BY <1>1, FormsTypes DEF TInv
  <1>3. DataTypes'
    BY <1>1, <1>2 DEF TInv, DataTypes, dataVars
  <1> QED
    BY <1>1, <1>3, TypeStep

\* A request that ends.
LEMMA DoneTypes ==
    ASSUME TInv, NEW p \in Procs, Done(p), DataTypes'
    PROVE  TInv'
  <1>1. phase' = [phase EXCEPT ![p] = "idle"] /\ job' = [job EXCEPT ![p] = NoJob]
    BY DEF Done, Goto
  <1>2. JobFits("idle", NoJob)
    BY DEF JobFits, AcceptPhases, AccountPhases
  <1> QED
    BY <1>1, <1>2, TypeStep DEF AllPhases

LEMMA OrdinaryTypes ==
    ASSUME TInv, NEW p \in Procs, Ordinary(p)
    PROVE  TInv'
  <1> USE DEF OrdinaryPhases, AllPhases
  <1>0. DataTypes /\ JobFits(phase[p], job[p]) /\ Late \in BOOLEAN
    BY DEF TInv, Late
  <1>1. ASSUME NEW s \in Statuses, BeginStatus(p, s)
        PROVE  TInv'
    <2>1. JobFits("status_write", [late |-> Late, status |-> s])
      BY <1>0 DEF JobFits, AcceptPhases, AccountPhases
    <2> QED
      BY <1>1, <2>1, StartTypes DEF BeginStatus
  <1>2. CASE WriteStatus(p)
    <2>1. /\ Done(p) /\ phase[p] = "status_write"
          /\ quotation' = [quotation EXCEPT !.status = job[p].status]
          /\ UNCHANGED <<lines, catalog, pedido, overlapped, started>>
          /\ disturbed' = (disturbed \/ AcceptanceUnderWay)
      BY <1>2 DEF WriteStatus, OrdinaryWrite, Done, Goto
    <2>2. job[p].status \in Statuses
      BY <1>0, <2>1 DEF JobFits
    <2>3. quotation' \in Quotation
      BY <1>0, <2>1, <2>2 DEF DataTypes, Quotation
    <2>4. DataTypes'
      BY <1>0, <2>1, <2>3 DEF DataTypes, AcceptanceUnderWay
    <2> QED
      BY <2>1, <2>4, DoneTypes
  <1>3. ASSUME NEW form \in Forms, BeginEdit(p, form)
        PROVE  TInv'
    <2>1. form \in SUBSET Line
      BY <1>0, <1>3, FormsTypes DEF BeginEdit, Start
    <2>2. JobFits("edit_commit", [late |-> Late, lines |-> form])
      BY <1>0, <2>1 DEF JobFits, AcceptPhases, AccountPhases
    <2> QED
      BY <1>3, <2>2, StartTypes DEF BeginEdit
  <1>4. ASSUME NEW l \in lines, NEW prod \in Products, BeginLink(p, l, prod)
        PROVE  TInv'
    <2>1. l.id \in Serials
      BY <1>0 DEF DataTypes, Line
    <2>2. JobFits("link_write", [late |-> Late, line |-> l.id, product |-> prod])
      BY <1>0, <2>1 DEF JobFits, AcceptPhases, AccountPhases
    <2> QED
      BY <1>4, <2>2, StartTypes DEF BeginLink
  <1>5. CASE BeginDelete(p)
    <2>1. JobFits("delete_lines", [late |-> Late])
      BY <1>0 DEF JobFits, AcceptPhases, AccountPhases
    <2> QED
      BY <1>5, <2>1, StartTypes DEF BeginDelete
  <1>6. CASE CommitEdit(p)
    <2>1. /\ Done(p) /\ phase[p] = "edit_commit" /\ lines' = job[p].lines
          /\ UNCHANGED <<quotation, catalog, pedido, overlapped, started>>
          /\ disturbed' = (disturbed \/ AcceptanceUnderWay)
      BY <1>6 DEF CommitEdit, OrdinaryWrite, Done, Goto
    <2>2. lines' \subseteq Line
      BY <1>0, <2>1 DEF JobFits
    <2>3. DataTypes'
      BY <1>0, <2>1, <2>2 DEF DataTypes, AcceptanceUnderWay
    <2> QED
      BY <2>1, <2>3, DoneTypes
  <1>7. CASE WriteLink(p)
    <2>1. /\ Done(p) /\ phase[p] = "link_write"
          /\ lines' = {IF l.id = job[p].line THEN [l EXCEPT !.product = job[p].product] ELSE l :
                          l \in lines}
          /\ UNCHANGED <<quotation, catalog, pedido, overlapped, started>>
          /\ disturbed' = (disturbed \/ AcceptanceUnderWay)
      BY <1>7 DEF WriteLink, OrdinaryWrite, Done, Goto
    <2>2. job[p].product \in Products
      BY <1>0, <2>1 DEF JobFits
    <2>3. \A l \in Line : [l EXCEPT !.product = job[p].product] \in Line
      BY <2>2 DEF Line
    <2>4. lines' \subseteq Line
      BY <1>0, <2>1, <2>3 DEF DataTypes
    <2>5. DataTypes'
      BY <1>0, <2>1, <2>4 DEF DataTypes, AcceptanceUnderWay
    <2> QED
      BY <2>1, <2>5, DoneTypes
  <1>8. CASE DeleteLines(p)
    <2>1. /\ phase' = [phase EXCEPT ![p] = "delete_header"] /\ job' = [job EXCEPT ![p] = job[p]]
          /\ phase[p] = "delete_lines" /\ lines' = {}
          /\ UNCHANGED <<quotation, catalog, pedido, overlapped, started>>
          /\ disturbed' = (disturbed \/ AcceptanceUnderWay)
      BY <1>8 DEF DeleteLines, OrdinaryWrite, Goto
    <2>2. JobFits("delete_header", job[p])
      BY <1>0, <2>1 DEF JobFits, AcceptPhases, AccountPhases
    <2>3. DataTypes'
      BY <1>0, <2>1 DEF DataTypes, AcceptanceUnderWay
    <2> QED
      BY <2>1, <2>2, <2>3, TypeStep
  <1>9. CASE DeleteHeader(p)
    <2>1. /\ Done(p) /\ quotation' = [quotation EXCEPT !.active = FALSE]
          /\ UNCHANGED <<lines, catalog, pedido, overlapped, started>>
          /\ disturbed' = (disturbed \/ AcceptanceUnderWay)
      BY <1>9 DEF DeleteHeader, OrdinaryWrite, Done, Goto
    <2>2. quotation' \in Quotation
      BY <1>0, <2>1 DEF DataTypes, Quotation
    <2>3. DataTypes'
      BY <1>0, <2>1, <2>2 DEF DataTypes, AcceptanceUnderWay
    <2> QED
      BY <2>1, <2>3, DoneTypes
  <1> QED
    BY <1>1, <1>2, <1>3, <1>4, <1>5, <1>6, <1>7, <1>8, <1>9 DEF Ordinary

LEMMA AccountSaveTypes ==
    ASSUME TInv, NEW p \in Procs, AccountSave(p)
    PROVE  TInv'
  <1> USE DEF AccountPhases, AllPhases
  <1>0. DataTypes /\ JobFits(phase[p], job[p]) /\ Late \in BOOLEAN
    BY DEF TInv, Late
  <1>1. ASSUME NEW form \in AccountForms, BeginSave(p, form)
        PROVE  TInv'
    <2> DEFINE j == [n |-> started + 1, late |-> Late, form |-> form, view |-> {}]
    <2>1. form \in SUBSET FormRow /\ started + 1 \in Serials
      BY <1>0, <1>1, FormsTypes DEF BeginSave, Start
    <2>2. j \in SaveJob
      BY <1>0, <2>1 DEF SaveJob
    <2>3. JobFits("save_tx", j)
      BY <2>2 DEF JobFits, AcceptPhases
    <2> QED
      BY <1>1, <2>3, StartTypes DEF BeginSave
  <1>2. CASE SnapshotCatalog(p, "save_tx", "save_commit")
    <2> DEFINE j == [job[p] EXCEPT !.view = CatalogIds]
    <2>1. /\ phase' = [phase EXCEPT ![p] = "save_commit"] /\ job' = [job EXCEPT ![p] = j]
          /\ phase[p] = "save_tx" /\ UNCHANGED <<dataVars, overlapped, disturbed, started>>
      BY <1>2 DEF SnapshotCatalog, Goto
    <2>2. job[p] \in SaveJob /\ CatalogIds \in SUBSET RowIds
      BY <1>0, <2>1 DEF JobFits, DataTypes, CatalogIds, RowIds, Row
    <2>3. j \in SaveJob
      BY <2>2 DEF SaveJob
    <2>4. JobFits("save_commit", j) /\ DataTypes'
      BY <1>0, <2>1, <2>3 DEF JobFits, DataTypes, dataVars, AcceptPhases
    <2> QED
      BY <2>1, <2>4, TypeStep
  <1>3. CASE CommitSave(p)
    <2>1. /\ Done(p) /\ phase[p] = "save_commit"
          /\ catalog' = Synced(job[p].form, job[p].view, job[p].n)
          /\ overlapped' = (overlapped \/ job[p].view # CatalogIds)
          /\ UNCHANGED <<quotation, lines, pedido, disturbed, started>>
      BY <1>3 DEF CommitSave, SyncCatalog, Done, Goto
    <2>2. job[p] \in SaveJob
      BY <1>0, <2>1 DEF JobFits
    <2>3. catalog' \subseteq Row
      BY <1>0, <2>1, <2>2, SyncedType DEF SaveJob, DataTypes
    <2>4. DataTypes'
      BY <1>0, <2>1, <2>3 DEF DataTypes
    <2> QED
      BY <2>1, <2>4, DoneTypes
  <1> QED
    BY <1>1, <1>2, <1>3 DEF AccountSave

LEMMA InitTypes == Init => TInv
  <1> SUFFICES ASSUME Init PROVE TInv
    OBVIOUS
  <1>1. 0 \in Serials
    BY AcceptanceBounds DEF Serials
  <1>2. DataTypes
    BY <1>1 DEF Init, DataTypes, Quotation, Line, Row, Statuses, NoPedido
  <1>3. \A q \in Procs : JobFits(phase[q], job[q])
    BY DEF Init, JobFits, AcceptPhases, AccountPhases
  <1> QED
    BY <1>2, <1>3 DEF Init, TInv, AllPhases

LEMMA NextTypes == TInv /\ [Next]_vars => TInv'
  <1> SUFFICES ASSUME TInv, [Next]_vars
               PROVE  TInv'
    OBVIOUS
  <1>1. ASSUME NEW p \in Procs, Abort(p)
        PROVE  TInv'
    <2>1. Done(p) /\ UNCHANGED <<dataVars, overlapped, disturbed, started>>
      BY <1>1 DEF Abort, Done, Goto
    <2>2. DataTypes'
      BY <2>1 DEF TInv, DataTypes, dataVars
    <2> QED
      BY <2>1, <2>2, DoneTypes
  <1>2. CASE UNCHANGED vars
    BY <1>2 DEF vars, dataVars, TInv, DataTypes
  <1> QED
    BY <1>1, <1>2, AcceptTypes, OrdinaryTypes, AccountSaveTypes DEF Next

\* TypeOK (QuotationAcceptance): the quotation, its lines, the catalog, the order
\* request and what the requests hold are always of their kinds; a quoted product has
\* a price, and a merged form is a form of the account.
THEOREM AcceptanceTypes == Spec => []TypeOK
  BY InitTypes, NextTypes, TInvTypes, PTL DEF Spec

----------------------------------------------------------------------------
(* The catalog *)

\* A form that is about to be saved names each product once.
FormOK(q) ==
    phase[q] \in {"catalog_tx", "catalog_commit", "save_tx", "save_commit"}
        => UniqueProducts(job[q].form)

FormsInv == RepeatsNeedOverlap /\ \A q \in Procs : FormOK(q)

\* Where a row of a saved catalog comes from, when nobody has written since the
\* snapshot: from the one row of the form with its product.
LEMMA SyncedRow ==
    ASSUME TInv, NEW form \in SUBSET FormRow, NEW n \in Serials,
           NEW x \in Synced(form, CatalogIds, n)
    PROVE  \E r \in form :
              /\ x.product = r.product /\ x.price = r.price
              /\ IF <<r.serial, r.product>> \in CatalogIds THEN x = r
                                                           ELSE x = [r EXCEPT !.serial = n]
  <1>1. Unseen(CatalogIds) = {}
    BY DEF Unseen, CatalogIds
  <1>2. CASE x \in Kept(form, CatalogIds)
    BY <1>2 DEF Kept
  <1>3. CASE x \in Created(form, CatalogIds, n)
    <2>1. PICK r \in form \ Kept(form, CatalogIds) : x = [r EXCEPT !.serial = n]
      BY <1>3 DEF Created
    <2>2. r \in FormRow /\ <<r.serial, r.product>> \notin CatalogIds
      BY <2>1 DEF Kept
    <2>3. x.product = r.product /\ x.price = r.price
      BY <2>1, <2>2 DEF FormRow
    <2> QED
      BY <2>1, <2>2, <2>3
  <1> QED
    BY <1>1, <1>2, <1>3 DEF Synced

LEMMA SyncUnique ==
    ASSUME TInv, NEW form \in SUBSET FormRow, NEW n \in Serials, UniqueProducts(form)
    PROVE  UniqueProducts(Synced(form, CatalogIds, n))
  <1> SUFFICES ASSUME NEW x \in Synced(form, CatalogIds, n), NEW y \in Synced(form, CatalogIds, n),
                      x.product = y.product
               PROVE  x = y
    BY DEF UniqueProducts
  <1>1. PICK r \in form :
          /\ x.product = r.product
          /\ IF <<r.serial, r.product>> \in CatalogIds THEN x = r ELSE x = [r EXCEPT !.serial = n]
    BY SyncedRow
  <1>2. PICK s \in form :
          /\ y.product = s.product
          /\ IF <<s.serial, s.product>> \in CatalogIds THEN y = s ELSE y = [s EXCEPT !.serial = n]
    BY SyncedRow
  <1>3. r = s
    BY <1>1, <1>2 DEF UniqueProducts
  <1> QED
    BY <1>1, <1>2, <1>3

\* A save keeps the catalog free of repeats, unless another has come between.
LEMMA SaveUnique ==
    ASSUME TInv, RepeatsNeedOverlap, NEW p \in Procs, SyncCatalog(p),
           job[p].form \in SUBSET FormRow, job[p].n \in Serials, UniqueProducts(job[p].form)
    PROVE  RepeatsNeedOverlap'
  <1>1. CASE job[p].view = CatalogIds
    <2>1. catalog' = Synced(job[p].form, CatalogIds, job[p].n)
      BY <1>1 DEF SyncCatalog
    <2>2. UniqueProducts(catalog')
      BY <2>1, SyncUnique
    <2> QED
      BY <2>2 DEF RepeatsNeedOverlap
  <1>2. CASE job[p].view # CatalogIds
    BY <1>2 DEF SyncCatalog, RepeatsNeedOverlap
  <1> QED
    BY <1>1, <1>2

LEMMA FormsKept ==
    ASSUME TInv, FormsInv, NEW p \in Procs, NEW ph \in AllPhases, NEW j,
           Lands(p, ph, j), RepeatsNeedOverlap',
           ph \in {"catalog_tx", "catalog_commit", "save_tx", "save_commit"}
              => UniqueProducts(j.form)
    PROVE  FormsInv'
  <1>1. \A q \in Procs : FormOK(q)'
    BY DEF TInv, FormsInv, FormOK, Lands
  <1> QED
    BY <1>1 DEF FormsInv

LEMMA FormsStep == TInv /\ FormsInv /\ [Next]_vars => FormsInv'
  <1> SUFFICES ASSUME TInv, FormsInv, [Next]_vars
               PROVE  FormsInv'
    OBVIOUS
  <1> USE DEF AllPhases, AcceptPhases, OrdinaryPhases, AccountPhases
  <1>1. RepeatsNeedOverlap /\ (UNCHANGED <<catalog, overlapped>> => RepeatsNeedOverlap')
    BY DEF FormsInv, RepeatsNeedOverlap
  <1>2. ASSUME NEW p \in Procs, Accept(p)
        PROVE  FormsInv'
    <2>1. CASE BeginAccept(p)
      <3>1. \E j : Lands(p, "check", j) /\ UNCHANGED <<catalog, overlapped>>
        BY <2>1 DEF BeginAccept, Start, Lands, dataVars
      <3> QED
        BY <1>1, <3>1, FormsKept
    <2>2. CASE CheckAcceptance(p)
      <3> DEFINE ph == NextStep(job[p].quotation)
      <3>1. Lands(p, ph, job[p]) /\ UNCHANGED <<catalog, overlapped>> /\ phase[p] = "check"
        BY <2>2 DEF CheckAcceptance, Goto, Lands, dataVars
      <3>2. job[p] \in AcceptJob
        BY <3>1 DEF TInv, JobFits
      <3>3. ph \in {"merge", "pedido", "mark"}
        BY <3>2 DEF NextStep, AcceptJob, Quotation
      <3> HIDE DEF ph
      <3> QED
        BY <1>1, <3>1, <3>3, FormsKept
    <2>3. CASE MergeCatalog(p)
      <3> DEFINE j == [job[p] EXCEPT !.form = Merged(lines, catalog), !.seen = catalog]
      <3>1. /\ Lands(p, "catalog_tx", j) /\ UNCHANGED <<catalog, overlapped>>
            /\ phase[p] = "merge" /\ UniqueProducts(Merged(lines, catalog))
        BY <2>3 DEF MergeCatalog, Goto, Lands, dataVars
      <3>2. job[p] \in AcceptJob
        BY <3>1 DEF TInv, JobFits
      <3>3. j.form = Merged(lines, catalog)
        BY <3>2 DEF AcceptJob
      <3> HIDE DEF j
      <3> QED
        BY <1>1, <3>1, <3>3, FormsKept
    <2>4. CASE SnapshotCatalog(p, "catalog_tx", "catalog_commit")
      <3> DEFINE j == [job[p] EXCEPT !.view = CatalogIds]
      <3>1. /\ Lands(p, "catalog_commit", j) /\ UNCHANGED <<catalog, overlapped>>
            /\ phase[p] = "catalog_tx"
        BY <2>4 DEF SnapshotCatalog, Goto, Lands, dataVars
      <3>2. job[p] \in AcceptJob
        BY <3>1 DEF TInv, JobFits
      <3>3. j.form = job[p].form /\ UniqueProducts(job[p].form)
        BY <3>1, <3>2 DEF AcceptJob, FormsInv, FormOK
      <3> HIDE DEF j
      <3> QED
        BY <1>1, <3>1, <3>3, FormsKept
    <2>5. CASE CommitCatalog(p)
      <3> DEFINE ph == IF job[p].quotation.order_request_completed_at THEN "mark" ELSE "pedido"
      <3>1. Lands(p, ph, job[p]) /\ SyncCatalog(p) /\ phase[p] = "catalog_commit"
        BY <2>5 DEF CommitCatalog, Goto, Lands
      <3>2. job[p] \in AcceptJob
        BY <3>1 DEF TInv, JobFits
      <3>3. RepeatsNeedOverlap'
        BY <1>1, <3>1, <3>2, SaveUnique DEF AcceptJob, FormsInv, FormOK
      <3>4. ph \in {"mark", "pedido"}
        OBVIOUS
      <3> HIDE DEF ph
      <3> QED
        BY <3>1, <3>3, <3>4, FormsKept
    <2>6. CASE ReadPedido(p)
      <3>1. \E j : Lands(p, "pedido_commit", j) /\ UNCHANGED <<catalog, overlapped>>
        BY <2>6 DEF ReadPedido, Goto, Lands, dataVars
      <3> QED
        BY <1>1, <3>1, FormsKept
    <2>7. CASE CommitPedido(p) \/ MarkAccepted(p)
      <3>1. \E ph \in {"mark", "idle"} : \E j : Lands(p, ph, j) /\ UNCHANGED <<catalog, overlapped>>
        BY <2>7 DEF CommitPedido, MarkAccepted, Done, Goto, Lands
      <3> QED
        BY <1>1, <3>1, FormsKept
    <2> QED
      BY <1>2, <2>1, <2>2, <2>3, <2>4, <2>5, <2>6, <2>7 DEF Accept
  <1>3. ASSUME NEW p \in Procs, Ordinary(p) \/ Abort(p)
        PROVE  FormsInv'
    <2>1. \E ph \in {"idle"} \cup OrdinaryPhases : \E j :
             Lands(p, ph, j) /\ UNCHANGED <<catalog, overlapped>>
      <3>1. CASE \/ \E s \in Statuses : BeginStatus(p, s)
                 \/ \E form \in Forms : BeginEdit(p, form)
                 \/ \E l \in lines, prod \in Products : BeginLink(p, l, prod)
                 \/ BeginDelete(p)
        BY <3>1 DEF BeginStatus, BeginEdit, BeginLink, BeginDelete, Start, Lands, dataVars
      <3>2. CASE WriteStatus(p) \/ CommitEdit(p) \/ WriteLink(p) \/ DeleteLines(p)
                 \/ DeleteHeader(p) \/ Abort(p)
        BY <3>2 DEF WriteStatus, CommitEdit, WriteLink, DeleteLines, DeleteHeader, Abort,
             OrdinaryWrite, Done, Goto, Lands, dataVars
      <3> QED
        BY <1>3, <3>1, <3>2 DEF Ordinary
    <2> QED
      BY <1>1, <2>1, FormsKept
  <1>4. ASSUME NEW p \in Procs, AccountSave(p)
        PROVE  FormsInv'
    <2>1. ASSUME NEW form \in AccountForms, BeginSave(p, form)
          PROVE  FormsInv'
      <3> DEFINE j == [n |-> started + 1, late |-> Late, form |-> form, view |-> {}]
      <3>1. Lands(p, "save_tx", j) /\ UNCHANGED <<catalog, overlapped>> /\ UniqueProducts(j.form)
        BY <2>1 DEF BeginSave, Start, Lands, dataVars
      <3> HIDE DEF j
      <3> QED
        BY <1>1, <3>1, FormsKept
    <2>2. CASE SnapshotCatalog(p, "save_tx", "save_commit")
      <3> DEFINE j == [job[p] EXCEPT !.view = CatalogIds]
      <3>1. /\ Lands(p, "save_commit", j) /\ UNCHANGED <<catalog, overlapped>>
            /\ phase[p] = "save_tx"
        BY <2>2 DEF SnapshotCatalog, Goto, Lands, dataVars
      <3>2. job[p] \in SaveJob
        BY <3>1 DEF TInv, JobFits
      <3>3. j.form = job[p].form /\ UniqueProducts(job[p].form)
        BY <3>1, <3>2 DEF SaveJob, FormsInv, FormOK
      <3> HIDE DEF j
      <3> QED
        BY <1>1, <3>1, <3>3, FormsKept
    <2>3. CASE CommitSave(p)
      <3>1. Lands(p, "idle", NoJob) /\ SyncCatalog(p) /\ phase[p] = "save_commit"
        BY <2>3 DEF CommitSave, Done, Goto, Lands
      <3>2. job[p] \in SaveJob
        BY <3>1 DEF TInv, JobFits
      <3>3. RepeatsNeedOverlap'
        BY <1>1, <3>1, <3>2, SaveUnique DEF SaveJob, FormsInv, FormOK
      <3> QED
        BY <3>1, <3>3, FormsKept
    <2> QED
      BY <1>4, <2>1, <2>2, <2>3 DEF AccountSave
  <1>5. CASE UNCHANGED vars
    BY <1>5 DEF vars, dataVars, FormsInv, FormOK, RepeatsNeedOverlap
  <1> QED
    BY <1>2, <1>3, <1>4, <1>5 DEF Next

\* RepeatsNeedOverlap (QuotationAcceptance): however acceptances merge catalogs that
\* have gone stale, a product is repeated in the catalog only if two saves have overlapped.
THEOREM OnlyOverlapsRepeat == Spec => []RepeatsNeedOverlap
  <1>1. Init => FormsInv
    <2> SUFFICES ASSUME Init PROVE FormsInv
      OBVIOUS
    <2>1. UniqueProducts(catalog)
      BY DEF Init, UniqueProducts
    <2> QED
      BY <2>1 DEF Init, FormsInv, FormOK, RepeatsNeedOverlap
  <1>2. FormsInv => RepeatsNeedOverlap
    BY DEF FormsInv
  <1> QED
    BY <1>1, <1>2, InitTypes, NextTypes, FormsStep, PTL DEF Spec

----------------------------------------------------------------------------
(* Acceptance without ordinary writes *)

\* What an acceptance has found is still so: the quotation is live, and sent unless
\* another has accepted it, and the lines are those it merged and is to order.
QuietJob(q) ==
    phase[q] \in AcceptPhases =>
        /\ quotation.active
        /\ quotation.status \in {job[q].quotation.status, "Aceptada"}
        /\ phase[q] # "check" => job[q].quotation.status = "Enviada" /\ ~HasFreeLine
        /\ phase[q] = "pedido_commit" => job[q].lines = Linked(lines)
        /\ phase[q] \in {"catalog_tx", "catalog_commit"} =>
              job[q].form = Merged(lines, job[q].seen)

QuietStart ==
    AcceptanceStarted =>
        /\ quotation.active
        /\ quotation.status \in {"Enviada", "Aceptada"}
        /\ ~HasFreeLine
        /\ pedido # NoPedido => pedido = lines

QuietInv == ~disturbed => QuietStart /\ \A q \in Procs : QuietJob(q)

\* A step of an acceptance leaves the others' findings as they were.
LEMMA QuietOthers ==
    ASSUME TInv, QuietInv, NEW p \in Procs, NEW ph \in AllPhases, NEW j, Lands(p, ph, j),
           UNCHANGED <<lines, disturbed>>, quotation'.active = quotation.active,
           quotation'.status \in {quotation.status, "Aceptada"},
           ~disturbed => QuietStart' /\ QuietJob(p)'
    PROVE  QuietInv'
  <1>1. ASSUME NEW q \in Procs \ {p}, ~disturbed
        PROVE  QuietJob(q)'
    <2>1. phase'[q] = phase[q] /\ job'[q] = job[q]
      BY <1>1 DEF Lands, TInv
    <2>2. QuietJob(q)
      BY <1>1 DEF QuietInv
    <2> QED
      BY <2>1, <2>2 DEF QuietJob, HasFreeLine
  <1> QED
    BY <1>1 DEF QuietInv

LEMMA AcceptQuiet ==
    ASSUME TInv, IInv, QuietInv, FormsInv, NEW p \in Procs, Accept(p)
    PROVE  QuietInv'
  <1> USE DEF AcceptPhases, AllPhases
  <1>0. /\ DataTypes /\ quotation \in Quotation /\ JobFits(phase[p], job[p])
        /\ (phase[p] \in AcceptPhases => job[p] \in AcceptJob)
        /\ (~disturbed => QuietStart /\ QuietJob(p))
        /\ DOMAIN job = Procs /\ phase \in [Procs -> AllPhases]
    BY DEF TInv, JobFits, DataTypes, QuietInv
  <1>1. CASE BeginAccept(p)
    <2> DEFINE j == [n |-> started + 1, late |-> Late, quotation |-> quotation,
                     form |-> {}, seen |-> {}, view |-> {}, lines |-> {}]
    <2>1. Lands(p, "check", j) /\ quotation.active /\ UNCHANGED <<dataVars, disturbed>>
      BY <1>1 DEF BeginAccept, Start, Lands
    <2>2. phase'[p] = "check" /\ job'[p].quotation = quotation
      BY <1>0, <2>1 DEF Lands
    <2>3. QuietJob(p)'
      BY <2>1, <2>2 DEF QuietJob, dataVars
    <2>4. ~disturbed => QuietStart'
      BY <1>0, <2>1 DEF QuietStart, AcceptanceStarted, HasFreeLine, dataVars
    <2> QED
      BY <2>1, <2>3, <2>4, QuietOthers DEF dataVars
  <1>2. CASE CheckAcceptance(p)
    <2> DEFINE ph == NextStep(job[p].quotation)
    <2>1. /\ Lands(p, ph, job[p]) /\ phase[p] = "check" /\ IsAcceptable(job[p].quotation)
          /\ UNCHANGED <<dataVars, disturbed>>
      BY <1>2 DEF CheckAcceptance, Goto, Lands
    <2>2. ph \in {"merge", "pedido", "mark"}
      BY <1>0, <2>1 DEF NextStep, AcceptJob, Quotation
    <2>3. phase'[p] = ph /\ job'[p] = job[p]
      BY <1>0, <2>1 DEF Lands
    <2>4. ~disturbed => QuietJob(p)'
      BY <1>0, <2>1, <2>2, <2>3 DEF QuietJob, IsAcceptable, HasFreeLine, dataVars
    <2>5. ~disturbed => QuietStart'
      BY <1>0, <2>1 DEF QuietStart, AcceptanceStarted, HasFreeLine, dataVars
    <2> HIDE DEF ph
    <2> QED
      BY <2>1, <2>2, <2>4, <2>5, QuietOthers DEF dataVars
  <1>3. CASE MergeCatalog(p)
    <2> DEFINE j == [job[p] EXCEPT !.form = Merged(lines, catalog), !.seen = catalog]
    <2>1. /\ Lands(p, "catalog_tx", j) /\ phase[p] = "merge"
          /\ UniqueProducts(Merged(lines, catalog)) /\ UNCHANGED <<dataVars, disturbed>>
      BY <1>3 DEF MergeCatalog, Goto, Lands
    <2>2. j.quotation = job[p].quotation /\ j.form = Merged(lines, catalog) /\ j.seen = catalog
      BY <1>0, <2>1 DEF AcceptJob
    <2> HIDE DEF j
    <2>3. phase'[p] = "catalog_tx" /\ job'[p] = j
      BY <1>0, <2>1 DEF Lands
    <2>4. ~disturbed => QuietJob(p)'
      BY <1>0, <2>1, <2>2, <2>3 DEF QuietJob, HasFreeLine, dataVars
    <2>5. ~disturbed => QuietStart'
      BY <1>0, <2>1 DEF QuietStart, AcceptanceStarted, HasFreeLine, dataVars
    <2> QED
      BY <2>1, <2>4, <2>5, QuietOthers DEF dataVars
  <1>4. CASE SnapshotCatalog(p, "catalog_tx", "catalog_commit")
    <2> DEFINE j == [job[p] EXCEPT !.view = CatalogIds]
    <2>1. Lands(p, "catalog_commit", j) /\ phase[p] = "catalog_tx" /\ UNCHANGED <<dataVars, disturbed>>
      BY <1>4 DEF SnapshotCatalog, Goto, Lands
    <2>2. j.quotation = job[p].quotation /\ j.form = job[p].form /\ j.seen = job[p].seen
      BY <1>0, <2>1 DEF AcceptJob
    <2> HIDE DEF j
    <2>3. phase'[p] = "catalog_commit" /\ job'[p] = j
      BY <1>0, <2>1 DEF Lands
    <2>4. ~disturbed => QuietJob(p)'
      BY <1>0, <2>1, <2>2, <2>3 DEF QuietJob, HasFreeLine, dataVars
    <2>5. ~disturbed => QuietStart'
      BY <1>0, <2>1 DEF QuietStart, AcceptanceStarted, HasFreeLine, dataVars
    <2> QED
      BY <2>1, <2>4, <2>5, QuietOthers DEF dataVars
  <1>5. CASE CommitCatalog(p)
    <2> DEFINE ph == IF job[p].quotation.order_request_completed_at THEN "mark" ELSE "pedido"
    <2>1. /\ Lands(p, ph, job[p]) /\ phase[p] = "catalog_commit"
          /\ quotation' = [quotation EXCEPT !.account_products_updated_at = TRUE]
          /\ UNCHANGED <<lines, pedido, disturbed>>
      BY <1>5 DEF CommitCatalog, Goto, Lands
    <2>2. quotation'.active = quotation.active /\ quotation'.status = quotation.status
      BY <1>0, <2>1 DEF Quotation
    <2>3. phase'[p] = ph /\ job'[p] = job[p] /\ ph \in {"mark", "pedido"}
      BY <1>0, <2>1 DEF Lands
    <2>4. ~disturbed => QuietJob(p)'
      BY <1>0, <2>1, <2>2, <2>3 DEF QuietJob, HasFreeLine
    <2>5. ~disturbed => QuietStart'
      <3>1. ~disturbed /\ pedido # NoPedido => AcceptanceStarted
        BY DEF AcceptanceStarted
      <3> QED
        BY <1>0, <2>1, <2>2, <3>1 DEF QuietStart, QuietJob, HasFreeLine
    <2> HIDE DEF ph
    <2> QED
      BY <2>1, <2>2, <2>3, <2>4, <2>5, QuietOthers
  <1>6. CASE ReadPedido(p)
    <2> DEFINE j == [job[p] EXCEPT !.lines = Linked(lines)]
    <2>1. Lands(p, "pedido_commit", j) /\ phase[p] = "pedido" /\ UNCHANGED <<dataVars, disturbed>>
      BY <1>6 DEF ReadPedido, Goto, Lands
    <2>2. j.quotation = job[p].quotation /\ j.lines = Linked(lines)
      BY <1>0, <2>1 DEF AcceptJob
    <2> HIDE DEF j
    <2>3. phase'[p] = "pedido_commit" /\ job'[p] = j
      BY <1>0, <2>1 DEF Lands
    <2>4. ~disturbed => QuietJob(p)'
      BY <1>0, <2>1, <2>2, <2>3 DEF QuietJob, HasFreeLine, dataVars
    <2>5. ~disturbed => QuietStart'
      BY <1>0, <2>1 DEF QuietStart, AcceptanceStarted, HasFreeLine, dataVars
    <2> QED
      BY <2>1, <2>4, <2>5, QuietOthers DEF dataVars
  <1>7. CASE CommitPedido(p)
    <2>1. /\ Lands(p, "mark", job[p]) /\ phase[p] = "pedido_commit"
          /\ quotation' = [quotation EXCEPT !.order_request_completed_at = TRUE]
          /\ pedido' = job[p].lines /\ UNCHANGED <<lines, disturbed>>
      BY <1>7 DEF CommitPedido, Goto, Lands
    <2>2. quotation'.active = quotation.active /\ quotation'.status = quotation.status
      BY <1>0, <2>1 DEF Quotation
    <2>3. phase'[p] = "mark" /\ job'[p] = job[p]
      BY <1>0, <2>1 DEF Lands
    <2>4. ~disturbed => QuietJob(p)'
      BY <1>0, <2>1, <2>2, <2>3 DEF QuietJob, HasFreeLine
    <2>5. ~disturbed => QuietStart'
      BY <1>0, <2>1, <2>2 DEF QuietStart, QuietJob, HasFreeLine
    <2> QED
      BY <2>1, <2>2, <2>4, <2>5, QuietOthers
  <1>8. CASE MarkAccepted(p)
    <2>1. /\ Lands(p, "idle", NoJob) /\ phase[p] = "mark"
          /\ quotation' = [quotation EXCEPT !.status = "Aceptada"]
          /\ UNCHANGED <<lines, pedido, disturbed>>
      BY <1>8 DEF MarkAccepted, Done, Goto, Lands
    <2>2. quotation'.active = quotation.active /\ quotation'.status = "Aceptada"
      BY <1>0, <2>1 DEF Quotation
    <2>3. phase'[p] = "idle"
      BY <1>0, <2>1 DEF Lands
    <2>4. QuietJob(p)'
      BY <2>3 DEF QuietJob
    <2>5. ~disturbed => QuietStart'
      <3>1. quotation.order_request_completed_at
        BY <2>1 DEF IInv, RequestOK, AcceptOK
      <3> QED
        BY <1>0, <2>1, <2>2, <3>1 DEF QuietStart, AcceptanceStarted, HasFreeLine
    <2> QED
      BY <2>1, <2>2, <2>4, <2>5, QuietOthers
  <1> QED
    BY <1>1, <1>2, <1>3, <1>4, <1>5, <1>6, <1>7, <1>8 DEF Accept

\* An ordinary write disturbs an acceptance that has begun, and begins none.
LEMMA WriteQuiet ==
    ASSUME TInv, NEW p \in Procs, OrdinaryWrite,
           NEW ph \in {"idle"} \cup OrdinaryPhases, NEW j, Lands(p, ph, j),
           quotation'.account_products_updated_at = quotation.account_products_updated_at,
           quotation'.order_request_completed_at = quotation.order_request_completed_at
    PROVE  QuietInv'
  <1> SUFFICES ASSUME ~disturbed' PROVE QuietStart' /\ \A q \in Procs : QuietJob(q)'
    BY DEF QuietInv
  <1>1. ~AcceptanceUnderWay /\ pedido' = pedido
    BY DEF OrdinaryWrite
  <1>2. \A q \in Procs : phase'[q] \notin AcceptPhases
    BY <1>1 DEF AcceptanceUnderWay, Lands, TInv, AcceptPhases, OrdinaryPhases
  <1>3. ~AcceptanceStarted'
    BY <1>1 DEF AcceptanceUnderWay, AcceptanceStarted
  <1> QED
    BY <1>2, <1>3 DEF QuietStart, QuietJob

\* A request that only starts, ends or writes the catalog.
LEMMA RestQuiet ==
    ASSUME TInv, QuietInv, NEW p \in Procs, NEW ph \in AllPhases \ AcceptPhases, NEW j,
           Lands(p, ph, j), UNCHANGED <<quotation, lines, pedido, disturbed>>
    PROVE  QuietInv'
  <1>1. phase'[p] \notin AcceptPhases
    BY DEF Lands, TInv
  <1>2. ~disturbed => QuietStart' /\ QuietJob(p)'
    BY <1>1 DEF QuietInv, QuietStart, QuietJob, AcceptanceStarted, HasFreeLine
  <1> QED
    BY <1>2, QuietOthers

LEMMA QuietStep == TInv /\ IInv /\ FormsInv /\ QuietInv /\ [Next]_vars => QuietInv'
  <1> SUFFICES ASSUME TInv, IInv, FormsInv, QuietInv, [Next]_vars
               PROVE  QuietInv'
    OBVIOUS
  <1>1. ASSUME NEW p \in Procs, Ordinary(p) \/ Abort(p) \/ AccountSave(p)
        PROVE  QuietInv'
    <2>1. CASE \/ \E s \in Statuses : BeginStatus(p, s)
               \/ \E form \in Forms : BeginEdit(p, form)
               \/ \E l \in lines, prod \in Products : BeginLink(p, l, prod)
               \/ BeginDelete(p) \/ AccountSave(p) \/ Abort(p)
      <3>1. \E ph \in AllPhases \ AcceptPhases : \E j :
               Lands(p, ph, j) /\ UNCHANGED <<quotation, lines, pedido, disturbed>>
        BY <2>1 DEF AccountSave, Abort, BeginStatus, BeginEdit, BeginLink, BeginDelete, BeginSave,
             SnapshotCatalog, CommitSave, Start, Goto, Done, Lands, dataVars, AllPhases,
             AcceptPhases, OrdinaryPhases, AccountPhases
      <3> QED
        BY <3>1, RestQuiet
    <2>2. CASE WriteStatus(p) \/ CommitEdit(p) \/ WriteLink(p) \/ DeleteLines(p) \/ DeleteHeader(p)
      <3>1. OrdinaryWrite
        BY <2>2 DEF WriteStatus, CommitEdit, WriteLink, DeleteLines, DeleteHeader
      <3>2. \E ph \in {"idle"} \cup OrdinaryPhases : \E j : Lands(p, ph, j)
        BY <2>2 DEF WriteStatus, CommitEdit, WriteLink, DeleteLines, DeleteHeader, Done, Goto,
             Lands, OrdinaryPhases
      <3>3. /\ quotation'.account_products_updated_at = quotation.account_products_updated_at
            /\ quotation'.order_request_completed_at = quotation.order_request_completed_at
        BY <2>2 DEF WriteStatus, CommitEdit, WriteLink, DeleteLines, DeleteHeader, TInv,
             DataTypes, Quotation
      <3> QED
        BY <3>1, <3>2, <3>3, WriteQuiet
    <2> QED
      BY <1>1, <2>1, <2>2 DEF Ordinary
  <1>2. CASE UNCHANGED vars
    BY <1>2 DEF vars, dataVars, QuietInv, QuietStart, QuietJob, AcceptanceStarted, HasFreeLine
  <1> QED
    BY <1>1, <1>2, AcceptQuiet DEF Next

LEMMA QuietInvariance == Spec => [](TInv /\ IInv /\ FormsInv /\ QuietInv)
  <1>1. Init => FormsInv /\ QuietInv
    <2> SUFFICES ASSUME Init PROVE FormsInv /\ QuietInv
      OBVIOUS
    <2>1. UniqueProducts(catalog)
      BY DEF Init, UniqueProducts
    <2>2. ~AcceptanceStarted /\ \A q \in Procs : phase[q] = "idle"
      BY DEF Init, AcceptanceStarted
    <2> QED
      BY <2>1, <2>2 DEF FormsInv, FormOK, RepeatsNeedOverlap, QuietInv, QuietStart, QuietJob,
         AcceptPhases
  <1> QED
    BY <1>1, InitTypes, NextTypes, InitIInv, NextKeeps, FormsStep, QuietStep, PTL DEF Spec

\* UndisturbedAcceptance (QuotationAcceptance): while no ordinary write slips in, a
\* quotation whose acceptance has started is live and sent or accepted, and its order
\* request has exactly its lines.
THEOREM UndisturbedAcceptanceHolds == Spec => []UndisturbedAcceptance
  <1>1. QuietInv => UndisturbedAcceptance
    BY DEF QuietInv, QuietStart, UndisturbedAcceptance
  <1> QED
    BY <1>1, QuietInvariance, PTL

----------------------------------------------------------------------------
(* What an acceptance does to the catalog *)

RowsOf(rows, prod) == {r \in rows : r.product = prod}

LEMMA MergeSaved ==
    ASSUME TInv, NEW n \in Serials, NEW prod \in Products,
           UniqueProducts(Merged(lines, catalog)),
           catalog' = Synced(Merged(lines, catalog), CatalogIds, n)
    PROVE  IF prod \in QuotedProducts(lines)
           THEN /\ Cardinality(RowsOf(catalog', prod)) = 1
                /\ {r.price : r \in RowsOf(catalog', prod)} = {QuotedPrice(lines, prod)}
           ELSE RowsOf(catalog', prod) = RowsOf(catalog, prod)
  <1> DEFINE form == Merged(lines, catalog)
  <1>1. /\ lines \in SUBSET Line /\ catalog \in SUBSET Row /\ form \in SUBSET FormRow
        /\ NoId \notin Nat /\ Serials \subseteq Nat
    BY MergedType, AcceptanceBounds DEF TInv, DataTypes, Serials
  <1>2. UniqueProducts(catalog')
    BY <1>1, SyncUnique
  <1>3. ASSUME NEW r \in form, <<r.serial, r.product>> \in CatalogIds
        PROVE  r \in catalog'
    BY <1>3 DEF Synced, Kept
  <1>4. ASSUME NEW r \in form, <<r.serial, r.product>> \notin CatalogIds
        PROVE  [r EXCEPT !.serial = n] \in catalog'
    BY <1>4 DEF Synced, Created, Kept
  <1>5. CASE prod \in QuotedProducts(lines)
    <2>1. \E r \in form : r.product = prod /\ r.price = QuotedPrice(lines, prod)
      <3>1. CASE \E s \in catalog : s.product = prod
        <4>1. PICK s \in catalog : s.product = prod
          BY <3>1
        <4>2. [s EXCEPT !.price = QuotedPrice(lines, s.product)] \in form
          BY <1>5, <4>1 DEF Merged, Repriced
        <4>3. s \in Row
          BY <1>1
        <4>4. /\ [s EXCEPT !.price = QuotedPrice(lines, s.product)].product = prod
              /\ [s EXCEPT !.price = QuotedPrice(lines, s.product)].price = QuotedPrice(lines, prod)
          BY <4>1, <4>3 DEF Row
        <4> QED
          BY <4>2, <4>4
      <3>2. CASE ~ \E s \in catalog : s.product = prod
        <4>1. [serial |-> NoId, product |-> prod, price |-> QuotedPrice(lines, prod)] \in form
          BY <1>5, <3>2 DEF Merged, Added
        <4> QED
          BY <4>1
      <3> QED
        BY <3>1, <3>2
    <2>2. PICK r \in form : r.product = prod /\ r.price = QuotedPrice(lines, prod)
      BY <2>1
    <2>3. PICK x \in catalog' : x.product = prod /\ x.price = QuotedPrice(lines, prod)
      <3>1. r \in FormRow
        BY <1>1
      <3>2. [r EXCEPT !.serial = n].product = r.product /\ [r EXCEPT !.serial = n].price = r.price
        BY <3>1 DEF FormRow
      <3> QED
        BY <1>3, <1>4, <2>2, <3>2
    <2>4. RowsOf(catalog', prod) = {x}
      BY <1>2, <2>3 DEF UniqueProducts, RowsOf
    <2>5. Cardinality({x}) = 1
      BY FS_Singleton
    <2> QED
      BY <1>5, <2>3, <2>4, <2>5
  <1>6. CASE prod \notin QuotedProducts(lines)
    <2>1. ASSUME NEW r \in form, r.product = prod
          PROVE  r \in catalog /\ <<r.serial, r.product>> \in CatalogIds
      <3>1. r \notin Added(lines, catalog)
        BY <1>6, <2>1 DEF Added
      <3>2. r \notin Repriced(lines, catalog)
        <4>1. ASSUME NEW s \in catalog, s.product \in QuotedProducts(lines),
                     r = [s EXCEPT !.price = QuotedPrice(lines, s.product)]
              PROVE  FALSE
          <5>1. s \in Row
            BY <1>1
          <5>2. r.product = s.product
            BY <4>1, <5>1 DEF Row
          <5> QED
            BY <1>6, <2>1, <4>1, <5>2
        <4> QED
          BY <4>1 DEF Repriced
      <3>3. r \in catalog
        BY <3>1, <3>2 DEF Merged
      <3> QED
        BY <3>3 DEF CatalogIds
    <2>2. ASSUME NEW x \in catalog', x.product = prod
          PROVE  x \in catalog
      <3>1. PICK f \in SUBSET FormRow : f = form
        BY <1>1
      <3>2. x \in Synced(f, CatalogIds, n)
        BY <2>2, <3>1
      <3>3. PICK r \in f :
              /\ x.product = r.product
              /\ IF <<r.serial, r.product>> \in CatalogIds THEN x = r ELSE x = [r EXCEPT !.serial = n]
        BY <3>2, SyncedRow
      <3> QED
        BY <2>1, <2>2, <3>1, <3>3
    <2>3. ASSUME NEW x \in catalog, x.product = prod
          PROVE  x \in catalog'
      <3>1. x \in form
        BY <1>6, <2>3 DEF Merged
      <3>2. <<x.serial, x.product>> \in CatalogIds
        BY DEF CatalogIds
      <3> QED
        BY <1>3, <3>1, <3>2
    <2> QED
      BY <1>6, <2>2, <2>3 DEF RowsOf
  <1> QED
    BY <1>5, <1>6

\* What a commit of the merged catalog does, stated of the request that steps.
MergeStep ==
    \A p \in Procs :
       phase[p] = "catalog_commit" /\ StepOf(p) /\ phase'[p] # "idle"
       /\ job[p].seen = catalog /\ job[p].view = CatalogIds /\ ~disturbed =>
          \A prod \in Products :
             LET at(rows) == {r \in rows : r.product = prod}
             IN IF prod \in QuotedProducts(lines)
                THEN /\ Cardinality(at(catalog')) = 1
                     /\ {r.price : r \in at(catalog')} = {QuotedPrice(lines, prod)}
                ELSE at(catalog') = at(catalog)

LEMMA MergeSteps == TInv /\ IInv /\ FormsInv /\ QuietInv /\ [Next]_vars => MergeStep
  <1> SUFFICES ASSUME TInv, IInv, FormsInv, QuietInv, [Next]_vars, NEW q \in Procs,
                      phase[q] = "catalog_commit", StepOf(q), phase'[q] # "idle",
                      job[q].seen = catalog, job[q].view = CatalogIds, ~disturbed,
                      NEW prod \in Products
               PROVE  IF prod \in QuotedProducts(lines)
                      THEN /\ Cardinality(RowsOf(catalog', prod)) = 1
                           /\ {r.price : r \in RowsOf(catalog', prod)} = {QuotedPrice(lines, prod)}
                      ELSE RowsOf(catalog', prod) = RowsOf(catalog, prod)
    BY DEF MergeStep, RowsOf
  <1>1. Next
    BY DEF vars, StepOf
  <1>2. PICK p \in Procs : Accept(p) \/ Ordinary(p) \/ AccountSave(p) \/ Abort(p)
    BY <1>1 DEF Next
  <1>3. \E ph : phase' = [phase EXCEPT ![p] = ph]
    BY <1>2 DEF Accept, Ordinary, AccountSave, Abort, BeginAccept, CheckAcceptance,
         MergeCatalog, SnapshotCatalog, CommitCatalog, ReadPedido, CommitPedido,
         MarkAccepted, BeginStatus, WriteStatus, BeginEdit, CommitEdit, BeginLink,
         WriteLink, BeginDelete, DeleteLines, DeleteHeader, BeginSave, CommitSave,
         Start, Goto, Done
  <1>4. q = p
    BY <1>3, OneRequestSteps DEF IInv
  <1>5. CommitCatalog(p)
    <2>1. ~Abort(p)
      BY <1>4 DEF Abort, Done, Goto, TInv
    <2>2. ~Ordinary(p) /\ ~AccountSave(p)
      BY <1>4 DEF Ordinary, AccountSave, BeginStatus, WriteStatus, BeginEdit, CommitEdit,
           BeginLink, WriteLink, BeginDelete, DeleteLines, DeleteHeader, BeginSave,
           SnapshotCatalog, CommitSave, Start
    <2> QED
      BY <1>2, <1>4, <2>1, <2>2 DEF Accept, BeginAccept, CheckAcceptance, MergeCatalog,
           SnapshotCatalog, ReadPedido, CommitPedido, MarkAccepted, Start
  <1>6. job[p] \in AcceptJob /\ QuietJob(p)
    BY <1>4 DEF TInv, JobFits, AcceptPhases, QuietInv
  <1>7. /\ job[p].form = Merged(lines, catalog) /\ job[p].n \in Serials
        /\ UniqueProducts(job[p].form)
    BY <1>4, <1>6 DEF QuietJob, AcceptPhases, AcceptJob, FormsInv, FormOK
  <1>8. catalog' = Synced(Merged(lines, catalog), CatalogIds, job[p].n)
    BY <1>4, <1>5, <1>7 DEF CommitCatalog, SyncCatalog
  <1> QED
    BY <1>7, <1>8, MergeSaved

\* MergeKeepsCatalog (QuotationAcceptance): when catalog and lines are still what the
\* acceptance read, its save puts every quoted product in the catalog once, at the
\* quoted price, and leaves every other product as it was.
THEOREM MergesKeepCatalog == Spec => MergeKeepsCatalog
  <1>1. TInv /\ IInv /\ FormsInv /\ QuietInv /\ [Next]_vars => [MergeStep]_vars
    BY MergeSteps
  <1>2. Spec => [][MergeStep]_vars
    BY <1>1, QuietInvariance, PTL DEF Spec
  <1> QED
    BY <1>2 DEF MergeKeepsCatalog, MergeStep


----------------------------------------------------------------------------
(* PagedLists: whoever turns all the pages of a list sees every row nobody wrote meanwhile *)

ListKeys == {"id", "updated_at", "field, updated_at", "field"}

\* What the variables are, as far as the argument needs it.
ListsShape ==
    /\ list.key \in ListKeys
    /\ table \in Seq([active : BOOLEAN, value : Days, stamp : Nat])
    /\ Len(table) <= MaxRows
    /\ now \in Nat /\ \A r \in DOMAIN table : table[r].stamp <= now
    /\ reading \in {"idle", "counted", "paged", "done"}
    /\ page \in Nat /\ count \in 0..MaxRows
    /\ page <= MaxRows + 1 /\ (reading # "done" => page <= MaxRows)
    /\ reading = "paged" => page * PageSize < count
    /\ reading = "done" => page * PageSize >= count
    /\ shown \in [Rows -> Nat]
    /\ touched \subseteq Rows
    /\ upset \subseteq {"came", "came between", "left", "moved", "tied"}

\* The rows that come before r in some order the database may answer in.
RowsBefore(r) == {x \in Matching \ {r} : ~Precedes(r, x)}
Place(r) == Cardinality(RowsBefore(r))

ReadSoFar == page * PageSize
OrderHeld == upset \cap {"left", "moved", "came between", "tied"} = {}

\* Rows come before a row nobody has written, and none of those before it goes: so
\* if the reader has not seen it, it is still to come.
RowsAwaited ==
    OrderHeld => \A r \in Matching \ touched : shown[r] >= 1 \/ Place(r) >= ReadSoFar

\* If nobody has written at all, the reader has seen the rows up to where it stands.
RowsSeen ==
    upset = {} /\ touched = {} =>
        /\ \A r \in Rows :
              shown[r] = IF r \in Matching /\ Place(r) < ReadSoFar THEN 1 ELSE 0
        /\ reading # "idle" => count = Cardinality(Matching)

PagesInv ==
    /\ ListsShape
    /\ reading = "idle" => page = 0 /\ touched = {} /\ upset = {} /\ \A r \in Rows : shown[r] = 0
    /\ OrderHeld /\ reading \in {"counted", "done"} => count = Cardinality(Matching)
    /\ RowsAwaited
    /\ RowsSeen

LEMMA KeysKnown ==
  ASSUME NEW l \in Lists
  PROVE  l.key \in ListKeys
<1>1. \A sort : KeyOf(sort) \in ListKeys
  BY DEF KeyOf, ListKeys
<1>2. \A sorts, days : \A x \in List(sorts, days) : x.key \in ListKeys
  BY <1>1 DEF List
<1>3. ASSUME NEW x \in ActivitiesList PROVE x.key \in ListKeys
  <2>1. x = [key |-> "id", days |-> "through end", grows |-> TRUE]
    BY DEF ActivitiesList
  <2>2. x.key = "id"
    BY <2>1
  <2> QED
    BY <2>2 DEF ListKeys
<1>4. /\ \A x \in OrderQuotationsList : x.key \in ListKeys
      /\ \A x \in OrderRequestsList : x.key \in ListKeys
      /\ \A x \in OrderSalesList : x.key \in ListKeys
      /\ \A x \in ExpensesList : x.key \in ListKeys
      /\ \A x \in TransfersList : x.key \in ListKeys
  BY <1>2 DEF OrderQuotationsList, OrderRequestsList, OrderSalesList, ExpensesList, TransfersList
<1>5. /\ \A x \in AdjustmentsList : x.key \in ListKeys
      /\ \A x \in ProductionsList : x.key \in ListKeys
      /\ \A x \in AccountsList : x.key \in ListKeys
      /\ \A x \in ResourcesList : x.key \in ListKeys
      /\ \A x \in ExpenseResourcesList : x.key \in ListKeys
  BY <1>2 DEF AdjustmentsList, ProductionsList, AccountsList, ResourcesList, ExpenseResourcesList
<1>6. /\ \A x \in EmployeesList : x.key \in ListKeys
      /\ \A x \in ProductsList : x.key \in ListKeys
      /\ \A x \in MachinesList : x.key \in ListKeys
  BY <1>2 DEF EmployeesList, ProductsList, MachinesList
<1> QED
  BY <1>3, <1>4, <1>5, <1>6 DEF Lists

\* The rows there are, and those before one of them, are finitely many.
LEMMA PlacesFinite ==
  ASSUME ListBounds, ListsShape
  PROVE  /\ DOMAIN table = 1..Len(table) /\ Len(table) \in Nat /\ DOMAIN table \subseteq Rows
         /\ Matching \subseteq DOMAIN table /\ IsFiniteSet(Matching)
         /\ Cardinality(Matching) \in 0..MaxRows
         /\ \A r : IsFiniteSet(RowsBefore(r)) /\ Place(r) \in Nat
         /\ \A r \in Matching : Place(r) < Cardinality(Matching)
<1>1. DOMAIN table = 1..Len(table) /\ Len(table) \in Nat /\ Len(table) <= MaxRows /\ MaxRows \in Nat
  <2>1. PICK T : T = [active : BOOLEAN, value : Days, stamp : Nat]
    OBVIOUS
  <2>2. table \in Seq(T)
    BY <2>1 DEF ListsShape
  <2>3. DOMAIN table = 1..Len(table) /\ Len(table) \in Nat
    BY <2>2
  <2> QED
    BY <2>3 DEF ListsShape, ListBounds
<1>2. DOMAIN table \subseteq Rows
  BY <1>1 DEF Rows
<1>3. Matching \subseteq DOMAIN table
  BY DEF Matching
<1>4. IsFiniteSet(1..MaxRows) /\ Cardinality(1..MaxRows) = MaxRows
  BY <1>1, FS_Interval
<1>5. Matching \in SUBSET (1..MaxRows)
  BY <1>2, <1>3 DEF Rows
<1>6. IsFiniteSet(Matching) /\ Cardinality(Matching) <= MaxRows
  BY <1>4, <1>5, FS_Subset
<1>7. Cardinality(Matching) \in Nat
  BY <1>6, FS_CardinalityType
<1>8. ASSUME NEW r PROVE IsFiniteSet(RowsBefore(r)) /\ Place(r) \in Nat
  <2>1. RowsBefore(r) \in SUBSET Matching
    BY DEF RowsBefore
  <2>2. IsFiniteSet(RowsBefore(r))
    BY <1>6, <2>1, FS_Subset
  <2> QED
    BY <2>2, FS_CardinalityType DEF Place
<1>9. ASSUME NEW r \in Matching PROVE Place(r) < Cardinality(Matching)
  <2>1. IsFiniteSet(Matching \ {r}) /\ Cardinality(Matching \ {r}) = Cardinality(Matching) - 1
    BY <1>6, FS_RemoveElement
  <2>2. RowsBefore(r) \in SUBSET (Matching \ {r})
    BY DEF RowsBefore
  <2>3. Place(r) <= Cardinality(Matching \ {r})
    BY <2>1, <2>2, FS_Subset DEF Place
  <2> QED
    BY <1>7, <1>8, <2>1, <2>3
<1> QED
  BY <1>1, <1>2, <1>3, <1>6, <1>7, <1>8, <1>9

LEMMA SameTable ==
  ASSUME UNCHANGED <<list, table>>
  PROVE  Matching' = Matching /\ \A r : Place(r)' = Place(r)
<1>1. Matching' = Matching
  BY DEF Matching, Matches
<1>2. \A r, x : Precedes(r, x)' <=> Precedes(r, x)
  BY DEF Precedes, Later, ByField
<1>3. \A r : RowsBefore(r)' = RowsBefore(r)
  BY <1>1, <1>2 DEF RowsBefore
<1> QED
  BY <1>1, <1>3 DEF Place

----------------------------------------------------------------------------
(* A page *)

\* In an order without ties a row stands right after those that come before it.
LEMMA RowStands ==
  ASSUME ListBounds, ListsShape, ~Tied, NEW s \in Orders, NEW r \in Matching
  PROVE  Place(r) + 1 \in DOMAIN s /\ \A i \in DOMAIN s : s[i] = r <=> i = Place(r) + 1
<1>1. PICK n : n = Cardinality(Matching)
  OBVIOUS
<1>2. n \in Nat /\ IsFiniteSet(Matching)
  BY <1>1, PlacesFinite
<1>3. s \in [1..n -> Matching] /\ DOMAIN s = 1..n
  BY <1>1 DEF Orders
<1>4. \A i, j \in 1..n : i < j => s[i] # s[j] /\ ~Precedes(s[j], s[i])
  BY <1>1, <1>3 DEF Orders
<1>5. \A i, j \in 1..n : s[i] = s[j] => i = j
  BY <1>2, <1>4
<1>6. s \in Surjection(1..n, Matching)
  <2>1. s \in Injection(1..n, Matching)
    <3>1. IsInjective(s)
      BY <1>3, <1>5 DEF IsInjective
    <3> QED
      BY <1>3, <3>1 DEF Injection
  <2>2. Cardinality(1..n) = n
    BY <1>2, FS_Interval
  <2> QED
    BY <1>1, <1>2, <2>1, <2>2, FS_Injection
<1>7. PICK i \in 1..n : s[i] = r
  BY <1>6 DEF Surjection
<1>8. RowsBefore(r) = {s[j] : j \in 1..i - 1}
  <2>1. ASSUME NEW j \in 1..i - 1 PROVE s[j] \in RowsBefore(r)
    <3>1. j \in 1..n /\ j < i
      BY <1>2, <1>7
    <3>2. s[j] \in Matching /\ s[j] # r /\ ~Precedes(r, s[j])
      BY <1>3, <1>4, <1>7, <3>1
    <3> QED
      BY <3>2 DEF RowsBefore
  <2>2. ASSUME NEW x \in RowsBefore(r) PROVE \E j \in 1..i - 1 : x = s[j]
    <3>1. x \in Matching /\ x # r /\ ~Precedes(r, x)
      BY DEF RowsBefore
    <3>2. PICK k \in 1..n : s[k] = x
      BY <1>6, <3>1 DEF Surjection
    <3>3. Precedes(x, r)
      BY <3>1 DEF Tied
    <3>4. ~(i < k)
      BY <1>4, <1>7, <3>2, <3>3
    <3>5. k \in 1..i - 1
      BY <1>2, <1>7, <3>1, <3>2, <3>4
    <3> QED
      BY <3>2, <3>5
  <2> QED
    BY <2>1, <2>2
<1>9. Place(r) = i - 1
  <2>1. PICK g : g = [j \in 1..i - 1 |-> s[j]]
    OBVIOUS
  <2>2. \A j \in 1..i - 1 : j \in 1..n /\ g[j] = s[j] /\ s[j] \in RowsBefore(r)
    BY <1>2, <1>8, <2>1
  <2>3. g \in [1..i - 1 -> RowsBefore(r)]
    BY <2>1, <2>2
  <2>4. \A j, k \in 1..i - 1 : g[j] = g[k] => j = k
    BY <1>5, <2>2
  <2>5. \A x \in RowsBefore(r) : \E j \in 1..i - 1 : g[j] = x
    BY <1>8, <2>2
  <2>6. g \in Bijection(1..i - 1, RowsBefore(r))
    <3>1. IsInjective(g)
      BY <2>3, <2>4 DEF IsInjective
    <3>2. g \in Injection(1..i - 1, RowsBefore(r))
      BY <2>3, <3>1 DEF Injection
    <3>3. g \in Surjection(1..i - 1, RowsBefore(r))
      BY <2>3, <2>5 DEF Surjection
    <3> QED
      BY <3>2, <3>3 DEF Bijection
  <2>7. IsFiniteSet(1..i - 1) /\ Cardinality(1..i - 1) = i - 1
    <3>1. i \in Nat /\ i >= 1 /\ 1 \in Int /\ i - 1 \in Int
      BY <1>2
    <3>2. IsFiniteSet(1..i - 1) /\ Cardinality(1..i - 1) = IF 1 > i - 1 THEN 0 ELSE (i - 1) - 1 + 1
      BY <3>1, FS_Interval
    <3> QED
      BY <3>1, <3>2
  <2> QED
    BY <2>6, <2>7, FS_Bijection DEF Place, ExistsBijection
<1>10. Place(r) + 1 = i
  BY <1>2, <1>9
<1> QED
  BY <1>3, <1>5, <1>7, <1>10

\* What a page shows of a row.
Hits(s, r, from, until) == Cardinality({i \in DOMAIN s : s[i] = r /\ i > from /\ i <= until})

LEMMA PageShows ==
  ASSUME ListBounds, ListsShape, NEW s \in Orders, NEW r \in Rows, NEW from \in Nat, NEW until \in Nat
  PROVE  /\ Hits(s, r, from, until) \in Nat
         /\ ~Tied => Hits(s, r, from, until) =
              IF r \in Matching /\ from <= Place(r) /\ Place(r) < until THEN 1 ELSE 0
<1>1. PICK H : H = {i \in DOMAIN s : s[i] = r /\ i > from /\ i <= until}
  OBVIOUS
<1>2. PICK n : n = Cardinality(Matching)
  OBVIOUS
<1>3. n \in Nat /\ \A x : Place(x) \in Nat
  BY <1>2, PlacesFinite
<1>4. DOMAIN s = 1..n /\ s \in [1..n -> Matching]
  BY <1>2 DEF Orders
<1>5. IsFiniteSet(1..n)
  BY <1>3, FS_Interval
<1>6. H \in SUBSET (1..n)
  BY <1>1, <1>4
<1>7. Cardinality(H) \in Nat
  BY <1>5, <1>6, FS_Subset, FS_CardinalityType
<1>8. ASSUME ~Tied
      PROVE  Cardinality(H) = IF r \in Matching /\ from <= Place(r) /\ Place(r) < until THEN 1 ELSE 0
  <2>1. CASE r \notin Matching
    <3>1. H = {}
      BY <1>1, <1>4, <2>1
    <3> QED
      BY <2>1, <3>1, FS_EmptySet
  <2>2. CASE r \in Matching
    <3>1. Place(r) + 1 \in DOMAIN s /\ \A i \in DOMAIN s : s[i] = r <=> i = Place(r) + 1
      BY <1>8, <2>2, RowStands
    <3>2. PICK k : k = Place(r)
      OBVIOUS
    <3>3. k \in Nat
      BY <1>3, <3>2
    <3>4. CASE from <= k /\ k < until
      <4>1. H = {k + 1}
        BY <1>1, <3>1, <3>2, <3>3, <3>4
      <4>2. Cardinality(H) = 1
        BY <4>1, FS_Singleton
      <4> QED
        BY <2>2, <3>2, <3>4, <4>2
    <3>5. CASE ~(from <= k /\ k < until)
      <4>1. \A i \in DOMAIN s : ~(s[i] = r /\ i > from /\ i <= until)
        BY <3>1, <3>2, <3>3, <3>5
      <4>2. H = {}
        BY <1>1, <4>1
      <4>3. Cardinality(H) = 0
        BY <4>2, FS_EmptySet
      <4> QED
        BY <3>2, <3>5, <4>3
    <3> QED
      BY <3>4, <3>5
  <2> QED
    BY <2>1, <2>2
<1> QED
  BY <1>1, <1>7, <1>8 DEF Hits

----------------------------------------------------------------------------
(* A row is written *)

\* What an insertion, an update and a deletion have in common.
RowWritten(q, new) ==
    /\ q \in Rows /\ new \in [active : BOOLEAN, value : Days, stamp : Nat] /\ new.stamp = now
    /\ table' \in Seq([active : BOOLEAN, value : Days, stamp : Nat])
    /\ Len(table') <= MaxRows
    /\ DOMAIN table' = DOMAIN table \cup {q}
    /\ table'[q] = new
    /\ \A x \in DOMAIN table \ {q} : table'[x] = table[x]
    /\ reading # "done"
    /\ Noticed(q, new)
    /\ UNCHANGED <<list, now, reading, page, count, shown>>

LEMMA WrittenShape ==
  ASSUME ListBounds, ListsShape, NEW q, NEW new, RowWritten(q, new)
  PROVE  ListsShape'
<1>1. \A x \in DOMAIN table' : table'[x].stamp <= now
  <2>1. DOMAIN table' = DOMAIN table \cup {q} /\ table'[q] = new
        /\ \A x \in DOMAIN table \ {q} : table'[x] = table[x]
    BY DEF RowWritten
  <2>2. new.stamp = now /\ now \in Nat /\ \A x \in DOMAIN table : table[x].stamp <= now
    BY DEF RowWritten, ListsShape
  <2>3. ASSUME NEW x \in DOMAIN table' PROVE table'[x].stamp <= now
    <3>1. CASE x = q
      BY <2>1, <2>2, <3>1
    <3>2. CASE x # q
      BY <2>1, <2>2, <2>3, <3>2
    <3> QED
      BY <3>1, <3>2
  <2> QED
    BY <2>3
<1>2. touched' \subseteq Rows
  BY DEF ListsShape, RowWritten, Noticed
<1>3. upset' \subseteq {"came", "came between", "left", "moved", "tied"}
  <2>1. upset \subseteq {"came", "came between", "left", "moved", "tied"}
    BY DEF ListsShape
  <2>2. upset' \in {upset, Upsets(q, new)}
    BY DEF RowWritten, Noticed
  <2> QED
    BY <2>1, <2>2 DEF Upsets
<1>4. /\ table' \in Seq([active : BOOLEAN, value : Days, stamp : Nat])
      /\ Len(table') <= MaxRows
      /\ UNCHANGED <<list, now, reading, page, count, shown>>
  BY DEF RowWritten
<1> QED
  BY <1>1, <1>2, <1>3, <1>4 DEF ListsShape

LEMMA ReadSoFarTyped ==
  ASSUME ListBounds, ListsShape
  PROVE  ReadSoFar \in Nat
<1>1. page \in Nat /\ PageSize \in Nat
  BY DEF ListsShape, ListBounds
<1>2. \A i, j \in Nat : i * j \in Nat
  OBVIOUS
<1> QED
  BY <1>1, <1>2 DEF ReadSoFar

\* After any step, a row has a place.
LEMMA PlacesAfter ==
  ASSUME ListBounds, ListsShape'
  PROVE  \A r : IsFiniteSet(RowsBefore(r)') /\ Place(r)' \in Nat
<1>1. DOMAIN table' \subseteq 1..MaxRows
  <2>1. PICK T : T = [active : BOOLEAN, value : Days, stamp : Nat]
    OBVIOUS
  <2>2. table' \in Seq(T)
    BY <2>1 DEF ListsShape
  <2>3. DOMAIN table' = 1..Len(table') /\ Len(table') \in Nat
    BY <2>2
  <2>4. Len(table') <= MaxRows
    BY DEF ListsShape
  <2> QED
    BY <2>3, <2>4 DEF ListBounds
<1>2. IsFiniteSet(1..MaxRows)
  BY FS_Interval DEF ListBounds
<1>3. ASSUME NEW r PROVE IsFiniteSet(RowsBefore(r)') /\ Place(r)' \in Nat
  <2>1. RowsBefore(r)' \in SUBSET (1..MaxRows)
    BY <1>1 DEF RowsBefore, Matching
  <2>2. IsFiniteSet(RowsBefore(r)')
    BY <1>2, <2>1, FS_Subset
  <2> QED
    BY <2>2, FS_CardinalityType DEF Place
<1> QED
  BY <1>3

\* While a reader turns the pages and keeps the order, a row that is written goes to
\* the front, or stays where it is: none of those before another row leaves its place.
LEMMA WrittenKeepsOrder ==
  ASSUME ListBounds, ListsShape, NEW q, NEW new, RowWritten(q, new), InReading, OrderHeld',
         NEW r \in Matching' \ touched'
  PROVE  OrderHeld /\ r \in Matching \ touched /\ Place(r) <= Place(r)'
<1>1. touched' = touched \cup {q} /\ upset' = Upsets(q, new)
  BY DEF RowWritten, Noticed
<1>2. OrderHeld
  BY <1>1 DEF OrderHeld, Upsets
<1>3. "left" \notin upset' /\ "moved" \notin upset'
  BY DEF OrderHeld
<1>4. q \in Matching => Matches(new)
  BY <1>1, <1>3 DEF Upsets
<1>5. q \in Matching /\ list.key # "updated_at" => table[q].value = new.value
  BY <1>1, <1>3, <1>4 DEF Upsets
<1>6. list' = list /\ DOMAIN table' = DOMAIN table \cup {q} /\ table'[q] = new
      /\ new.stamp = now /\ \A x \in DOMAIN table \ {q} : table'[x] = table[x]
  BY DEF RowWritten
<1>7. \A x \in DOMAIN table' : x \in Matching' <=> Matches(table'[x])
  BY <1>6 DEF Matching, Matches
<1>8. \A x \in DOMAIN table : x \in Matching <=> Matches(table[x])
  BY DEF Matching
<1>9. r # q /\ r \notin touched /\ r \in DOMAIN table /\ table'[r] = table[r]
  BY <1>1, <1>6 DEF Matching
<1>10. r \in Matching
  BY <1>6, <1>7, <1>8, <1>9
<1>11. ASSUME NEW x \in RowsBefore(r) PROVE x \in RowsBefore(r)'
  <2>1. x \in Matching /\ x # r /\ ~Precedes(r, x) /\ x \in DOMAIN table
    BY DEF RowsBefore, Matching
  <2>2. x \in Matching'
    BY <1>4, <1>6, <1>7, <1>8, <2>1
  <2>3. ~Precedes(r, x)'
    <3>1. CASE x # q
      <4>1. table'[x] = table[x]
        BY <1>6, <2>1, <3>1
      <4> QED
        BY <1>6, <1>9, <2>1, <4>1 DEF Precedes, Later, ByField
    <3>2. CASE x = q
      <4>1. ~Later(r, q)'
        <5>1. table[r].stamp <= now /\ table[r].stamp \in Nat /\ now \in Nat
          <6>1. PICK T : T = [active : BOOLEAN, value : Days, stamp : Nat]
            OBVIOUS
          <6>2. table \in Seq(T)
            BY <6>1 DEF ListsShape
          <6>3. table[r] \in T
            BY <1>9, <6>2
          <6> QED
            BY <1>9, <6>1, <6>3 DEF ListsShape
        <5> QED
          BY <1>6, <1>9, <5>1 DEF Later
      <4>2. CASE list.key = "id"
        BY <1>6, <2>1, <3>2, <4>2 DEF Precedes
      <4>3. CASE list.key = "updated_at"
        BY <1>6, <2>1, <3>2, <4>1, <4>3 DEF Precedes
      <4>4. CASE list.key \notin {"id", "updated_at"}
        <5>1. table[q].value = new.value
          BY <1>5, <2>1, <3>2, <4>4
        <5>2. ~(table[r].value < table[q].value)
          BY <2>1, <3>2, <4>4 DEF Precedes, ByField
        <5>3. ~ByField(r, q)'
          BY <1>6, <1>9, <4>1, <5>1, <5>2 DEF ByField
        <5> QED
          BY <1>6, <3>2, <4>4, <5>3 DEF Precedes
      <4> QED
        BY <4>2, <4>3, <4>4
    <3> QED
      BY <3>1, <3>2
  <2> QED
    BY <2>1, <2>2, <2>3 DEF RowsBefore
<1>12. ListsShape'
  BY WrittenShape
<1>13. Place(r) <= Place(r)'
  <2>1. PICK B : B = RowsBefore(r)'
    OBVIOUS
  <2>2. IsFiniteSet(B)
    BY <1>12, <2>1, PlacesAfter
  <2>3. RowsBefore(r) \in SUBSET B
    BY <1>11, <2>1
  <2>4. Cardinality(RowsBefore(r)) <= Cardinality(B)
    BY <2>2, <2>3, FS_Subset
  <2> QED
    BY <2>1, <2>4 DEF Place
<1> QED
  BY <1>2, <1>9, <1>10, <1>13

\* Nor does a row come to the list, or leave it, between the two statements of a page.
LEMMA WrittenKeepsCount ==
  ASSUME NEW q, NEW new, RowWritten(q, new), reading = "counted", OrderHeld'
  PROVE  OrderHeld /\ Matching' = Matching
<1>1. upset' = Upsets(q, new)
  BY DEF RowWritten, Noticed, InReading
<1>2. OrderHeld
  BY <1>1 DEF OrderHeld, Upsets
<1>3. "left" \notin upset' /\ "came between" \notin upset'
  BY DEF OrderHeld
<1>4. q \in Matching <=> Matches(new)
  BY <1>1, <1>3 DEF Upsets
<1>5. list' = list /\ DOMAIN table' = DOMAIN table \cup {q} /\ table'[q] = new
      /\ \A x \in DOMAIN table \ {q} : table'[x] = table[x]
  BY DEF RowWritten
<1>6. \A x \in DOMAIN table' : x \in Matching' <=> Matches(table'[x])
  BY <1>5 DEF Matching, Matches
<1>7. \A x \in DOMAIN table : x \in Matching <=> Matches(table[x])
  BY DEF Matching
<1>8. Matching' \subseteq DOMAIN table' /\ Matching \subseteq DOMAIN table
  BY DEF Matching
<1> QED
  BY <1>2, <1>4, <1>5, <1>6, <1>7, <1>8

LEMMA WrittenKept ==
  ASSUME ListBounds, PagesInv, NEW q, NEW new, RowWritten(q, new)
  PROVE  PagesInv'
<1>1. ListsShape /\ RowsAwaited /\ RowsSeen
  BY DEF PagesInv
<1>2. ListsShape'
  BY <1>1, WrittenShape
<1>3. UNCHANGED <<page, count, shown, reading>> /\ reading # "done" /\ ReadSoFar' = ReadSoFar
  BY DEF RowWritten, ReadSoFar
<1>4. CASE reading = "idle"
  <2>1. UNCHANGED <<touched, upset>>
    BY <1>4 DEF RowWritten, Noticed, InReading
  <2>2. page = 0 /\ touched = {} /\ upset = {} /\ \A r \in Rows : shown[r] = 0
    BY <1>4 DEF PagesInv
  <2>3. ReadSoFar' = 0
    BY <1>3, <2>2 DEF ReadSoFar, ListBounds
  <2>4. \A r : Place(r)' \in Nat
    BY <1>2, PlacesAfter
  <2>5. RowsAwaited'
    BY <2>3, <2>4 DEF RowsAwaited
  <2>6. \A r \in Rows : shown'[r] = IF r \in Matching' /\ Place(r)' < ReadSoFar' THEN 1 ELSE 0
    BY <1>3, <2>2, <2>3, <2>4
  <2>7. RowsSeen'
    BY <1>3, <1>4, <2>6 DEF RowsSeen
  <2>8. reading' = "idle" /\ page' = 0 /\ touched' = {} /\ upset' = {} /\ \A r \in Rows : shown'[r] = 0
    BY <1>3, <1>4, <2>1, <2>2
  <2> QED
    BY <1>2, <2>5, <2>7, <2>8 DEF PagesInv
<1>5. CASE reading # "idle"
  <2>1. InReading
    BY <1>1, <1>3, <1>5 DEF InReading, ListsShape
  <2>2. q \in touched'
    BY <2>1 DEF RowWritten, Noticed
  <2>3. RowsSeen'
    BY <2>2 DEF RowsSeen
  <2>4. ASSUME OrderHeld', NEW r \in Matching' \ touched'
        PROVE  shown'[r] >= 1 \/ Place(r)' >= ReadSoFar'
    <3>1. OrderHeld /\ r \in Matching \ touched /\ Place(r) <= Place(r)'
      BY <1>1, <2>1, <2>4, WrittenKeepsOrder
    <3>2. shown[r] >= 1 \/ Place(r) >= ReadSoFar
      BY <1>1, <3>1 DEF RowsAwaited
    <3>3. Place(r) \in Nat
      BY <1>1, PlacesFinite
    <3>4. Place(r)' \in Nat
      BY <1>2, PlacesAfter
    <3>5. ReadSoFar \in Nat
      BY <1>1, ReadSoFarTyped
    <3> QED
      BY <1>3, <3>1, <3>2, <3>3, <3>4, <3>5
  <2>5. RowsAwaited'
    BY <2>4 DEF RowsAwaited
  <2>6. OrderHeld' /\ reading' \in {"counted", "done"} => count' = Cardinality(Matching')
    <3>1. ASSUME OrderHeld', reading = "counted" PROVE count = Cardinality(Matching')
      <4>1. OrderHeld /\ Matching' = Matching
        BY <3>1, WrittenKeepsCount
      <4> QED
        BY <3>1, <4>1 DEF PagesInv
    <3> QED
      BY <1>3, <3>1
  <2> QED
    BY <1>2, <1>3, <1>5, <2>3, <2>5, <2>6 DEF PagesInv
<1> QED
  BY <1>4, <1>5

LEMMA InsertWrites ==
  ASSUME ListBounds, ListsShape, NEW value \in Days, InsertRow(value)
  PROVE  \E q, new : RowWritten(q, new)
<1>1. PICK T : T = [active : BOOLEAN, value : Days, stamp : Nat]
  OBVIOUS
<1>2. table \in Seq(T) /\ Len(table) \in Nat /\ DOMAIN table = 1..Len(table)
  <2>1. table \in Seq(T)
    BY <1>1 DEF ListsShape
  <2> QED
    BY <2>1
<1>3. PICK new : new = [active |-> TRUE, value |-> value, stamp |-> now]
  OBVIOUS
<1>4. now \in Nat
  BY DEF ListsShape
<1>5. new \in T /\ new.stamp = now
  BY <1>1, <1>3, <1>4
<1>6. /\ Len(table) < MaxRows /\ reading # "done" /\ table' = Append(table, new)
      /\ Noticed(Len(table) + 1, new)
      /\ UNCHANGED <<list, now, writes, reading, page, count, shown>>
  BY <1>3 DEF InsertRow
<1>7. /\ table' \in Seq(T) /\ Len(table') = Len(table) + 1
      /\ table'[Len(table) + 1] = new
      /\ \A x \in 1..Len(table) : table'[x] = table[x]
  BY <1>2, <1>5, <1>6
<1>8. DOMAIN table' = 1..Len(table) + 1
  BY <1>7
<1>9. Len(table) + 1 \in Rows
  BY <1>2, <1>6 DEF Rows, ListBounds
<1>10. DOMAIN table' = DOMAIN table \cup {Len(table) + 1}
  BY <1>2, <1>8
<1>11. Len(table') <= MaxRows
  BY <1>2, <1>6, <1>7 DEF ListBounds
<1>12. RowWritten(Len(table) + 1, new)
  BY <1>1, <1>2, <1>5, <1>6, <1>7, <1>9, <1>10, <1>11 DEF RowWritten
<1> QED
  BY <1>12

LEMMA WriteWrites ==
  ASSUME ListBounds, ListsShape, NEW r \in DOMAIN table, NEW new, WriteRow(r, new),
         new \in [active : BOOLEAN, value : Days, stamp : Nat], new.stamp = now
  PROVE  RowWritten(r, new)
<1>1. PICK T : T = [active : BOOLEAN, value : Days, stamp : Nat]
  OBVIOUS
<1>2. table \in Seq(T)
  BY <1>1 DEF ListsShape
<1>3. DOMAIN table \subseteq Rows
  BY PlacesFinite
<1>4. /\ reading # "done" /\ table' = [table EXCEPT ![r] = new] /\ Noticed(r, new)
      /\ UNCHANGED <<list, now, reading, page, count, shown>>
  BY DEF WriteRow
<1>5. /\ table' \in Seq(T) /\ Len(table') = Len(table) /\ DOMAIN table' = DOMAIN table
      /\ table'[r] = new /\ \A x \in DOMAIN table \ {r} : table'[x] = table[x]
  BY <1>1, <1>2, <1>4
<1>6. Len(table') <= MaxRows
  BY <1>5 DEF ListsShape
<1>7. DOMAIN table' = DOMAIN table \cup {r}
  BY <1>5
<1> QED
  BY <1>1, <1>3, <1>4, <1>5, <1>6, <1>7 DEF RowWritten

LEMMA UpdateWrites ==
  ASSUME ListBounds, ListsShape, NEW r \in DOMAIN table, NEW value \in Days, UpdateRow(r, value)
  PROVE  \E q, new : RowWritten(q, new)
<1>1. PICK new : new = [active |-> TRUE, value |-> value, stamp |-> now]
  OBVIOUS
<1>2. new \in [active : BOOLEAN, value : Days, stamp : Nat] /\ new.stamp = now
  BY <1>1 DEF ListsShape
<1>3. WriteRow(r, new)
  BY <1>1 DEF UpdateRow
<1>4. RowWritten(r, new)
  BY <1>2, <1>3, WriteWrites
<1> QED
  BY <1>4

LEMMA RemoveWrites ==
  ASSUME ListBounds, ListsShape, NEW r \in DOMAIN table, RemoveRow(r)
  PROVE  \E q, new : RowWritten(q, new)
<1>1. PICK new : new = [table[r] EXCEPT !.active = FALSE, !.stamp = now]
  OBVIOUS
<1>2. table[r] \in [active : BOOLEAN, value : Days, stamp : Nat] /\ now \in Nat
  <2>1. PICK T : T = [active : BOOLEAN, value : Days, stamp : Nat]
    OBVIOUS
  <2>2. table \in Seq(T)
    BY <2>1 DEF ListsShape
  <2>3. table[r] \in T
    BY <2>2
  <2> QED
    BY <2>1, <2>3 DEF ListsShape
<1>3. new \in [active : BOOLEAN, value : Days, stamp : Nat] /\ new.stamp = now
  BY <1>1, <1>2
<1>4. WriteRow(r, new)
  BY <1>1 DEF RemoveRow
<1>5. RowWritten(r, new)
  BY <1>3, <1>4, WriteWrites
<1> QED
  BY <1>5

----------------------------------------------------------------------------
(* The reader's steps *)

LEMMA CountKept ==
  ASSUME ListBounds, PagesInv, CountRows
  PROVE  PagesInv'
<1>1. ListsShape /\ RowsAwaited /\ RowsSeen
  BY DEF PagesInv
<1>2. /\ reading \in {"idle", "paged"} /\ reading' = "counted" /\ count' = Cardinality(Matching)
      /\ UNCHANGED <<list, table, now, page, shown>>
  BY DEF CountRows
<1>3. touched' = touched /\ upset' = upset
  BY DEF CountRows, PagesInv
<1>4. Matching' = Matching /\ \A r : Place(r)' = Place(r)
  BY <1>2, SameTable
<1>5. Cardinality(Matching) \in 0..MaxRows
  BY <1>1, PlacesFinite
<1>6. ListsShape'
  BY <1>1, <1>2, <1>3, <1>5 DEF ListsShape
<1>7. RowsAwaited'
  BY <1>1, <1>2, <1>3, <1>4 DEF RowsAwaited, OrderHeld, ReadSoFar
<1>8. RowsSeen'
  BY <1>1, <1>2, <1>3, <1>4 DEF RowsSeen, ReadSoFar
<1> QED
  BY <1>2, <1>4, <1>6, <1>7, <1>8 DEF PagesInv

\* So many pages are no more than so many rows.
LEMMA PagesOfRows ==
  ASSUME NEW m \in Nat, NEW z \in Nat \ {0}
  PROVE  m <= m * z /\ m * z \in Nat /\ (m + 1) * z = m * z + z
<1>1. z >= 1 /\ z \in Int /\ m >= 0 /\ m \in Int
  OBVIOUS
<1>2. (m + 1) * z = m * z + z
  BY <1>1
<1>3. m * z \in Int /\ m * z >= 0
  BY <1>1
<1>4. m * z = m * (z - 1) + m
  BY <1>1
<1>5. m * (z - 1) >= 0 /\ m * (z - 1) \in Int
  BY <1>1
<1> QED
  BY <1>1, <1>2, <1>3, <1>4, <1>5

LEMMA FetchKept ==
  ASSUME ListBounds, PagesInv, FetchPage
  PROVE  PagesInv'
<1>1. ListsShape /\ RowsAwaited /\ RowsSeen
  BY DEF PagesInv
<1>2. PICK from, until : from = page * PageSize /\ until = (page + 1) * PageSize
  OBVIOUS
<1>3. page \in Nat /\ page <= MaxRows /\ PageSize \in Nat \ {0} /\ MaxRows \in Nat /\ count \in 0..MaxRows
  BY DEF PagesInv, ListsShape, ListBounds, FetchPage
<1>4. from \in Nat /\ until \in Nat /\ from <= until /\ page + 1 <= until
  <2>1. from \in Nat /\ until = from + PageSize
    BY <1>2, <1>3, PagesOfRows
  <2>2. page + 1 \in Nat
    BY <1>3
  <2>3. page + 1 <= until /\ until \in Nat
    BY <1>2, <1>3, <2>2, PagesOfRows
  <2> QED
    BY <1>3, <2>1, <2>3
<1>5. PICK s \in Orders :
         shown' = [r \in Rows |-> shown[r] +
                     Cardinality({i \in DOMAIN s : s[i] = r /\ i > page * PageSize
                                                           /\ i <= (page + 1) * PageSize})]
  BY DEF FetchPage
<1>6. \A r \in Rows : shown'[r] = shown[r] + Hits(s, r, from, until)
  BY <1>2, <1>5 DEF Hits
<1>7. \A r \in Rows : Hits(s, r, from, until) \in Nat /\ shown[r] \in Nat
  BY <1>1, <1>4, PageShows DEF ListsShape
<1>8. shown' \in [Rows -> Nat]
  <2>1. \A r \in Rows : shown'[r] \in Nat
    BY <1>6, <1>7
  <2> QED
    BY <1>5, <2>1
<1>9. /\ reading = "counted" /\ page' = page + 1
      /\ reading' = IF page' * PageSize < count THEN "paged" ELSE "done"
      /\ upset' = IF Tied THEN upset \cup {"tied"} ELSE upset
      /\ UNCHANGED <<list, table, now, count, touched>>
  BY DEF FetchPage
<1>10. Matching' = Matching /\ \A r : Place(r)' = Place(r)
  BY <1>9, SameTable
<1>11. ReadSoFar = from /\ ReadSoFar' = until
  BY <1>2, <1>9 DEF ReadSoFar
<1>12. reading' = IF until < count THEN "paged" ELSE "done"
  BY <1>2, <1>9
<1>13. Matching \subseteq Rows /\ \A r : Place(r) \in Nat
  BY <1>1, PlacesFinite
<1>14. ListsShape'
  <2>1. page' \in Nat /\ page' <= MaxRows + 1 /\ (reading' # "done" => page' <= MaxRows)
    BY <1>3, <1>4, <1>9, <1>12
  <2>2. /\ reading' = "paged" => page' * PageSize < count'
        /\ reading' = "done" => page' * PageSize >= count'
        /\ reading' \in {"idle", "counted", "paged", "done"}
    BY <1>2, <1>3, <1>4, <1>9, <1>12
  <2>3. upset' \subseteq {"came", "came between", "left", "moved", "tied"}
    BY <1>1, <1>9 DEF ListsShape
  <2> QED
    BY <1>1, <1>8, <1>9, <2>1, <2>2, <2>3 DEF ListsShape
<1>15. OrderHeld' => OrderHeld /\ ~Tied
  BY <1>9 DEF OrderHeld
<1>16. ASSUME ~Tied, NEW r \in Rows
       PROVE  Hits(s, r, from, until) =
                IF r \in Matching /\ from <= Place(r) /\ Place(r) < until THEN 1 ELSE 0
  BY <1>1, <1>4, <1>16, PageShows
<1>17. ASSUME OrderHeld', NEW r \in Matching' \ touched'
       PROVE  shown'[r] >= 1 \/ Place(r)' >= ReadSoFar'
  <2>1. r \in Matching \ touched /\ r \in Rows /\ Place(r)' = Place(r)
    BY <1>9, <1>10, <1>13, <1>17
  <2>2. shown[r] >= 1 \/ Place(r) >= from
    BY <1>1, <1>11, <1>15, <1>17, <2>1 DEF RowsAwaited
  <2>3. PICK k, h : k = Place(r) /\ h = Hits(s, r, from, until)
    OBVIOUS
  <2>4. k \in Nat /\ h \in Nat /\ shown[r] \in Nat /\ shown'[r] = shown[r] + h
    BY <1>6, <1>7, <1>13, <2>1, <2>3
  <2>5. h = IF from <= k /\ k < until THEN 1 ELSE 0
    BY <1>15, <1>16, <1>17, <2>1, <2>3
  <2>6. shown'[r] >= 1 \/ k >= until
    BY <1>4, <2>2, <2>3, <2>4, <2>5
  <2> QED
    BY <1>11, <2>1, <2>3, <2>6
<1>18. RowsAwaited'
  BY <1>17 DEF RowsAwaited
<1>19. ASSUME upset' = {}, touched' = {}
       PROVE  /\ \A r \in Rows :
                    shown'[r] = IF r \in Matching' /\ Place(r)' < ReadSoFar' THEN 1 ELSE 0
              /\ count' = Cardinality(Matching')
  <2>1. upset = {} /\ touched = {} /\ ~Tied
    BY <1>9, <1>19
  <2>2. /\ \A r \in Rows : shown[r] = IF r \in Matching /\ Place(r) < from THEN 1 ELSE 0
        /\ count = Cardinality(Matching)
    BY <1>1, <1>9, <1>11, <2>1 DEF RowsSeen
  <2>3. ASSUME NEW r \in Rows
        PROVE  shown'[r] = IF r \in Matching' /\ Place(r)' < ReadSoFar' THEN 1 ELSE 0
    <3>1. PICK k, h : k = Place(r) /\ h = Hits(s, r, from, until)
      OBVIOUS
    <3>2. k \in Nat /\ h \in Nat /\ shown[r] \in Nat /\ shown'[r] = shown[r] + h
      BY <1>6, <1>7, <1>13, <3>1
    <3>3. h = IF r \in Matching /\ from <= k /\ k < until THEN 1 ELSE 0
      BY <1>16, <2>1, <3>1
    <3>4. shown[r] = IF r \in Matching /\ k < from THEN 1 ELSE 0
      BY <2>2, <3>1
    <3>5. shown'[r] = IF r \in Matching /\ k < until THEN 1 ELSE 0
      BY <1>4, <3>2, <3>3, <3>4
    <3> QED
      BY <1>10, <1>11, <3>1, <3>5
  <2> QED
    BY <1>9, <1>10, <2>2, <2>3
<1>20. RowsSeen'
  BY <1>19 DEF RowsSeen
<1>21. OrderHeld' => count' = Cardinality(Matching')
  BY <1>9, <1>10, <1>15 DEF PagesInv
<1>22. reading' # "idle"
  BY <1>12
<1> QED
  BY <1>14, <1>18, <1>20, <1>21, <1>22 DEF PagesInv

LEMMA SecondKept ==
  ASSUME ListBounds, PagesInv, Second
  PROVE  PagesInv'
<1>1. now' = now + 1 /\ UNCHANGED <<list, table, reading, page, count, shown, touched, upset>>
  BY DEF Second
<1>2. Matching' = Matching /\ \A r : Place(r)' = Place(r)
  BY <1>1, SameTable
<1>3. ListsShape'
  <2>1. PICK T : T = [active : BOOLEAN, value : Days, stamp : Nat]
    OBVIOUS
  <2>2. table \in Seq(T) /\ now \in Nat /\ \A r \in DOMAIN table : table[r].stamp <= now
    BY <2>1 DEF PagesInv, ListsShape
  <2>3. \A r \in DOMAIN table : table[r] \in T
    BY <2>2
  <2>4. \A r \in DOMAIN table : table[r].stamp \in Nat
    BY <2>1, <2>3
  <2>5. now + 1 \in Nat /\ \A r \in DOMAIN table : table[r].stamp <= now + 1
    BY <2>2, <2>4
  <2> QED
    BY <1>1, <2>5 DEF PagesInv, ListsShape
<1> QED
  BY <1>1, <1>2, <1>3 DEF PagesInv, RowsAwaited, RowsSeen, OrderHeld, ReadSoFar

LEMMA StillKept ==
  ASSUME PagesInv, UNCHANGED listVars
  PROVE  PagesInv'
<1>1. UNCHANGED <<list, table, now, reading, page, count, shown, touched, upset>>
  BY DEF listVars
<1>2. Matching' = Matching /\ \A r : Place(r)' = Place(r)
  BY <1>1, SameTable
<1> QED
  BY <1>1, <1>2 DEF PagesInv, ListsShape, RowsAwaited, RowsSeen, OrderHeld, ReadSoFar

LEMMA PagesKept ==
  ASSUME ListBounds, PagesInv, [ListsNext]_listVars
  PROVE  PagesInv'
<1>1. ListsShape
  BY DEF PagesInv
<1>2. CASE CountRows
  BY <1>2, CountKept
<1>3. CASE FetchPage
  BY <1>3, FetchKept
<1>4. CASE Second
  BY <1>4, SecondKept
<1>5. CASE \E value \in Days : InsertRow(value)
  <2>1. PICK q, new : RowWritten(q, new)
    BY <1>1, <1>5, InsertWrites
  <2> QED
    BY <2>1, WrittenKept
<1>6. CASE \E r \in DOMAIN table : RemoveRow(r) \/ \E value \in Days : UpdateRow(r, value)
  <2>1. PICK q, new : RowWritten(q, new)
    BY <1>1, <1>6, RemoveWrites, UpdateWrites
  <2> QED
    BY <2>1, WrittenKept
<1>7. CASE UNCHANGED listVars
  BY <1>7, StillKept
<1> QED
  BY <1>2, <1>3, <1>4, <1>5, <1>6, <1>7 DEF ListsNext

LEMMA PagesBegin ==
  ASSUME ListBounds, ListsInit
  PROVE  PagesInv
<1>1. /\ table = <<>> /\ now = 0 /\ reading = "idle" /\ page = 0 /\ count = 0
      /\ shown = [r \in Rows |-> 0] /\ touched = {} /\ upset = {} /\ list \in Lists
  BY DEF ListsInit
<1>2. list.key \in ListKeys
  BY <1>1, KeysKnown
<1>3. table \in Seq([active : BOOLEAN, value : Days, stamp : Nat]) /\ Len(table) = 0 /\ DOMAIN table = {}
  BY <1>1
<1>4. ListsShape
  BY <1>1, <1>2, <1>3 DEF ListsShape, ListBounds
<1>5. ReadSoFar = 0
  BY <1>1 DEF ReadSoFar, ListBounds
<1>6. Matching = {}
  BY <1>3 DEF Matching
<1>7. RowsAwaited
  BY <1>6 DEF RowsAwaited
<1>8. RowsSeen
  BY <1>1, <1>6 DEF RowsSeen
<1> QED
  BY <1>1, <1>4, <1>7, <1>8 DEF PagesInv

LEMMA PagesShown ==
  ASSUME ListBounds, PagesInv
  PROVE  ListsTypeOK /\ PagesTell
<1>1. ListsShape /\ RowsAwaited /\ RowsSeen
  BY DEF PagesInv
<1>2. ListsTypeOK
  <2>1. PICK T : T = [active : BOOLEAN, value : Days, stamp : Nat]
    OBVIOUS
  <2>2. table \in Seq(T)
    BY <1>1, <2>1 DEF ListsShape
  <2>3. \A r \in DOMAIN table : table[r] \in T
    BY <2>2
  <2>4. \A r \in DOMAIN table : table[r].value \in Days
    BY <2>1, <2>3
  <2> QED
    BY <1>1, <2>4 DEF ListsTypeOK, ListsShape
<1>3. ASSUME reading = "done", count = Cardinality(Matching), NEW r \in Matching
      PROVE  Place(r) < ReadSoFar
  <2>1. Place(r) < Cardinality(Matching) /\ Place(r) \in Nat /\ Cardinality(Matching) \in 0..MaxRows
    BY <1>1, PlacesFinite
  <2>2. ReadSoFar \in Nat /\ MaxRows \in Nat
    BY <1>1, ReadSoFarTyped DEF ListBounds
  <2>3. ReadSoFar >= count
    BY <1>1, <1>3 DEF ListsShape, ReadSoFar
  <2> QED
    BY <1>3, <2>1, <2>2, <2>3
<1>4. ASSUME reading = "done", OrderHeld, NEW r \in Matching \ touched PROVE shown[r] >= 1
  <2>1. count = Cardinality(Matching)
    BY <1>4 DEF PagesInv
  <2>2. Place(r) < ReadSoFar
    BY <1>3, <1>4, <2>1
  <2>3. Place(r) \in Nat /\ ReadSoFar \in Nat
    BY <1>1, PlacesFinite, ReadSoFarTyped
  <2>4. shown[r] >= 1 \/ Place(r) >= ReadSoFar
    BY <1>1, <1>4 DEF RowsAwaited
  <2> QED
    BY <2>2, <2>3, <2>4
<1>5. ASSUME reading = "done", upset = {}, touched = {}
      PROVE  /\ \A r \in Rows : shown[r] = IF r \in Matching THEN 1 ELSE 0
             /\ count = Cardinality(Matching)
  <2>1. count = Cardinality(Matching)
    BY <1>1, <1>5 DEF RowsSeen
  <2>2. \A r \in Rows : shown[r] = IF r \in Matching /\ Place(r) < ReadSoFar THEN 1 ELSE 0
    BY <1>1, <1>5 DEF RowsSeen
  <2>3. \A r \in Matching : Place(r) < ReadSoFar
    BY <1>3, <1>5, <2>1
  <2> QED
    BY <2>1, <2>2, <2>3
<1>6. PagesTell
  BY <1>4, <1>5 DEF PagesTell, OrderHeld
<1> QED
  BY <1>2, <1>6

\* PagesTell (PagedLists): whoever turns all the pages of a list sees every row that
\* nobody wrote meanwhile, for any number of rows, writes and rows to a page, and
\* whatever is inserted, updated and deleted between two statements: unless a row left
\* the list, or moved in it, or came between the two statements of a page, or rows tied.
THEOREM ListsTell ==
  ASSUME ListBounds
  PROVE  ListsSpec => [](ListsTypeOK /\ PagesTell)
<1>1. ListsInit => PagesInv
  BY PagesBegin
<1>2. PagesInv /\ [ListsNext]_listVars => PagesInv'
  BY PagesKept
<1>3. PagesInv => ListsTypeOK /\ PagesTell
  BY PagesShown
<1> QED
  BY <1>1, <1>2, <1>3, PTL DEF ListsSpec

=============================================================================
