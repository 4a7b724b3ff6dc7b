------------------------------- MODULE Records -------------------------------
(***************************************************************************)
(* Deleting a record that documents refer to.  Accounts, products,         *)
(* machines, employees and resources are marked inactive, and only if no   *)
(* active document of certain kinds refers to them: each isDeletable       *)
(* counts its own kinds, one statement a kind, and the record is marked in *)
(* a later one.  A document is only its kind, the record it refers to and  *)
(* the request that last saved it; the contacts of an account only whether *)
(* any is in force.  Accounts of the company itself are never deleted and  *)
(* are left out.                                                           *)
(***************************************************************************)
EXTENDS RequestSlots

CONSTANTS Masters

VARIABLES
    masters,       \* the records: kind, whether active, the requests that last
                   \* saved and deleted each
    documents,     \* by the request that created each
    contacted      \* the accounts with contacts in force

recordVars == <<masters, documents, contacted>>

----------------------------------------------------------------------------
(* Who refers to whom, and who asks *)

Referring ==
    [account  |-> {"order_request", "order_sale", "expense", "transfer", "order_quotation"},
     product  |-> {"order_request", "order_sale", "order_adjustment", "order_production",
                   "order_quotation", "production_plan"},
     machine  |-> {"order_production", "production_plan"},
     employee |-> {"order_production", "production_plan"},
     resource |-> {"expense"}]

\* Mutant: the sales of an account are not counted.
SalesUncounted == {"order_request", "expense", "transfer"}

AccountDependencies == {"order_request", "order_sale", "expense", "transfer"}
ProductDependencies == {"order_request", "order_adjustment", "order_production", "order_sale"}
MachineDependencies == {"order_production"}
EmployeeDependencies == {"order_production"}

\* What getDependenciesCount counts for each kind of record.
Counted ==
    [account |-> AccountDependencies, product |-> ProductDependencies,
     machine |-> MachineDependencies, employee |-> EmployeeDependencies, resource |-> {}]

\* The documents whose validation refuses a record that is not active.
PlanRefuses == {"machine", "product", "employee"}
QuotationRefuses == {"product"}
RefusesInactive(doc, kind) ==
    \/ doc = "production_plan" /\ kind \in PlanRefuses
    \/ doc = "order_quotation" /\ kind \in QuotationRefuses

Kinds == DOMAIN Referring
Document ==
    [kind : UNION Range(Referring), master : Masters, active : BOOLEAN, saved : Serials]

RecordsTypeOK ==
    /\ masters \in [Masters -> [kind : Kinds, active : BOOLEAN, saved : Serials \cup {0},
                                deleted : Serials \cup {0}]]
    /\ DOMAIN documents \subseteq Serials
    /\ Range(documents) \subseteq Document
    /\ contacted \subseteq {m \in Masters : masters[m].kind = "account"}

RecordsInit ==
    /\ \E kind \in [Masters -> Kinds] :
         masters = [m \in Masters |->
                       [kind |-> kind[m], active |-> TRUE, saved |-> 0, deleted |-> 0]]
    /\ documents = <<>>
    /\ contacted = {m \in Masters : masters[m].kind = "account"}

DeletionsOf(m) ==
    {q \in InFlight({"count", "contacts", "mark"}) : job[q].master = m}
SavesOfRecord(m) == {q \in InFlight({"document", "account"}) : job[q].master = m}

Dependents(kind, m) ==
    {d \in DOMAIN documents : /\ documents[d].active
                              /\ documents[d].kind = kind
                              /\ documents[d].master = m}

----------------------------------------------------------------------------
(* Documents: validated, then saved *)

BeginDocument(p, d, kind, m) ==
    /\ \/ d = NextSerial
       \/ d \in DOMAIN documents /\ documents[d].kind = kind
    /\ kind \in Referring[masters[m].kind]
    /\ RefusesInactive(kind, masters[m].kind) => masters[m].active
    /\ Start(p, "document", [n |-> NextSerial, doc |-> d, kind |-> kind, master |-> m],
             DeletionsOf(m))
    /\ UNCHANGED recordVars

\* A document deleted before stays deleted.
SaveDocument(p) ==
    /\ phase[p] = "document"
    /\ LET j == job[p]
           active == j.doc \in DOMAIN documents => documents[j.doc].active
       IN documents' = [d \in DOMAIN documents \cup {j.doc} |->
             IF d # j.doc THEN documents[d]
             ELSE [kind |-> j.kind, master |-> j.master, active |-> active, saved |-> j.n]]
    /\ Finish(p)
    /\ UNCHANGED <<masters, contacted>>

DeleteDocument(p, d) ==
    /\ d \in DOMAIN documents /\ documents[d].active
    /\ Instant(p)
    /\ documents' = [documents EXCEPT ![d].active = FALSE]
    /\ UNCHANGED <<masters, contacted>>

----------------------------------------------------------------------------
(* upsertAccount, as far as the contacts go: one transaction, which leaves *)
(* alone whether the account is active                                      *)

BeginAccount(p, m, withContacts) ==
    /\ masters[m].kind = "account"
    /\ Start(p, "account", [n |-> NextSerial, master |-> m, contacts |-> withContacts],
             DeletionsOf(m))
    /\ UNCHANGED recordVars

SaveAccount(p) ==
    /\ phase[p] = "account"
    /\ LET m == job[p].master IN
       /\ contacted' = IF job[p].contacts THEN contacted \cup {m} ELSE contacted \ {m}
       /\ masters' = [masters EXCEPT ![m].saved = job[p].n]
    /\ Finish(p)
    /\ UNCHANGED documents

----------------------------------------------------------------------------
(* deletesAccount, deleteProduct, deleteMachine, deletesEmployee and       *)
(* deleteResource                                                          *)

\* A product or a resource is not asked whether it was deleted already.
BeginDelete(p, m) ==
    /\ masters[m].active \/ masters[m].kind \in {"product", "resource"}
    /\ Start(p, "count", [n |-> NextSerial, master |-> m, left |-> Counted[masters[m].kind]],
             DeletionsOf(m) \cup SavesOfRecord(m))
    /\ UNCHANGED recordVars

\* One count; a dependent refuses the deletion.
CountDependents(p) ==
    /\ phase[p] = "count"
    /\ \E kind \in job[p].left :
         IF Dependents(kind, job[p].master) # {} THEN Finish(p)
         ELSE Goto(p, "count", [job[p] EXCEPT !.left = @ \ {kind}])
    /\ UNCHANGED recordVars

Deletable(p) == phase[p] = "count" /\ job[p].left = {}

\* deletesAccount marks the contacts in force one by one; here, the last of them.
DeleteContacts(p) ==
    /\ Deletable(p)
    /\ masters[job[p].master].kind = "account"
    /\ contacted' = contacted \ {job[p].master}
    /\ Goto(p, "mark", job[p])
    /\ UNCHANGED <<masters, documents>>

MarkDeleted(p) ==
    /\ \/ phase[p] = "mark"
       \/ Deletable(p) /\ masters[job[p].master].kind # "account"
    /\ masters' = [masters EXCEPT ![job[p].master].active = FALSE,
                                  ![job[p].master].deleted = job[p].n]
    /\ Finish(p)
    /\ UNCHANGED <<documents, contacted>>

----------------------------------------------------------------------------

FailRecord(p) ==
    /\ Fail(p, FALSE)
    /\ UNCHANGED recordVars

RecordsNext ==
    \E p \in Procs :
        \/ \E d \in Serials, m \in Masters, kind \in UNION Range(Referring) :
              BeginDocument(p, d, kind, m)
        \/ SaveDocument(p)
        \/ \E d \in Serials : DeleteDocument(p, d)
        \/ \E m \in Masters, withContacts \in BOOLEAN : BeginAccount(p, m, withContacts)
        \/ SaveAccount(p)
        \/ \E m \in Masters : BeginDelete(p, m)
        \/ CountDependents(p) \/ DeleteContacts(p) \/ MarkDeleted(p)
        \/ FailRecord(p)

RecordsSpec == SlotsInit /\ RecordsInit /\ [][RecordsNext]_<<slotVars, recordVars>>

----------------------------------------------------------------------------
(* What is claimed of them *)

\* Kinds of documents that keep a record from being deleted: those the code means
\* to protect, getDependenciesCount of an account being "every table that
\* references this account by id" but for the quotations.
Protecting ==
    [account  |-> {"order_request", "order_sale", "expense", "transfer"},
     product  |-> {"order_request", "order_sale", "order_adjustment", "order_production"},
     machine  |-> {"order_production"},
     employee |-> {"order_production"},
     resource |-> {}]

\* An active document of a protecting kind refers to a deleted record, and a
\* deleted account has a contact in force, only through a save that began after
\* the deletion, unless a deletion overlapped a save of the same record: whatever
\* is repointed, refused or fails.  Documents that refuse inactive records refer
\* to none they were saved with after its deletion.
DeletionClean ==
    ~contended =>
        \A m \in {x \in Masters : ~masters[x].active} :
            /\ m \in contacted => masters[m].saved > masters[m].deleted
            /\ \A d \in DOMAIN documents :
                  LET doc == documents[d]
                      later == doc.saved > masters[m].deleted
                  IN doc.active /\ doc.master = m =>
                        /\ doc.kind \in Protecting[masters[m].kind] => later
                        /\ RefusesInactive(doc.kind, masters[m].kind) => ~later

=============================================================================
