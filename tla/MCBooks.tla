------------------------------- MODULE MCBooks -------------------------------
(***************************************************************************)
(* The acceptance of a quotation and the lists, one in a behaviour: they   *)
(* share nothing at the detail they are modelled in, and `part` says which *)
(* of them a behaviour is of.                                              *)
(***************************************************************************)
EXTENDS QuotationAcceptance, PagedLists, TLC

VARIABLE part

ASSUME ListBoundsHold == ListBounds

\* The part a behaviour is not of has one initial state.
MCInit ==
    /\ part \in {"quotation", "lists"}
    /\ Init /\ ListsInit
    /\ part # "quotation" =>
          /\ quotation.status = "Enviada" /\ catalog = {}
          /\ \A l \in lines : l.product = NoProduct
    /\ part # "lists" => list \in ActivitiesList

MCNext ==
    \/ part = "quotation" /\ Next /\ UNCHANGED <<part, listVars>>
    \/ part = "lists" /\ ListsNext /\ UNCHANGED <<part, vars>>

MCSpec == MCInit /\ [][MCNext]_<<part, vars, listVars>>

\* Not continued are two kinds of states of the lists that differ from others in nothing
\* the list tells apart: with a row of day 2, which is in the days picked as day 1 is or out
\* of them as day 3 is, in a list not sorted by it; and with a second gone by, in a list not
\* sorted by its stamps.
Calm ==
    /\ list.key \in {"id", "updated_at"} => \A r \in DOMAIN table : table[r].value # 2
    /\ list.key \in {"id", "field"} => now = 0

BooksTypeOK == TypeOK /\ ListsTypeOK

Symmetry == Permutations(Procs) \cup Permutations(Products) \cup Permutations(Prices)

=============================================================================
