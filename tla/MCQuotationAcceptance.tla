----------------------- MODULE MCQuotationAcceptance -----------------------
(***************************************************************************)
(* QuotationAcceptance on a small instance.                                *)
(***************************************************************************)
EXTENDS QuotationAcceptance, TLC

\* Request slots are interchangeable, and so are products and prices.
MCSymmetry == Permutations(Procs) \cup Permutations(Products) \cup Permutations(Prices)

=============================================================================
