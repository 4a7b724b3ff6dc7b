-------------------------- MODULE MCTransferTotals --------------------------
(***************************************************************************)
(* TransferTotals on a small instance.                                     *)
(***************************************************************************)
EXTENDS TransferTotals, TLC

\* Request slots are interchangeable, and so are documents.
MCSymmetry == Permutations(Procs) \cup Permutations(Docs)

=============================================================================
