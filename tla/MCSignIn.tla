------------------------------ MODULE MCSignIn ------------------------------
(***************************************************************************)
(* SignIn on a small instance.                                             *)
(***************************************************************************)
EXTENDS SignIn, TLC

\* Request slots are interchangeable.
MCSymmetry == Permutations(Procs)

=============================================================================
