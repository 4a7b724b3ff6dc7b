--------------------------- MODULE MCRefreshTokens ---------------------------
(***************************************************************************)
(* RefreshTokens on a small instance.                                      *)
(***************************************************************************)
EXTENDS RefreshTokens, TLC

\* No tolerance, as in the test environment, and a window of one second.
MCGraces == {0, 2}

\* Request slots are interchangeable, and so are users (safety only).
MCSymmetry == Permutations(Procs) \cup Permutations(Users)

=============================================================================
