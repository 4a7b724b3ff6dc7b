------------------------ MODULE MCAccountStatements ------------------------
(***************************************************************************)
(* AccountStatements of one request at a time.                             *)
(***************************************************************************)
EXTENDS AccountStatements

=============================================================================
