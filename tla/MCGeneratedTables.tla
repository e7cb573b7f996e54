------------------------- MODULE MCGeneratedTables -------------------------
(***************************************************************************)
(* The exchange over the tables of client.ts, with their consistency      *)
(* (GeneratedTables) evaluated by TLC first.                              *)
(***************************************************************************)
EXTENDS GeneratedTables

=============================================================================
