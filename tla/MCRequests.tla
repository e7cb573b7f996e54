----------------------------- MODULE MCRequests -----------------------------
(***************************************************************************)
(* Requests over the types of src/generated/client.ts (ClientShapes): the  *)
(* payloads are the Request aliases IPatternConfig names (ClientTables).   *)
(***************************************************************************)
EXTENDS Requests, ClientShapes, ClientTables

\* The Request alias of every entry of IPatternConfig.
MCPayloads == {RealPatternConfig[i][2] : i \in DOMAIN RealPatternConfig}

\* The Response alias of every entry of IPatternConfig.
MCReplies == {RealPatternConfig[i][3] : i \in DOMAIN RealPatternConfig}

=============================================================================
