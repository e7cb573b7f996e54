------------------------------ MODULE MCShapes ------------------------------
(***************************************************************************)
(* Shapes over the types of src/generated/client.ts (ClientShapes): the    *)
(* replies are the Response aliases IPatternConfig names (ClientTables).   *)
(***************************************************************************)
EXTENDS Shapes, ClientShapes, ClientTables

\* The Response alias of every entry of IPatternConfig.
MCReplies == {RealPatternConfig[i][3] : i \in DOMAIN RealPatternConfig}

=============================================================================
