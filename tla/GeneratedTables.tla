------------------------- MODULE GeneratedTables ---------------------------
(***************************************************************************)
(* The tables of src/generated/client.ts checked as constants: TLC        *)
(* evaluates TablesConsistent, the hypothesis of the theorem ExchangeSafe *)
(* of PatternRegistryProofs, on the real tables before it explores the    *)
(* exchange over them.                                                    *)
(***************************************************************************)
EXTENDS MCPatternRegistry

\* Spec 3, 4.2 and 4.3 of the generated tables: no literal assigns a key
\* twice, the wire strings are distinct, StringToPattern, PatternToString
\* and IPatternConfig are keyed by exactly the enum values, the lookups are
\* inverse, and the entry of X names X_REQUEST and X_RESPONSE.
ASSUME GeneratedTablesConsistent == TablesConsistent

=============================================================================
