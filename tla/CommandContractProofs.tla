----------------------- MODULE CommandContractProofs -----------------------
(***************************************************************************)
(* The abstract typed command keeps its promise, for every set of patterns *)
(* and every assignment of Request and Response shapes: CommandInv holds   *)
(* in every state.  PatternRegistryProofs carries this down to the         *)
(* exchange through the refinement mapping.                               *)
(***************************************************************************)
EXTENDS CommandContract, TLAPS

\* CommandInv is inductive as it stands: each action sets all four
\* variables to values that satisfy it for the phase it enters.
LEMMA CommandInvInductive ==
    CommandInv /\ [Next]_vars => CommandInv'
<1> SUFFICES ASSUME CommandInv, [Next]_vars PROVE CommandInv'
    OBVIOUS
<1>1. ASSUME NEW p \in Patterns, Call(p) PROVE CommandInv'
    BY <1>1 DEF Call, CommandInv
<1>2. CASE Respond
    BY <1>2 DEF Respond, CommandInv
<1>3. CASE Return
    BY <1>3 DEF Return, CommandInv
<1>4. CASE UNCHANGED vars
    BY <1>4 DEF vars, CommandInv
<1>5. QED
    BY <1>1, <1>2, <1>3, <1>4 DEF Next

\* A typed command returns the Response shape of the pattern it invoked,
\* and carries that pattern's Request shape while it is outstanding.
THEOREM CommandSafe == Spec => []CommandInv
<1>1. Init => CommandInv
    BY DEF Init, CommandInv
<1>2. QED
    BY <1>1, CommandInvInductive, PTL DEF Spec

=============================================================================
