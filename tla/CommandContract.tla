-------------------------- MODULE CommandContract --------------------------
(***************************************************************************)
(* What a typed command promises its caller (spec 4.3, 6 and 8), with the  *)
(* wire left out: a caller invokes a pattern with a payload of its Request *)
(* shape, and the answer it gets back has the Response shape of that same *)
(* pattern.  One command is outstanding at a time.                         *)
(***************************************************************************)
CONSTANTS
    Patterns,    \* the patterns a caller may invoke
    Requests,    \* pattern -> the Request shape of its payload
    Responses,   \* pattern -> the Response shape of its answer
    None         \* no command, payload or answer

VARIABLES
    phase,     \* "idle", "pending" (invoked) or "answered"
    cmd,       \* the pattern invoked, or None
    request,   \* the payload it was invoked with, or None
    answer     \* the answer it got, or None

vars == <<phase, cmd, request, answer>>

Init ==
    /\ phase = "idle"
    /\ cmd = None
    /\ request = None
    /\ answer = None

\* The caller invokes pattern p with a payload of p's Request shape.
Call(p) ==
    /\ phase = "idle"
    /\ phase' = "pending"
    /\ cmd' = p
    /\ request' = Requests[p]
    /\ answer' = None

\* The command is answered with the Response shape of the pattern invoked.
Respond ==
    /\ phase = "pending"
    /\ phase' = "answered"
    /\ answer' = Responses[cmd]
    /\ UNCHANGED <<cmd, request>>

\* The caller takes the answer; the command is over.
Return ==
    /\ phase = "answered"
    /\ phase' = "idle"
    /\ cmd' = None
    /\ request' = None
    /\ answer' = None

Next ==
    \/ \E p \in Patterns : Call(p)
    \/ Respond
    \/ Return

Spec == Init /\ [][Next]_vars

\* Spec 6 and 8 (what a typed command promises): while a command is
\* outstanding it is one pattern invoked with that pattern's Request shape,
\* it has no answer until it is answered, and the answer it returns with is
\* the Response shape of the same pattern; between commands nothing is
\* left over.
CommandInv ==
    /\ phase \in {"idle", "pending", "answered"}
    /\ phase = "idle" => cmd = None /\ request = None /\ answer = None
    /\ phase # "idle" => cmd \in Patterns /\ request = Requests[cmd]
    /\ phase = "pending" => answer = None
    /\ phase = "answered" => answer = Responses[cmd]

=============================================================================
