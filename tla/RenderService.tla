--------------------------- MODULE RenderService ---------------------------
(***************************************************************************)
(* What the render engine promises to the code that submits to it          *)
(* (src/src/core/RenderEngine.hpp): every request is finished once, with a *)
(* pixmap or with none, or without a word if its caller withdrew it; and   *)
(* the engine is destroyed only when nothing is left waiting.  How, by     *)
(* which thread, in which order and from which cache is not said here:     *)
(* RenderEngine implements it.                                             *)
(***************************************************************************)
EXTENDS Integers

CONSTANT Requests

VARIABLES
    state,       \* of each request: "absent", "waiting", or its Outcome
    withdrawn,   \* requests whose caller asked to cancel them
    phase        \* "open", "closing" (no more requests), "closed"

vars == <<state, withdrawn, phase>>

Outcome == {"pixmap", "null", "skipped"}

Init ==
    /\ state = [r \in Requests |-> "absent"]
    /\ withdrawn = {}
    /\ phase = "open"

Submit(r) ==
    /\ phase = "open"
    /\ state[r] = "absent"
    /\ state' = [state EXCEPT ![r] = "waiting"]
    /\ UNCHANGED <<withdrawn, phase>>

\* A caller may withdraw requests at any time, those already finished too.
Withdraw(S) ==
    /\ \A r \in S : state[r] # "absent"
    /\ withdrawn' = withdrawn \cup S
    /\ UNCHANGED <<state, phase>>

Finish(r, o) ==
    /\ state[r] = "waiting"
    /\ o = "skipped" => r \in withdrawn
    /\ state' = [state EXCEPT ![r] = o]
    /\ UNCHANGED <<withdrawn, phase>>

BeginClose ==
    /\ phase = "open"
    /\ phase' = "closing"
    /\ UNCHANGED <<state, withdrawn>>

EndClose ==
    /\ phase = "closing"
    /\ \A r \in Requests : state[r] # "waiting"
    /\ phase' = "closed"
    /\ UNCHANGED <<state, withdrawn>>

Next ==
    \/ \E r \in Requests : Submit(r) \/ \E o \in Outcome : Finish(r, o)
    \/ \E S \in SUBSET Requests : Withdraw(S)
    \/ BeginClose
    \/ EndClose

SafeSpec == Init /\ [][Next]_vars

Fairness ==
    /\ \A r \in Requests : WF_vars(\E o \in Outcome : Finish(r, o))
    /\ WF_vars(EndClose)

Spec == SafeSpec /\ Fairness
=============================================================================
