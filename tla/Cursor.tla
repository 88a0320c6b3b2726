------------------------------- MODULE Cursor -------------------------------
(***************************************************************************)
(* What parser::read promises about the client's state_t whatever the      *)
(* parser is: a read that hands over a value leaves a rest of the view it  *)
(* began with, and one that does not leaves the view as it was.            *)
(***************************************************************************)
EXTENDS Integers

CONSTANT Views   \* the views a client can begin with

VARIABLES view, busy, success

vars == <<view, busy, success>>

\* The rest w of the view v: the same end, some characters fewer in front.
IsRest(w, v) ==
    /\ v.begin <= w.begin
    /\ w.begin <= w.end
    /\ w.end = v.end

Init == view \in Views /\ busy = FALSE /\ success = FALSE

Begin ==
    /\ ~ busy /\ busy' = TRUE
    /\ success' = FALSE
    /\ UNCHANGED view

Succeed ==
    /\ busy /\ busy' = FALSE
    /\ success' = TRUE
    /\ IsRest(view', view)

Fail ==
    /\ busy /\ busy' = FALSE
    /\ success' = FALSE
    /\ UNCHANGED view

Next == Begin \/ Succeed \/ Fail

Spec == Init /\ [][Next]_vars

=============================================================================
