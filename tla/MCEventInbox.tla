------------------------------ MODULE MCEventInbox ------------------------------
(* Two events and two rules of one monitor. *)
EXTENDS EventInbox

CONSTANTS e1, e2, r1, r2

MCEvents == {e1, e2}
MCRules == {r1, r2}
=============================================================================
