------------------------------ MODULE EventEffects ------------------------------
(***************************************************************************)
(* What the event inbox promises, without its reservations, retries and    *)
(* restarts: every rule takes each event into account once, raising at     *)
(* most one alert for it, and an event is done when all rules have.        *)
(***************************************************************************)
EXTENDS Naturals

CONSTANTS Events, Rules

VARIABLES
  applied,  \* the <<rule, event>> pairs that took effect
  raised,   \* alerts raised per <<rule, event>>
  done,     \* events that are complete
  deleted   \* the monitor is gone

effectVars == <<applied, raised, done, deleted>>

Init ==
  /\ applied = {}
  /\ raised = [pair \in Rules \X Events |-> 0]
  /\ done = {}
  /\ deleted = FALSE

Apply(r, e) ==
  /\ ~deleted /\ e \notin done
  /\ <<r, e>> \notin applied
  /\ applied' = applied \cup {<<r, e>>}
  /\ \E alert \in {0, 1} : raised' = [raised EXCEPT ![<<r, e>>] = alert]
  /\ UNCHANGED <<done, deleted>>

Complete(e) ==
  /\ ~deleted /\ e \notin done
  /\ Rules \X {e} \subseteq applied
  /\ done' = done \cup {e}
  /\ UNCHANGED <<applied, raised, deleted>>

\* The monitor's rules and events are deleted with it; its alerts stay.
Forget ==
  /\ ~deleted
  /\ deleted' = TRUE
  /\ applied' = {} /\ done' = {}
  /\ UNCHANGED raised

Next ==
  \/ \E r \in Rules, e \in Events : Apply(r, e)
  \/ \E e \in Events : Complete(e)
  \/ Forget

Spec == Init /\ [][Next]_effectVars
=============================================================================
