------------------------------ MODULE MCUnknownTime ------------------------------
(***************************************************************************)
(* The rule engine beside a clock that watches for unknown time: an        *)
(* instant at which the last usable data of the group is older than        *)
(* maxStaleSeconds, whether or not a metric arrives to make the engine     *)
(* evaluate the rule.                                                      *)
(***************************************************************************)
EXTENDS MCRuleEngine

VARIABLE
  gap   \* the group was unknown at some instant since conditionSince

gapVars == <<vars, gap>>

\* What the engine would find if it evaluated the rule at time t.
TruthAt(t) == GroupTruth(ConditionResults(cache, t, {}))

Accumulating(s) == s.state = "ARMED" /\ s.conditionSince # None

GapInit == Init /\ gap = FALSE

\* Prompt metrics and time alone: no failure, restart, delay or reconfiguration
\* is needed.
PromptArrivals == {m \in Arrivals : m.observedAt = now /\ m.receivedAt = now}

GapNext ==
  /\ Tick \/ \E m \in PromptArrivals : Consume(m)
  /\ gap' = /\ Accumulating(state')
            /\ gap \/ (now' > now /\ TruthAt(now') = "unknown")

GapSpec == GapInit /\ [][GapNext]_gapVars

\* dashboard-api.md: time during which the group is unknown is not counted into
\* durationSeconds, so no rule triggers on a span that contains such a time.
UnknownTimeNotCounted == [][Triggers => ~gap]_gapVars
=============================================================================
