---------------------------- MODULE RuleStateMachine ----------------------------
(***************************************************************************)
(* The pure half of the rule engine: core/rules/rule-state-machine.ts.     *)
(*                                                                         *)
(* A condition is a record [operator, threshold, hysteresis, boolean].     *)
(* Decimal strings are integers here (the comparisons are exact in         *)
(* decimal.js); a condition on a Boolean metric has boolean = TRUE and     *)
(* values 0 (false) and 1 (true).  None stands for null.                   *)
(***************************************************************************)
EXTENDS Integers

CONSTANT None

ASSUME NoneIsNoTime == None \notin Int

Operators == {"gt", "gte", "lt", "lte", "eq", "neq"}
Truths == {"true", "false", "unknown"}
RuleStates == {"ARMED", "TRIGGERED"}
RuleActions == {"none", "trigger", "repeat", "recover"}

Abs(n) == IF n < 0 THEN -n ELSE n

Conditional == [operator : Operators, threshold : Int, hysteresis : Int,
                boolean : BOOLEAN]

ConditionMatches(c, v) ==
  \/ c.operator = "gt"  /\ v > c.threshold
  \/ c.operator = "gte" /\ v >= c.threshold
  \/ c.operator = "lt"  /\ v < c.threshold
  \/ c.operator = "lte" /\ v <= c.threshold
  \/ c.operator = "eq"  /\ v = c.threshold
  \/ c.operator = "neq" /\ v # c.threshold

\* A numeric condition recovers only across its hysteresis band, a Boolean one
\* as soon as it no longer matches.
HasRecovered(c, v) ==
  LET margin == Abs(c.hysteresis)
      distance == Abs(v - c.threshold)
  IN IF c.boolean
     THEN ~ConditionMatches(c, v)
     ELSE \/ c.operator \in {"gt", "gte"} /\ v < c.threshold - margin
          \/ c.operator \in {"lt", "lte"} /\ v > c.threshold + margin
          \/ c.operator = "eq"  /\ distance > margin
          \/ c.operator = "neq" /\ distance <= margin

Tri(b) == IF b THEN "true" ELSE "false"

\* Kleene conjunction and disjunction over the results of a rule's conditions.
CombineConditionResults(combinator, results) ==
  LET decided == IF combinator = "and" THEN "false" ELSE "true"
      neutral == IF combinator = "and" THEN "true" ELSE "false"
  IN IF decided \in results THEN decided
     ELSE IF "unknown" \in results THEN "unknown" ELSE neutral

\* An armed rule stops accumulating duration; a triggered one keeps its state.
KeepAccumulating(s) == s
OnUnknown(s) == IF s.state = "ARMED" THEN [s EXCEPT !.conditionSince = None] ELSE s

\* The clock of the cooldown starts with the alert and restarts with every
\* reminder.
Unstamped(s, t) == s
Alerted(s, t) == [s EXCEPT !.lastAlertAt = t]

(***************************************************************************)
(* evaluateRuleTruth: the state a rule moves to, and what to do with its   *)
(* alerts, when its group truth at time t is known, or unknown.  s is the  *)
(* persisted [state, conditionSince, lastAlertAt]; the last value, which   *)
(* nothing reads back, is left out.  A null lastAlertAt counts as the      *)
(* epoch.                                                                  *)
(***************************************************************************)
EvaluateRuleTruth(rule, s, truth, t) ==
  LET lastAlert == IF s.lastAlertAt = None THEN 0 ELSE s.lastAlertAt
      since == IF s.conditionSince = None THEN t ELSE s.conditionSince
      Outcome(action, state) == [action |-> action, state |-> state]
  IN CASE truth = "unknown" ->
            Outcome("none", OnUnknown(s))
       [] truth = "false" /\ s.state = "TRIGGERED" ->
            Outcome("recover", [s EXCEPT !.state = "ARMED", !.conditionSince = None])
       [] truth = "true" /\ s.state = "TRIGGERED" ->
            IF t - lastAlert >= rule.cooldown
            THEN Outcome("repeat", Alerted(s, t))
            ELSE Outcome("none", s)
       [] truth = "false" /\ s.state = "ARMED" ->
            Outcome("none", [s EXCEPT !.conditionSince = None])
       [] truth = "true" /\ s.state = "ARMED" ->
            IF t - since < rule.duration
            THEN Outcome("none", [s EXCEPT !.conditionSince = since])
            ELSE Outcome("trigger", Alerted([s EXCEPT !.state = "TRIGGERED",
                                                      !.conditionSince = since], t))
=============================================================================
