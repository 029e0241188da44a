----------------------------- MODULE RuleEngineProofs -----------------------------
(***************************************************************************)
(* Theorems about RuleEngine, for every rule definition, series, sample    *)
(* and lag its constants allow.                                            *)
(***************************************************************************)
EXTENDS RuleEngine, SequenceTheorems, TLAPS

StateRows == [state : RuleStates, conditionSince : Nat \cup {None},
              lastAlertAt : Nat \cup {None}]

---------------------------------------------------------------------------
(* The state machine *)

\* The time since which the condition holds, if it holds at t.
SinceAt(s, t) == IF s.conditionSince = None THEN t ELSE s.conditionSince

LEMMA UnknownTruth ==
  ASSUME NEW r, NEW s \in StateRows, NEW t \in Nat
  PROVE  LET e == EvaluateRuleTruth(r, s, "unknown", t)
         IN /\ e.action = "none" /\ e.state \in StateRows
            /\ e.state.state = s.state
            /\ e.state.lastAlertAt = s.lastAlertAt
            /\ s.state = "ARMED" => e.state.conditionSince = None
<1>1. EvaluateRuleTruth(r, s, "unknown", t) = [action |-> "none", state |-> OnUnknown(s)]
  BY DEF EvaluateRuleTruth
<1>2. /\ OnUnknown(s) \in StateRows /\ OnUnknown(s).state = s.state
      /\ OnUnknown(s).lastAlertAt = s.lastAlertAt
      /\ s.state = "ARMED" => OnUnknown(s).conditionSince = None
  BY DEF OnUnknown, StateRows
<1> HIDE DEF OnUnknown
<1> QED BY <1>1, <1>2

LEMMA FalseTruth ==
  ASSUME NEW r, NEW s \in StateRows, NEW t \in Nat
  PROVE  LET e == EvaluateRuleTruth(r, s, "false", t)
         IN /\ e.action = IF s.state = "TRIGGERED" THEN "recover" ELSE "none"
            /\ e.state \in StateRows
            /\ e.state.state = "ARMED" /\ e.state.conditionSince = None
<1>1. CASE s.state = "TRIGGERED"
  <2> DEFINE next == [s EXCEPT !.state = "ARMED", !.conditionSince = None]
  <2>1. EvaluateRuleTruth(r, s, "false", t) = [action |-> "recover", state |-> next]
    BY <1>1 DEF EvaluateRuleTruth
  <2>2. next \in StateRows /\ next.state = "ARMED" /\ next.conditionSince = None
    BY DEF StateRows, RuleStates
  <2> HIDE DEF next
  <2> QED BY <1>1, <2>1, <2>2
<1>2. CASE s.state = "ARMED"
  <2> DEFINE next == [s EXCEPT !.conditionSince = None]
  <2>1. EvaluateRuleTruth(r, s, "false", t) = [action |-> "none", state |-> next]
    BY <1>2 DEF EvaluateRuleTruth
  <2>2. next \in StateRows /\ next.state = "ARMED" /\ next.conditionSince = None
    BY <1>2 DEF StateRows
  <2> HIDE DEF next
  <2> QED BY <1>2, <2>1, <2>2
<1> QED BY <1>1, <1>2 DEF StateRows, RuleStates

LEMMA TrueWhenTriggered ==
  ASSUME NEW r, NEW s \in StateRows, s.state = "TRIGGERED", NEW t \in Nat
  PROVE  LET e == EvaluateRuleTruth(r, s, "true", t)
         IN /\ e.action \in {"none", "repeat"} /\ e.state \in StateRows
            /\ e.state.state = "TRIGGERED"
            /\ e.action = "none" => e.state = s
            /\ e.action = "repeat" =>
                 /\ e.state.lastAlertAt = t
                 /\ s.lastAlertAt # None => t - s.lastAlertAt >= r.cooldown
<1> DEFINE last == IF s.lastAlertAt = None THEN 0 ELSE s.lastAlertAt
<1>1. CASE t - last >= r.cooldown
  <2> DEFINE next == Alerted(s, t)
  <2>1. EvaluateRuleTruth(r, s, "true", t) = [action |-> "repeat", state |-> next]
    BY <1>1 DEF EvaluateRuleTruth
  <2>2. next \in StateRows /\ next.state = "TRIGGERED" /\ next.lastAlertAt = t
    BY DEF Alerted, StateRows
  <2> HIDE DEF next
  <2> QED BY <1>1, <2>1, <2>2
<1>2. CASE ~(t - last >= r.cooldown)
  <2>1. EvaluateRuleTruth(r, s, "true", t) = [action |-> "none", state |-> s]
    BY <1>2 DEF EvaluateRuleTruth
  <2> QED BY <2>1
<1> QED BY <1>1, <1>2

LEMMA TrueWhenArmed ==
  ASSUME NEW r, NEW s \in StateRows, s.state = "ARMED", NEW t \in Nat, r.duration \in Nat
  PROVE  LET e == EvaluateRuleTruth(r, s, "true", t)
         IN /\ e.action \in {"none", "trigger"} /\ e.state \in StateRows
            /\ e.state.conditionSince = SinceAt(s, t)
            /\ e.action = "none" => e.state.state = "ARMED"
            /\ e.action = "trigger" =>
                 /\ e.state.state = "TRIGGERED" /\ e.state.lastAlertAt = t
                 /\ t - SinceAt(s, t) >= r.duration
<1> DEFINE since == SinceAt(s, t)
<1>1. since \in Nat
  BY DEF SinceAt, StateRows
<1>2. CASE t - since < r.duration
  <2> DEFINE next == [s EXCEPT !.conditionSince = since]
  <2>1. EvaluateRuleTruth(r, s, "true", t) = [action |-> "none", state |-> next]
    BY <1>2 DEF EvaluateRuleTruth, SinceAt
  <2> HIDE DEF since
  <2>2. next \in StateRows /\ next.state = "ARMED" /\ next.conditionSince = since
    BY <1>1 DEF StateRows
  <2> HIDE DEF next
  <2> QED BY <2>1, <2>2 DEF since
<1>3. CASE ~(t - since < r.duration)
  <2> DEFINE armed == [s EXCEPT !.state = "TRIGGERED", !.conditionSince = since]
             next == Alerted(armed, t)
  <2>1. EvaluateRuleTruth(r, s, "true", t) = [action |-> "trigger", state |-> next]
    BY <1>3 DEF EvaluateRuleTruth, SinceAt
  <2>2. t - since >= r.duration
    BY <1>1, <1>3
  <2> HIDE DEF since
  <2>3. armed \in StateRows /\ armed.state = "TRIGGERED" /\ armed.conditionSince = since
    BY <1>1 DEF StateRows, RuleStates
  <2> HIDE DEF armed
  <2>4. /\ next \in StateRows /\ next.state = "TRIGGERED"
        /\ next.conditionSince = since /\ next.lastAlertAt = t
    BY <2>3 DEF Alerted, StateRows
  <2> HIDE DEF next
  <2> QED BY <2>1, <2>2, <2>4 DEF since
<1> QED BY <1>2, <1>3

\* Kleene's tables: an AND group is true only when every result is, an OR group
\* false only when every result is.
LEMMA Combination ==
  ASSUME NEW results, results \subseteq Truths, NEW combinator \in {"and", "or"}
  PROVE  LET truth == CombineConditionResults(combinator, results)
         IN /\ truth \in Truths
            /\ combinator = "and" /\ truth = "true" => \A x \in results : x = "true"
            /\ combinator = "or" /\ truth = "false" => \A x \in results : x = "false"
<1>1. CASE combinator = "and"
  BY <1>1, SMT DEF CombineConditionResults, Truths
<1>2. CASE combinator = "or"
  BY <1>2, SMT DEF CombineConditionResults, Truths
<1> QED BY <1>1, <1>2

---------------------------------------------------------------------------
(* Types *)

LEMMA RuleTypes ==
  ASSUME TypeOK
  PROVE  /\ rule.combinator \in {"and", "or"}
         /\ rule.duration \in Nat /\ rule.cooldown \in Nat
         /\ state \in StateRows
         /\ alerts \in Seq(AlertRows) /\ Len(alerts) \in Nat
         /\ DOMAIN alerts = 1..Len(alerts)
         /\ \A i \in DOMAIN alerts : alerts[i] \in AlertRows
<1>1. rule.combinator \in {"and", "or"} /\ rule.duration \in Nat /\ rule.cooldown \in Nat
  BY BoundsAreNaturals DEF TypeOK, RuleRows
<1>2. state \in StateRows /\ alerts \in Seq(AlertRows)
  BY DEF TypeOK, StateRows
<1> QED BY <1>1, <1>2, LenProperties, ElementOfSeq

LEMMA ArrivalTypes ==
  ASSUME TypeOK, NEW m \in Arrivals
  PROVE  /\ m.receivedAt \in Nat /\ m.observedAt \in Nat
         /\ m.value \in Int /\ m.status \in Statuses
         /\ m.eventId \in EventIds \cup {None}
<1>1. PICK s \in Samples, lag \in {l \in Lags : l[1] <= now /\ l[2] <= now},
           id \in EventIds \cup {None} :
        m = [metric |-> s.metric, value |-> s.value, status |-> s.status, eventId |-> id,
             receivedAt |-> now - lag[1], observedAt |-> now - lag[2]]
  BY DEF Arrivals
<1>2. s.value \in Int /\ s.status \in Statuses
  BY SamplesAreMetrics DEF Statuses
<1>3. lag[1] \in Nat /\ lag[2] \in Nat /\ lag[1] <= now /\ lag[2] <= now /\ now \in Nat
  <2>1. lag \in Nat \X Nat
    BY BoundsAreNaturals
  <2>2. now \in Nat
    BY BoundsAreNaturals DEF TypeOK
  <2> QED BY <2>1, <2>2
<1>4. now - lag[1] \in Nat /\ now - lag[2] \in Nat
  BY <1>3
<1> QED BY <1>1, <1>2, <1>4

LEMMA CauseTypes ==
  ASSUME NEW m, m.eventId \in EventIds \cup {None}, WellFormed(m)
  PROVE  /\ Cause(m) \in Causes \cup {None}
         /\ m.metric \in EventMetrics => Cause(m) \in Causes /\ Cause(m) # None
                                         /\ Cause(m)[2] = m.metric
<1>1. CASE m.eventId = None
  BY <1>1 DEF WellFormed, Cause
<1>2. CASE m.eventId \in EventIds
  BY <1>2, NoneIsNoEvent DEF WellFormed, Cause, Causes
<1> QED BY <1>1, <1>2

---------------------------------------------------------------------------
(* What a committed evaluation does to the state and the alerts *)

\* Operations that keep the alerts, but for their statuses.
Kept ==
  /\ alerts' \in Seq(AlertRows) /\ Len(alerts') = Len(alerts)
  /\ DOMAIN alerts' = DOMAIN alerts
  /\ \A i \in DOMAIN alerts :
       /\ alerts'[i].createdAt = alerts[i].createdAt
       /\ alerts'[i].cause = alerts[i].cause
       /\ alerts'[i].events = alerts[i].events

LEMMA UnchangedAlerts == ASSUME TypeOK, alerts' = alerts PROVE Kept
  BY RuleTypes DEF Kept

LEMMA ResolvedAlerts ==
  ASSUME TypeOK, alerts' = ResolveAll
  PROVE  Kept /\ \A i \in DOMAIN alerts' : alerts'[i].status = "resolved"
<1>1. \A i \in DOMAIN alerts :
        /\ alerts'[i] \in AlertRows /\ alerts'[i].status = "resolved"
        /\ alerts'[i].createdAt = alerts[i].createdAt
        /\ alerts'[i].cause = alerts[i].cause /\ alerts'[i].events = alerts[i].events
  BY RuleTypes DEF ResolveAll, AlertRows, AlertStatuses
<1>2. alerts' \in [1..Len(alerts) -> AlertRows] /\ Len(alerts) \in Nat
  BY <1>1, RuleTypes DEF ResolveAll
<1>3. alerts' \in Seq(AlertRows) /\ Len(alerts') = Len(alerts)
  BY <1>2, SeqDef, LenProperties
<1>4. DOMAIN alerts' = DOMAIN alerts
  BY <1>2, RuleTypes
<1> QED BY <1>1, <1>3, <1>4 DEF Kept

LEMMA RestatedAlert ==
  ASSUME TypeOK, NEW i \in DOMAIN alerts, NEW status \in AlertStatuses,
         alerts' = [alerts EXCEPT ![i].status = status]
  PROVE  /\ Kept /\ alerts'[i].status = status
         /\ \A j \in DOMAIN alerts \ {i} : alerts'[j] = alerts[j]
<1> DEFINE a == [alerts[i] EXCEPT !.status = status]
<1>1. /\ a \in AlertRows /\ a.status = status /\ a.createdAt = alerts[i].createdAt
      /\ a.cause = alerts[i].cause /\ a.events = alerts[i].events
  BY RuleTypes DEF AlertRows
<1>2. alerts' = [alerts EXCEPT ![i] = a]
  OBVIOUS
<1> HIDE DEF a
<1>3. /\ alerts' \in Seq(AlertRows) /\ Len(alerts') = Len(alerts)
      /\ DOMAIN alerts' = DOMAIN alerts
      /\ \A j \in DOMAIN alerts : alerts'[j] = IF j = i THEN a ELSE alerts[j]
  BY <1>1, <1>2, RuleTypes, ExceptSeq, LenProperties
<1> QED BY <1>1, <1>3 DEF Kept

\* The three outcomes of an evaluation: alerts untouched, a new one, or all of
\* them resolved.
Quiet ==
  /\ alerts' = alerts
  /\ state'.state = state.state
  /\ state.state = "TRIGGERED" => state'.lastAlertAt = state.lastAlertAt

Raised(m, results) ==
  /\ GroupTruth(results) = "true"
  /\ Len(alerts) < MaxAlerts
  /\ alerts' = Append(alerts, NewAlert(m, results))
  /\ state'.state = "TRIGGERED" /\ state'.lastAlertAt = m.receivedAt
  /\ state.state = "ARMED" => m.receivedAt - SinceAt(state, m.receivedAt) >= rule.duration
  /\ state.state = "TRIGGERED" /\ state.lastAlertAt # None =>
       m.receivedAt - state.lastAlertAt >= rule.cooldown

Recovered(results) ==
  /\ GroupTruth(results) = "false"
  /\ alerts' = ResolveAll
  /\ state.state = "TRIGGERED" /\ state'.state = "ARMED"

LEMMA Committed ==
  ASSUME TypeOK, NEW m \in Arrivals, NEW results,
         GroupTruth(results) \in Truths, CommitEvaluation(m, results)
  PROVE  /\ state' \in StateRows
         /\ Quiet \/ Raised(m, results) \/ Recovered(results)
         /\ state'.state = "ARMED" =>
              state'.conditionSince =
                IF GroupTruth(results) = "true" THEN SinceAt(state, m.receivedAt) ELSE None
<1> DEFINE truth == GroupTruth(results)
           e == EvaluateRuleTruth(rule, state, truth, m.receivedAt)
<1>1. m.receivedAt \in Nat /\ state \in StateRows /\ rule.duration \in Nat
  BY ArrivalTypes, RuleTypes
<1>2. /\ state' = e.state
      /\ e.action \in {"trigger", "repeat"} =>
           Len(alerts) < MaxAlerts /\ alerts' = Append(alerts, NewAlert(m, results))
      /\ e.action = "recover" => alerts' = ResolveAll
      /\ e.action = "none" => alerts' = alerts
  BY DEF CommitEvaluation
<1>3. truth \in {"true", "false", "unknown"} /\ state.state \in {"ARMED", "TRIGGERED"}
  BY <1>1 DEF Truths, StateRows, RuleStates
<1> HIDE DEF truth
<1>4. CASE truth = "unknown"
  BY <1>1, <1>2, <1>3, <1>4, UnknownTruth DEF Quiet, truth
<1>5. CASE truth = "false"
  BY <1>1, <1>2, <1>3, <1>5, FalseTruth DEF Quiet, Recovered, truth
<1>6. CASE truth = "true" /\ state.state = "TRIGGERED"
  <2>1. /\ e.action \in {"none", "repeat"} /\ e.state \in StateRows
        /\ e.state.state = "TRIGGERED"
        /\ e.action = "none" => e.state = state
        /\ e.action = "repeat" =>
             /\ e.state.lastAlertAt = m.receivedAt
             /\ state.lastAlertAt # None =>
                  m.receivedAt - state.lastAlertAt >= rule.cooldown
    BY <1>1, <1>6, TrueWhenTriggered
  <2> HIDE DEF e
  <2>2. CASE e.action = "none"
    BY <1>2, <1>6, <2>1, <2>2 DEF Quiet
  <2>3. CASE e.action = "repeat"
    BY <1>2, <1>6, <2>1, <2>3 DEF Raised, truth
  <2> QED BY <2>1, <2>2, <2>3
<1>7. CASE truth = "true" /\ state.state = "ARMED"
  BY <1>1, <1>2, <1>7, TrueWhenArmed DEF Quiet, Raised, truth
<1> QED BY <1>3, <1>4, <1>5, <1>6, <1>7

LEMMA Grouped ==
  ASSUME TypeOK, NEW m \in Arrivals
  PROVE  LET results == ConditionResults(Fed(m), m.receivedAt, Arriving(m))
         IN /\ GroupTruth(results) \in Truths
            /\ \A c \in Conditions : results[c] =
                 ConditionResult(c, Fed(m)[c], m.receivedAt, Arriving(m))
            /\ rule.combinator = "and" /\ GroupTruth(results) = "true" =>
                 \A c \in Conditions : results[c] = "true"
            /\ rule.combinator = "or" /\ GroupTruth(results) = "false" =>
                 \A c \in Conditions : results[c] = "false"
<1> DEFINE results == ConditionResults(Fed(m), m.receivedAt, Arriving(m))
           values == {results[c] : c \in Conditions}
<1>1. \A c \in Conditions :
        results[c] = ConditionResult(c, Fed(m)[c], m.receivedAt, Arriving(m))
  BY DEF ConditionResults
<1>2. \A c \in Conditions : \A x :
        ConditionResult(c, x, m.receivedAt, Arriving(m)) \in Truths
  BY DEF ConditionResult, Tri, Truths
<1>3. values \subseteq Truths
  BY <1>1, <1>2
<1>4. GroupTruth(results) = CombineConditionResults(rule.combinator, values)
  BY DEF GroupTruth
<1>5. rule.combinator \in {"and", "or"}
  BY RuleTypes
<1> HIDE DEF results
<1>6. /\ GroupTruth(results) \in Truths
      /\ rule.combinator = "and" /\ GroupTruth(results) = "true" =>
           \A x \in values : x = "true"
      /\ rule.combinator = "or" /\ GroupTruth(results) = "false" =>
           \A x \in values : x = "false"
  BY <1>3, <1>4, <1>5, Combination
<1> QED BY <1>1, <1>6 DEF results

---------------------------------------------------------------------------
(* The inductive invariant *)

\* While the rule is armed, the row's condition_since is when the streak began.
StreakIsConditionSince == state.state = "ARMED" => streak = state.conditionSince

\* While the rule is triggered, the cooldown counts from its latest alert.
LastAlertIsStamped ==
  state.state = "TRIGGERED" =>
    alerts # <<>> /\ state.lastAlertAt = alerts[Len(alerts)].createdAt

\* An event that raised an alert has its commit row, as long as the rule lives.
ClaimedCauses ==
  rule.exists => \A i \in DOMAIN alerts : alerts[i].cause \in commits \cup {None}

Inv ==
  /\ TypeOK
  /\ AlertsClosedWhenArmed
  /\ EventsAlertOnce
  /\ OldEventsNeverDecide
  /\ StreakIsConditionSince
  /\ LastAlertIsStamped
  /\ ClaimedCauses

LEMMA InitInv == Init => Inv
<1> SUFFICES ASSUME Init PROVE Inv
  OBVIOUS
<1>1. alerts = <<>> /\ alerts \in Seq(AlertRows) /\ Len(alerts) = 0 /\ DOMAIN alerts = {}
  BY EmptySeq DEF Init
<1>2. state = ArmedState /\ streak = None /\ state.state = "ARMED" /\ state.conditionSince = None
  BY DEF Init, ArmedState
<1>3. state \in [state : RuleStates, conditionSince : Nat \cup {None},
                 lastAlertAt : Nat \cup {None}]
  BY <1>2 DEF ArmedState, RuleStates
<1>4. TypeOK
  BY <1>1, <1>2, <1>3, BoundsAreNaturals DEF Init, TypeOK
<1> QED
  BY <1>1, <1>2, <1>4 DEF Inv, AlertsClosedWhenArmed, EventsAlertOnce, OldEventsNeverDecide,
       StreakIsConditionSince, LastAlertIsStamped, ClaimedCauses

LEMMA KeptHistory ==
  ASSUME Inv, Kept, rule'.exists => rule.exists /\ commits \subseteq commits'
  PROVE  EventsAlertOnce' /\ OldEventsNeverDecide' /\ ClaimedCauses'
<1>1. EventsAlertOnce'
  BY DEF Inv, Kept, EventsAlertOnce
<1>2. OldEventsNeverDecide'
  BY DEF Inv, Kept, OldEventsNeverDecide
<1>3. ClaimedCauses'
  BY DEF Inv, Kept, ClaimedCauses
<1> QED BY <1>1, <1>2, <1>3

LEMMA KeptStamp ==
  ASSUME Inv, Kept,
         state'.state = "TRIGGERED" =>
           state.state = "TRIGGERED" /\ state'.lastAlertAt = state.lastAlertAt
  PROVE  LastAlertIsStamped'
<1> SUFFICES ASSUME state'.state = "TRIGGERED"
             PROVE  /\ alerts' # <<>>
                    /\ state'.lastAlertAt = alerts'[Len(alerts')].createdAt
  BY DEF LastAlertIsStamped
<1>1. alerts # <<>> /\ state.lastAlertAt = alerts[Len(alerts)].createdAt
  BY DEF Inv, LastAlertIsStamped
<1>2. Len(alerts) \in DOMAIN alerts /\ Len(alerts) # 0
  BY <1>1, RuleTypes, EmptySeq DEF Inv
<1>3. alerts' # <<>>
  BY <1>2 DEF Kept
<1> QED BY <1>1, <1>2, <1>3 DEF Kept

\* The metrics in the cache keep their type.
LEMMA FedType ==
  ASSUME TypeOK, NEW m \in Arrivals
  PROVE  Fed(m) \in [Conditions -> Observations \cup {None}]
<1>1. [value |-> m.value, status |-> m.status, at |-> Earlier(m.receivedAt, m.observedAt)]
        \in Observations
  BY ArrivalTypes DEF Observations, Earlier
<1> QED
  BY <1>1 DEF Fed, TypeOK

\* The alert that an evaluation raises: its events are the arriving one.
LEMMA NewAlertRow ==
  ASSUME TypeOK, NEW m \in Arrivals, Selected(m)
  PROVE  LET a == NewAlert(m, ConditionResults(Fed(m), m.receivedAt, Arriving(m)))
         IN /\ a \in AlertRows /\ a.cause = Cause(m) /\ a.createdAt = m.receivedAt
            /\ \A metric \in a.events : a.cause # None /\ a.cause[2] = metric
<1> DEFINE results == ConditionResults(Fed(m), m.receivedAt, Arriving(m))
           a == NewAlert(m, results)
<1>1. \A c \in Conditions : IsEvent(c) /\ results[c] = "true" => c \in Arriving(m)
  <2>1. \A c \in Conditions :
          results[c] = ConditionResult(c, Fed(m)[c], m.receivedAt, Arriving(m))
    BY Grouped
  <2> QED BY <2>1 DEF ConditionResult, Usable
<1>2. m.receivedAt \in Nat /\ m.eventId \in EventIds \cup {None}
  BY ArrivalTypes
<1>3. /\ Cause(m) \in Causes \cup {None}
      /\ m.metric \in EventMetrics => Cause(m) # None /\ Cause(m)[2] = m.metric
  BY <1>2, CauseTypes DEF Selected
<1> HIDE DEF results
<1>4. a.events \subseteq {m.metric} \cap EventMetrics
  BY <1>1 DEF NewAlert, Arriving, IsEvent
<1>5. /\ a \in AlertRows /\ a.cause = Cause(m) /\ a.createdAt = m.receivedAt
  BY <1>2, <1>3, <1>4 DEF NewAlert, AlertRows, AlertStatuses
<1> HIDE DEF a
<1>6. \A metric \in a.events : a.cause # None /\ a.cause[2] = metric
  BY <1>3, <1>4, <1>5
<1> QED BY <1>5, <1>6 DEF a, results

---------------------------------------------------------------------------
(* Preservation, one lemma per kind of action *)

\* An evaluation commits: quietly, with a new alert, or resolving all of them.
LEMMA CommitStep ==
  ASSUME Inv, NEW m \in Arrivals, Selected(m), Claims(m),
         CommitEvaluation(m, ConditionResults(Fed(m), m.receivedAt, Arriving(m))),
         UNCHANGED <<now, rule, patches>>,
         cache' \in [Conditions -> Observations \cup {None}]
  PROVE  Inv'
<1> DEFINE results == ConditionResults(Fed(m), m.receivedAt, Arriving(m))
           truth == GroupTruth(results)
           a == NewAlert(m, results)
           t == m.receivedAt
<1>1. TypeOK /\ t \in Nat /\ Cause(m) \in Causes \cup {None}
  BY ArrivalTypes, CauseTypes DEF Inv, Selected
<1>2. truth \in Truths
  BY <1>1, Grouped
<1>3. /\ a \in AlertRows /\ a.cause = Cause(m) /\ a.createdAt = t
      /\ \A metric \in a.events : a.cause # None /\ a.cause[2] = metric
  BY <1>1, NewAlertRow
<1>4. /\ commits' = commits \cup ({Cause(m)} \ {None})
      /\ streak' = IF truth # "true" THEN None ELSE IF streak = None THEN t ELSE streak
  BY DEF CommitEvaluation
<1>5. /\ state' \in StateRows
      /\ Quiet \/ Raised(m, results) \/ Recovered(results)
      /\ state'.state = "ARMED" =>
           state'.conditionSince = IF truth = "true" THEN SinceAt(state, t) ELSE None
  BY <1>1, <1>2, Committed
<1>6. /\ rule' = rule /\ patches' = patches /\ now' = now
      /\ Cause(m) \notin commits
  BY DEF Claims
<1>7. Raised(m, results) => truth = "true" /\ alerts' = Append(alerts, a)
                            /\ Len(alerts) < MaxAlerts
                            /\ state'.state = "TRIGGERED" /\ state'.lastAlertAt = t
  BY DEF Raised
<1>8. Recovered(results) => truth = "false" /\ alerts' = ResolveAll
                            /\ state.state = "TRIGGERED" /\ state'.state = "ARMED"
  BY DEF Recovered
<1> HIDE DEF results, truth, a, t
<1>9. /\ commits' \subseteq Causes /\ commits \subseteq commits'
      /\ streak' \in Nat \cup {None}
  BY <1>1, <1>4 DEF TypeOK
<1>10. TypeOK' /\ StreakIsConditionSince'
       <=> alerts' \in Seq(AlertRows) /\ Len(alerts') <= MaxAlerts /\ StreakIsConditionSince'
  BY <1>1, <1>5, <1>6, <1>9 DEF TypeOK, StateRows
<1>11. CASE Raised(m, results)
  <2>1. alerts \in Seq(AlertRows) /\ Len(alerts) \in Nat /\ DOMAIN alerts = 1..Len(alerts)
    BY <1>1, RuleTypes
  <2>2. /\ alerts' \in Seq(AlertRows) /\ Len(alerts') = Len(alerts) + 1
        /\ \A i \in 1..Len(alerts) : alerts'[i] = alerts[i]
        /\ alerts'[Len(alerts) + 1] = a
    BY <1>3, <1>7, <1>11, <2>1, AppendProperties
  <2>3. DOMAIN alerts' = 1..(Len(alerts) + 1)
    BY <2>2, LenProperties
  <2>4. Len(alerts') <= MaxAlerts
    BY <1>7, <1>11, <2>1, <2>2, BoundsAreNaturals
  <2>5. AlertsClosedWhenArmed' /\ StreakIsConditionSince'
    BY <1>7, <1>11 DEF AlertsClosedWhenArmed, StreakIsConditionSince
  <2>6. \A i \in 1..Len(alerts) : alerts[i].cause \in commits \cup {None}
    BY <2>1 DEF Inv, ClaimedCauses, Selected
  <2>7. EventsAlertOnce'
    BY <1>3, <1>6, <2>1, <2>2, <2>3, <2>6 DEF Inv, EventsAlertOnce
  <2>8. OldEventsNeverDecide'
    BY <1>3, <2>1, <2>2, <2>3 DEF Inv, OldEventsNeverDecide
  <2>9. ClaimedCauses'
    BY <1>3, <1>4, <2>1, <2>2, <2>3, <2>6 DEF ClaimedCauses
  <2>10. LastAlertIsStamped'
    <3>1. alerts' # <<>>
      BY <2>1, <2>2, EmptySeq
    <3> QED BY <1>3, <1>7, <1>11, <2>2, <3>1 DEF LastAlertIsStamped
  <2> QED BY <1>10, <2>2, <2>4, <2>5, <2>7, <2>8, <2>9, <2>10 DEF Inv
<1>12. CASE Recovered(results)
  <2>1. Kept /\ \A i \in DOMAIN alerts' : alerts'[i].status = "resolved"
    BY <1>1, <1>8, <1>12, ResolvedAlerts
  <2>2. EventsAlertOnce' /\ OldEventsNeverDecide' /\ ClaimedCauses'
    BY <1>6, <1>9, <2>1, KeptHistory
  <2>3. LastAlertIsStamped' /\ AlertsClosedWhenArmed'
    BY <1>8, <1>12, <2>1 DEF LastAlertIsStamped, AlertsClosedWhenArmed
  <2>4. StreakIsConditionSince'
    BY <1>4, <1>5, <1>8, <1>12 DEF StreakIsConditionSince
  <2> QED BY <1>1, <1>10, <2>1, <2>2, <2>3, <2>4 DEF Inv, Kept, TypeOK
<1>13. CASE Quiet
  <2>1. Kept /\ alerts' = alerts
    BY <1>1, <1>13, UnchangedAlerts DEF Quiet
  <2>2. EventsAlertOnce' /\ OldEventsNeverDecide' /\ ClaimedCauses'
    BY <1>6, <1>9, <2>1, KeptHistory
  <2>3. LastAlertIsStamped'
    BY <1>13, <2>1, KeptStamp DEF Quiet
  <2>4. AlertsClosedWhenArmed'
    BY <1>6, <1>13 DEF Inv, Quiet, AlertsClosedWhenArmed
  <2>5. StreakIsConditionSince'
    BY <1>4, <1>5, <1>13 DEF Inv, Quiet, StreakIsConditionSince, SinceAt
  <2> QED BY <1>1, <1>10, <2>1, <2>2, <2>3, <2>4, <2>5 DEF Inv, TypeOK
<1> QED BY <1>5, <1>11, <1>12, <1>13

\* Actions that only change the cache, the clock or nothing.
LEMMA CacheStep ==
  ASSUME Inv, UNCHANGED <<rule, stored, patches, streak>>, now' \in 0..MaxTime,
         cache' \in [Conditions -> Observations \cup {None}]
  PROVE  Inv'
<1>1. UNCHANGED <<rule, state, alerts, commits, patches, streak>>
  BY DEF stored
<1> QED
  BY <1>1 DEF Inv, TypeOK, AlertsClosedWhenArmed, EventsAlertOnce, OldEventsNeverDecide,
       StreakIsConditionSince, LastAlertIsStamped, ClaimedCauses, AlertRows, Causes, Observations

LEMMA EmptyCacheType == EmptyCache \in [Conditions -> Observations \cup {None}]
  BY DEF EmptyCache

LEMMA ConsumeStep == ASSUME Inv, NEW m \in Arrivals, Consume(m) PROVE Inv'
<1>1. TypeOK /\ Fed(m) \in [Conditions -> Observations \cup {None}]
  BY FedType DEF Inv
<1>2. cache' \in [Conditions -> Observations \cup {None}]
  BY <1>1 DEF Consume
<1>3. CASE Claims(m)
  BY <1>2, <1>3, CommitStep DEF Consume
<1>4. CASE ~Claims(m)
  BY <1>1, <1>2, <1>4, CacheStep DEF Consume, TypeOK
<1> QED BY <1>3, <1>4

\* A PATCH resets the state and closes the alerts, or keeps both.
LEMMA PatchStep ==
  ASSUME Inv, NEW new \in RuleRows,
         NEW conditionsGiven \in BOOLEAN, NEW durationGiven \in BOOLEAN,
         PatchRule(new, conditionsGiven, durationGiven)
  PROVE  Inv'
<1>1. /\ rule.exists /\ rule' = new /\ patches' = patches + 1 /\ patches < MaxPatches
      /\ now' = now /\ commits' = commits /\ cache' = EmptyCache
      /\ ResetState \/ KeepState
  BY DEF PatchRule
<1>2. TypeOK /\ EmptyCache \in [Conditions -> Observations \cup {None}]
  BY EmptyCacheType DEF Inv
<1>3. patches' \in 0..MaxPatches
  BY <1>1, <1>2, BoundsAreNaturals DEF TypeOK
<1>4. CASE ResetState
  <2>1. /\ state' = ArmedState /\ streak' = None
        /\ Kept /\ \A i \in DOMAIN alerts' : alerts'[i].status = "resolved"
    BY <1>2, <1>4, ResolvedAlerts DEF ResetState
  <2>2. state' \in StateRows /\ state'.state = "ARMED" /\ state'.conditionSince = None
    BY <2>1 DEF ArmedState, StateRows, RuleStates
  <2>3. TypeOK'
    BY <1>1, <1>2, <1>3, <2>1, <2>2 DEF TypeOK, StateRows, Kept
  <2>4. EventsAlertOnce' /\ OldEventsNeverDecide' /\ ClaimedCauses'
    BY <1>1, <2>1, KeptHistory
  <2> QED
    BY <2>1, <2>2, <2>3, <2>4
    DEF Inv, AlertsClosedWhenArmed, StreakIsConditionSince, LastAlertIsStamped
<1>5. CASE KeepState
  <2>1. state' = state /\ alerts' = alerts /\ streak' = streak
    BY <1>5 DEF KeepState
  <2>2. TypeOK'
    BY <1>1, <1>2, <1>3, <2>1 DEF TypeOK
  <2> QED
    BY <1>1, <2>1, <2>2
    DEF Inv, AlertsClosedWhenArmed, EventsAlertOnce, OldEventsNeverDecide,
        StreakIsConditionSince, LastAlertIsStamped, ClaimedCauses
<1> QED BY <1>1, <1>4, <1>5

LEMMA DeleteStep == ASSUME Inv, DeleteRule PROVE Inv'
<1>1. /\ rule' = [rule EXCEPT !.exists = FALSE] /\ state' = ArmedState /\ commits' = {}
      /\ streak' = None /\ cache' = EmptyCache
      /\ now' = now /\ alerts' = alerts /\ patches' = patches
  BY DEF DeleteRule
<1>2. TypeOK /\ EmptyCache \in [Conditions -> Observations \cup {None}]
  BY EmptyCacheType DEF Inv
<1>3. rule' \in RuleRows /\ rule'.exists = FALSE
  BY <1>1, <1>2 DEF TypeOK, RuleRows, ValidRule
<1>4. state' \in StateRows /\ state'.state = "ARMED" /\ state'.conditionSince = None
  BY <1>1 DEF ArmedState, StateRows, RuleStates
<1>5. TypeOK'
  BY <1>1, <1>2, <1>3, <1>4 DEF TypeOK, StateRows
<1>6. Kept
  BY <1>1, <1>2, UnchangedAlerts
<1>7. EventsAlertOnce' /\ OldEventsNeverDecide' /\ ClaimedCauses'
  BY <1>3, <1>6, KeptHistory
<1> QED
  BY <1>1, <1>3, <1>4, <1>5, <1>7
  DEF Inv, AlertsClosedWhenArmed, StreakIsConditionSince, LastAlertIsStamped

\* A user acknowledges or resolves an alert that is not resolved yet.
LEMMA UserStep ==
  ASSUME Inv, NEW i \in DOMAIN alerts, AcknowledgeAlert(i) \/ ResolveAlert(i)
  PROVE  Inv'
<1>1. /\ UNCHANGED <<now, rule, cache, state, commits, patches, streak>>
      /\ alerts[i].status # "resolved"
      /\ \E status \in AlertStatuses : alerts' = [alerts EXCEPT ![i].status = status]
  BY DEF AcknowledgeAlert, ResolveAlert, AlertStatuses
<1>2. TypeOK
  BY DEF Inv
<1>3. Kept
  BY <1>1, <1>2, RestatedAlert
<1>4. TypeOK'
  BY <1>1, <1>2, <1>3 DEF TypeOK, Kept
<1>5. EventsAlertOnce' /\ OldEventsNeverDecide' /\ ClaimedCauses'
  BY <1>1, <1>3, KeptHistory
<1>6. LastAlertIsStamped'
  BY <1>1, <1>3, KeptStamp
<1>7. AlertsClosedWhenArmed'
  BY <1>1 DEF Inv, AlertsClosedWhenArmed
<1> QED
  BY <1>1, <1>4, <1>5, <1>6, <1>7 DEF Inv, StreakIsConditionSince

LEMMA InvStep == Inv /\ [Next]_vars => Inv'
<1> SUFFICES ASSUME Inv, [Next]_vars PROVE Inv'
  OBVIOUS
<1>1. /\ TypeOK /\ now \in 0..MaxTime /\ cache \in [Conditions -> Observations \cup {None}]
      /\ EmptyCache \in [Conditions -> Observations \cup {None}]
  BY EmptyCacheType DEF Inv, TypeOK
<1>2. CASE UNCHANGED vars
  BY <1>1, <1>2, CacheStep DEF vars, stored
<1>3. ASSUME NEW m \in Arrivals, ConsumeFails(m) PROVE Inv'
  BY <1>1, <1>3, FedType, CacheStep DEF ConsumeFails
<1>4. CASE InvalidateMonitor
  BY <1>1, <1>4, CacheStep DEF InvalidateMonitor
<1>5. CASE Restart
  BY <1>1, <1>5, CacheStep DEF Restart
<1>6. CASE Tick
  <2>1. now' \in 0..MaxTime
    BY <1>1, <1>6, BoundsAreNaturals DEF Tick
  <2> QED BY <1>1, <1>6, <2>1, CacheStep DEF Tick
<1> QED
  BY <1>2, <1>3, <1>4, <1>5, <1>6, ConsumeStep, PatchStep, DeleteStep, UserStep DEF Next

LEMMA InvAlways == Spec => []Inv
  BY InitInv, InvStep, PTL DEF Spec

---------------------------------------------------------------------------
(* Theorems *)

\* The rows of the rule, its state and its alerts keep their types through every
\* evaluation, PATCH, deletion and restart.
THEOREM TypeCorrect == Spec => []TypeOK
<1>1. Inv => TypeOK
  BY DEF Inv
<1> QED
  BY <1>1, InvAlways, PTL

\* An armed rule has no open alert: recover (commitEvaluation) and the reset of
\* RuleRepository.update resolve them all, and only a trigger opens new ones.
THEOREM AlertsClosedWhenArmedAlways == Spec => []AlertsClosedWhenArmed
<1>1. Inv => AlertsClosedWhenArmed
  BY DEF Inv
<1> QED
  BY <1>1, InvAlways, PTL

\* One event raises at most one alert of the rule (the claim in rule_event_commits).
THEOREM EventsAlertOnceAlways == Spec => []EventsAlertOnce
<1>1. Inv => EventsAlertOnce
  BY DEF Inv
<1> QED
  BY <1>1, InvAlways, PTL

\* An event that arrived earlier never counts in a later evaluation (consume).
THEOREM OldEventsNeverDecideAlways == Spec => []OldEventsNeverDecide
<1>1. Inv => OldEventsNeverDecide
  BY DEF Inv
<1> QED
  BY <1>1, InvAlways, PTL

\* Only an evaluation that commits changes the state of the rule otherwise than
\* by a reset, or writes an alert.
LEMMA OnlyEvaluations ==
  ASSUME Inv, Next,
         \/ state.state = "ARMED" /\ state'.state = "TRIGGERED"
         \/ Recovers
         \/ Len(alerts') > Len(alerts)
  PROVE  \E m \in Arrivals : Consume(m) /\ Claims(m)
<1> DEFINE Happens == \/ state.state = "ARMED" /\ state'.state = "TRIGGERED"
                      \/ Recovers
                      \/ Len(alerts') > Len(alerts)
<1>1. TypeOK /\ Len(alerts) \in Nat /\ patches \in Nat
  BY RuleTypes DEF Inv, TypeOK
<1>2. ASSUME state' = state, alerts' = alerts PROVE ~Happens
  BY <1>1, <1>2 DEF Recovers
<1>3. ASSUME NEW m \in Arrivals, Consume(m), ~Claims(m) PROVE ~Happens
  BY <1>2, <1>3 DEF Consume, stored
<1>4. ASSUME NEW m \in Arrivals, ConsumeFails(m) PROVE ~Happens
  BY <1>2, <1>4 DEF ConsumeFails, stored
<1>5. ASSUME NEW new \in RuleRows, NEW cg \in BOOLEAN, NEW dg \in BOOLEAN,
             PatchRule(new, cg, dg)
      PROVE ~Happens
  <2>1. patches' = patches + 1 /\ (ResetState \/ KeepState)
    BY <1>5 DEF PatchRule
  <2>2. CASE ResetState
    <3>1. state'.state = "ARMED" /\ Len(alerts') = Len(alerts)
      BY <1>1, <2>2, ResolvedAlerts DEF ResetState, ArmedState, Kept
    <3> QED BY <1>1, <2>1, <3>1 DEF Recovers
  <2>3. CASE KeepState
    BY <1>2, <2>3 DEF KeepState
  <2> QED BY <2>1, <2>2, <2>3
<1>6. CASE DeleteRule
  <2>1. /\ alerts' = alerts /\ state'.state = "ARMED"
        /\ rule.exists /\ rule' = [rule EXCEPT !.exists = FALSE]
    BY <1>6 DEF DeleteRule, ArmedState
  <2>2. rule' # rule
    BY <1>1, <2>1 DEF TypeOK, RuleRows
  <2> QED BY <1>1, <2>1, <2>2 DEF Recovers
<1>7. ASSUME NEW i \in DOMAIN alerts, AcknowledgeAlert(i) \/ ResolveAlert(i) PROVE ~Happens
  <2>1. state' = state /\ \E status \in AlertStatuses :
                             alerts' = [alerts EXCEPT ![i].status = status]
    BY <1>7 DEF AcknowledgeAlert, ResolveAlert, AlertStatuses
  <2>2. Len(alerts') = Len(alerts)
    BY <1>1, <2>1, RestatedAlert DEF Kept
  <2> QED BY <1>1, <2>1, <2>2 DEF Recovers
<1>8. CASE InvalidateMonitor \/ Restart \/ Tick
  BY <1>2, <1>8 DEF InvalidateMonitor, Restart, Tick, stored
<1> QED
  BY <1>3, <1>4, <1>5, <1>6, <1>7, <1>8 DEF Next

\* Those evaluations, by their outcome, with the results they rest on.
LEMMA Evaluated ==
  ASSUME Inv, NEW m \in Arrivals, Consume(m), Claims(m)
  PROVE  LET results == ConditionResults(Fed(m), m.receivedAt, Arriving(m))
         IN /\ Quiet \/ Raised(m, results) \/ Recovered(results)
            /\ streak' = IF GroupTruth(results) # "true" THEN None
                         ELSE IF streak = None THEN m.receivedAt ELSE streak
  BY Grouped, Committed DEF Inv, Consume, CommitEvaluation

\* A trigger follows durationSeconds of committed evaluations that found the
\* group true (evaluateRuleTruth, condition_since).
THEOREM TriggerIsEarnedAlways == Spec => TriggerIsEarned
<1> DEFINE Earned == Triggers => streak' # None /\ state'.lastAlertAt - streak' >= rule.duration
<1>1. Inv /\ [Next]_vars => [Earned]_vars
  <2> SUFFICES ASSUME Inv, Next, Triggers
               PROVE  streak' # None /\ state'.lastAlertAt - streak' >= rule.duration
    OBVIOUS
  <2>1. PICK m \in Arrivals : Consume(m) /\ Claims(m)
    BY OnlyEvaluations DEF Triggers
  <2> DEFINE results == ConditionResults(Fed(m), m.receivedAt, Arriving(m))
  <2>2. /\ Raised(m, results)
        /\ streak' = IF GroupTruth(results) # "true" THEN None
                     ELSE IF streak = None THEN m.receivedAt ELSE streak
    BY <2>1, Evaluated DEF Triggers, Quiet, Recovered
  <2>3. streak = state.conditionSince /\ m.receivedAt \in Nat /\ None \notin Nat
    BY ArrivalTypes, NoneIsNoTime DEF Inv, StreakIsConditionSince, Triggers
  <2> HIDE DEF results
  <2>4. streak' = SinceAt(state, m.receivedAt) /\ streak' # None
    BY <2>2, <2>3 DEF Raised, SinceAt
  <2> QED BY <2>2, <2>4 DEF Raised, Triggers
<1> QED
  BY <1>1, InvAlways, PTL DEF Spec, TriggerIsEarned

\* Two alerts of one triggered period are at least cooldownSeconds apart
\* (evaluateRuleTruth, last_alert_at).
THEOREM RemindersRespectCooldownAlways == Spec => RemindersRespectCooldown
<1> DEFINE Respects ==
      Len(alerts') > Len(alerts) /\ state.state = "TRIGGERED" =>
        /\ alerts # <<>>
        /\ alerts'[Len(alerts')].createdAt - alerts[Len(alerts)].createdAt >= rule.cooldown
<1>1. Inv /\ [Next]_vars => [Respects]_vars
  <2> SUFFICES ASSUME Inv, Next, Len(alerts') > Len(alerts), state.state = "TRIGGERED"
               PROVE  /\ alerts # <<>>
                      /\ alerts'[Len(alerts')].createdAt - alerts[Len(alerts)].createdAt
                           >= rule.cooldown
    OBVIOUS
  <2>1. PICK m \in Arrivals : Consume(m) /\ Claims(m)
    BY OnlyEvaluations
  <2> DEFINE results == ConditionResults(Fed(m), m.receivedAt, Arriving(m))
             a == NewAlert(m, results)
  <2>2. /\ TypeOK /\ Len(alerts) \in Nat /\ alerts \in Seq(AlertRows)
        /\ DOMAIN alerts = 1..Len(alerts)
        /\ \A i \in DOMAIN alerts : alerts[i].createdAt \in Nat
    BY RuleTypes DEF Inv, AlertRows
  <2>3. ~Quiet /\ ~Recovered(results)
    BY <2>2, ResolvedAlerts DEF Quiet, Recovered, Kept
  <2>4. Raised(m, results)
    BY <2>1, <2>3, Evaluated
  <2>5. a \in AlertRows /\ a.createdAt = m.receivedAt
    BY <2>1, <2>2, NewAlertRow DEF Consume
  <2>6. /\ alerts # <<>> /\ Len(alerts) # 0
        /\ state.lastAlertAt = alerts[Len(alerts)].createdAt
    BY <2>2, EmptySeq DEF Inv, LastAlertIsStamped
  <2>7. state.lastAlertAt # None
    BY <2>2, <2>6, NoneIsNoTime
  <2> HIDE DEF results
  <2>8. alerts' = Append(alerts, a) /\ m.receivedAt - state.lastAlertAt >= rule.cooldown
    BY <2>4, <2>7 DEF Raised
  <2> HIDE DEF a
  <2>9. Len(alerts') = Len(alerts) + 1 /\ alerts'[Len(alerts) + 1] = a
    BY <2>2, <2>5, <2>8, AppendProperties
  <2> QED BY <2>5, <2>6, <2>8, <2>9
<1> QED
  BY <1>1, InvAlways, PTL DEF Spec, RemindersRespectCooldown

\* Data that is missing, failed or expired triggers no AND group and recovers no
\* OR group (the tri-state of consume and combineConditionResults).
THEOREM UnknownNeverDecidesAlways == Spec => UnknownNeverDecides
<1> DEFINE Decides ==
      \A c \in Conditions : ~IsEvent(c) =>
        /\ Triggers /\ rule.combinator = "and" =>
             /\ cache'[c] # None
             /\ IsActionable(c, cache'[c])
             /\ state'.lastAlertAt - cache'[c].at <= MaxStale
             /\ ConditionMatches(rule.conditions[c], cache'[c].value)
        /\ Recovers /\ rule.combinator = "or" =>
             /\ cache'[c] # None
             /\ IsActionable(c, cache'[c])
             /\ \A m \in Arrivals : Consume(m) => m.receivedAt - cache'[c].at <= MaxStale
             /\ HasRecovered(rule.conditions[c], cache'[c].value)
<1>1. Inv /\ [Next]_vars => [Decides]_vars
  <2> SUFFICES ASSUME Inv, Next, NEW c \in Conditions, ~IsEvent(c), Triggers \/ Recovers
               PROVE  /\ Triggers /\ rule.combinator = "and" =>
                           /\ cache'[c] # None
                           /\ IsActionable(c, cache'[c])
                           /\ state'.lastAlertAt - cache'[c].at <= MaxStale
                           /\ ConditionMatches(rule.conditions[c], cache'[c].value)
                      /\ Recovers /\ rule.combinator = "or" =>
                           /\ cache'[c] # None
                           /\ IsActionable(c, cache'[c])
                           /\ \A m \in Arrivals :
                                Consume(m) => m.receivedAt - cache'[c].at <= MaxStale
                           /\ HasRecovered(rule.conditions[c], cache'[c].value)
    OBVIOUS
  \* Any arrival that the step may be the evaluation of had fresh data.
  <2>1. ASSUME NEW m \in Arrivals, Consume(m)
        PROVE  /\ Triggers /\ rule.combinator = "and" =>
                    /\ cache'[c] # None /\ IsActionable(c, cache'[c])
                    /\ state'.lastAlertAt - cache'[c].at <= MaxStale
                    /\ ConditionMatches(rule.conditions[c], cache'[c].value)
               /\ Recovers /\ rule.combinator = "or" =>
                    /\ cache'[c] # None /\ IsActionable(c, cache'[c])
                    /\ m.receivedAt - cache'[c].at <= MaxStale
                    /\ HasRecovered(rule.conditions[c], cache'[c].value)
    <3>1. Claims(m)
      BY <2>1 DEF Consume, Triggers, Recovers, stored
    <3> DEFINE results == ConditionResults(Fed(m), m.receivedAt, Arriving(m))
               x == Fed(m)[c]
    <3>2. cache'[c] = x
      <4>1. c \in Arriving(m) => m.eventId = None
        BY <2>1 DEF Consume, Selected, WellFormed, Arriving, IsEvent
      <4> QED BY <2>1, <4>1 DEF Consume
    <3>3. Quiet \/ Raised(m, results) \/ Recovered(results)
      BY <2>1, <3>1, Evaluated
    <3>4. /\ results[c] = ConditionResult(c, x, m.receivedAt, Arriving(m))
          /\ rule.combinator = "and" /\ GroupTruth(results) = "true" => results[c] = "true"
          /\ rule.combinator = "or" /\ GroupTruth(results) = "false" => results[c] = "false"
      BY Grouped DEF Inv
    <3> HIDE DEF results, x
    <3>5. ASSUME Triggers, rule.combinator = "and"
          PROVE  /\ x # None /\ IsActionable(c, x) /\ state'.lastAlertAt - x.at <= MaxStale
                 /\ ConditionMatches(rule.conditions[c], x.value)
      <4>1. GroupTruth(results) = "true" /\ state'.lastAlertAt = m.receivedAt
        BY <3>3, <3>5 DEF Triggers, Quiet, Raised, Recovered
      <4>2. ConditionResult(c, x, m.receivedAt, Arriving(m)) = "true" /\ state.state = "ARMED"
        BY <3>4, <3>5, <4>1 DEF Triggers
      <4> QED BY <4>1, <4>2 DEF ConditionResult, Usable, MetricIsFresh, Tri
    <3>6. ASSUME Recovers, rule.combinator = "or"
          PROVE  /\ x # None /\ IsActionable(c, x) /\ m.receivedAt - x.at <= MaxStale
                 /\ HasRecovered(rule.conditions[c], x.value)
      <4>1. GroupTruth(results) = "false"
        BY <3>3, <3>6 DEF Recovers, Quiet, Raised, Recovered
      <4>2. ConditionResult(c, x, m.receivedAt, Arriving(m)) = "false"
            /\ state.state = "TRIGGERED"
        BY <3>4, <3>6, <4>1 DEF Recovers
      <4> QED BY <4>2 DEF ConditionResult, Usable, MetricIsFresh, Tri
    <3> QED BY <3>2, <3>5, <3>6
  <2>2. \E m \in Arrivals : Consume(m)
    BY OnlyEvaluations DEF Triggers
  <2> QED BY <2>1, <2>2
<1> QED
  BY <1>1, InvAlways, PTL DEF Spec, UnknownNeverDecides
=============================================================================
