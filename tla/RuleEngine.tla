------------------------------- MODULE RuleEngine -------------------------------
(***************************************************************************)
(* One alert rule at run time: rule-execution-service.ts over              *)
(* rule-execution-repository.ts, with the configuration changes of         *)
(* rule-repository.ts and the user operations of alert-repository.ts that  *)
(* touch the same rows.  RuleExecutionService.consume walks the rules of a *)
(* monitor one after the other; each evaluation reads and writes the rows  *)
(* and the cache entries of its own rule only, so one rule is modelled.    *)
(* consume is synchronous and commits one SQLite transaction per rule:     *)
(* an evaluation is one step.                                              *)
(*                                                                         *)
(* Above some definitions stands a mutated form, which no action uses: the *)
(* bug that the property PROJECT.json names with it would catch.           *)
(***************************************************************************)
EXTENDS RuleStateMachine, Sequences

CONSTANTS
  Conditions,      \* the positions of the rule's conditions
  Metrics,         \* the metric series (name, labels, window) of the monitor
  EventMetrics,    \* the series whose metrics are events, not gauges
  DataAgeMetrics,  \* the series named data_age_seconds
  Definitions,     \* the condition groups a PATCH may install
  Durations,       \* durationSeconds a PATCH may install
  Cooldowns,       \* cooldownSeconds a PATCH may install
  Samples,         \* the [metric, value, status] its collectors emit
  Lags,            \* how old <<receivedAt, observedAt>> may be on arrival
  EventIds,        \* stable ids of the event metrics
  MaxStale,        \* maxStaleSeconds of the monitor
  MaxTime,         \* bound on the clock
  MaxAlerts,       \* bound on the alerts of the rule
  MaxPatches       \* bound on the PATCHes of the rule

ASSUME NoneIsNoEvent == None \notin EventIds /\ None \notin EventIds \X EventMetrics
ASSUME DefinitionsAreGroups ==
  Definitions \subseteq
    [Conditions -> [metric : Metrics, operator : Operators, threshold : Int,
                    hysteresis : Int, boolean : BOOLEAN]]
ASSUME SamplesAreMetrics ==
  Samples \subseteq [metric : Metrics, value : Int, status : {"ok", "stale", "error"}]
ASSUME BoundsAreNaturals ==
  /\ {MaxStale, MaxTime, MaxAlerts, MaxPatches} \subseteq Nat
  /\ Durations \subseteq Nat /\ Cooldowns \subseteq Nat /\ Lags \subseteq Nat \X Nat

VARIABLES
  now,      \* the wall clock, in seconds
  rule,     \* the rows of rules and rule_conditions
  cache,    \* latestByCondition, in memory
  state,    \* the row of rule_states
  alerts,   \* the alerts rows the rule has written, in order
  commits,  \* the rows of rule_event_commits
  patches,  \* PATCHes so far
  \* history: evaluation time of the first of the committed evaluations since
  \* which every committed evaluation of the rule found the group known true
  streak

stored == <<state, alerts, commits>>
vars == <<now, rule, cache, state, alerts, commits, patches, streak>>

Statuses == {"ok", "stale", "error"}   \* error: also unsupported, warming_up
AlertStatuses == {"open", "acknowledged", "resolved"}

\* An event cannot last: rule-repository.ts refuses a duration on such a group.
ValidRule(r) ==
  (\E c \in Conditions : r.conditions[c].metric \in EventMetrics) => r.duration = 0

RuleRows == {r \in [exists : BOOLEAN, enabled : BOOLEAN, combinator : {"and", "or"},
                    conditions : Definitions, duration : Durations,
                    cooldown : Cooldowns] : ValidRule(r)}

Observations == [value : Int, status : Statuses, at : Nat]

\* Metrics the pipeline can forward now: receivedAt is stamped by the collector,
\* possibly before its reads end; observedAt comes from the source.
Arrivals ==
  {[metric |-> s.metric, value |-> s.value, status |-> s.status, eventId |-> id,
    receivedAt |-> now - lag[1], observedAt |-> now - lag[2]] :
     s \in Samples, lag \in {l \in Lags : l[1] <= now /\ l[2] <= now},
     id \in EventIds \cup {None}}

\* Only, and always, an event carries an eventId (metricSchema).
WellFormed(m) == (m.metric \in EventMetrics) <=> (m.eventId # None)

ArmedState == [state |-> "ARMED", conditionSince |-> None, lastAlertAt |-> None]

Init ==
  /\ now = 0
  /\ rule \in {r \in RuleRows : r.exists /\ r.enabled}
  /\ cache = [c \in Conditions |-> None]
  /\ state = ArmedState
  /\ alerts = <<>>
  /\ commits = {}
  /\ patches = 0
  /\ streak = None

---------------------------------------------------------------------------
(* RuleExecutionService.consume and RuleExecutionRepository.commitEvaluation *)

MetricOf(c) == rule.conditions[c].metric
IsEvent(c) == MetricOf(c) \in EventMetrics

Arriving(m) == {c \in Conditions : MetricOf(c) = m.metric}

Earlier(a, b) == IF a < b THEN a ELSE b

\* The cache once the arriving metric is in it.
Fed(m) ==
  [c \in Conditions |->
     IF c \in Arriving(m)
     THEN [value |-> m.value, status |-> m.status,
           at |-> Earlier(m.receivedAt, m.observedAt)]
     ELSE cache[c]]

IsActionable(c, x) ==
  \/ x.status = "ok"
  \/ x.status = "stale" /\ MetricOf(c) \in DataAgeMetrics

NeverExpires(x, t) == TRUE
MetricIsFresh(x, t) == t - x.at <= MaxStale

UsableWhenCached(c, x, t, arriving) ==
  x # None /\ IsActionable(c, x) /\ MetricIsFresh(x, t)

Usable(c, x, t, arriving) ==
  /\ x # None
  /\ (IsEvent(c) => c \in arriving)
  /\ IsActionable(c, x)
  /\ MetricIsFresh(x, t)

\* A triggered condition holds until it has recovered; an armed one only while
\* it matches.
ConditionResult(c, x, t, arriving) ==
  IF ~Usable(c, x, t, arriving) THEN "unknown"
  ELSE Tri(IF state.state = "TRIGGERED"
           THEN ~HasRecovered(rule.conditions[c], x.value)
           ELSE ConditionMatches(rule.conditions[c], x.value))

ConditionResults(x, t, arriving) ==
  [c \in Conditions |-> ConditionResult(c, x[c], t, arriving)]

GroupTruth(results) ==
  CombineConditionResults(rule.combinator, {results[c] : c \in Conditions})

ResolveOpenOnly ==
  [i \in DOMAIN alerts |->
     IF alerts[i].status = "open" THEN [alerts[i] EXCEPT !.status = "resolved"]
     ELSE alerts[i]]

\* Every alert that is still open or acknowledged becomes resolved.
ResolveAll ==
  [i \in DOMAIN alerts |-> [alerts[i] EXCEPT !.status = "resolved"]]

Cause(m) == IF m.eventId = None THEN None ELSE <<m.eventId, m.metric>>

\* cause and events are history: the event that arrived (None for a gauge), and
\* the series of the event conditions that were found true.
NewAlert(m, results) ==
  [status |-> "open", createdAt |-> m.receivedAt, cause |-> Cause(m),
   events |-> {MetricOf(c) : c \in {d \in Conditions : IsEvent(d) /\ results[d] = "true"}}]

\* False for an event whose commit row for this rule exists already.
Claims(m) == Cause(m) \notin commits

CommitEvaluation(m, results) ==
  LET truth == GroupTruth(results)
      evaluation == EvaluateRuleTruth(rule, state, truth, m.receivedAt)
      raises == evaluation.action \in {"trigger", "repeat"}
  IN /\ raises => Len(alerts) < MaxAlerts
     /\ state' = evaluation.state
     /\ alerts' = CASE raises -> Append(alerts, NewAlert(m, results))
                    [] evaluation.action = "recover" -> ResolveAll
                    [] OTHER -> alerts
     /\ commits' = commits \cup ({Cause(m)} \ {None})
     /\ streak' = IF truth # "true" THEN None
                  ELSE IF streak = None THEN m.receivedAt ELSE streak

\* findEnabledRules returns the rule, and one of its conditions selects m.
Selected(m) == WellFormed(m) /\ rule.exists /\ rule.enabled /\ Arriving(m) # {}

\* The evaluation commits; an event leaves the cache again.
Consume(m) ==
  /\ Selected(m)
  /\ IF Claims(m)
     THEN CommitEvaluation(m, ConditionResults(Fed(m), m.receivedAt, Arriving(m)))
     ELSE UNCHANGED <<stored, streak>>
  /\ cache' = [c \in Conditions |->
                 IF c \in Arriving(m) /\ m.eventId # None THEN None ELSE Fed(m)[c]]
  /\ UNCHANGED <<now, rule, patches>>

\* The evaluation or its transaction throws: nothing is stored, and the metric,
\* an event included, stays in the cache.
ConsumeFails(m) ==
  /\ Selected(m)
  /\ cache' = Fed(m)
  /\ UNCHANGED <<now, rule, stored, patches, streak>>

---------------------------------------------------------------------------
(* RuleRepository.update and delete, and the cache invalidation that the      *)
(* configuration event triggers in the same turn of the event loop            *)

EmptyCache == [c \in Conditions |-> None]

ResetState ==
  /\ state' = ArmedState
  /\ alerts' = ResolveAll
  /\ streak' = None

KeepState == UNCHANGED <<state, alerts, streak>>

\* A given group or duration resets the state even when it is the same one; a
\* combinator or enabled flag only when it differs.
PatchRule(new, conditionsGiven, durationGiven) ==
  /\ rule.exists /\ new.exists
  /\ patches < MaxPatches
  /\ ~conditionsGiven => new.conditions = rule.conditions
  /\ ~durationGiven => new.duration = rule.duration
  /\ rule' = new
  /\ IF \/ conditionsGiven \/ durationGiven
        \/ new.combinator # rule.combinator \/ new.enabled # rule.enabled
     THEN ResetState
     ELSE KeepState
  /\ cache' = EmptyCache
  /\ patches' = patches + 1
  /\ UNCHANGED <<now, commits>>

\* The rows of the rule cascade; its alerts stay, detached from it.
DeleteRule ==
  /\ rule.exists
  /\ rule' = [rule EXCEPT !.exists = FALSE]
  /\ state' = ArmedState
  /\ commits' = {}
  /\ streak' = None
  /\ cache' = EmptyCache
  /\ UNCHANGED <<now, alerts, patches>>

\* A monitor update drops the cached metrics of the monitor's rules.
InvalidateMonitor ==
  /\ rule.exists
  /\ cache' = EmptyCache
  /\ UNCHANGED <<now, rule, stored, patches, streak>>

\* The process stops and starts again: only SQLite survives.
Restart ==
  /\ cache' = EmptyCache
  /\ UNCHANGED <<now, rule, stored, patches, streak>>

---------------------------------------------------------------------------
(* AlertRepository.acknowledge and resolve *)

AcknowledgeAlert(i) ==
  /\ alerts[i].status = "open"
  /\ alerts' = [alerts EXCEPT ![i].status = "acknowledged"]
  /\ UNCHANGED <<now, rule, cache, state, commits, patches, streak>>

ResolveAlert(i) ==
  /\ alerts[i].status # "resolved"
  /\ alerts' = [alerts EXCEPT ![i].status = "resolved"]
  /\ UNCHANGED <<now, rule, cache, state, commits, patches, streak>>

Tick ==
  /\ now < MaxTime
  /\ now' = now + 1
  /\ UNCHANGED <<rule, cache, stored, patches, streak>>

Next ==
  \/ \E m \in Arrivals : Consume(m)
  \/ \E m \in Arrivals : ConsumeFails(m)
  \/ \E new \in RuleRows, conditionsGiven, durationGiven \in BOOLEAN :
       PatchRule(new, conditionsGiven, durationGiven)
  \/ DeleteRule
  \/ InvalidateMonitor
  \/ Restart
  \/ \E i \in DOMAIN alerts : AcknowledgeAlert(i)
  \/ \E i \in DOMAIN alerts : ResolveAlert(i)
  \/ Tick

Spec == Init /\ [][Next]_vars

---------------------------------------------------------------------------
(* Properties *)

Causes == EventIds \X EventMetrics

AlertRows == [status : AlertStatuses, createdAt : Nat, cause : Causes \cup {None},
              events : SUBSET EventMetrics]

TypeOK ==
  /\ now \in 0..MaxTime
  /\ rule \in RuleRows
  /\ cache \in [Conditions -> Observations \cup {None}]
  /\ state \in [state : RuleStates, conditionSince : Nat \cup {None},
                lastAlertAt : Nat \cup {None}]
  /\ alerts \in Seq(AlertRows)
  /\ Len(alerts) <= MaxAlerts
  /\ commits \subseteq Causes
  /\ patches \in 0..MaxPatches
  /\ streak \in Nat \cup {None}

\* A rule that is armed has no alert left open: whatever armed it (a recovery,
\* a PATCH, its creation) resolved the alerts it had raised.
AlertsClosedWhenArmed ==
  rule.exists /\ state.state = "ARMED" =>
    \A i \in DOMAIN alerts : alerts[i].status = "resolved"

\* One arrival of an event raises at most one alert of the rule, however often
\* the event is delivered, and whatever failed or restarted in between.
EventsAlertOnce ==
  \A i, j \in DOMAIN alerts :
    alerts[i].cause # None /\ alerts[i].cause = alerts[j].cause => i = j

\* No alert rests on an event other than the one whose arrival raised it: a
\* later gauge, or another event, never replays an old event.
OldEventsNeverDecide ==
  \A i \in DOMAIN alerts : \A metric \in alerts[i].events :
    alerts[i].cause # None /\ alerts[i].cause[2] = metric

Triggers == rule.exists /\ state.state = "ARMED" /\ state'.state = "TRIGGERED"
Recovers ==
  /\ rule' = rule /\ patches' = patches
  /\ state.state = "TRIGGERED" /\ state'.state = "ARMED"

\* A rule triggers only when the evaluations committed since durationSeconds ago
\* or longer all found its group known true: none of them false or unknown, and
\* no reset, in between, over restarts, failed evaluations and PATCHes.
TriggerIsEarned ==
  [][Triggers => /\ streak' # None
                 /\ state'.lastAlertAt - streak' >= rule.duration]_vars

\* While a rule stays triggered its alerts are at least cooldownSeconds apart,
\* by the creation times of the alerts themselves.
RemindersRespectCooldown ==
  [][Len(alerts') > Len(alerts) /\ state.state = "TRIGGERED" =>
       /\ alerts # <<>>
       /\ alerts'[Len(alerts')].createdAt - alerts[Len(alerts)].createdAt
            >= rule.cooldown]_vars

\* Missing, failed or expired data decides nothing: every gauge of an AND group that triggers
\* was usable and matched, and every gauge of an OR group that recovers was usable and past its
\* hysteresis band; both were fresh when the metric arrived that decided.
UnknownNeverDecides ==
  [][\A c \in Conditions : ~IsEvent(c) =>
       /\ Triggers /\ rule.combinator = "and" =>
            /\ cache'[c] # None
            /\ IsActionable(c, cache'[c])
            /\ state'.lastAlertAt - cache'[c].at <= MaxStale
            /\ ConditionMatches(rule.conditions[c], cache'[c].value)
       /\ Recovers /\ rule.combinator = "or" =>
            /\ cache'[c] # None
            /\ IsActionable(c, cache'[c])
            /\ \A m \in Arrivals : Consume(m) => m.receivedAt - cache'[c].at <= MaxStale
            /\ HasRecovered(rule.conditions[c], cache'[c].value)]_vars

=============================================================================
