---------------------------- MODULE PositionSnapshot ----------------------------
(***************************************************************************)
(* What a liquidity position monitor emits, keeps and shows: the scan of    *)
(* core/integrations/uniswap-v3-position-coordinator.ts, the latest gauges  *)
(* (core/metrics/latest-metric-store.ts) and the snapshot made of them      *)
(* (core/positions/uniswap-v3-position-snapshot-service.ts).               *)
(*                                                                         *)
(* A scan brings, for one version, the tokens the wallet holds and those of *)
(* them that could not be read.  The store keeps the newest of the gauges   *)
(* with the same labels; gauges with other labels it keeps as well, and the *)
(* labels of a valued position hold the time of the valuation.  A position  *)
(* is known here by the time it was observed at.                           *)
(***************************************************************************)
EXTENDS Integers, FiniteSets, FiniteSetsExt

CONSTANTS
  Versions,           \* the variants of the monitor
  Tokens, Valued,     \* its positions, and those with a stablecoin
  MaxStale, MaxDelay, \* MaxDelay: how old a shared read may be when a scan emits it
  MaxClock, MaxForgets

SnapshotParameters ==
  /\ Valued \subseteq Tokens
  /\ MaxStale \in Nat /\ MaxDelay \in Nat /\ MaxClock \in Nat /\ MaxForgets \in Nat

VARIABLES
  clock,
  scanStatus, caughtUp, readErrors,   \* status gauges, of each version
  dataAge,          \* data_age_seconds, of the monitor
  positions,        \* the gauges of a position: the times of those that are kept
  found,            \* history: the tokens of the newest scan of each version
  latestGood,       \* the newest good gauge
  forgets

vars == <<clock, scanStatus, caughtUp, readErrors, dataAge, positions, found, latestGood, forgets>>

Never == -1
Times == 0..MaxClock
Gauge == [at : Times \cup {Never}, status : {"none", "ok", "error", "warming_up", "stale"}]
NoGauge == [at |-> Never, status |-> "none"]

TypeOK ==
  /\ clock \in Times
  /\ scanStatus \in [Versions -> Gauge] /\ caughtUp \in [Versions -> Gauge]
  /\ readErrors \in [Versions -> [Tokens -> Gauge]] /\ dataAge \in Gauge
  /\ positions \in [Versions -> [Tokens -> SUBSET Times]]
  /\ found \in [Versions -> SUBSET Tokens]
  /\ latestGood \in Times \cup {Never} /\ forgets \in 0..MaxForgets

Init ==
  /\ clock = 0
  /\ scanStatus = [v \in Versions |-> NoGauge] /\ caughtUp = [v \in Versions |-> NoGauge]
  /\ readErrors = [v \in Versions |-> [t \in Tokens |-> NoGauge]] /\ dataAge = NoGauge
  /\ positions = [v \in Versions |-> [t \in Tokens |-> {}]]
  /\ found = [v \in Versions |-> {}]
  /\ latestGood = Never /\ forgets = 0

---------------------------------------------------------------------------
(* The store *)

\* Whatever comes last is kept.
PutLast(old, at, status) == [at |-> at, status |-> status]

\* LatestMetricStore.put: what is not newer than the gauge with its labels is turned away.
Put(old, at, status) == IF at <= old.at THEN old ELSE [at |-> at, status |-> status]

\* The time of a valuation is among its labels, so that each scan adds a gauge.
PutPosition(kept, t, at) == IF t \in Valued THEN kept \cup {at} ELSE {Max(kept \cup {at})}

---------------------------------------------------------------------------
(* The scan *)

\* One version's read is in: the tokens held, those that failed, and, of v4, whether the
\* ownership index has caught up.
EmitScan(v, at, held, failures, indexed) ==
  LET status == IF failures # {} THEN "error" ELSE IF indexed THEN "ok" ELSE "warming_up" IN
  /\ scanStatus' = [scanStatus EXCEPT ![v] = Put(@, at, status)]
  /\ dataAge' = IF status = "ok" THEN Put(dataAge, at, "ok") ELSE dataAge
  /\ caughtUp' = [caughtUp EXCEPT ![v] = Put(@, at, IF indexed THEN "ok" ELSE "warming_up")]
  /\ positions' = [positions EXCEPT ![v] = [t \in Tokens |->
       IF t \in held \ failures THEN PutPosition(@[t], t, at) ELSE @[t]]]
  /\ readErrors' = [readErrors EXCEPT ![v] = [t \in Tokens |->
       IF t \in failures THEN Put(@[t], at, "error")
       ELSE IF t \in held THEN Put(@[t], at, "ok") ELSE @[t]]]
  /\ found' = IF at > scanStatus[v].at THEN [found EXCEPT ![v] = held] ELSE found
  /\ latestGood' = IF indexed \/ held \ failures # {} THEN Max({latestGood, at}) ELSE latestGood

ScanEmits(v) ==
  /\ \E at \in Max({0, clock - MaxDelay})..clock, held \in SUBSET Tokens, indexed \in BOOLEAN :
       \E failures \in SUBSET held :
         /\ v = "v3" => indexed
         /\ EmitScan(v, at, held, failures, indexed)
  /\ UNCHANGED <<clock, forgets>>

\* The read was rejected.
ScanFails(v) ==
  /\ \E at \in Max({0, clock - MaxDelay})..clock :
       scanStatus' = [scanStatus EXCEPT ![v] = Put(@, at, "error")]
  /\ UNCHANGED <<clock, caughtUp, readErrors, dataAge, positions, found, latestGood, forgets>>

\* The watchdog.
CheckStale ==
  /\ latestGood # Never /\ clock - latestGood > MaxStale
  /\ dataAge' = Put(dataAge, clock, "stale")
  /\ UNCHANGED <<clock, scanStatus, caughtUp, readErrors, positions, found, latestGood, forgets>>

\* The wallet, the RPC or the variants were changed: the gauges are removed.
ForgetMonitor ==
  /\ forgets < MaxForgets /\ forgets' = forgets + 1
  /\ scanStatus' = [v \in Versions |-> NoGauge] /\ caughtUp' = [v \in Versions |-> NoGauge]
  /\ readErrors' = [v \in Versions |-> [t \in Tokens |-> NoGauge]] /\ dataAge' = NoGauge
  /\ positions' = [v \in Versions |-> [t \in Tokens |-> {}]]
  /\ found' = [v \in Versions |-> {}] /\ latestGood' = Never
  /\ UNCHANGED clock

TimePasses ==
  /\ clock < MaxClock /\ clock' = clock + 1
  /\ UNCHANGED <<scanStatus, caughtUp, readErrors, dataAge, positions, found, latestGood, forgets>>

Next ==
  \/ \E v \in Versions : ScanEmits(v)
  \/ \E v \in Versions : ScanFails(v)
  \/ CheckStale
  \/ ForgetMonitor
  \/ TimePasses

Spec == Init /\ [][Next]_vars

---------------------------------------------------------------------------
(* The snapshot *)

\* A position is shown once it has been read.
Shown == {p \in Versions \X Tokens : positions[p[1]][p[2]] # {}}

\* The newest scan status of the versions.
Newest == Max({scanStatus[v].at : v \in Versions})

IsStale ==
  \/ dataAge.status = "stale" /\ dataAge.at >= Newest
  \/ clock - Newest > MaxStale

ScanFailed == \E v \in Versions : scanStatus[v].status = "error"

FailedPositions == {p \in Versions \X Tokens : readErrors[p[1]][p[2]].status = "error"}

\* What the answer says of itself.
SnapshotStatus ==
  IF Newest = Never THEN "warming_up"
  ELSE IF IsStale THEN "stale"
  ELSE IF \E v \in Versions : caughtUp[v].status = "warming_up" THEN "warming_up"
  ELSE IF ScanFailed THEN IF Shown # {} THEN "partial" ELSE "error"
  ELSE IF Shown = {} THEN "empty"
  ELSE IF FailedPositions # {} THEN "partial" ELSE "ok"

---------------------------------------------------------------------------
(* Properties *)

\* A good or empty snapshot leaves out nothing a version's newest scan found: each of its
\* positions is shown, was read by that scan, and what it read is among the gauges kept.
GoodIsComplete ==
  SnapshotStatus \in {"ok", "empty"} =>
    \A v \in Versions, t \in Tokens :
      t \in found[v] =>
        readErrors[v][t].at = scanStatus[v].at /\ scanStatus[v].at \in positions[v][t]
=============================================================================
