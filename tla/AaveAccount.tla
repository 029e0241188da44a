------------------------------- MODULE AaveAccount -------------------------------
(***************************************************************************)
(* The position scans of one Aave account monitor:                         *)
(* core/integrations/aave-v3-position-coordinator.ts with its reader        *)
(* (adapters/aave/aave-v3-position-reader.ts), the latest metrics           *)
(* (core/metrics/latest-metric-store.ts) and the persisted samples          *)
(* (db/repositories/protocol-metric-sample-repository.ts).                 *)
(*                                                                         *)
(* A scan reads every chain at the same time, each over its endpoints in    *)
(* order, with a retry and a circuit breaker; when all chains are in, it    *)
(* emits metric after metric.  reconcile replaces the task of a monitor     *)
(* that stays, whose run goes on, and removes that of one that is gone: its *)
(* run is told to abort, ends if it still reads and goes on if it already   *)
(* emits, beside the run of the monitor enabled anew.                       *)
(*                                                                         *)
(* Of the store the gauges are kept that a later decision reads.  Starting  *)
(* a scan advances the clock, so that no two scans have one timestamp.      *)
(***************************************************************************)
EXTENDS Integers, Sequences, FiniteSets, FiniteSetsExt

CONSTANTS
  Chains, Market,        \* the supported chains; the one of a monitor that names its RPC
  Endpoints,             \* the RPC endpoints that serve each chain, in order
  MaximumAttempts, FailureThreshold, Cooldown,
  MaxStale, Interval,
  Windows, LeastHistory, \* the change windows the monitor's rules ask for; a minute
  MaxClock, MaxReconciles

AccountParameters ==
  /\ Market \in Chains
  /\ MaximumAttempts \in Nat \ {0} /\ FailureThreshold \in Nat \ {0} /\ Cooldown \in Nat
  /\ MaxStale \in Nat /\ Interval \in Nat
  /\ Windows \subseteq Nat /\ LeastHistory \in Nat
  /\ MaxClock \in Nat /\ MaxReconciles \in Nat

EndpointIds == UNION {{Endpoints[c][i] : i \in 1..Len(Endpoints[c])} : c \in Chains}
Runs == {1, 2}   \* bound: one run and one that was told to abort

VARIABLES
  clock,
  legacy,       \* the monitor has no RPC of its own: it uses every enabled one
  configured,   \* an enabled RPC serves a chain of the monitor
  enabled,      \* the monitor has a task
  held,         \* the account holds something on the chain (external)
  circuits,     \* the circuit breaker of each endpoint
  scan,         \* the runs of the scan task
  rpc, position, change, count, dataAge, scanStatus,   \* the latest gauges
  eventAt,      \* the newest account event among the latest metrics, 0 if none
  samples,      \* times of the persisted samples of the account's totals
  present,      \* the persisted position_present and its time
  lifecycle,    \* account_position_opened, _closed events ingested
  reconciles

store == <<rpc, position, change, count, dataAge, scanStatus>>
persisted == <<samples, present>>
vars == <<clock, legacy, configured, enabled, held, circuits, scan, store, eventAt, persisted,
          lifecycle, reconciles>>

MonitorChains == IF legacy THEN Chains ELSE {Market}
EndpointsOf(c) == IF legacy THEN Endpoints[c] ELSE SubSeq(Endpoints[c], 1, 1)

Gauge == [at : Nat, status : {"none", "ok", "error", "stale"}, value : Nat]
NoGauge == [at |-> 0, status |-> "none", value |-> 0]
Outcomes == {"reading", "error", "position", "nothing"}
Work == [endpoint : Nat, attempt : Nat, outcome : Outcomes]
Scan == [phase : {"idle", "read", "emit"}, aborted : BOOLEAN, at : Nat,
         work : [Chains -> Work], left : SUBSET Chains]
NoWork == [endpoint |-> 0, attempt |-> 0, outcome |-> "nothing"]
Idle == [phase |-> "idle", aborted |-> FALSE, at |-> 0, work |-> [c \in Chains |-> NoWork], left |-> {}]

WarmingUp == -1   \* otherwise a change is how far back it reaches

TypeOK ==
  /\ clock \in 0..MaxClock /\ legacy \in BOOLEAN /\ configured \in BOOLEAN
  /\ enabled \in BOOLEAN /\ held \in [Chains -> BOOLEAN]
  /\ circuits \in [EndpointIds -> [failures : Nat, openUntil : Nat]]
  /\ scan \in [Runs -> Scan]
  /\ rpc \in [Chains -> Gauge] /\ position \in [Chains -> 0..MaxClock]
  /\ count \in Gauge /\ dataAge \in Gauge /\ scanStatus \in Gauge
  /\ eventAt \in 0..MaxClock /\ samples \subseteq 0..MaxClock
  /\ present \in [at : 0..MaxClock, value : {"none", "true", "false"}]
  /\ change \in [Chains -> [Windows -> {WarmingUp} \cup 0..MaxClock]]
  /\ lifecycle \subseteq {"opened", "closed"}
  /\ reconciles \in 0..MaxReconciles

Closed == [failures |-> 0, openUntil |-> 0]

EmptyStore ==
  /\ rpc' = [c \in Chains |-> NoGauge] /\ position' = [c \in Chains |-> 0]
  /\ change' = [c \in Chains |-> [w \in Windows |-> WarmingUp]]
  /\ count' = NoGauge /\ dataAge' = NoGauge

Init ==
  /\ clock = 0 /\ legacy \in BOOLEAN /\ configured = TRUE /\ enabled = TRUE
  /\ held = [c \in Chains |-> FALSE]
  /\ circuits = [e \in EndpointIds |-> Closed]
  /\ scan = [r \in Runs |-> Idle]
  /\ rpc = [c \in Chains |-> NoGauge] /\ position = [c \in Chains |-> 0]
  /\ change = [c \in Chains |-> [w \in Windows |-> WarmingUp]]
  /\ count = NoGauge /\ dataAge = NoGauge /\ scanStatus = NoGauge
  /\ eventAt = 0 /\ samples = {} /\ present = [at |-> 0, value |-> "none"]
  /\ lifecycle = {}
  /\ reconciles = 0

---------------------------------------------------------------------------
(* The endpoints of a chain *)

IsCircuitOpen(e) == circuits[e].openUntil > clock

RecordEndpointFailure(circuit) ==
  [failures |-> circuit.failures + 1,
   openUntil |-> IF circuit.failures + 1 >= FailureThreshold THEN clock + Cooldown ELSE 0]

Skipping(c, i) == {j \in i..Len(EndpointsOf(c)) : ~IsCircuitOpen(EndpointsOf(c)[j])}

\* The loop goes to the next endpoint whose circuit is closed; without one the chain
\* has failed.
GoOn(work, c, i) ==
  IF Skipping(c, i) = {} THEN [work EXCEPT !.outcome = "error"]
  ELSE [work EXCEPT !.endpoint = Min(Skipping(c, i)), !.attempt = 1, !.outcome = "reading"]

---------------------------------------------------------------------------
(* A scan *)

\* LatestMetricStore.put of a gauge: what is not newer is turned away.
Put(old, at, status, value) ==
  IF at <= old.at THEN old ELSE [at |-> at, status |-> status, value |-> value]

\* The gauges are forgotten first; without an RPC only that is reported.
StartScan(r) ==
  /\ clock < MaxClock /\ clock' = clock + 1
  /\ enabled /\ scan[r].phase = "idle"
  /\ \A other \in Runs : scan[other].phase = "idle" \/ scan[other].aborted
  /\ EmptyStore
  /\ IF configured
     THEN /\ scanStatus' = NoGauge
          /\ scan' = [scan EXCEPT ![r] =
               [phase |-> "read", aborted |-> FALSE, at |-> clock + 1, left |-> MonitorChains,
                work |-> [c \in Chains |-> IF c \in MonitorChains THEN GoOn(NoWork, c, 1) ELSE NoWork]]]
     ELSE /\ scanStatus' = [at |-> clock + 1, status |-> "error", value |-> 0]
          /\ UNCHANGED scan
  /\ UNCHANGED <<legacy, configured, enabled, held, circuits, eventAt, persisted, lifecycle, reconciles>>

Reading(r, c) ==
  /\ scan[r].phase = "read" /\ ~scan[r].aborted
  /\ c \in MonitorChains /\ scan[r].work[c].outcome = "reading"

EndpointRead(r, c) == EndpointsOf(c)[scan[r].work[c].endpoint]

\* The reader says nothing of an account without collateral and debt.
ReadPosition(r, c) ==
  /\ Reading(r, c)
  /\ scan' = [scan EXCEPT ![r].work[c].outcome = IF held[c] THEN "position" ELSE "nothing"]
  /\ circuits' = [circuits EXCEPT ![EndpointRead(r, c)] = Closed]
  /\ UNCHANGED <<clock, legacy, configured, enabled, held, store, eventAt, persisted, lifecycle, reconciles>>

\* A read fails: it is tried again after a pause, then the endpoint has failed.
ReadFails(r, c) ==
  /\ Reading(r, c)
  /\ LET e == EndpointRead(r, c)
         work == scan[r].work[c] IN
       IF work.attempt < MaximumAttempts
       THEN /\ scan' = [scan EXCEPT ![r].work[c].attempt = @ + 1]
            /\ UNCHANGED circuits
       ELSE /\ scan' = [scan EXCEPT ![r].work[c] = GoOn(work, c, work.endpoint + 1)]
            /\ circuits' = [circuits EXCEPT ![e] = RecordEndpointFailure(@)]
  /\ UNCHANGED <<clock, legacy, configured, enabled, held, store, eventAt, persisted, lifecycle, reconciles>>

\* Every read, pause and loop looks at the signal.
AbortedRunEnds(r) ==
  /\ scan[r].phase = "read" /\ scan[r].aborted
  /\ scan' = [scan EXCEPT ![r] = Idle]
  /\ UNCHANGED <<clock, legacy, configured, enabled, held, circuits, store, eventAt, persisted, lifecycle, reconciles>>

ChainsAreIn(r) ==
  /\ scan[r].phase = "read" /\ ~scan[r].aborted
  /\ \A c \in MonitorChains : scan[r].work[c].outcome # "reading"
  /\ scan' = [scan EXCEPT ![r].phase = "emit"]
  /\ UNCHANGED <<clock, legacy, configured, enabled, held, circuits, store, eventAt, persisted, lifecycle, reconciles>>

\* The reference of a window is the newest sample as old as the window, of those the
\* longest window and two intervals may need; only those are kept.
Longest == Max({LeastHistory} \cup Windows)
Cutoff(at) == at - Longest - 2 * Interval
Historical(at) == {s \in samples : s >= Cutoff(at)}

References(at, w) == {s \in Historical(at) : s <= at - w}

EmitChanges(at, c) ==
  /\ change' = IF at <= position[c] THEN change ELSE [change EXCEPT ![c] =
       [w \in Windows |-> IF References(at, w) = {} THEN WarmingUp ELSE at - Max(References(at, w))]]
  /\ samples' = Historical(at) \cup {at}

\* A position that is read has collateral or debt: what is persisted is "true" from
\* the first one on.
EmitPositionLifecycle(at, c) ==
  LET now == "true" IN
  IF legacy THEN UNCHANGED <<present, lifecycle>>
  ELSE IF present.value = "none"
  THEN present' = [at |-> at, value |-> now] /\ UNCHANGED lifecycle
  ELSE IF present.value = now \/ eventAt < present.at THEN UNCHANGED <<present, lifecycle>>
  ELSE /\ lifecycle' = lifecycle \cup {"opened"}
       /\ present' = [at |-> at, value |-> now]

EmitPosition(at, c) ==
  /\ position' = [position EXCEPT ![c] = Max({@, at})]
  /\ EmitChanges(at, c)
  /\ EmitPositionLifecycle(at, c)

\* One chain's result is emitted; the signal is not looked at again.
EmitChain(r, c) ==
  /\ scan[r].phase = "emit" /\ c \in scan[r].left
  /\ rpc' = [rpc EXCEPT ![c] = Put(@, scan[r].at,
       IF scan[r].work[c].outcome = "error" THEN "error" ELSE "ok", 0)]
  /\ IF scan[r].work[c].outcome = "position" THEN EmitPosition(scan[r].at, c)
     ELSE UNCHANGED <<position, change, persisted, lifecycle>>
  /\ scan' = [scan EXCEPT ![r].left = @ \ {c}]
  /\ UNCHANGED <<clock, legacy, configured, enabled, held, circuits, count, dataAge, scanStatus, eventAt, reconciles>>

\* A scan fails when it read nothing at all.
ScanFailedWholly(s) == \A c \in MonitorChains : s.work[c].outcome = "error"

ScanFailed(s) == \E c \in MonitorChains : s.work[c].outcome = "error"

Found(s) == {c \in MonitorChains : s.work[c].outcome = "position"}

EmitCounts(r) ==
  /\ scan[r].phase = "emit" /\ scan[r].left = {}
  /\ count' = Put(count, scan[r].at, IF ScanFailed(scan[r]) THEN "error" ELSE "ok", Cardinality(Found(scan[r])))
  /\ scan' = [scan EXCEPT ![r] = Idle]
  /\ UNCHANGED <<clock, legacy, configured, enabled, held, circuits, rpc, position, change, dataAge, scanStatus, eventAt,
                 persisted, lifecycle, reconciles>>

---------------------------------------------------------------------------
(* The watchdog, the configuration and the world *)

\* The newest good metric of the protocol: a gauge or an event.
LatestSuccessful ==
  Max({0, eventAt, IF count.status = "ok" THEN count.at ELSE 0}
      \cup {position[c] : c \in Chains}
      \cup {rpc[c].at : c \in {x \in Chains : rpc[x].status = "ok"}})

\* Without a good metric there is no age.
Stale == LatestSuccessful # 0 /\ clock - LatestSuccessful > MaxStale

CheckStale ==
  /\ enabled /\ Stale
  /\ dataAge' = Put(dataAge, clock, "stale", 0)
  /\ UNCHANGED <<clock, legacy, configured, enabled, held, circuits, scan, rpc, position, change, count, scanStatus, eventAt,
                 persisted, lifecycle, reconciles>>

\* Only the run of a monitor that is gone is told to abort.
Reconcile ==
  /\ reconciles < MaxReconciles /\ reconciles' = reconciles + 1
  /\ configured' \in BOOLEAN /\ enabled' \in BOOLEAN
  /\ circuits' = [e \in EndpointIds |-> Closed]
  /\ scan' = IF enabled' THEN scan
             ELSE [r \in Runs |-> IF scan[r].phase = "idle" THEN scan[r]
                                  ELSE [scan[r] EXCEPT !.aborted = TRUE]]
  /\ UNCHANGED <<clock, legacy, held, store, eventAt, persisted, lifecycle>>

\* The process starts anew; the samples are on disk.
Restart ==
  /\ reconciles < MaxReconciles /\ reconciles' = reconciles + 1
  /\ circuits' = [e \in EndpointIds |-> Closed]
  /\ scan' = [r \in Runs |-> Idle]
  /\ EmptyStore /\ scanStatus' = NoGauge /\ eventAt' = 0
  /\ UNCHANGED <<clock, legacy, configured, enabled, held, persisted, lifecycle>>

\* The account opens or closes its position on a chain; the event scan puts the event
\* that did it among the latest metrics.
AccountChanges ==
  /\ clock < MaxClock /\ clock' = clock + 1
  /\ \E c \in MonitorChains : held' = [held EXCEPT ![c] = ~@]
  /\ eventAt' = IF legacy THEN eventAt ELSE clock + 1
  /\ UNCHANGED <<legacy, configured, enabled, circuits, scan, store, persisted, lifecycle, reconciles>>

TimePasses ==
  /\ clock < MaxClock /\ clock' = clock + 1
  /\ UNCHANGED <<legacy, configured, enabled, held, circuits, scan, store, eventAt, persisted, lifecycle, reconciles>>

Next ==
  \/ \E r \in Runs : StartScan(r)
  \/ \E r \in Runs, c \in Chains : ReadPosition(r, c)
  \/ \E r \in Runs, c \in Chains : ReadFails(r, c)
  \/ \E r \in Runs : AbortedRunEnds(r)
  \/ \E r \in Runs : ChainsAreIn(r)
  \/ \E r \in Runs, c \in Chains : EmitChain(r, c)
  \/ \E r \in Runs : EmitCounts(r)
  \/ CheckStale
  \/ Reconcile
  \/ Restart
  \/ AccountChanges
  \/ TimePasses

Spec == Init /\ [][Next]_vars

---------------------------------------------------------------------------
(* Properties *)

\* A failed read never passes for an empty account: the count of a scan is good only
\* if no chain of that scan was reported as failed, whatever other scan emits beside it.
CountsAreHonest ==
  \A c \in Chains : rpc[c].status = "error" /\ rpc[c].at = count.at => count.status = "error"
=============================================================================
