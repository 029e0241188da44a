--------------------------------- MODULE Monitors ---------------------------------
(***************************************************************************)
(* How monitors come to be stored and watched:                              *)
(* core/monitors/monitor-service.ts, which validates a request, the         *)
(* repositories that store monitors and integrations                        *)
(* (db/repositories/monitor-repository.ts, integration-repository.ts), the  *)
(* routes that publish the change and the handler of app.ts that has the    *)
(* coordinators follow it.                                                  *)
(*                                                                         *)
(* The validation of some kinds awaits the RPC.  The repository merges a    *)
(* change into what is stored when that is over, and the change is          *)
(* published in a later turn still.  Requests change one field each.        *)
(***************************************************************************)
EXTENDS Integers, FiniteSets

CONSTANTS
  Monitors,
  KindOf,         \* "position" is read before it is stored, "pool" must be tested,
                  \* "account" and "market" need an integration only
  Integrations,
  MarketData,     \* the integrations that are sources of market data, not RPCs
  Chains, Tokens,
  Positions,      \* the positions that exist: <<chain, token>>
  Requests,       \* the requests that may be under way at one time
  MaxChanges      \* the changes of integrations

MonitorsParameters ==
  /\ KindOf \in [Monitors -> {"position", "pool", "account", "market"}]
  /\ MarketData \subseteq Integrations /\ Positions \subseteq Chains \X Tokens
  /\ MaxChanges \in Nat

VARIABLES
  integration,    \* the integrations: whether they are there, enabled, and their chains
  health,         \* the chains whose capabilities the last test found in order
  monitor,        \* the rows, NotYet before and Gone after
  request,        \* the requests under way
  tasks,          \* what the coordinators watch
  overlap,        \* history: a monitor was patched while another patch of it was validated
  changes

vars == <<integration, health, monitor, request, tasks, overlap, changes>>

Config == [rpc : Integrations, chain : Chains, token : Tokens]
Rows == [enabled : BOOLEAN, config : Config]
NotYet == [row |-> "not yet"]
Gone == [row |-> "gone"]
NoTask == [row |-> "no task"]

\* A monitor of the market has neither chain nor token: they stay as they are.
SomeChain == CHOOSE c \in Chains : TRUE
SomeToken == CHOOSE t \in Tokens : TRUE
RowsOf(m) ==
  IF KindOf[m] = "market" THEN {r \in Rows : r.config.chain = SomeChain /\ r.config.token = SomeToken}
  ELSE Rows

\* The body of a PATCH: whether the monitor is enabled, or a field of its configuration.
Patches ==
  [enabled : BOOLEAN] \cup [rpc : Integrations] \cup [chain : Chains] \cup [token : Tokens]
PatchesOf(m) == IF KindOf[m] = "market" THEN [enabled : BOOLEAN] \cup [rpc : Integrations] ELSE Patches
\* The field as the patch has it, or as it was.
Given(patch, field, was) == IF field \in DOMAIN patch THEN patch[field] ELSE was
Merge(row, patch) ==
  [enabled |-> Given(patch, "enabled", row.enabled),
   config  |-> [rpc |-> Given(patch, "rpc", row.config.rpc), chain |-> Given(patch, "chain", row.config.chain),
                token |-> Given(patch, "token", row.config.token)]]

Idle == [phase |-> "idle"]
RequestStates ==
  {Idle, [phase |-> "stored"]}
  \cup [phase : {"create"}, monitor : Monitors, row : Rows]
  \cup [phase : {"update"}, monitor : Monitors, patch : Patches, checked : Config]

TypeOK ==
  /\ integration \in [Integrations -> [present : BOOLEAN, enabled : BOOLEAN, chains : SUBSET Chains]]
  /\ health \in [Integrations -> SUBSET Chains]
  /\ \A m \in Monitors : monitor[m] \in {NotYet, Gone} \/ monitor[m] \in Rows
  /\ \A a \in Requests : request[a] \in RequestStates
  /\ \A m \in Monitors : tasks[m] = NoTask \/ tasks[m] \in Config
  /\ overlap \in BOOLEAN /\ changes \in 0..MaxChanges

Init ==
  /\ integration = [i \in Integrations |-> [present |-> TRUE, enabled |-> TRUE, chains |-> Chains]]
  /\ health = [i \in Integrations |-> Chains]
  /\ monitor = [m \in Monitors |-> NotYet] /\ tasks = [m \in Monitors |-> NoTask]
  /\ request = [a \in Requests |-> Idle]
  /\ overlap = FALSE /\ changes = 0

Stored(rows, m) == rows[m] \notin {NotYet, Gone}
Usable(i) == integration[i].present /\ integration[i].enabled

---------------------------------------------------------------------------
(* What is checked *)

\* validateUniswapCapability(), validatePancakeCapability()
Capable(config) ==
  /\ Usable(config.rpc) /\ config.rpc \notin MarketData
  /\ config.chain \in integration[config.rpc].chains \cap health[config.rpc]

\* The repository trusts what the service has validated.
RefersUnchecked(m, config) == (config.rpc \in MarketData) = (KindOf[m] = "market")

\* validateIntegrationReference(): an enabled integration of the right type, which covers the chain.
RefersTo(m, config) ==
  /\ Usable(config.rpc)
  /\ (config.rpc \in MarketData) = (KindOf[m] = "market")
  /\ KindOf[m] # "market" => config.chain \in integration[config.rpc].chains

\* A change of the version, the network or the RPC need not be read again.
MustValidateToken(before, after) == before.token # after.token

\* A field that decides which position or pool it is has changed.
MustValidate(before, after) == before # after

---------------------------------------------------------------------------
(* The coordinators *)

\* listEnabled*(): the monitors that are enabled; those of the market need their integration too.
Wanted(rows, integrations) ==
  [m \in Monitors |->
     IF ~Stored(rows, m) \/ ~rows[m].enabled THEN NoTask
     ELSE IF KindOf[m] = "market" /\ ~integrations[rows[m].config.rpc].enabled THEN NoTask
     ELSE rows[m].config]

\* The handler of configuration events, of a monitor and of an integration.
MonitorChanged == tasks' = Wanted(monitor', integration)
IntegrationChanged == tasks' = Wanted(monitor, integration')

---------------------------------------------------------------------------
(* Requests *)

\* What the repository accepts is stored; the route publishes it in a later turn.
StoreNew(a, m, row) ==
  IF RefersTo(m, row.config)
  THEN /\ monitor' = [monitor EXCEPT ![m] = row]
       /\ request' = [request EXCEPT ![a] = [phase |-> "stored"]]
  ELSE /\ request' = [request EXCEPT ![a] = Idle]
       /\ UNCHANGED monitor

\* POST: a position is read first.
Create(a, m, row) ==
  /\ request[a] = Idle /\ monitor[m] = NotYet
  /\ \A b \in Requests : request[b].phase = "create" => request[b].monitor # m
  /\ KindOf[m] \in {"position", "pool"} => Capable(row.config)
  /\ IF KindOf[m] = "position"
     THEN /\ request' = [request EXCEPT ![a] = [phase |-> "create", monitor |-> m, row |-> row]]
          /\ UNCHANGED monitor
     ELSE StoreNew(a, m, row)
  /\ UNCHANGED <<integration, health, tasks, overlap, changes>>

\* The change is merged into what is stored now, and that is checked, whatever the change.
StorePatch(a, m, patch) ==
  IF Stored(monitor, m) /\ RefersTo(m, Merge(monitor[m], patch).config)
  THEN /\ monitor' = [monitor EXCEPT ![m] = Merge(@, patch)]
       /\ request' = [request EXCEPT ![a] = [phase |-> "stored"]]
  ELSE /\ request' = [request EXCEPT ![a] = Idle]
       /\ UNCHANGED monitor

\* A patch is stored while another of the same monitor is being validated.
Overlaps(a, m) ==
  overlap' = (overlap \/ \E b \in Requests \ {a} : request[b].phase = "update" /\ request[b].monitor = m)

\* PATCH: merged with what is stored, and validated when another position or pool is meant.
Update(a, m, patch) ==
  LET after == Merge(monitor[m], patch).config
      validated == KindOf[m] \in {"position", "pool"} /\ MustValidate(monitor[m].config, after) IN
  /\ request[a] = Idle /\ Stored(monitor, m)
  /\ validated => Capable(after)
  /\ IF validated /\ KindOf[m] = "position"
     THEN /\ request' = [request EXCEPT ![a] =
               [phase |-> "update", monitor |-> m, patch |-> patch, checked |-> after]]
          /\ UNCHANGED <<monitor, overlap>>
     ELSE StorePatch(a, m, patch) /\ Overlaps(a, m)
  /\ UNCHANGED <<integration, health, tasks, changes>>

Exists(config) == <<config.chain, config.token>> \in Positions

\* validateUniswapPosition(), validatePancakePosition(), validatePancakePool(): the RPC answers.
Validated(a) ==
  LET r == request[a] IN
  /\ \/ r.phase = "create" /\ Exists(r.row.config) /\ StoreNew(a, r.monitor, r.row) /\ UNCHANGED overlap
     \/ r.phase = "update" /\ Exists(r.checked) /\ StorePatch(a, r.monitor, r.patch) /\ Overlaps(a, r.monitor)
  /\ UNCHANGED <<integration, health, tasks, changes>>

\* There is no such position, or the RPC does not answer: nothing is stored or published.
Refused(a) ==
  /\ request[a].phase \in {"create", "update"}
  /\ request' = [request EXCEPT ![a] = Idle]
  /\ UNCHANGED <<integration, health, monitor, tasks, overlap, changes>>

\* The route goes on.
Publish(a) ==
  /\ request[a].phase = "stored"
  /\ request' = [request EXCEPT ![a] = Idle]
  /\ UNCHANGED <<integration, health, monitor, overlap, changes>>
  /\ MonitorChanged

\* DELETE of a monitor
DeleteMonitor(m) ==
  /\ Stored(monitor, m)
  /\ monitor' = [monitor EXCEPT ![m] = Gone]
  /\ MonitorChanged
  /\ UNCHANGED <<integration, health, request, overlap, changes>>

\* PATCH of an integration: its test results are void.
PatchIntegration(i) ==
  /\ integration[i].present /\ changes < MaxChanges /\ changes' = changes + 1
  /\ \E enabled \in BOOLEAN, chains \in (SUBSET Chains) \ {{}} :
       integration' = [integration EXCEPT ![i].enabled = enabled, ![i].chains = chains]
  /\ health' = [health EXCEPT ![i] = {}]
  /\ IntegrationChanged
  /\ UNCHANGED <<monitor, request, overlap>>

\* DELETE of an integration, refused while a monitor refers to it.
DeleteIntegration(i) ==
  /\ integration[i].present /\ changes < MaxChanges /\ changes' = changes + 1
  /\ \A m \in Monitors : Stored(monitor, m) => monitor[m].config.rpc # i
  /\ integration' = [integration EXCEPT ![i].present = FALSE, ![i].enabled = FALSE]
  /\ health' = [health EXCEPT ![i] = {}]
  /\ IntegrationChanged
  /\ UNCHANGED <<monitor, request, overlap>>

\* A test of the integration is over.
TestIntegration(i) ==
  /\ Usable(i) /\ health[i] # integration[i].chains
  /\ health' = [health EXCEPT ![i] = integration[i].chains]
  /\ UNCHANGED integration /\ IntegrationChanged
  /\ UNCHANGED <<monitor, request, overlap, changes>>

\* The server is started again: the requests are gone, the coordinators read what is stored.
Restart ==
  /\ request' = [a \in Requests |-> Idle]
  /\ UNCHANGED <<integration, health, monitor, overlap, changes>>
  /\ MonitorChanged

Next ==
  \/ \E a \in Requests, m \in Monitors : \E row \in RowsOf(m) : Create(a, m, row)
  \/ \E a \in Requests, m \in Monitors : \E patch \in PatchesOf(m) : Update(a, m, patch)
  \/ \E a \in Requests : Validated(a)
  \/ \E a \in Requests : Refused(a)
  \/ \E a \in Requests : Publish(a)
  \/ \E m \in Monitors : DeleteMonitor(m)
  \/ \E i \in Integrations : PatchIntegration(i)
  \/ \E i \in Integrations : DeleteIntegration(i)
  \/ \E i \in Integrations : TestIntegration(i)
  \/ Restart

Spec == Init /\ [][Next]_vars

---------------------------------------------------------------------------
(* Properties *)

\* A stored monitor refers to an integration that is there and of its type, and so does
\* what the coordinators watch: an integration that is deleted while a request for it
\* waits for the RPC is missed when it is stored, and one that was given up while the
\* change waits to be published is not watched any more.
ReferencesExist ==
  /\ \A m \in Monitors : Stored(monitor, m) =>
       /\ integration[monitor[m].config.rpc].present
       /\ (monitor[m].config.rpc \in MarketData) = (KindOf[m] = "market")
  /\ \A m \in Monitors : tasks[m] # NoTask => integration[tasks[m].rpc].present

PositionsAreReal ==
  \A m \in Monitors : (KindOf[m] = "position" /\ Stored(monitor, m)) => Exists(monitor[m].config)

\* A position monitor that is stored is of a position that was found, unless two changes of
\* it overlapped.
OnlyOverlapsMix == overlap \/ PositionsAreReal
=============================================================================
