-------------------------------- MODULE Operations --------------------------------
(***************************************************************************)
(* What a dashboard does with an RPC integration:                           *)
(* core/integrations/integration-operations-service.ts, with the routes     *)
(* that change the integration (api/integrations/routes.ts) and the         *)
(* persisted test results                                                  *)
(* (db/repositories/integration-network-health-repository.ts).             *)
(*                                                                         *)
(* A call is a test of the networks, a read of the reserve catalogue or a   *)
(* read of a wallet's positions.  It takes the configuration it starts      *)
(* with, awaits the RPC, and writes what it got to a cache or a table that   *)
(* does not name the configuration; a change of the integration clears      *)
(* them.  The index of the v4 tokens of a wallet is not cleared: it is       *)
(* scanned further by a job that a call starts and does not wait for.        *)
(* A configuration is known by a number; the RPC is external.               *)
(***************************************************************************)
EXTENDS Integers, FiniteSets

CONSTANTS
  Chains,
  CapabilitiesOf,     \* what is tested of a chain: "reserves", "v3", "v4", "pancake"
  Kinds,              \* the positions that can be asked for: "v3", "v4", "pancake"
  ChainOf,            \* the chain each kind is asked for
  Calls,              \* the calls at one time
  ResponseTtl, CatalogTtl,
  MaxClock, MaxChanges, MaxFaults

OperationsParameters ==
  /\ CapabilitiesOf \in [Chains -> SUBSET {"reserves", "v3", "v4", "pancake"}]
  /\ Kinds \subseteq {"v3", "v4", "pancake"} /\ ChainOf \in [Kinds -> Chains]
  /\ ResponseTtl \in Nat /\ CatalogTtl \in Nat
  /\ MaxClock \in Nat /\ MaxChanges \in Nat /\ MaxFaults \in Nat

NoConfig == 0
NoCall == "none"

VARIABLES
  clock,
  integration,      \* the RPC integration: its configuration, chains and whether it is enabled
  health,           \* integration_network_health, persisted: of a chain, and what it was tested with
  catalog,          \* aaveReserveCache
  responses, inflight,             \* walletPositionResponses, walletPositionInflight
  readers,                         \* the readers: what they were created with
  positions, positionInflight,     \* walletPositionReads, walletPositionReadInflight (of one token)
  index,            \* owned tokens and checkpoint of a wallet, persisted: what they were scanned with
  job,              \* walletIndexJobs (of one wallet)
  call,
  closing,          \* the server is being closed
  late,             \* history: the sorts of the calls under way when the integration was changed
  carried,          \* history: it was changed with an index or a job of one
  changes, faults

caches == <<catalog, responses, inflight, readers, positions, positionInflight>>
scans == <<index, job>>
history == <<late, carried>>
vars == <<clock, integration, health, caches, scans, call, closing, history, changes, faults>>

Configs == 0..MaxChanges + 1
Until == 0..MaxClock + ResponseTtl + CatalogTtl
Kept == [config : Configs, until : Until]      \* what was read, with which configuration
Response == [config : Configs, until : Until, tokens : SUBSET Configs]
Nothing == [config |-> NoConfig, until |-> 0]
NoResponse == [config |-> NoConfig, until |-> 0, tokens |-> {}]
NotTested == [config |-> NoConfig, good |-> {}]

Phases == {"idle", "test", "reserves", "discover", "look", "read", "end", "join", "joinRead"}
Call == [phase : Phases, config : Configs, kind : Kinds \cup {"none"},
         chains : SUBSET Chains, reader : Configs, tokens : SUBSET Configs,
         leader : Calls \cup {NoCall}]
Idle == [phase |-> "idle", config |-> NoConfig, kind |-> "none", chains |-> {}, reader |-> NoConfig,
         tokens |-> {}, leader |-> NoCall]
NoJob == [running |-> FALSE, aborted |-> FALSE, config |-> NoConfig]
Sorts == {"test", "reserves"} \cup Kinds

TypeOK ==
  /\ clock \in 0..MaxClock
  /\ integration \in [config : Configs, enabled : BOOLEAN, chains : SUBSET Chains, present : BOOLEAN]
  /\ health \in [Chains -> [config : Configs, good : SUBSET {"rpc", "reserves", "v3", "v4", "pancake"}]]
  /\ catalog \in [Chains -> Kept]
  /\ responses \in [Kinds -> Response] /\ inflight \in [Kinds -> Calls \cup {NoCall}]
  /\ readers \in [Kinds -> Configs]
  /\ positions \in [Kinds -> Kept] /\ positionInflight \in [Kinds -> Calls \cup {NoCall}]
  /\ index \subseteq Configs /\ job \in [running : BOOLEAN, aborted : BOOLEAN, config : Configs]
  /\ call \in [Calls -> Call] /\ closing \in BOOLEAN
  /\ late \subseteq Sorts /\ carried \in BOOLEAN
  /\ changes \in 0..MaxChanges /\ faults \in 0..MaxFaults

Init ==
  /\ clock = 0
  /\ integration = [config |-> 1, enabled |-> TRUE, chains |-> Chains, present |-> TRUE]
  /\ health = [c \in Chains |-> NotTested] /\ catalog = [c \in Chains |-> Nothing]
  /\ responses = [k \in Kinds |-> NoResponse] /\ inflight = [k \in Kinds |-> NoCall]
  /\ readers = [k \in Kinds |-> NoConfig]
  /\ positions = [k \in Kinds |-> Nothing] /\ positionInflight = [k \in Kinds |-> NoCall]
  /\ index = {} /\ job = NoJob /\ call = [a \in Calls |-> Idle]
  /\ closing = FALSE /\ late = {} /\ carried = FALSE /\ changes = 0 /\ faults = 0

Usable == integration.present /\ integration.enabled
Ready(c, capability) == {"rpc", capability} \subseteq health[c].good

\* readiness(): the networks a kind can be used on.
ReadyNetworks(capability) ==
  {c \in Chains : Usable /\ c \in integration.chains /\ Ready(c, capability)}

MayStart(a) == call[a].phase = "idle" /\ ~closing /\ Usable

---------------------------------------------------------------------------
(* The test of the networks *)

\* test(): the networks are tested at the same time, with the configuration of now.
StartTest(a) ==
  /\ MayStart(a)
  /\ call' = [call EXCEPT ![a] = [Idle EXCEPT !.phase = "test", !.config = integration.config,
                                  !.chains = integration.chains]]
  /\ UNCHANGED <<clock, integration, health, caches, scans, closing, history, changes, faults>>

\* replace(): the row refers to the integration, and is refused when that is gone.
Replace(a, c, good) ==
  health' = IF integration.present THEN [health EXCEPT ![c] = [config |-> call[a].config, good |-> good]]
            ELSE health

\* A network is done: its result is written, whatever the others do.
Tested(a, c, good) ==
  /\ Replace(a, c, good)
  /\ call' = [call EXCEPT ![a] = IF @.chains = {c} THEN Idle ELSE [@ EXCEPT !.chains = call[a].chains \ {c}]]

\* testConnectivity() and the probes of a network, which are over before its result is written.
TestNetwork(a, c) ==
  /\ call[a].phase = "test" /\ c \in call[a].chains
  /\ \/ /\ \E failed \in {{}} \cup (IF faults < MaxFaults THEN {{p} : p \in CapabilitiesOf[c]} ELSE {}) :
             /\ Tested(a, c, {"rpc"} \cup (CapabilitiesOf[c] \ failed))
             /\ faults' = IF failed = {} THEN faults ELSE faults + 1
     \/ /\ faults < MaxFaults /\ faults' = faults + 1
        /\ Tested(a, c, {})
  /\ UNCHANGED <<clock, integration, caches, scans, closing, history, changes>>

---------------------------------------------------------------------------
(* The reserve catalogue *)

Fresh(kept) == kept.config # NoConfig /\ kept.until > clock

\* aaveReserves(): a catalogue that is not too old answers, or it is read.
AskReserves(a, c) ==
  /\ MayStart(a) /\ "reserves" \in CapabilitiesOf[c]
  /\ Ready(c, "reserves") /\ ~Fresh(catalog[c])
  /\ call' = [call EXCEPT ![a] = [Idle EXCEPT !.phase = "reserves", !.config = integration.config, !.chains = {c}]]
  /\ UNCHANGED <<clock, integration, health, caches, scans, closing, history, changes, faults>>

ReservesAnswer(a, c) ==
  /\ call[a].phase = "reserves" /\ call[a].chains = {c}
  /\ catalog' = [catalog EXCEPT ![c] = [config |-> call[a].config, until |-> clock + CatalogTtl]]
  /\ call' = [call EXCEPT ![a] = Idle]
  /\ UNCHANGED <<clock, integration, health, responses, inflight, readers, positions, positionInflight,
                 scans, closing, history, changes, faults>>

\* What was cached is served as stale, if anything was.
ReservesFail(a) ==
  /\ call[a].phase = "reserves" /\ faults < MaxFaults
  /\ faults' = faults + 1
  /\ call' = [call EXCEPT ![a] = Idle]
  /\ UNCHANGED <<clock, integration, health, caches, scans, closing, history, changes>>

---------------------------------------------------------------------------
(* The positions of a wallet *)

\* getReader(): the reader of the kind, whatever it was created with, or a new one.
ReaderOf(k, config) == IF readers[k] = NoConfig THEN config ELSE readers[k]
GetReader(k, config) == readers' = [readers EXCEPT ![k] = ReaderOf(k, config)]

\* startWalletIndexJob(): of v4, one job of the wallet at a time, with the configuration
\* of now.
StartJob(k) ==
  job' = IF k = "v4" /\ ~job.running
         THEN [running |-> TRUE, aborted |-> FALSE, config |-> integration.config] ELSE job

\* walletPositions(): a response that is not too old, the load under way, or a new one.
\* The tokens of v4 are those of the index; those of v3 are asked for.
AskPositions(a, k) ==
  /\ MayStart(a) /\ ~Fresh(responses[k])
  /\ IF inflight[k] # NoCall
     THEN /\ call' = [call EXCEPT ![a] = [Idle EXCEPT !.phase = "join", !.kind = k, !.leader = inflight[k]]]
          /\ UNCHANGED <<inflight, readers, job>>
     ELSE /\ ChainOf[k] \in ReadyNetworks(k)
          /\ inflight' = [inflight EXCEPT ![k] = a]
          /\ GetReader(k, integration.config)
          /\ StartJob(k)
          /\ call' = [call EXCEPT ![a] = [Idle EXCEPT !.phase = IF k = "v4" THEN "look" ELSE "discover",
               !.kind = k, !.config = integration.config, !.reader = ReaderOf(k, integration.config),
               !.tokens = IF k = "v4" THEN index ELSE {}]]
  /\ UNCHANGED <<clock, integration, health, catalog, responses, positions, positionInflight,
                 index, closing, history, changes, faults>>

\* The reader is asked for once more, of every kind.
EveryKind(k) == TRUE

\* The reader of v3 alone is asked for once more when the tokens are known.
AsksAgain(k) == k = "v3"

\* The tokens are known.
Discovered(a) ==
  LET k == call[a].kind IN
  /\ call[a].phase = "discover"
  /\ IF AsksAgain(k) THEN GetReader(k, call[a].config) ELSE UNCHANGED readers
  /\ call' = [call EXCEPT ![a].phase = "look",
                          ![a].reader = IF AsksAgain(k) THEN ReaderOf(k, call[a].config) ELSE @]
  /\ UNCHANGED <<clock, integration, health, catalog, responses, inflight, positions, positionInflight,
                 scans, closing, history, changes, faults>>

\* Who waits for a call has its answer, or its error, when it ends.
With(a, phase) == {a} \cup {b \in Calls : call[b].phase = phase /\ call[b].leader = a}

\* The load under way is forgotten only when it succeeds.
DiscoveryFailsKept(a) ==
  /\ call[a].phase = "discover" /\ faults < MaxFaults
  /\ faults' = faults + 1
  /\ call' = [b \in Calls |-> IF b \in With(a, "join") THEN Idle ELSE call[b]]
  /\ UNCHANGED <<clock, integration, health, caches, scans, closing, history, changes>>

DiscoveryFails(a) ==
  /\ call[a].phase = "discover" /\ faults < MaxFaults
  /\ faults' = faults + 1
  /\ inflight' = [inflight EXCEPT ![call[a].kind] = NoCall]
  /\ call' = [b \in Calls |-> IF b \in With(a, "join") THEN Idle ELSE call[b]]
  /\ UNCHANGED <<clock, integration, health, catalog, responses, readers, positions, positionInflight,
                 scans, closing, history, changes>>

\* readWalletPosition(): a position that is not too old, the read under way, or a new one.
\* The wallet may have none.
LookForPosition(a) ==
  LET k == call[a].kind IN
  /\ call[a].phase = "look"
  /\ \/ call' = [call EXCEPT ![a].phase = "end"] /\ UNCHANGED positionInflight
     \/ /\ ~Fresh(positions[k])
        /\ IF positionInflight[k] # NoCall
           THEN /\ call' = [call EXCEPT ![a].phase = "joinRead", ![a].leader = positionInflight[k]]
                /\ UNCHANGED positionInflight
           ELSE /\ call' = [call EXCEPT ![a].phase = "read"]
                /\ positionInflight' = [positionInflight EXCEPT ![k] = a]
  /\ UNCHANGED <<clock, integration, health, catalog, responses, inflight, readers, positions,
                 scans, closing, history, changes, faults>>

\* The position is there, or could not be read, which does not fail the load.
PositionRead(a) ==
  LET k == call[a].kind IN
  /\ call[a].phase = "read"
  /\ \/ /\ positions' = [positions EXCEPT ![k] = [config |-> call[a].reader, until |-> clock + ResponseTtl]]
        /\ UNCHANGED faults
     \/ faults < MaxFaults /\ faults' = faults + 1 /\ UNCHANGED positions
  /\ positionInflight' = [positionInflight EXCEPT ![k] = NoCall]
  /\ call' = [b \in Calls |-> IF b \in With(a, "joinRead")
                              THEN [call[b] EXCEPT !.phase = "end", !.leader = NoCall] ELSE call[b]]
  /\ UNCHANGED <<clock, integration, health, catalog, responses, inflight, readers, scans, closing, history, changes>>

\* The response is kept for a while; whatever load is under way now is no longer shared.
EndLoad(a) ==
  /\ call[a].phase = "end"
  /\ responses' = [responses EXCEPT ![call[a].kind] =
       [config |-> call[a].reader, until |-> clock + ResponseTtl, tokens |-> call[a].tokens]]
  /\ inflight' = [inflight EXCEPT ![call[a].kind] = NoCall]
  /\ call' = [b \in Calls |-> IF b \in With(a, "join") THEN Idle ELSE call[b]]
  /\ UNCHANGED <<clock, integration, health, catalog, readers, positions, positionInflight,
                 scans, closing, history, changes, faults>>

\* The job has read a chunk, or corrects an owner: it goes on with the configuration it
\* began with, and is only refused when the integration is gone.
JobWrites ==
  /\ job.running /\ ~job.aborted
  /\ integration.present
  /\ index' = index \cup {job.config}
  /\ UNCHANGED <<clock, integration, health, caches, job, call, closing, history, changes, faults>>

\* The sync of the wallet's index is over, done or not.
JobEnds ==
  /\ job.running
  /\ job' = NoJob /\ UNCHANGED index
  /\ UNCHANGED <<clock, integration, health, caches, call, closing, history, changes, faults>>

---------------------------------------------------------------------------
(* The integration, the end and time *)

\* clearUniswapWalletCaches(): what is kept of the wallets.
ClearWallets ==
  /\ responses' = [k \in Kinds |-> NoResponse] /\ inflight' = [k \in Kinds |-> NoCall]
  /\ readers' = [k \in Kinds |-> NoConfig]
  /\ positions' = [k \in Kinds |-> Nothing] /\ positionInflight' = [k \in Kinds |-> NoCall]

\* invalidateTestResults()
Invalidate ==
  /\ health' = [c \in Chains |-> NotTested]
  /\ catalog' = [c \in Chains |-> Nothing]
  /\ ClearWallets

SortOf(c) == IF c.phase \in {"test", "reserves"} THEN c.phase ELSE c.kind

\* What outlives the change.
Remember ==
  /\ late' = late \cup {SortOf(call[a]) : a \in {b \in Calls : call[b].phase # "idle"}}
  /\ carried' = (carried \/ index # {} \/ job.running)

\* PATCH: the integration is stored and what was read of it forgotten, in one step.  The
\* index and its job are left.
Patch ==
  /\ changes < MaxChanges /\ changes' = changes + 1
  /\ integration.present /\ ~closing
  /\ \E enabled \in BOOLEAN, chains \in (SUBSET Chains) \ {{}} :
       integration' = [integration EXCEPT !.config = @ + 1, !.enabled = enabled, !.chains = chains]
  /\ Invalidate
  /\ Remember
  /\ UNCHANGED <<clock, scans, call, closing, faults>>

\* DELETE of an integration no monitor and no rule refers to; its rows go with it.
Delete ==
  /\ changes < MaxChanges /\ changes' = changes + 1
  /\ integration.present /\ ~closing
  /\ integration' = [integration EXCEPT !.config = @ + 1, !.present = FALSE]
  /\ Invalidate
  /\ Remember
  /\ index' = {}
  /\ UNCHANGED <<clock, job, call, closing, faults>>

\* close(): no request is taken any more and the job is told to abort.
Close ==
  /\ ~closing /\ closing' = TRUE
  /\ job' = [job EXCEPT !.aborted = @ \/ job.running] /\ UNCHANGED index
  /\ UNCHANGED <<clock, integration, health, caches, call, history, changes, faults>>

\* The job has ended.
Closed ==
  /\ closing /\ ~job.running
  /\ ClearWallets
  /\ UNCHANGED <<clock, integration, health, catalog, scans, call, closing, history, changes, faults>>

TimePasses ==
  /\ clock < MaxClock /\ clock' = clock + 1
  /\ UNCHANGED <<integration, health, caches, scans, call, closing, history, changes, faults>>

Next ==
  \/ \E a \in Calls : StartTest(a)
  \/ \E a \in Calls, c \in Chains : TestNetwork(a, c)
  \/ \E a \in Calls, c \in Chains : AskReserves(a, c)
  \/ \E a \in Calls, c \in Chains : ReservesAnswer(a, c)
  \/ \E a \in Calls : ReservesFail(a)
  \/ \E a \in Calls, k \in Kinds : AskPositions(a, k)
  \/ \E a \in Calls : Discovered(a)
  \/ \E a \in Calls : DiscoveryFails(a)
  \/ \E a \in Calls : LookForPosition(a)
  \/ \E a \in Calls : PositionRead(a)
  \/ \E a \in Calls : EndLoad(a)
  \/ JobWrites
  \/ JobEnds
  \/ Patch
  \/ Delete
  \/ Close
  \/ Closed
  \/ TimePasses

Spec == Init /\ [][Next]_vars

---------------------------------------------------------------------------
(* Properties *)

IsOfNow(config) == config \in {NoConfig, integration.config}

\* Whatever is kept of the integration was read with its configuration of now, unless
\* something outlived the change, and each mixture has one source: a late test the results,
\* a late read of the catalogue the catalogue, a late load the positions and responses of
\* its kind and no other's.  Of the readers only that of v3 can be of an earlier
\* configuration, because a load asks for it again after it waited.  The tokens of v4 can
\* be because the index was there, or its job under way, when the integration was changed.
OnlyLateCallsMix ==
  /\ \A c \in Chains : /\ "test" \in late \/ IsOfNow(health[c].config)
                       /\ "reserves" \in late \/ IsOfNow(catalog[c].config)
  /\ \A k \in Kinds : /\ k \in late \/ (IsOfNow(responses[k].config) /\ IsOfNow(positions[k].config))
                      /\ (k = "v3" /\ k \in late) \/ IsOfNow(readers[k])
                      /\ carried \/ \A config \in index \cup responses[k].tokens : IsOfNow(config)

\* A load or read that can be joined is under way: whichever load ends beside it, whatever
\* fails and whenever the caches are cleared, no call comes to wait for one that is over.
SharedIsUnderWay ==
  \A k \in Kinds :
    /\ inflight[k] # NoCall =>
         call[inflight[k]].kind = k /\ call[inflight[k]].phase \in {"discover", "look", "read", "joinRead", "end"}
    /\ positionInflight[k] # NoCall =>
         call[positionInflight[k]].kind = k /\ call[positionInflight[k]].phase = "read"
=============================================================================
