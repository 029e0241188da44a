# crypto-sentry in TLA+

crypto-sentry watches on-chain positions, pools and market prices, turns what it
reads into metrics, evaluates alert rules over them and delivers the alerts to
Telegram and Bark. It is one Node.js process over one SQLite database. This
directory holds TLA+ models of the parts in which a mistake would be silent: an
alert that is never raised, raised twice, never delivered, or raised on data that
says nothing; a failed read that passes for an empty wallet; a cache that outlives its
configuration. TLC checks the models on small instances; TLAPS proves their safety
properties for every value of their constants (section 4).

Paths below are relative to the repository.

## 1. Inventory

The pipeline runs from left to right:

```
 coordinators ----metrics----> MetricPipeline --> RuleExecutionService --> alerts rows
 (polled by the scheduler,     (event inbox,      (per-condition cache,    (outbox)
  or fed by the WebSocket)      latest metrics)    state machine)            |
                                                                     AlertDeliveryService
                                                                             |
                                                                     Telegram, Bark
```

Everything runs on one event loop. What interleaves is what is awaited: reads of
a chain or an exchange, requests to a provider, timers. Everything between two
awaits is atomic, except that the process may be killed between two SQLite
transactions.

| Component | State it keeps | Operations | What makes it correct |
|---|---|---|---|
| Rule state machine (`core/rules/rule-state-machine.ts`) | none (pure) | compare, recover, combine three truth values, evaluate | a trigger needs an unbroken known-true span; a reminder keeps the cooldown |
| Rule engine (`core/rules/rule-execution-service.ts`, `db/repositories/rule-execution-repository.ts`, `rule-repository.ts`) | cache of the last metric per condition (memory); rule, state, commits, alerts (SQLite) | consume, invalidate, PATCH, delete, acknowledge, resolve | unknown data decides nothing; an event decides at most once; no alert survives the episode that raised it |
| Event inbox (`core/metrics/metric-pipeline.ts`, `db/repositories/metric-event-repository.ts`) | promise chain per monitor (memory); `processed_metric_events` (SQLite) | ingest, reserve, commit, release, removeMonitor | each rule takes an event into account once, and none is given up while its source delivers it |
| Alert delivery (`db/repositories/alert-repository.ts`, `core/notifications/alert-delivery-service.ts`) | the timer and the running drain (memory); delivery targets and their index (SQLite) | wake, drain, claim, deliver, complete, close | every target ends; a duplicate has a fault as its reason; nothing is sent once the service has stopped |
| Polling scheduler (`core/scheduling/polling-scheduler.ts`) | registered task states, runs in flight | upsert, remove, close, timer, end of a run | tasks keep polling; close waits for everything |
| Aave event scanner (`core/integrations/aave-v3-event-coordinator.ts`) | block cursor (SQLite), the configuration of its task | reconcile, scan, distribute, save | no block is passed over for any monitor; a reorganisation and a failed ingest are made good by the rewind |
| Aave position coordinator (`core/integrations/aave-v3-position-coordinator.ts`, `adapters/aave/aave-v3-position-reader.ts`) | circuit breakers, latest gauges (memory); samples, `position_present` (SQLite) | reconcile, scan, retry, emit, watchdog | a failed chain never passes for an empty account |
| Uniswap and Pancake positions (`core/integrations/uniswap-v3-position-coordinator.ts`, `adapters/uniswap/*-position-reader.ts`, `core/positions/uniswap-v3-position-snapshot-service.ts`) | shared reads, closed positions, the caches of the readers, latest gauges (memory) | reconcile, scan, join a read, read tokens, emit, show | the price answered at a block is of that block; a shared read is recent, and a monitor that left fails nobody who came later; a good snapshot is complete |
| Uniswap pool coordinator (`core/integrations/uniswap-pool-coordinator.ts`, `adapters/uniswap/uniswap-pool-reader.ts`) | shared reads (memory); cursor and swap samples (SQLite) | reconcile, scan, distribute, window volumes | a monitor is given what its status says it was given; a volume counts every swap of its window |
| v4 ownership indexer (`adapters/uniswap/uniswap-v4-ownership-indexer.ts`) | owned tokens and checkpoint (SQLite), chunk size | sync, chunk, correct | the index says what the chain says at the checkpoint |
| Market feed (`adapters/markets/websocket/shared-websocket-feed.ts`, Binance stream manager and coordinator) | socket, generation, wanted streams, timers | setStreams, open, close, error, rotate | the live socket is subscribed to what is wanted |
| Market metric service (`core/metrics/market-metric-service.ts`) | price and open-interest windows, warm-ups, cycle queue | reconcile, runCycle, warm-up | a window never mixes two resources |
| Stock quotes (`core/integrations/stock-quote-service.ts`, `us-stock-coordinator.ts`) | states and loads, places, the line of waiters (memory); `stock_quotes` (SQLite) | subscribe, refresh, load, scan, close | no place is lost; memory and table agree; an old configuration's price is never shown |
| Latest metric store (`core/metrics/latest-metric-store.ts`) | last metric per key, last 100 events | put, remove | seen through the account and the snapshot that read it |
| Integration operations (`core/integrations/integration-operations-service.ts`, `api/integrations/routes.ts`) | caches of readers, reserves and positions, loads under way, index jobs (memory); test results (SQLite) | test, reserves, wallet positions, PATCH, DELETE, close | what is kept is of the configuration of now; nobody joins a load that is over |
| Monitors and integrations (`core/monitors/monitor-service.ts`, `db/repositories/monitor-repository.ts`, `integration-repository.ts`, `app.ts`) | configuration (SQLite), the tasks of the coordinators | create, PATCH, delete, validate, publish | what is stored exists; what is watched refers to what is stored |
| Everything else | | | section 7 |

Interactions. A coordinator calls `MetricPipeline.ingest`, which chains the work
of one monitor on one promise. `process` calls its single consumer,
`RuleExecutionService.consume`, synchronously (`app.ts`). A commit that raised an
alert calls `AlertDeliveryService.wake`. On a configuration change the routes
call the `reconcile` of the coordinators and `invalidateRule` or
`invalidateMonitor`. On shutdown `app.ts:388-408` closes the scheduler, the
market metrics, the integration operations, the pipeline, the rule execution,
the delivery and the database, in this order.

What is hard about it: on-chain events are delivered again on purpose, because
each scan overlaps the blocks before it; the process may die between the
transactions of one event or one delivery; timers, requests and configuration
changes interleave; rules see stale, failed and late data; and whatever is
cached in memory is lost at a restart while the rule states survive. The
`hazards` of `PROJECT.json` list these at their lines, with the properties that
cover them.

## 2. The modules

| Module | Models | Checked by | Proofs |
|---|---|---|---|
| `RuleStateMachine` | operators of `rule-state-machine.ts` | through `RuleEngine` | |
| `RuleEngine` | one rule, its cache, transactions and alerts | `rule_engine`, `unknown_time` | `RuleEngineProofs` |
| `EventEffects` | what the inbox promises (abstract) | `event_inbox` | |
| `EventInbox` | the pipeline's event path for one monitor | `event_inbox` | `EventInboxProofs` |
| `AlertDelivery` | the outbox and its worker | `alert_delivery` | `AlertDeliveryProofs` |
| `PollingScheduler` | the scheduler | `scheduling`, `polling_overlap` | `SchedulingProofs` |
| `EventScanner` | the scan of a chain for Aave events | `scheduling` | `SchedulingProofs` |
| `AaveAccount` | the scans of an Aave account | `collectors` | `CollectorsProofs` |
| `PositionReader` | a reader of v3 or v4 positions and its caches | `collectors` | `CollectorsProofs` |
| `PositionCoordinator` | the reads that a wallet's monitors share | `collectors` | `CollectorsProofs` |
| `PositionSnapshot` | what a position monitor emits, keeps and shows | `collectors` | `CollectorsProofs` |
| `PoolReads` | the scans of a pool's monitors | `collectors`, `pool_monitors` | `CollectorsProofs` |
| `OwnershipIndex` | the index of v4 owners | `collectors` | `CollectorsProofs` |
| `MarketFeed` | the WebSocket of an integration and the coordinator that replaces it | `market_feed` | `MarketFeedProofs` |
| `MarketMetrics` | the sample windows of one market monitor | `market_metrics`, `open_interest_mix` | `MarketMetricsProofs` |
| `StockQuotes` | quotes, their loads, a stock monitor | `control_plane` | `ControlPlaneProofs` |
| `Operations` | the calls of the dashboard on an integration | `control_plane` | `ControlPlaneProofs` |
| `Monitors` | stored monitors and integrations, and what is watched | `control_plane` | `ControlPlaneProofs` |

Three modules compose others: `Scheduling` (the scheduler, beside the scanner),
`Collectors` (account, reader, wallet, snapshot, pool and index) and `ControlPlane`
(operations, monitors, quotes). Each declares the constants and the variables of its
parts, INSTANCEs them and states their properties for the part that moves (section 3);
the theorems are about these, and the `MC` modules give them their constants.

The seams are function calls of the program. `RuleEngine` INSTANCEs nothing but
extends `RuleStateMachine`, as the service imports it. `EventInbox` sees the rules
only through their commit transaction and lets a rule raise an alert or not;
`RuleEngine` sees the inbox only as a source that may deliver an arrival late, twice,
or fail (`ConsumeFails`); `AlertDelivery` sees the rules as `Raise`. The collectors see
the pipeline as `ingest`, which may answer that the rules failed. `PositionCoordinator`
leaves how a token is read to `PositionReader` and what a scan makes of the result to
`PositionSnapshot`. The scheduler starts a scan at any time and never beside a run
that was not told to abort, which is what `PollingScheduler` shows of it; so each
collector has at most one run that goes on and one that was aborted (`Runs`).

A reconfiguration reaches a collector as `reconcile`. For a task that stays, the
coordinators call `scheduler.upsert`, which replaces what the next run does and touches
nothing else (`polling-scheduler.ts:40-44`): the run under way goes on with what it
captured, over as many further reads as it has, while the monitors beside it, the shared
reads and the caches have changed. Only the task of a target or monitor that is gone is
removed and its run told to abort, and only a target or monitor that then comes back has a
new run beside the aborted one. `Reconcile` of `EventScanner`, `AaveAccount`, `PositionCoordinator` and
`PoolReads` is this. The stock coordinator alone removes the task of a monitor whose
settings changed and registers it anew (`us-stock-coordinator.ts:22-25`).

One abstraction is common to the collectors. What a scan emits after its last read
takes no turn in which anything else could happen: `ingest` resolves in microtasks,
because the only consumer of the pipeline does its work synchronously on SQLite. Where
an emission is nevertheless cut into steps, per chain or event (`EmitChain` of
`AaveAccount`, `Distribute` of `EventScanner` and `PoolReads`), it is so
that a reconfiguration, another run or a crash can fall in between.

### RuleStateMachine and RuleEngine

Variables map to the program as follows: `cache` is
`RuleExecutionService.cache` for the conditions of one rule; `rule`, `state`,
`alerts` and `commits` are its rows in `rules`/`rule_conditions`, `rule_states`,
`alerts` and `rule_event_commits`; `now` is the clock; `streak` is a history
variable: the time since which every committed evaluation found the group true.
A metric carries its time of observation and of receipt, a lag apart (`Lags`), so
that late data is received as well as data that grows old in the cache. Values
are small integers: the code compares decimals, and only order, equality and the
hysteresis band matter. Monitor, label and window filters of the selection are one
set of metric names per condition.

- `Consume` is `consume` for one metric and one rule, from the cache to the
  transaction of `commitEvaluation`. `ConsumeFails` is the same with the
  transaction rolled back: the cache has changed, SQLite has not.
- `PatchRule` is `RuleRepository.update` followed by `invalidateRule`. A reset
  takes place exactly when the code resets: conditions given, a changed
  combinator, a duration given, or a changed `enabled`.
- `DeleteRule`, `InvalidateMonitor`, `Restart`, `AcknowledgeAlert`,
  `ResolveAlert` are the other handlers that touch this state.

Properties: `AlertsClosedWhenArmed`, `OldEventsNeverDecide` (invariants),
`TriggerIsEarned`, `RemindersRespectCooldown`, `UnknownNeverDecides` (action
properties), and the doc's `UnknownTimeNotCounted`, which does not hold (section 5).
`EventsAlertOnce` is proved and not run.

### EventInbox and EventEffects

`inbox` is `processed_metric_events` with the age of a reservation in ticks up to
the 60 s after which it may be reclaimed; `queue` is the promise chain; `job` is
the metric between `reserve` and `commit` or `release`. Each transaction is a
step, so a crash may fall between any two. The `attemptCount` of a row is left
out: nothing reads it. `EventEffects` states the promise: a set of rule-event
pairs that grows one at a time and an event that is done, for good, only after
all of them. `EffectsOnce` is the refinement `commits` for applied pairs and
processed rows for done ones.

### AlertDelivery

The rows: `status`, `target` (per delivery target: status, attempts, wait) and
`due`, the index `deliveryNextAttemptAt`. The worker: `timer`, `orphans`,
`waiters`, `batch`, `job`, and `phase` for the process. Stored times are relative
(ticks until they are past), which keeps the state space finite without a clock.
A claim may take a row whose index is due, and rewrites the index of rows that are
not due yet (`EarlyRows`, the migrated ones). The history variable
`accepted` counts the requests that the provider took.

### PollingScheduler

A registration is one `TaskState` object, kept by the closures of its timer and
its run after the task has been removed. The interval is left out: an armed timer
may fire at any moment, which covers every interval.

### EventScanner

The chain is external: `tip` grows, `chain` says of which fork each block is, a node
may lag behind. Each block has one log, whose reserve and addresses decide whom it
concerns (`Metrics`, from `participates` and the filters and metric names of `distribute`). `run` is a scan between its awaits: `Start` takes the cursor and the
configuration, `LatestBlock` fixes the range, `ReadLogs` answers one chunk with the
fork of the moment, `Distribute` hands one event of it to the monitors it concerns, and the
answer of `ingest`, which the code does not look at, puts it into `done` or `failed`.
`SaveCursor` writes the cursor without asking whether the run has been aborted, also
when a newer run has written a later one: that is why the cursor may go back.
`Reconcile` enables or disables one monitor, or changes the RPC. The run goes on and hands
the rest of its chunks to the monitors enabled by then, as `distribute` lists them for
each event; when no monitor is left the run is told to abort, which it looks
at before a chunk only. `since` is a history variable: the block after which a monitor
is owed the events. A monitor enabled by a reconfiguration is owed what no run has
scanned or has in hand then (`Reached`); this is not always what comes after the cursor,
because an aborted run may have set the cursor back behind the chunk that another run has
in hand for the former monitors. `CursorCovers` is the safety property; `EventsArrive` and
`FailedIsRetried` say that an event every node shows as confirmed arrives, and that the
rewind brings an event back whose rules failed.

### AaveAccount

One monitor, either with an RPC of its own (one chain) or a legacy one that uses every
enabled RPC (several chains, several endpoints each). `scan` holds for each chain the
endpoint, the attempt and the outcome so far; `circuits` are the circuit breakers of
the endpoints, shared by the runs. `ChainsAreIn` ends the `Promise.all` of the chains;
then `EmitChain` emits one chain's status, position, changes and lifecycle, and
`EmitCounts` the count with the status of the whole scan. `samples` and `present` are
persisted, everything else is lost by `Restart`. `Reconcile` lets the run of a monitor that stays go on.
`CheckStale` is the watchdog. The
figures of a position are one value, and a change is how far back it reaches.
`CountsAreHonest` is the property: a failed chain is never hidden in a good count.

### PositionReader, PositionCoordinator and PositionSnapshot

`PositionReader` is one instance of the v3 or v4 reader class with its caches: the
latest block, the wallet's tokens, the owner of the token, slot0 per block and the
positions per block, each with the ticks it has left (`Kept`) and the request under
way, if any. A value is known by the block it was read at. A call of a single position
and a call of a wallet are the phases of `call`; whoever finds a request under way
follows it. `PositionOfOneBlock`: the price in what is answered as the position at a block
is of that block. The owner in it need not be: it is kept by token alone and for longer
(`readOwner`), so a position records the block of each part, and the property asks it of the
owner only when owners are not kept. `SharedReadsGoOn`: nobody waits for a read that is over.

`PositionCoordinator` has the monitors of one wallet, chain and version. `shared` is
`sharedVariantReads`: the read with its expiry, `read` the reads that somebody still
refers to, each with the `aborted` of the signal of the monitor that started it.
`closed` is `closedPositions`. `Reconcile` clears the shared reads and the closed positions
and removes the tasks of the monitors that are gone, whose runs abort and with them the reads
that these started, whoever had joined; the runs of the others go on, and a scan that had
joined such a read reports an error although its monitor stays (section 5). `epoch` and `at` of a scan are
history. `AbortFailsOnlyJoiners` says that the damage ends there, with the scans that had
joined before the removal; `ServedRecent` that no scan is served an old read.

`PositionSnapshot` emits what a scan of one version found or that it failed, and
computes from the gauges what the dashboard is told (`SnapshotStatus`). The store keeps
one gauge per label set; the labels of a valued position hold the time of its
valuation, so those are kept as a set of times. `ForgetMonitor` is a change of
configuration. `GoodIsComplete`: an `ok` or `empty` answer leaves out nothing that the
newest scan of a version found.

### PoolReads

A block comes with every unit of time and has one swap. A read goes through
`LatestBlock`, with the target resolved before it, and `ReadLogs`, with the times of the blocks after them, either of which may fail, and is
governed by the signal of the scan that started it. `Reconcile` clears the shared reads and aborts the
runs of monitors that are gone only. `TakeRead` is a scan that gets the
result, `Distribute` hands the next event to its monitor, and `EndScan` computes the
volumes, prunes the samples, emits `sync_status` and saves the pool's one cursor.
`SyncedMeansGiven` says that a monitor was given all that its status names; it holds for
one monitor and not for two (`pool_monitors`, section 5). What holds for any number is
`NonePassedOver`: up to the cursor and to every status, what a monitor is owed was given
to one of them. `collectors` checks it of two monitors with different intervals, of which
either may be away, and section 4 proves it of any number. `since` is what a
monitor is owed from: the first read begins where the lookback does, and a monitor enabled
later is owed nothing that was read before.
`VolumesAreComplete`: while a monitor is alone at its pool and the configuration stays, a volume
that is shown counts each confirmed swap of its window. Beside another monitor it need not (section 5).

### OwnershipIndex

The chain is `holds`: after which blocks the wallet has the token. A sync reads its tip,
then chunks, whose size is halved when the node refuses one (`ChunkFails`); each chunk
is applied and checkpointed in one transaction, as in the repository. `ListOwned` and
`OwnerAnswers` are the correction by `ownerOf`, which is asked at the block the sync has
scanned through (line 119), whatever the node's own height. `IndexIsExact` holds while no two syncs overlap
(`overlapped` is a history variable); section 5 says what happens when they do.

### StockQuotes

`state` is the map `states` of the service and `stored` the table; `load` the loads with
`activeLoads` and `waitingLoads`, the semaphore. A waiter that has been told to go on
and has not run yet is `woken`: between the two the place may be taken by somebody else,
or the waiter be aborted. A scan of the monitor (`scan`) awaits a load of its symbol and shows the
price only if it was not aborted and its generation, the settings it was started with, is still the
monitor's. A monitor whose settings change has its task removed and registered anew, so the new task's
scan may be under way beside the aborted one of the old (`Scans`); which of the two gets its quote first
is open. `Subscribe` drops symbols that
nobody asks for and aborts their loads. Properties: `NoPlaceIsLost`, `KnownIsStored`,
`ShownIsConfigured`.

### Operations

A configuration is a number, and every cached value carries that of the call that read
it. The phases of `call` are the awaits of `test`, `aaveReserves`,
`uniswapWalletPositions` and `pancakeWalletPositions` with the loads they share (`inflight`, `positionInflight`).
`index` is the index of a wallet's v4 tokens, as the configurations its owned rows and checkpoint
were scanned with, and `job` the job that scans it further, which a call starts and does not await:
it keeps the configuration it began with (`JobWrites`).
`Patch` and `Delete` are the routes, which store, drop the test results and invalidate
the caches in one turn. They leave the job alone; the index goes with the integration, by the
foreign key, and stays over a PATCH. Two history variables say what outlives a change: `late` the sorts of
the calls under way then, `carried` that there was an index or a job of one.
`OnlyLateCallsMix` gives each mixture of configurations its one source: a late call mixes what
is kept of its own sort and no other's, only a late v3 load puts an old reader back, because only
it asks for the reader again after an await (line 640), and only what was carried over makes the token ids of v4
old. `SharedIsUnderWay` says that a load which can be joined is under way whoever ends beside it.

### Monitors

A request goes through validation (`phase` create or update: position monitors await the
RPC), the repository's merge into what is stored then, and `Publish`, which runs the
handler of `app.ts` in a later turn. `tasks` is what the coordinators watch (`Wanted`).
Validation is the code's own: `MustValidate` compares what the request would make of the
stored row at its start. `overlap` is a history variable: two PATCHes of one monitor
were under way together. `ReferencesExist` ties monitors and tasks to integrations that
are there; `OnlyOverlapsMix` says that a stored position was found on chain unless two
PATCHes overlapped.

### MarketFeed

`feeds` are the `SharedWebSocketFeed` objects in the order they were built, each a
record of its fields; `manager` is the one in use and `plan` what `reconcile` saw
last for the integration: the endpoint and the wanted streams of one market type.
`socket` is `readyState` with `none` for no socket. The handlers are operators from
a feed to the feeds it may become (`SetStreams`, `HandleOpen`, `HandleClose`), and
each event of the `ws` library applies one of them. The library is external: `close()`
and `terminate()` leave a socket closing, also one that still connects, and its close
event comes later, once. `subscribed` is what the server has been told over the
present socket; the code keeps the same set and never reads it. A `generation` that
no longer matches is `disposed`: `connect` only runs without a socket, so `close()`
is the only call that leaves an old socket with events to come. Messages change no
state here and are left out.

### MarketMetrics

`store` holds the rows of `market_metric_samples` of one monitor, `state` its
`MonitorState`, numbered by `serial` so that an answer can be told to come for an
earlier one. `Commit` is the row of the monitor, written by the route; `Reconcile` is what the event
published afterwards does with it, clearing the samples of a market that was left. `pending` says
that the second is still to come: the request resumes in a later turn (`routes.ts:52-53`), and anything may
come between, the end of the process too, after which nobody knows that samples are to be cleared
(`left`, a history variable). A sample is its market and its age. Two reads are awaited while
anything else may happen: the warm-up of a state (`warmups`) and the open-interest
poll (`poll`). The rest of a cycle awaits only work that ends in the same turn of the
event loop, and is one step. When the monitor is deleted during a poll, the late write
fails on the foreign key; that case is left out.

## 3. Runs

| Run | Instance | Bounds and why they are enough | Shows |
|---|---|---|---|
| `rule_engine` | two conditions (price with hysteresis and data age, or price and event), durations 0 and 1, cooldown 1 | times 0..2, maxStale 1, so data expires and durations end within the horizon; two alerts, so that a second one can wrongly appear; one PATCH, to every rule of the instance | a rule triggers, reminds and recovers only on its grounds |
| `unknown_time` | the same, prompt metrics only | as above | a divergence from the documentation |
| `event_inbox` | two events, two rules | queue of two, so an event waits behind itself and behind another; one failure and one crash, at every point | the refinement of `EventEffects`, progress |
| `alert_delivery` | two alerts with three targets, one integration shared, one migrated index | two attempts (the code has 5), so that a retry is followed by the last attempt; batch of two, so that the batch bound is met; one disruption of any kind, at every point | the outbox loses and repeats nothing without a reason |
| `scheduling` | the scheduler with two ids and four registrations; beside it the scanner with a pool and an account monitor | an id can be registered three times while older runs are in flight; blocks 0..4 in chunks of two, confirmation and rewind of one, lag of one: the cursor passes the rewind, so that both branches of the first block and its limit count, a range has two chunks, a reconfiguration falls before, between and in them, and an aborted run can be in another chunk than the one after it; two disturbances of any kind (a fault, a reconfiguration, a restart, a reorganisation), at every point | close, polling that goes on, no block passed over, events that arrive |
| `polling_overlap` | the scheduler with two registrations | | a divergence from the documentation |
| `market_feed` | two endpoints, two streams, three managers | a manager is replaced while its predecessor still closes, and once more; streams change in every state of the socket; the backoff grows twice and stays | one live socket, told what is wanted, that comes back |
| `market_metrics` | two markets, one window of a tick, retention of two ticks | two states per process, so that an answer for the first finds the second; one stop or crash at every point, also between the commit of a change and its reconcile; samples age past the window and past the retention | price windows of one market that survive restarts and fill |
| `open_interest_mix` | the same | | a defect (section 5) |
| `collectors` | an account on two chains, one with two endpoints; two calls of a reader; two monitors of a wallet with one token; both versions of a snapshot; a pool with two monitors, intervals 1 and 2, one of them with windows of one and two ticks; two syncs of an index | account: two attempts, a circuit that opens at the second failure and closes again; reader: two heads, so that reads of two blocks overlap; wallet: intervals 2 and 3, so that the shortest is not everybody's; pool: a rewind of one and either monitor in turn first, no lag, one fault, restart or reconfiguration; index: four blocks, chunks of two that are halved once, syncs that are cut short by the limit of chunks; one fault and two reconfigurations, at every point, so that a monitor leaves and comes back | a partial failure never passes for a complete answer |
| `pool_monitors` | the pool with two monitors, intervals 1 and 3 | no faults, no reconfiguration: the difference of the intervals is enough | a divergence from the documentation |
| `control_plane` | two calls on an integration, for v3, v4 and PancakeSwap; a position monitor and a market monitor under two requests; quotes of two symbols with one place | one change of the integration and one fault during the calls, both orders; one setting of the stock monitor besides its symbol, which changes; positions over two chains and two tokens of which one combination does not exist; two changes of integrations or subscriptions; of the catalogue and the kinds of position one sort per behaviour beside the tests (`OneSortAtATime`, a CONSTRAINT), since their caches have no key in common: a state is dropped and asked for again while its load is on its way | what is cached, stored and shown is of the configuration of now |

`scheduling`, `collectors` and `control_plane` each put modules side by side that share no
state: the variable `part` picks one in the initial state, it alone moves, and the state
space is the union of the parts', not their product. What two of them could do to each
other goes through the seams of section 2, which each module models on its own side. The
properties of the run say `part = ... =>` the property of the module. The variables of a
part that rests are 0, those of the scheduler and the scanner stay as they begin.

`collectors` has 2.8 million states, `control_plane` 2.3, `market_metrics` 0.7, `rule_engine`
and `scheduling` 0.2 each; these take one to three minutes with two workers, the others
a few seconds up to half a minute. No run uses symmetry: several check liveness, and in
the others the actors differ by their constants. `CHECK_DEADLOCK FALSE` stands where the
system may really stop or where a bound ends it: a closed scheduler, feed, or quote
service with nothing in flight, and the collectors at the end of their clock.

Each property is also checked to be able to fail: `mutants` of `PROJECT.json`
names for each a change of one definition (a dropped guard, a missing reset, a
wrong set awaited) under which TLC finds it violated. The type invariants and some
properties that are proved (section 4) are not run any more: the proof covers them for
every instance.

### Fairness

Weak fairness is given to what the event loop and the clock do by themselves:
armed timers fire, queued work continues, time passes, a read or a request ends
because its client has a timeout (10 s for Telegram, and the timeouts of the RPC,
Binance and quote clients), and in `AlertDelivery` the stopped service is started
again (`deploy/` installs it as a systemd service that restarts). Nothing is
assumed of users, failures, crashes and sources: the one property that needs a
source to deliver (`RedeliveryIsProcessed`) says so as a premise. The scanner's runs have
weak fairness, because the scheduler starts the task again and again and each request
ends by its timeout; its two liveness properties hold since the failures are bounded,
the blocks in question stay within every node's view and `[]<>` asks for no more than
that an event is not for ever awaited. The collectors' and the control plane's runs
check safety only. The exchange is the exception: `FeedListens` and `WindowsFill` need that it does not refuse for ever,
so an accepted connection and a complete answer have strong fairness. Each may
still fail any number of times in between.

## 4. Proofs

TLAPS proves, for every value of the constants that satisfies the named
assumptions:

- `RuleEngineProofs`: the five properties of the run `rule_engine`, with type correctness
  and `EventsAlertOnce` (one alert per event). The inductive
  invariant `Inv` adds to the properties that the state's `conditionSince` is the
  streak while armed (`StreakIsConditionSince`), that `lastAlertAt` of a triggered
  rule is the creation time of the last alert (`LastAlertIsStamped`) and that an
  alert's cause has been committed (`ClaimedCauses`): without the first a trigger
  could not be traced back to evaluations, without the second a reminder not to
  the alert before it, without the third a repeated event could raise again.
- `EventInboxProofs`: the refinement of `EventEffects`, and that an event alerts once, is
  processed only when every rule has committed it, and is worked on only while reserved,
  with `JobProgress` (what the job in hand has committed so far) and
  `RaisedAreCommitted` as the strengthening.
- `SchedulingProofs`, the scheduler: that close waits for all, and also that the runs of a
  registration follow each other, stale runs are aborted and a removed task does not poll,
  with an invariant that ties
  `states` and `registrations` together (`RegisteredIsCurrent`,
  `TimersAreRegistered`, `ScheduledFirst`) and says that a closed scheduler awaits
  every run (`AwaitsEveryRun`).
- `SchedulingProofs`, the scanner: `CursorCovers`. Several runs save the one cursor, and it
  may go back. So the invariant says for each run that nothing is missing before the chunk
  it has in hand, and that what it still has to hand on is what the chain says now (`RunsCover`), and that
  the chunk is confirmed, so that no reorganisation reaches it (`RunsInOrder`).
- `MarketFeedProofs`: the subscriptions and the one socket of the run, and that no feed is
  stranded and failures back off. `FeedInv` says what holds of
  a single feed between two events, and each handler keeps it; `Belongs` ties the
  feeds to the coordinator: the current manager's feed wants the streams of the
  plan, every other built feed is disposed. Without `Belongs` an open socket could not
  be related to the configuration.
- `AlertDeliveryProofs`: the four safety properties of the run. Each rests on one fact
  about who may touch a row: the job in hand is the claim that its row records
  (`JobIsCurrent`), a drain under way has a timer's callback that awaits it
  (`DrainIsAwaited`), without a fault a claimed target is the one in hand
  (`SendingIsInHand`), and only a sent target may have been accepted once more than there
  were faults (`AcceptedOnce`). That the provider's duplicates are bounded by the faults
  follows for any number of attempts, targets and alerts.
- `MarketMetricsProofs`: the three safety properties of the run, from `StateOfConfig` (a
  running service without a change to reconcile has a state for the market it is configured for, and no other), `RoomForObject`
  (a committed change can be given its state), `LeftRows` (samples are left of former markets only by a process that ended) and
  `DownIsIdle` (the cycle has ended before the process is down).
- `CollectorsProofs`, one section per part, each with an invariant of its own:
  - index: a sync is never past the tip it read (`ChunksWithinTip`); while no two
    overlap, one is under way (`LoneSync`) and it is the one that moved the checkpoint
    (`ScannedIsCheckpoint`). A chunk without a transfer leaves the owner as it was
    (`NoTransfersNoChange`).
  - snapshot: nothing in the store is newer than the scan status of its version
    (`NothingIsNewer`), and a version whose newest scan did not fail has all that this scan
    found (`ScanIsComplete`).
  - reader: the two properties are inductive together with the types once a slot that is
    kept is known to be of the block it is kept for (`SlotsOfTheirBlock`): a position takes
    its slot from the cache as well as from the chain. `OwnersFit` carries the owner from its
    call to the position where owners are not kept (`OwnerTtl = 0`). The run keeps them, as the
    code does, so the clause of `PositionOfOneBlock` about owners is shown by the proof only.
  - account: no two runs have one timestamp (`TimesAreApart`), so what a gauge shows can
    be traced to its run, and a run that goes on has emitted what it has read
    (`EmitsWhatItRead`).
  - wallet: the read that the next scans join was not aborted and began within the shortest
    interval (`SharedCanBeJoined`). Without it, what is true of the scans that wait would not
    be of the one that joins. A read was started by one scan (`OneStarter`), and is not aborted
    while that scan goes on (`StarterGoverns`); so only a removal aborts a read, and those who
    wait for it then have joined before (`CurrentIsServed`).
  - pool: `NonePassedOverAlways` is for any number of monitors: a read begins after
    what some monitor was given (`ReadsFollow`), a scan hands on what comes next
    (`ScansFollow`), and up to the cursor and every status all was given to one
    (`SavedIsGiven`). Two reads may overlap and the cursor may go back, as a late scan saves
    its own; each part is kept because what was given stays given (`GivenGrows`).
    `VolumesAreCompleteAlways` speaks of a monitor that is alone while the configuration
    stays (`Alone`), as the property does; beside another monitor it is false (section 5, item 4).
    There is one read then (`OneRead`), of scans of that monitor (`OwnScans`), and
    what a read or a scan goes on from is sampled, as far as a volume at
    that time may count it (`Sampled`, `SamplesFollow`): later volumes count no older swaps
    (`CutoffGrows`), so what cleanup removes is not missed.
- `ControlPlaneProofs`, one section per part:
  - quotes: the places taken and those somebody was told of are as many as there are while
    a line stands (`LineHolds`), which counts the loads that have been let out of the line
    and have not run yet; a load under way belongs to a state read from what is stored
    (`PendingIsKnown`).
  - calls: what is kept and under way has one provenance per sort (`Provenance`): the
    configuration of now, unless a call of that sort was late. While nothing was carried over a
    change, the index, the job and the token ids in answers are of the configuration of now
    (`Scanned`). `KeptInv` joins the two; `CallsInv` has the types and that a load which can be
    joined is under way.
  - monitors: rows and tasks refer to what is there (`RowsRefer`, `TasksRefer`), requests
    under way are about monitors that are there (`RequestsInOrder`), and what a request
    validated is what it is going to store unless changes overlapped (`CheckedIsStored`).

The assumptions (each `ASSUME` is evaluated by the runs) are typing of the constants,
positivity of bounds, that `None` is none of the values it is compared with, that reads
under way are finitely many (a bound, `ReadIds`), and that a monitor has finitely many
windows, whose longest the code takes (`uniswap-pool-coordinator.ts:353`). The bounds on
clocks, faults and changes are constants too, so the theorems hold for each of them. In
`Collectors` and `ControlPlane` the invariants are stated under `part = ...`, as the
properties are, and the steps of another part leave them alone. Each proof has one step
per action.

Liveness (`RedeliveryIsProcessed`, `PollsForever`, `EveryTargetFinishes`, `FeedListens`,
`WindowsFill`, `EventsArrive`, `FailedIsRetried`) is model-checked only, because the prover
does not treat fairness. `PollingContinues` is not one of them: it says in each state that
something is armed, and is proved.

Two things were learned from proofs that did not go through at first. The history variable
`since` of `EventScanner` was set to the cursor by `Reconcile`, and `CursorCovers` was then
not inductive: a run that was told to abort can save a cursor behind the chunk of another run,
and a monitor enabled at that moment would be owed blocks that nobody goes on from; the instance
was too small to show it. So a monitor is owed what no run has behind it. And
`MarketMetrics` did not say that `None` is no state, and had
no object to begin with if `MaxObjects` were 0; both are assumptions now.

## 5. Where code and documentation differ

1. `docs/dashboard-api.md:540-542` promises that a time in which a group is unknown,
   expired data included, does not count towards `durationSeconds`. The engine
   evaluates on arrivals only, so a gap in which nothing arrived is counted (run
   `unknown_time`).
2. `README.md:137` and `tests/polling-scheduler.test.ts:53` promise that one task
   does not overlap itself. Removing and registering the same id, as
   `us-stock-coordinator.ts` does when its configuration changes, starts a run
   while the aborted one is still ending (run `polling_overlap`). Its
   generation check keeps the older run from writing.
3. `market-metric-service.ts:332` stores the sample of an open-interest poll under the
   monitor without asking whether the polled state is still the monitor's, as the
   warm-up does (line 235). A monitor given another market, or disabled, during a
   poll has its samples cleared and then keeps one of its former market in SQLite.
   After a restart, or when it is enabled again, its window, which `README.md:139` says
   can be continued from the stored samples, starts from another symbol's value (run
   `open_interest_mix`).
4. `README.md:278` says that the monitors of one pool share a read at the shortest
   interval, which is then written to the stream of each. Every scan saves the one cursor
   of the pool (`uniswap-pool-coordinator.ts:282`), while the events of a read go only to
   the monitor whose scan took it. A monitor with a longer interval is given the rewind of
   12 blocks of what was read meanwhile, and its `sync_status` says it is scanned through
   the tip (run `pool_monitors`, without any fault). A slow first read of one monitor finds
   the cursor that the first scan of another has saved, so on the same instance its volumes
   miss swaps as well. No event is missed by all: what one monitor misses another was given
   (`NonePassedOver`, proved for any number of monitors).

Further observations from reading and modelling, by component.

- Rules and alerts: the cooldown is not applied across a recovery; an event that arrives
  during the cooldown is consumed without an alert; any PATCH empties the cache of the
  rule; `neq` with a hysteresis recovers on values that still differ; deleting a rule
  leaves its alerts open; a `wake()` during a running drain leaves a second polling chain
  for good, harmless but permanent (`orphans`).
- Markets: a market window of exactly 30 minutes, which the catalogue allows, hardly ever
  has a reference, because samples older than the 30 minutes of retention are pruned, and
  its warm-up is retried for ever; a process that ends between the commit of a change of market
  and the clearing of its samples (`market-metric-service.ts:164`) leaves the rows of the old market, and
  a restart loads them into the window of the new one (`PricesOfOneMarket` excepts them by `left`,
  and nothing else); the feed has no idle timeout, so a connection that
  falls silent without closing is only renewed by the rotation.
- Aave accounts: the watchdog reports staleness only after a first good metric
  (`aave-v3-position-coordinator.ts:363`; compare `README.md:177`); the change samples of a
  legacy monitor are keyed by monitor and metric name, so its chains are mixed and overwrite
  each other at one timestamp (line 458); `account_position_opened` and `_closed`, which
  `docs/dashboard-api.md:277` lists, cannot occur: the reader answers nothing for an account
  without collateral and debt (`aave-v3-position-reader.ts:265`), the scan then skips the
  lifecycle, and so `position_present` is never stored as false.
- Uniswap and Pancake positions: removing a monitor aborts the read that it started
  (`uniswap-v3-position-coordinator.ts:407`), and a monitor that stays and had joined that read
  stores `scan_status` error (lines 378-391) although nothing failed; the shared reads of pools do
  the same with `sync_status` (`uniswap-pool-coordinator.ts:179`, 299-306), until the next scan;
  the time to live of a closed position slides with each use
  (`uniswap-v3-position-coordinator.ts:461-465`); an aborted read that ends after a
  reconfiguration may put a closed position back that it had cleared, and a new run may join
  a read inside the reader that is led by an aborted signal; the readers cache an owner by
  token alone for five minutes (v3 reader lines 408-425, v4 328-345), so a position may be answered
  with the price of one block and the owner of an earlier one, and a transferred position is shown to
  its former wallet meanwhile; in v3 the zero address of a pool that does not exist yet is cached for good; the
  key of a v3 reader ignores the size of its multicall batches; a snapshot can be `ok`
  before another version has been scanned once; positions that left are still shown
  (`docs/dashboard-api.md:578`); the labels of a valued position hold the time of its
  valuation (line 626), so the store grows with every scan.
- Pools: a volume is shown as `ok` while its window reaches back to before the monitor was
  there, where `docs/dashboard-api.md:579` has a window that is not warmed up yet `null`.
- v4 index: two overlapping syncs of a wallet, one of a scan and one of a request, can
  lose a token for good, because the correction of the one is written over the transfers of
  the other; `IndexIsExact` excludes this case by `overlapped`.
- Stock quotes: the equities that several symbols share are read under the signal of the
  first who asks, whose removal fails them for the others.
- Integration operations: a request under way when the integration changes writes its result
  into the response cache, the reserve cache or the test results afterwards
  (`docs/dashboard-api.md:135`); its `finally` (`integration-operations-service.ts:590`)
  deletes the entry of a newer load, which the comment at lines 569-571 means to prevent;
  it also puts a v3 reader of the old configuration back (lines 639-641). The v4 index is kept over
  a PATCH (lines 450-456), the job that scans it further (lines 857-876) is neither awaited nor aborted
  and goes on with the old configuration, and token ids are answered from what both leave (lines 630-634).
  `OnlyLateCallsMix` says that these are the only sources of mixtures, and which mixes what.
- Monitors: two concurrent PATCHes of a position monitor can store a combination that
  neither validated (`docs/dashboard-api.md:385`); a monitor whose integration is disabled
  cannot be PATCHed at all, not even disabled (`monitor-repository.ts:370-387`).

## 6. Plan

1. Proofs. The safety properties of all passing runs are theorems, and so is the refinement
   of `EventEffects`. What remains is what comes with the parts
   below.
2. What is left out of modelled components: the sources of a quote with their own retries
   and the revisions of a subscription; the list of events of the latest store; the
   catalogue of markets; notification and Binance tests.
3. `UniswapPoolIndexCoordinator`, once the application starts it: `app.ts` does not.

## 7. Not modelled

Formatting of messages, the HTTP layer with its validation and authentication,
encryption of secrets, RPC routing and its audit log, the catalogues of pools and
metric names, presets, and the migrations apart from the delivery index: they are pure
functions, tables or read models. The arithmetic of amounts, fees, prices and values is
left out everywhere: what the models tell apart is when, where and under which
configuration a value was read. Providers, chains and exchanges are environments that
answer, refuse or stay silent. Malformed delivery rows cannot arise from the code and are
left out, as is the limit of 100 rows that a claim inspects.
