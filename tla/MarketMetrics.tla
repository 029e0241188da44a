------------------------------ MODULE MarketMetrics ------------------------------
(***************************************************************************)
(* core/metrics/market-metric-service.ts for one market monitor: its       *)
(* windows of price and open-interest samples in memory and in SQLite      *)
(* (price-sample-repository.ts), the warm-up from the exchange's klines,   *)
(* the cycle that samples and polls, reconfiguration, stop and restart.    *)
(*                                                                         *)
(* A sample is the market it was taken of and its age in ticks; ages stop  *)
(* at Retention + 1, from where on a sample is pruned.  Two reads of the   *)
(* exchange may be in flight, and come back to whatever the monitor has    *)
(* become: the warm-up of a MonitorState object, and the open-interest     *)
(* poll of the running cycle.  The rest of a cycle is atomic.  A change of *)
(* the monitor is committed first (monitor-repository.ts) and reconciled   *)
(* later, when its request goes on: anything may happen in between, the    *)
(* end of the process too.                                                 *)
(***************************************************************************)
EXTENDS Naturals, Sequences, FiniteSets

CONSTANTS
  Markets,      \* the identities a configuration may give the monitor
  Windows,      \* priceWindowSeconds, in ticks
  Retention,    \* MARKET_SAMPLE_RETENTION_MILLISECONDS, in ticks
  MaxStale,     \* maxStaleSeconds, in ticks
  Delays,       \* per number of failures: ticks until the next warm-up
  MaxObjects,   \* bound on the MonitorState objects of one process
  MaxStops,     \* bound on stops and crashes
  None

ASSUME MarketBounds ==
  /\ {Retention, MaxStale, MaxObjects, MaxStops} \subseteq Nat /\ MaxObjects > 0
  /\ Windows \subseteq 1..Retention
  /\ Delays \in Seq(Nat \ {0}) /\ Delays # <<>>
ASSUME NoneIsNoMarket == None \notin Markets

Ages == 0..(Retention + 1)
PriceSample == [market : Markets, age : Ages]

VARIABLES
  config,     \* the market the enabled monitor is configured for, or None
  pending,    \* a change is committed whose event was not yet published
  phase,      \* "up", "closing" (close awaits the cycle) or "down"
  store,      \* market_metric_samples of the monitor: price, open_interest
  serial,     \* number of the last MonitorState object
  state,      \* that object, None when the monitor has no state
  warmups,    \* the warm-up reads in flight, by object
  poll,       \* the open-interest read of the running cycle, or None
  stops,
  left        \* history: markets whose rows a process that ended left uncleared

vars == <<config, pending, phase, store, serial, state, warmups, poll, stops, left>>
change == <<config, pending, left>>

Read == [object : 1..MaxObjects, market : Markets]
MonitorState ==
  [market : Markets, samples : SUBSET PriceSample, openInterest : SUBSET PriceSample,
   latest : (0..(MaxStale + 1)) \cup {None}, failures : 0..Len(Delays), retryIn : Nat]

ASSUME NoneIsNoState == None \notin MonitorState /\ None \notin Read

NoSamples == [price |-> {}, openInterest |-> {}]

Retained(samples) == {s \in samples : s.age <= Retention}

\* The newest sample not later than the start of the window exists.
HasReference(samples, window) == \E s \in samples : s.age >= window

HasAllReferences(s) == \A w \in Windows : HasReference(s.samples, w)

Current == [object |-> serial, market |-> state.market]

---------------------------------------------------------------------------
(* Warm-up *)

\* Only the first warm-up of an object.
WarmupDueOnce(object, s) ==
  s.failures = 0 /\ \A r \in warmups : r.object # object

\* None in flight for the object, the delay over, a reference missing.
WarmupDue(object, s) ==
  /\ \A r \in warmups : r.object # object
  /\ s.retryIn = 0
  /\ ~HasAllReferences(s)

EnsureWarmup(object, s) ==
  warmups' = IF WarmupDue(object, s)
             THEN warmups \cup {[object |-> object, market |-> s.market]}
             ELSE warmups

\* The next warm-up waits longer after each failure, up to the last delay.
Deferred(s) ==
  LET failures == IF s.failures < Len(Delays) THEN s.failures + 1 ELSE s.failures
  IN [s EXCEPT !.failures = failures, !.retryIn = Delays[failures]]

\* Whatever the monitor has become since.
AlwaysWanted(r) == state # None

\* The answer is still wanted: the monitor has the object that asked.
Wanted(r) == phase = "up" /\ state # None /\ r = Current

\* Klines: one per minute at most, perhaps with gaps.
WarmupLoads(r, ages) ==
  /\ r \in warmups
  /\ warmups' = warmups \ {r}
  /\ IF Wanted(r)
     THEN LET loaded == {[market |-> r.market, age |-> a] : a \in ages}
              merged == [state EXCEPT !.samples = Retained(@ \cup loaded)]
          IN /\ state' = IF HasAllReferences(merged)
                         THEN [merged EXCEPT !.failures = 0, !.retryIn = 0]
                         ELSE Deferred(merged)
             /\ store' = [store EXCEPT !.price = Retained(@ \cup loaded)]
     ELSE UNCHANGED <<state, store>>
  /\ UNCHANGED <<change, phase, serial, poll, stops>>

WarmupFails(r) ==
  /\ r \in warmups
  /\ warmups' = warmups \ {r}
  /\ state' = IF Wanted(r) THEN Deferred(state) ELSE state
  /\ UNCHANGED <<change, phase, store, serial, poll, stops>>

---------------------------------------------------------------------------
(* Prices and cycles *)

\* Quotes may be late; an older one does not replace a newer one.
PriceArrives(age) ==
  /\ state # None
  /\ state.latest # None => age < state.latest
  /\ state' = [state EXCEPT !.latest = age]
  /\ UNCHANGED <<change, phase, store, serial, warmups, poll, stops>>

Fresh(s) == s.latest # None /\ s.latest <= MaxStale

\* What processMonitor adds: the latest price, if it is not too old.
Sampled(s) == IF Fresh(s) THEN {[market |-> s.market, age |-> 0]} ELSE {}

\* One cycle up to its open-interest read, for which the monitor may be due.
Cycle ==
  /\ phase = "up" /\ state # None /\ poll = None
  /\ state' = [state EXCEPT !.samples = Retained(@ \cup Sampled(state))]
  /\ store' = [store EXCEPT !.price = Retained(@ \cup Sampled(state))]
  /\ EnsureWarmup(serial, state')
  /\ poll' \in {None, Current}
  /\ UNCHANGED <<change, phase, serial, stops>>

\* acceptOpenInterest, for the object that was due when the cycle polled.
PollAnswers(age) ==
  /\ poll # None
  /\ LET sample == {[market |-> poll.market, age |-> age]}
     IN /\ state' = IF state # None /\ poll = Current
                    THEN [state EXCEPT !.openInterest = Retained(@ \cup sample)]
                    ELSE state
        /\ store' = [store EXCEPT !.openInterest = Retained(@ \cup sample)]
  /\ poll' = None
  /\ UNCHANGED <<change, phase, serial, warmups, stops>>

\* An error metric is published, the samples stay.
PollFails ==
  /\ poll # None
  /\ poll' = None
  /\ UNCHANGED <<change, phase, store, serial, state, warmups, stops>>

---------------------------------------------------------------------------
(* reconcile *)

\* A new object that ignores what SQLite holds.
EmptyState(market, stored) ==
  [market |-> market, samples |-> {}, openInterest |-> {},
   latest |-> None, failures |-> 0, retryIn |-> 0]

\* A new object takes what SQLite holds.
NewState(market, stored) ==
  [market |-> market, samples |-> Retained(stored.price),
   openInterest |-> Retained(stored.openInterest),
   latest |-> None, failures |-> 0, retryIn |-> 0]

\* The samples of a market that the monitor leaves.
Cleared == NoSamples

\* The row of the monitor: enabled for a market, disabled, or given another market.
Commit(market) ==
  /\ phase = "up" /\ market # config
  /\ market # None => serial < MaxObjects
  /\ config' = market /\ pending' = TRUE
  /\ UNCHANGED <<phase, store, serial, state, warmups, poll, stops, left>>

\* The monitor's state is not of the market it is configured for.
Outdated == state # None /\ state.market # config

\* Any event of the configuration.  A state that the configuration has left goes,
\* and only then are its samples cleared; a market without a state gets one.
Reconcile ==
  /\ phase = "up"
  /\ pending' = FALSE
  /\ store' = IF Outdated THEN Cleared ELSE store
  /\ left' = IF Outdated THEN {} ELSE left
  /\ \/ /\ config = None
        /\ state' = None
        /\ UNCHANGED <<serial, warmups>>
     \/ /\ config # None /\ state # None /\ ~Outdated
        /\ EnsureWarmup(serial, state)
        /\ UNCHANGED <<serial, state>>
     \/ /\ config # None /\ (state = None \/ Outdated)
        /\ serial' = serial + 1
        /\ state' = NewState(config, store')
        /\ EnsureWarmup(serial', state')
  /\ UNCHANGED <<config, phase, poll, stops>>

---------------------------------------------------------------------------
(* Time, stop and start *)

Older(samples) == {[s EXCEPT !.age = IF @ > Retention THEN @ ELSE @ + 1] : s \in samples}

Aged(stored) ==
  [price |-> Older(stored.price), openInterest |-> Older(stored.openInterest)]

Tick ==
  /\ store' = Aged(store)
  /\ state' =
       IF state = None THEN None
       ELSE [state EXCEPT
               !.samples = Older(@), !.openInterest = Older(@),
               !.latest = IF @ = None THEN @ ELSE IF @ > MaxStale THEN @ ELSE @ + 1,
               !.retryIn = IF @ = 0 THEN 0 ELSE @ - 1]
  /\ UNCHANGED <<change, phase, serial, warmups, poll, stops>>

\* The process no longer reconciles: what it had to clear stays.
Abandon ==
  /\ pending' = FALSE
  /\ left' = IF Outdated THEN left \cup {state.market} ELSE left
  /\ state' = None
  /\ UNCHANGED config

\* close: no more cycles; only the running one is awaited.
Close ==
  /\ phase = "up" /\ stops < MaxStops
  /\ phase' = "closing" /\ stops' = stops + 1
  /\ Abandon
  /\ UNCHANGED <<store, serial, warmups, poll>>

\* close does not wait.
NotAwaited == TRUE

\* The cycle that close waits for.
CycleEnded == poll = None

\* The database is closed, while warm-ups may still be in flight.
Closed ==
  /\ phase = "closing" /\ CycleEnded
  /\ phase' = "down"
  /\ UNCHANGED <<change, store, serial, state, warmups, poll, stops>>

Crash ==
  /\ phase # "down" /\ stops < MaxStops
  /\ phase' = "down" /\ stops' = stops + 1
  /\ poll' = None /\ warmups' = {}
  /\ Abandon
  /\ UNCHANGED <<store, serial>>

\* A new process, whose first reconcile builds the state.
Start ==
  /\ phase = "down"
  /\ phase' = "up" /\ serial' = 1
  /\ state' = IF config = None THEN None ELSE NewState(config, store)
  /\ warmups' = IF config = None \/ HasAllReferences(state') THEN {}
                ELSE {[object |-> 1, market |-> config]}
  /\ UNCHANGED <<change, store, poll, stops>>

Init ==
  /\ config = None /\ pending = FALSE /\ left = {}
  /\ phase = "up" /\ store = NoSamples
  /\ serial = 0 /\ state = None
  /\ warmups = {} /\ poll = None
  /\ stops = 0

FullAnswer == 0..Retention

Next ==
  \/ \E r \in warmups, ages \in SUBSET (0..Retention) : WarmupLoads(r, ages)
  \/ \E r \in warmups : WarmupFails(r)
  \/ \E age \in 0..MaxStale : PriceArrives(age)
  \/ Cycle
  \/ \E age \in 0..MaxStale : PollAnswers(age)
  \/ PollFails
  \/ \E market \in Markets \cup {None} : Commit(market)
  \/ Reconcile
  \/ Tick
  \/ Close
  \/ Closed
  \/ Crash
  \/ Start

Spec == Init /\ [][Next]_vars

\* Time passes, the interval timer starts cycles, a request that committed goes on,
\* reads end by the timeout of the client, and the service is started again.  The exchange may fail for a while,
\* but not for ever.
Fairness ==
  /\ WF_vars(Tick)
  /\ WF_vars(Cycle)
  /\ WF_vars(pending /\ Reconcile)
  /\ WF_vars(\E r \in warmups : WarmupFails(r) \/ \E ages \in SUBSET (0..Retention) : WarmupLoads(r, ages))
  /\ WF_vars(PollFails \/ \E age \in 0..MaxStale : PollAnswers(age))
  /\ SF_vars(\E r \in warmups : r.object = serial /\ WarmupLoads(r, FullAnswer))
  /\ WF_vars(Closed)
  /\ WF_vars(Start)

FairSpec == Spec /\ Fairness

---------------------------------------------------------------------------
(* Properties *)

TypeOK ==
  /\ config \in Markets \cup {None}
  /\ pending \in BOOLEAN /\ left \subseteq Markets
  /\ phase \in {"up", "closing", "down"}
  /\ store \in [price : SUBSET PriceSample, openInterest : SUBSET PriceSample]
  /\ serial \in 0..MaxObjects
  /\ state \in MonitorState \cup {None}
  /\ warmups \subseteq Read
  /\ poll \in Read \cup {None}
  /\ stops \in 0..MaxStops

OfMarkets(samples, markets) == \A s \in samples : s.market \in markets

\* The market whose samples are kept: that of the state, of which a committed change
\* is not known yet, and with no state the configured one.
KeptMarket == IF state # None THEN state.market ELSE config

\* A price window never mixes two markets, whatever answers late: what is stored and
\* in memory is of the market whose samples are kept, and that is the configured one
\* once the change is reconciled.  The exception is real: when the process ends
\* between commit and reconcile, nobody clears the rows of the market that was left,
\* and until they are the windows of its successor hold them.
PricesOfOneMarket ==
  /\ ~pending => KeptMarket = config
  /\ OfMarkets(store.price, {KeptMarket} \cup left)
  /\ state # None => OfMarkets(state.samples, {KeptMarket} \cup left)

\* A restart at any moment finds the price samples that the windows stand on, and
\* no others.
RestartLosesNothing ==
  state # None => Retained(store.price) = Retained(state.samples)

\* After close() nothing is written, the samples only grow older: the database
\* is closed, and a late answer would fail on it.
ClosedWritesNothing ==
  [][phase = "down" => store' \in {store, Aged(store)}]_vars

\* The windows of a monitor that keeps its market fill, again and again, after
\* failed and partial warm-ups and restarts.
WindowsFill ==
  \A market \in Markets :
    <>[](config = market) =>
      []<>(state # None /\ state.market = market /\ HasAllReferences(state))

\* README.md of the repository: open-interest samples are kept in SQLite, and the
\* windows go on with them after a restart.  What they go on with is of the
\* monitor's market.  It does not hold: acceptOpenInterest, unlike a warm-up, does
\* not ask whether its object is still the monitor's.
OpenInterestOfOneMarket ==
  state # None /\ left = {} => \A s \in state.openInterest : s.market = state.market
=============================================================================
