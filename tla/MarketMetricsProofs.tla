---------------------------- MODULE MarketMetricsProofs ----------------------------
(***************************************************************************)
(* Theorems about MarketMetrics, for every set of markets and windows and  *)
(* every bound: what the price windows hold, what a restart finds, and     *)
(* that nothing is written once the service has closed.                    *)
(***************************************************************************)
EXTENDS MarketMetrics, TLAPS

\* The running service has a state for the market it is configured for, if any, once
\* the last change is reconciled; a service that ended has none, and nothing pending.
StateOfConfig ==
  /\ state # None => phase = "up" /\ serial > 0
  /\ ~pending => KeptMarket = config
  /\ phase = "up" /\ state = None /\ ~pending => config = None
  /\ pending => phase = "up"

\* The bound of Commit leaves an object for Reconcile.
RoomForObject == pending /\ config # None => serial < MaxObjects

\* The rows of a running service without a state were left by an earlier process.
LeftRows == phase = "up" /\ state = None => OfMarkets(store.price, left)

\* The database closes after the cycle.
DownIsIdle == phase = "down" => poll = None

\* The inductive invariant.
Inv ==
  /\ TypeOK
  /\ StateOfConfig
  /\ RoomForObject
  /\ LeftRows
  /\ DownIsIdle
  /\ PricesOfOneMarket
  /\ RestartLosesNothing
---------------------------------------------------------------------------
(* Samples *)

\* The age of a sample after a tick.
OlderAge(n) == IF n > Retention THEN n ELSE n + 1

LEMMA OlderSample ==
  ASSUME NEW s \in PriceSample
  PROVE  LET older == [s EXCEPT !.age = IF @ > Retention THEN @ ELSE @ + 1]
         IN /\ older \in PriceSample /\ older.market = s.market
            /\ older.age = OlderAge(s.age)
  BY MarketBounds DEF PriceSample, Ages, OlderAge

LEMMA OlderTyped ==
  ASSUME NEW S, S \subseteq PriceSample
  PROVE  /\ Older(S) \subseteq PriceSample
         /\ \A M : OfMarkets(S, M) => OfMarkets(Older(S), M)
<1>1. \A x \in Older(S) : \E s \in S : x \in PriceSample /\ x.market = s.market
  BY OlderSample DEF Older
<1> QED
  BY <1>1 DEF OfMarkets

LEMMA RetainedTyped ==
  ASSUME NEW S, S \subseteq PriceSample
  PROVE  /\ Retained(S) \subseteq PriceSample
         /\ \A M : OfMarkets(S, M) => OfMarkets(Retained(S), M)
  BY DEF Retained, OfMarkets

LEMMA RetainedOnce ==
  ASSUME NEW S
  PROVE  Retained(Retained(S)) = Retained(S)
  BY DEF Retained

LEMMA RetainedOlderSubset ==
  ASSUME NEW S, NEW T, S \subseteq PriceSample, T \subseteq PriceSample,
         Retained(S) = Retained(T)
  PROVE  Retained(Older(S)) \subseteq Retained(Older(T))
<1> SUFFICES ASSUME NEW x \in Older(S), x.age <= Retention PROVE x \in Older(T)
  BY DEF Retained
<1>1. PICK s \in S : x = [s EXCEPT !.age = IF @ > Retention THEN @ ELSE @ + 1]
  BY DEF Older
<1>2. s.age \in Nat /\ x.age = OlderAge(s.age)
  BY <1>1, OlderSample, MarketBounds DEF PriceSample, Ages
<1>3. s.age <= Retention
  BY <1>2, MarketBounds DEF OlderAge
<1>4. s \in T
  BY <1>3 DEF Retained
<1> QED
  BY <1>1, <1>4 DEF Older

\* What is retained after a tick depends on what was retained before.
LEMMA RetainedOlder ==
  ASSUME NEW S, NEW T, S \subseteq PriceSample, T \subseteq PriceSample,
         Retained(S) = Retained(T)
  PROVE  Retained(Older(S)) = Retained(Older(T))
<1>1. Retained(Older(S)) \subseteq Retained(Older(T))
  BY RetainedOlderSubset
<1>2. Retained(Older(T)) \subseteq Retained(Older(S))
  BY RetainedOlderSubset
<1> QED
  BY <1>1, <1>2

---------------------------------------------------------------------------
(* The invariant *)

LEMMA InitInv == Init => Inv
<1> SUFFICES ASSUME Init PROVE Inv
  OBVIOUS
<1>1. TypeOK
  <2>1. /\ pending \in BOOLEAN /\ phase \in {"up", "closing", "down"}
        /\ left \subseteq Markets /\ warmups \subseteq Read
    BY DEF Init
  <2>2. serial \in 0..MaxObjects /\ stops \in 0..MaxStops
    BY MarketBounds DEF Init
  <2>3. store \in [price : SUBSET PriceSample, openInterest : SUBSET PriceSample]
    BY DEF Init, NoSamples
  <2> QED BY <2>1, <2>2, <2>3 DEF Init, TypeOK
<1>2. store.price = {} /\ KeptMarket = None
  BY DEF Init, NoSamples, KeptMarket
<1> QED
  BY <1>1, <1>2
  DEF Init, Inv, StateOfConfig, RoomForObject, LeftRows, DownIsIdle,
      PricesOfOneMarket, OfMarkets, RestartLosesNothing

\* The types of the parts of a state.
LEMMA StateTyped ==
  ASSUME Inv, state # None
  PROVE  /\ state \in MonitorState /\ phase = "up" /\ KeptMarket = state.market
         /\ state.market \in Markets /\ serial \in 1..MaxObjects
         /\ state.samples \subseteq PriceSample /\ state.openInterest \subseteq PriceSample
         /\ state.failures \in 0..Len(Delays) /\ state.retryIn \in Nat
         /\ state.latest \in (0..(MaxStale + 1)) \cup {None}
         /\ OfMarkets(state.samples, {state.market} \cup left)
         /\ OfMarkets(store.price, {state.market} \cup left)
         /\ Retained(store.price) = Retained(state.samples)
<1>1. state \in MonitorState
  BY DEF Inv, TypeOK
<1>2. phase = "up" /\ KeptMarket = state.market /\ serial \in 1..MaxObjects
  BY MarketBounds DEF Inv, TypeOK, StateOfConfig, KeptMarket
<1> QED
  BY <1>1, <1>2 DEF MonitorState, Inv, PricesOfOneMarket, RestartLosesNothing

LEMMA StoreTyped ==
  ASSUME Inv
  PROVE  /\ store \in [price : SUBSET PriceSample, openInterest : SUBSET PriceSample]
         /\ store.price \subseteq PriceSample /\ store.openInterest \subseteq PriceSample
         /\ OfMarkets(store.price, {KeptMarket} \cup left)
  BY DEF Inv, TypeOK, PricesOfOneMarket

\* A state built by hand is a state.
LEMMA StateBuilt ==
  ASSUME NEW s, NEW market \in Markets, NEW samples \in SUBSET PriceSample,
         NEW openInterest \in SUBSET PriceSample, NEW failures \in 0..Len(Delays),
         NEW latest \in (0..(MaxStale + 1)) \cup {None}, NEW retryIn \in Nat,
         s = [market |-> market, samples |-> samples, openInterest |-> openInterest,
              latest |-> latest, failures |-> failures, retryIn |-> retryIn]
  PROVE  s \in MonitorState /\ s # None
  BY NoneIsNoState DEF MonitorState

LEMMA WarmupsTyped ==
  ASSUME Inv, NEW object \in 1..MaxObjects, NEW s, s.market \in Markets,
         EnsureWarmup(object, s)
  PROVE  warmups' \subseteq Read
<1>1. [object |-> object, market |-> s.market] \in Read
  BY DEF Read
<1> QED
  BY <1>1 DEF EnsureWarmup, Inv, TypeOK

LEMMA DelaysArePositive ==
  Len(Delays) \in Nat \ {0} /\ \A n \in 1..Len(Delays) : Delays[n] \in Nat
  BY MarketBounds

LEMMA LoadedKeeps ==
  ASSUME NEW s \in MonitorState
  PROVE  LET loaded == [s EXCEPT !.failures = 0, !.retryIn = 0]
         IN /\ loaded \in MonitorState
            /\ loaded.market = s.market /\ loaded.samples = s.samples
<1>1. 0 \in 0..Len(Delays)
  BY DelaysArePositive
<1> QED
  BY <1>1 DEF MonitorState

LEMMA DeferredKeeps ==
  ASSUME NEW s \in MonitorState
  PROVE  /\ Deferred(s) \in MonitorState
         /\ Deferred(s).market = s.market /\ Deferred(s).samples = s.samples
<1> DEFINE failures == IF s.failures < Len(Delays) THEN s.failures + 1 ELSE s.failures
<1>1. failures \in 1..Len(Delays)
  BY DelaysArePositive DEF MonitorState
<1>2. Delays[failures] \in Nat
  BY <1>1, DelaysArePositive
<1> HIDE DEF failures
<1>3. Deferred(s) = [s EXCEPT !.failures = failures, !.retryIn = Delays[failures]]
  BY DEF Deferred, failures
<1> DEFINE delay == Delays[failures]
<1> HIDE DEF delay
<1>4. /\ failures \in 0..Len(Delays) /\ delay \in Nat
      /\ Deferred(s) = [s EXCEPT !.failures = failures, !.retryIn = delay]
  BY <1>1, <1>2, <1>3 DEF delay
<1>5. Deferred(s) \in MonitorState
  BY <1>4 DEF MonitorState
<1> QED
  BY <1>4, <1>5 DEF MonitorState

\* A step that leaves the change of the configuration, the service and the market of
\* the state alone.
LEMMA SameMarketStep ==
  ASSUME Inv, UNCHANGED <<change, phase, serial, stops>>, warmups' \subseteq Read,
         poll' \in Read \cup {None}, state # None,
         state' \in MonitorState, state'.market = state.market,
         store' \in [price : SUBSET PriceSample, openInterest : SUBSET PriceSample],
         OfMarkets(store'.price, {state.market} \cup left),
         OfMarkets(state'.samples, {state.market} \cup left),
         Retained(store'.price) = Retained(state'.samples)
  PROVE  Inv'
<1>1. state' # None /\ UNCHANGED <<config, pending, left>>
  BY NoneIsNoState DEF change
<1>2. phase = "up" /\ KeptMarket = state.market /\ KeptMarket' = state.market
  BY <1>1, StateTyped DEF KeptMarket
<1>3. TypeOK'
  BY <1>1 DEF Inv, TypeOK
<1>4. StateOfConfig' /\ RoomForObject' /\ LeftRows' /\ DownIsIdle'
  BY <1>1, <1>2 DEF Inv, StateOfConfig, RoomForObject, LeftRows, DownIsIdle
<1>5. PricesOfOneMarket' /\ RestartLosesNothing'
  BY <1>1, <1>2 DEF Inv, StateOfConfig, PricesOfOneMarket, OfMarkets, RestartLosesNothing
<1> QED
  BY <1>3, <1>4, <1>5 DEF Inv

\* A step of a service without a state that leaves the stored prices alone.
LEMMA StatelessStep ==
  ASSUME Inv, UNCHANGED <<change, phase, serial, stops>>, warmups' \subseteq Read,
         poll' \in {poll, None}, state = None, state' = None,
         store' \in [price : SUBSET PriceSample, openInterest : SUBSET PriceSample],
         store'.price = store.price
  PROVE  Inv'
<1>1. UNCHANGED <<config, pending, left>> /\ KeptMarket' = KeptMarket
  BY DEF change, KeptMarket
<1>2. TypeOK'
  BY <1>1 DEF Inv, TypeOK
<1> QED
  BY <1>1, <1>2 DEF Inv, StateOfConfig, RoomForObject, LeftRows, DownIsIdle,
                    PricesOfOneMarket, OfMarkets, RestartLosesNothing

\* A step that leaves the stored prices, the samples and the market of the state
\* alone.
LEMMA QuietStep ==
  ASSUME Inv, UNCHANGED <<change, phase, serial, stops>>, warmups' \subseteq Read,
         poll' \in {poll, None},
         store' \in [price : SUBSET PriceSample, openInterest : SUBSET PriceSample],
         store'.price = store.price,
         state = None => state' = None,
         state # None => /\ state' \in MonitorState /\ state'.market = state.market
                         /\ state'.samples = state.samples
  PROVE  Inv'
<1>1. CASE state = None
  BY <1>1, StatelessStep
<1>2. CASE state # None
  <2>1. poll' \in Read \cup {None}
    BY DEF Inv, TypeOK
  <2> QED BY <1>2, <2>1, StateTyped, SameMarketStep
<1> QED BY <1>1, <1>2

LEMMA WarmupLoadsStep ==
  ASSUME Inv, NEW r \in warmups, NEW ages \in SUBSET (0..Retention), WarmupLoads(r, ages)
  PROVE  Inv'
<1> DEFINE loaded == {[market |-> r.market, age |-> a] : a \in ages}
           merged == [state EXCEPT !.samples = Retained(@ \cup loaded)]
<1>1. /\ warmups' \subseteq Read
      /\ UNCHANGED <<change, phase, serial, poll, stops>>
  BY DEF WarmupLoads, Inv, TypeOK
<1>2. r.market \in Markets
  BY DEF Inv, TypeOK, Read
<1>3. loaded \subseteq PriceSample
  BY <1>2, MarketBounds DEF PriceSample, Ages
<1>4. CASE Wanted(r)
  <2>1. state # None /\ r.market = state.market
    BY <1>4 DEF Wanted, Current
  <2>2. /\ state \in MonitorState
        /\ state.samples \subseteq PriceSample
        /\ OfMarkets(state.samples, {state.market} \cup left)
        /\ OfMarkets(store.price, {state.market} \cup left)
        /\ Retained(store.price) = Retained(state.samples)
    BY <2>1, StateTyped
  <2>3. OfMarkets(loaded, {state.market} \cup left)
    BY <2>1, <2>2 DEF OfMarkets
  <2> HIDE DEF loaded
  <2>4. Retained(state.samples \cup loaded) \subseteq PriceSample
    BY <1>3, <2>2 DEF Retained
  <2>5. /\ merged \in MonitorState /\ merged.market = state.market
        /\ merged.samples = Retained(state.samples \cup loaded)
    BY <2>2, <2>4 DEF MonitorState
  <2>6. state' = IF HasAllReferences(merged)
                 THEN [merged EXCEPT !.failures = 0, !.retryIn = 0] ELSE Deferred(merged)
    BY <1>4 DEF WarmupLoads, loaded
  <2>7. store' = [store EXCEPT !.price = Retained(@ \cup loaded)]
    BY <1>4 DEF WarmupLoads, loaded
  <2> HIDE DEF merged
  <2>8. /\ state' \in MonitorState /\ state'.market = merged.market
        /\ state'.samples = merged.samples
    <3>1. CASE HasAllReferences(merged)
      <4>1. state' = [merged EXCEPT !.failures = 0, !.retryIn = 0]
        BY <2>6, <3>1
      <4> QED BY <2>5, <4>1, LoadedKeeps
    <3>2. CASE ~HasAllReferences(merged)
      BY <2>5, <2>6, <3>2, DeferredKeeps
    <3> QED BY <3>1, <3>2
  <2>9. /\ store' \in [price : SUBSET PriceSample, openInterest : SUBSET PriceSample]
        /\ store'.price = Retained(store.price \cup loaded)
    <3>1. Retained(store.price \cup loaded) \subseteq PriceSample
      BY <1>3, StoreTyped DEF Retained
    <3> QED BY <2>7, <3>1, StoreTyped
  <2>10. Retained(store'.price) = Retained(state'.samples)
    <3>1. Retained(store.price) = Retained(state.samples)
      BY <2>2
    <3>2. Retained(store.price \cup loaded) = Retained(state.samples \cup loaded)
      BY <3>1 DEF Retained
    <3> QED BY <2>5, <2>8, <2>9, <3>2
  <2>11. /\ OfMarkets(store'.price, {state.market} \cup left)
         /\ OfMarkets(state'.samples, {state.market} \cup left)
    BY <2>2, <2>3, <2>5, <2>8, <2>9 DEF OfMarkets, Retained
  <2>12. poll' \in Read \cup {None} /\ state'.market = state.market
    BY <1>1, <2>5, <2>8 DEF Inv, TypeOK
  <2> QED BY <1>1, <2>1, <2>8, <2>9, <2>10, <2>11, <2>12, SameMarketStep
<1>5. CASE ~Wanted(r)
  <2>1. UNCHANGED <<state, store>>
    BY <1>5 DEF WarmupLoads
  <2> QED BY <1>1, <2>1, StateTyped, StoreTyped, QuietStep
<1> QED BY <1>4, <1>5

LEMMA CycleStep ==
  ASSUME Inv, Cycle
  PROVE  Inv'
<1>1. /\ phase = "up" /\ state # None /\ poll = None
      /\ state' = [state EXCEPT !.samples = Retained(@ \cup Sampled(state))]
      /\ store' = [store EXCEPT !.price = Retained(@ \cup Sampled(state))]
      /\ EnsureWarmup(serial, state')
      /\ poll' \in {None, Current}
      /\ UNCHANGED <<change, phase, serial, stops>>
  BY DEF Cycle
<1>2. /\ state \in MonitorState
      /\ state.market \in Markets /\ serial \in 1..MaxObjects
      /\ state.samples \subseteq PriceSample
      /\ OfMarkets(state.samples, {state.market} \cup left)
      /\ OfMarkets(store.price, {state.market} \cup left)
      /\ Retained(store.price) = Retained(state.samples)
  BY <1>1, StateTyped
<1>3. Sampled(state) \subseteq PriceSample /\ OfMarkets(Sampled(state), {state.market} \cup left)
  BY <1>2, MarketBounds DEF Sampled, PriceSample, Ages, OfMarkets
<1>4. /\ Retained(state.samples \cup Sampled(state)) \subseteq PriceSample
      /\ Retained(store.price \cup Sampled(state)) \subseteq PriceSample
  BY <1>2, <1>3, StoreTyped DEF Retained
<1>5. /\ state' \in MonitorState /\ state'.market = state.market
      /\ state'.samples = Retained(state.samples \cup Sampled(state))
  BY <1>1, <1>2, <1>4 DEF MonitorState
<1>6. /\ store' \in [price : SUBSET PriceSample, openInterest : SUBSET PriceSample]
      /\ store'.price = Retained(store.price \cup Sampled(state))
  BY <1>1, <1>4, StoreTyped
<1>7. Retained(store'.price) = Retained(state'.samples)
  <2>1. Retained(store.price) = Retained(state.samples)
    BY <1>2
  <2>2. Retained(store.price \cup Sampled(state)) = Retained(state.samples \cup Sampled(state))
    BY <2>1 DEF Retained
  <2> QED BY <1>5, <1>6, <2>2
<1>8. /\ OfMarkets(store'.price, {state.market} \cup left)
      /\ OfMarkets(state'.samples, {state.market} \cup left)
  BY <1>2, <1>3, <1>5, <1>6 DEF OfMarkets, Retained
<1>9. warmups' \subseteq Read
  BY <1>1, <1>2, <1>5, WarmupsTyped
<1>10. poll' \in Read \cup {None}
  BY <1>1, <1>2 DEF Current, Read
<1> QED
  BY <1>1, <1>5, <1>6, <1>7, <1>8, <1>9, <1>10, SameMarketStep

\* A committed change touches no sample; without a state there are only left rows.
LEMMA CommitStep ==
  ASSUME Inv, NEW market \in Markets \cup {None}, Commit(market)
  PROVE  Inv'
<1>1. /\ phase = "up" /\ config' = market /\ pending' = TRUE
      /\ market # None => serial < MaxObjects
      /\ UNCHANGED <<phase, store, serial, state, warmups, poll, stops, left>>
  BY DEF Commit
<1>2. TypeOK'
  BY <1>1 DEF Inv, TypeOK
<1>3. StateOfConfig' /\ RoomForObject' /\ LeftRows' /\ DownIsIdle'
  BY <1>1 DEF Inv, StateOfConfig, RoomForObject, LeftRows, DownIsIdle, OfMarkets
<1>4. PricesOfOneMarket' /\ RestartLosesNothing'
  <2>1. CASE state = None
    BY <1>1, <2>1 DEF Inv, LeftRows, PricesOfOneMarket, OfMarkets, RestartLosesNothing
  <2>2. CASE state # None
    BY <1>1, <2>2 DEF Inv, KeptMarket, PricesOfOneMarket, OfMarkets, RestartLosesNothing
  <2> QED BY <2>1, <2>2
<1> QED
  BY <1>2, <1>3, <1>4 DEF Inv

\* What Reconcile does to the rows.
LEMMA ReconciledRows ==
  ASSUME Inv, Reconcile
  PROVE  /\ store' \in [price : SUBSET PriceSample, openInterest : SUBSET PriceSample]
         /\ left' \subseteq Markets
         /\ state # None /\ ~Outdated => UNCHANGED <<store, left>>
         /\ state = None \/ Outdated => OfMarkets(store'.price, left')
<1>1. CASE Outdated
  <2>1. store' = Cleared /\ left' = {}
    BY <1>1 DEF Reconcile
  <2> QED BY <1>1, <2>1 DEF Cleared, NoSamples, OfMarkets
<1>2. CASE ~Outdated
  <2>1. store' = store /\ left' = left /\ phase = "up"
    BY <1>2 DEF Reconcile
  <2>2. state = None => OfMarkets(store'.price, left')
    BY <2>1 DEF Inv, LeftRows, OfMarkets
  <2> QED BY <1>2, <2>1, <2>2, StoreTyped DEF Inv, TypeOK
<1> QED BY <1>1, <1>2

LEMMA ReconcileStep ==
  ASSUME Inv, Reconcile
  PROVE  Inv'
<1>1. /\ phase = "up" /\ pending' = FALSE
      /\ UNCHANGED <<config, phase, poll, stops>>
  BY DEF Reconcile
<1>2. config \in Markets \cup {None} /\ serial \in 0..MaxObjects /\ warmups \subseteq Read
  BY DEF Inv, TypeOK
<1>3. CASE config = None
  <2>1. state # None => Outdated
    BY <1>3, StateTyped, NoneIsNoMarket DEF Outdated
  <2>2. state' = None /\ UNCHANGED <<serial, warmups>> /\ OfMarkets(store'.price, left')
    BY <1>3, <2>1, ReconciledRows DEF Reconcile
  <2>3. TypeOK'
    BY <1>1, <1>2, <2>2, ReconciledRows DEF Inv, TypeOK
  <2> QED BY <1>1, <1>3, <2>2, <2>3
          DEF Inv, StateOfConfig, RoomForObject, LeftRows, DownIsIdle, KeptMarket,
              PricesOfOneMarket, OfMarkets, RestartLosesNothing
<1>4. CASE config # None /\ state # None /\ ~Outdated
  <2>1. EnsureWarmup(serial, state) /\ UNCHANGED <<serial, state, store, left>>
    BY <1>4, ReconciledRows DEF Reconcile
  <2>2. warmups' \subseteq Read
    BY <1>4, <2>1, StateTyped, WarmupsTyped
  <2>3. TypeOK'
    BY <1>1, <2>1, <2>2 DEF Inv, TypeOK
  <2>4. KeptMarket' = config
    BY <1>1, <1>4, <2>1 DEF KeptMarket, Outdated
  <2>5. KeptMarket = config
    BY <1>4 DEF KeptMarket, Outdated
  <2> QED BY <1>1, <1>4, <2>1, <2>3, <2>4, <2>5
          DEF Inv, StateOfConfig, RoomForObject, LeftRows, DownIsIdle,
              PricesOfOneMarket, OfMarkets, RestartLosesNothing
<1>5. CASE config # None /\ (state = None \/ Outdated)
  <2>1. /\ serial' = serial + 1
        /\ state' = NewState(config, store')
        /\ EnsureWarmup(serial', state')
        /\ OfMarkets(store'.price, left')
    BY <1>5, ReconciledRows DEF Reconcile, Outdated
  <2>2. pending
    BY <1>1, <1>5 DEF Inv, StateOfConfig, KeptMarket, Outdated
  <2>3. serial' \in 1..MaxObjects
    BY <1>2, <1>5, <2>1, <2>2, MarketBounds DEF Inv, RoomForObject
  <2>4. /\ Retained(store'.price) \in SUBSET PriceSample
        /\ Retained(store'.openInterest) \in SUBSET PriceSample
    BY ReconciledRows DEF Retained
  <2>5. /\ state' \in MonitorState /\ state' # None
        /\ state'.market = config /\ state'.samples = Retained(store'.price)
    BY <1>2, <1>5, <2>1, <2>4, StateBuilt, DelaysArePositive DEF NewState
  <2>6. warmups' \subseteq Read
    BY <1>2, <1>5, <2>1, <2>3, <2>5, WarmupsTyped
  <2>7. TypeOK'
    <3>1. /\ store' \in [price : SUBSET PriceSample, openInterest : SUBSET PriceSample]
          /\ left' \subseteq Markets /\ serial' \in 0..MaxObjects
      BY <2>3, ReconciledRows
    <3>2. /\ poll' \in Read \cup {None} /\ stops' \in 0..MaxStops
          /\ config' \in Markets \cup {None} /\ phase' \in {"up", "closing", "down"}
      BY <1>1 DEF Inv, TypeOK
    <3> QED BY <1>1, <2>5, <2>6, <3>1, <3>2 DEF TypeOK
  <2>8. KeptMarket' = config /\ OfMarkets(state'.samples, left')
    BY <2>1, <2>5 DEF KeptMarket, OfMarkets, Retained
  <2>9. Retained(store'.price) = Retained(state'.samples)
    BY <2>5, RetainedOnce
  <2> QED BY <1>1, <2>1, <2>3, <2>5, <2>7, <2>8, <2>9
          DEF Inv, StateOfConfig, RoomForObject, LeftRows, DownIsIdle,
              PricesOfOneMarket, OfMarkets, RestartLosesNothing
<1> QED BY <1>3, <1>4, <1>5

LEMMA TickStep ==
  ASSUME Inv, Tick
  PROVE  Inv'
<1>1. /\ store' = Aged(store)
      /\ UNCHANGED <<change, phase, serial, warmups, poll, stops>>
  BY DEF Tick
<1>2. /\ store' \in [price : SUBSET PriceSample, openInterest : SUBSET PriceSample]
      /\ store'.price = Older(store.price)
  BY <1>1, StoreTyped, OlderTyped DEF Aged
<1>3. \A M : OfMarkets(store.price, M) => OfMarkets(store'.price, M)
  BY <1>2, StoreTyped, OlderTyped
<1>4. CASE state = None
  <2>1. state' = None /\ UNCHANGED <<config, pending, left>> /\ KeptMarket' = KeptMarket
    BY <1>1, <1>4 DEF Tick, change, KeptMarket
  <2>2. TypeOK'
    BY <1>1, <1>2, <2>1 DEF Inv, TypeOK
  <2>3. PricesOfOneMarket' /\ LeftRows'
    BY <1>1, <1>3, <1>4, <2>1 DEF Inv, PricesOfOneMarket, LeftRows
  <2> QED BY <1>1, <1>4, <2>1, <2>2, <2>3
          DEF Inv, StateOfConfig, RoomForObject, DownIsIdle, RestartLosesNothing
<1>5. CASE state # None
  <2> DEFINE latest == IF state.latest = None THEN state.latest
                       ELSE IF state.latest > MaxStale THEN state.latest ELSE state.latest + 1
             retryIn == IF state.retryIn = 0 THEN 0 ELSE state.retryIn - 1
  <2>1. /\ state \in MonitorState
        /\ state.samples \subseteq PriceSample
        /\ OfMarkets(state.samples, {state.market} \cup left)
        /\ OfMarkets(store.price, {state.market} \cup left)
        /\ state.openInterest \subseteq PriceSample
        /\ Retained(store.price) = Retained(state.samples)
        /\ state.latest \in (0..(MaxStale + 1)) \cup {None} /\ state.retryIn \in Nat
    BY <1>5, StateTyped
  <2>2. latest \in (0..(MaxStale + 1)) \cup {None}
    <3>1. CASE state.latest = None
      BY <3>1
    <3>2. CASE state.latest # None
      <4>1. state.latest \in 0..(MaxStale + 1) /\ MaxStale \in Nat
        BY <2>1, <3>2, MarketBounds
      <4>2. latest = IF state.latest > MaxStale THEN state.latest ELSE state.latest + 1
        BY <3>2
      <4> HIDE DEF latest
      <4> QED BY <4>1, <4>2
    <3> QED BY <3>1, <3>2
  <2>10. retryIn \in Nat
    BY <2>1
  <2>3. state' = [state EXCEPT !.samples = Older(@), !.openInterest = Older(@),
                               !.latest = latest, !.retryIn = retryIn]
    BY <1>5 DEF Tick
  <2>4. /\ Older(state.samples) \subseteq PriceSample
        /\ Older(state.openInterest) \subseteq PriceSample
        /\ OfMarkets(Older(state.samples), {state.market} \cup left)
    BY <2>1, OlderTyped
  <2> HIDE DEF latest, retryIn
  <2>5. /\ state' \in MonitorState /\ state'.market = state.market
        /\ state'.samples = Older(state.samples)
    BY <2>1, <2>2, <2>3, <2>4, <2>10 DEF MonitorState
  <2>6. Retained(store'.price) = Retained(state'.samples)
    BY <1>2, <2>1, <2>5, StoreTyped, RetainedOlder
  <2>7. poll' \in Read \cup {None} /\ warmups' \subseteq Read
    BY <1>1 DEF Inv, TypeOK
  <2>8. /\ OfMarkets(store'.price, {state.market} \cup left)
        /\ OfMarkets(state'.samples, {state.market} \cup left)
    BY <1>3, <2>1, <2>4, <2>5
  <2> QED BY <1>1, <1>2, <1>5, <2>5, <2>6, <2>7, <2>8, SameMarketStep
<1> QED BY <1>4, <1>5

\* The end of a process leaves the rows of the market that it had to clear.
LEMMA AbandonStep ==
  ASSUME Inv, Abandon, phase' \in {"closing", "down"}, stops' \in 0..MaxStops,
         UNCHANGED <<store, serial>>, warmups' \subseteq Read, poll' \in {poll, None},
         phase' = "down" => poll' = None
  PROVE  Inv'
<1>1. /\ pending' = FALSE /\ config' = config /\ state' = None
      /\ left' = (IF Outdated THEN left \cup {state.market} ELSE left)
  BY DEF Abandon
<1>2. Outdated => state.market \in Markets
  BY StateTyped DEF Outdated
<1>3. TypeOK'
  BY <1>1, <1>2 DEF Inv, TypeOK
<1>4. KeptMarket' = config
  BY <1>1 DEF KeptMarket
<1>5. OfMarkets(store'.price, {config} \cup left')
  BY <1>1, StoreTyped DEF OfMarkets, Outdated, KeptMarket
<1> QED
  BY <1>1, <1>3, <1>4, <1>5
  DEF Inv, StateOfConfig, RoomForObject, LeftRows, DownIsIdle, PricesOfOneMarket,
      RestartLosesNothing

LEMMA StartStep ==
  ASSUME Inv, Start
  PROVE  Inv'
<1>1. /\ phase = "down" /\ phase' = "up" /\ serial' = 1
      /\ state' = (IF config = None THEN None ELSE NewState(config, store))
      /\ warmups' = (IF config = None \/ HasAllReferences(state') THEN {}
                     ELSE {[object |-> 1, market |-> config]})
      /\ UNCHANGED <<config, pending, left, store, poll, stops>>
  BY DEF Start, change
<1>2. /\ poll' = None /\ config \in Markets \cup {None} /\ 1 \in 1..MaxObjects
      /\ ~pending /\ state = None /\ KeptMarket = config
  BY <1>1, MarketBounds DEF Inv, DownIsIdle, StateOfConfig, KeptMarket, TypeOK
<1>3. warmups' \subseteq Read
  BY <1>1, <1>2 DEF Read
<1>4. config # None => /\ state' \in MonitorState /\ state' # None
                       /\ state'.market = config /\ state'.samples = Retained(store.price)
  <2>1. /\ Retained(store.price) \in SUBSET PriceSample
        /\ Retained(store.openInterest) \in SUBSET PriceSample
    BY StoreTyped, RetainedTyped
  <2> QED BY <1>1, <1>2, <2>1, StateBuilt, DelaysArePositive DEF NewState
<1>5. TypeOK'
  BY <1>1, <1>2, <1>3, <1>4, MarketBounds DEF Inv, TypeOK
<1>6. OfMarkets(store'.price, {config} \cup left') /\ KeptMarket' = config
  BY <1>1, <1>2, <1>4, StoreTyped DEF KeptMarket
<1>7. state' # None => /\ Retained(store'.price) = Retained(state'.samples)
                       /\ OfMarkets(state'.samples, {config} \cup left')
  BY <1>1, <1>4, <1>6, RetainedOnce DEF OfMarkets, Retained
<1>8. LeftRows'
  <2>1. state' = None => config = None
    BY <1>4
  <2>2. config = None => OfMarkets(store'.price, left')
    BY <1>1, <1>6, StoreTyped, NoneIsNoMarket DEF OfMarkets, PriceSample
  <2> QED BY <2>1, <2>2 DEF LeftRows
<1>9. StateOfConfig' /\ RoomForObject' /\ DownIsIdle'
  BY <1>1, <1>2, <1>4, <1>6 DEF StateOfConfig, RoomForObject, DownIsIdle
<1> QED
  BY <1>1, <1>5, <1>6, <1>7, <1>8, <1>9 DEF Inv, PricesOfOneMarket, RestartLosesNothing

LEMMA InvStep == Inv /\ [Next]_vars => Inv'
<1> SUFFICES ASSUME Inv, [Next]_vars PROVE Inv'
  OBVIOUS
<1>1. /\ warmups \subseteq Read
      /\ store \in [price : SUBSET PriceSample, openInterest : SUBSET PriceSample]
  BY StoreTyped DEF Inv, TypeOK
<1>2. ASSUME NEW r \in warmups, WarmupFails(r) PROVE Inv'
  <2>1. /\ warmups' \subseteq Read /\ UNCHANGED <<change, phase, store, serial, poll, stops>>
        /\ state' = (IF Wanted(r) THEN Deferred(state) ELSE state)
    BY <1>1, <1>2 DEF WarmupFails
  <2>2. Wanted(r) => state # None
    BY DEF Wanted
  <2>3. state # None => state \in MonitorState
    BY StateTyped
  <2>4. state # None => /\ state' \in MonitorState /\ state'.market = state.market
                        /\ state'.samples = state.samples
    BY <2>1, <2>3, DeferredKeeps
  <2> QED BY <1>1, <2>1, <2>2, <2>4, QuietStep
<1>3. ASSUME NEW age \in 0..MaxStale, PriceArrives(age) PROVE Inv'
  <2>1. /\ state # None /\ state' = [state EXCEPT !.latest = age]
        /\ UNCHANGED <<change, phase, store, serial, warmups, poll, stops>>
    BY <1>3 DEF PriceArrives
  <2>2. /\ state' \in MonitorState /\ state'.market = state.market
        /\ state'.samples = state.samples
    <3>1. state \in MonitorState /\ age \in (0..(MaxStale + 1)) \cup {None}
      BY <2>1, StateTyped, MarketBounds
    <3> QED BY <2>1, <3>1 DEF MonitorState
  <2> QED BY <1>1, <2>1, <2>2, QuietStep
<1>4. ASSUME NEW age \in 0..MaxStale, PollAnswers(age) PROVE Inv'
  <2> DEFINE sample == {[market |-> poll.market, age |-> age]}
  <2>1. /\ poll # None /\ poll' = None
        /\ state' = (IF state # None /\ poll = Current
                     THEN [state EXCEPT !.openInterest = Retained(@ \cup sample)] ELSE state)
        /\ store' = [store EXCEPT !.openInterest = Retained(@ \cup sample)]
        /\ UNCHANGED <<change, phase, serial, warmups, stops>>
    BY <1>4 DEF PollAnswers
  <2> HIDE DEF sample
  <2>2. Retained(sample) \subseteq PriceSample
    <3>1. poll.market \in Markets
      BY <2>1 DEF Inv, TypeOK, Read
    <3>2. age <= Retention => age \in Ages
      BY MarketBounds DEF Ages
    <3> QED BY <3>1, <3>2 DEF sample, Retained, PriceSample
  <2>3. Retained(store.openInterest \cup sample) \subseteq PriceSample
    BY <2>2, StoreTyped DEF Retained
  <2>4. /\ store' \in [price : SUBSET PriceSample, openInterest : SUBSET PriceSample]
        /\ store'.price = store.price
    BY <1>1, <2>1, <2>3
  <2>5. state # None => /\ state' \in MonitorState /\ state'.market = state.market
                        /\ state'.samples = state.samples
    <3> SUFFICES ASSUME state # None
                 PROVE  /\ state' \in MonitorState /\ state'.market = state.market
                        /\ state'.samples = state.samples
      OBVIOUS
    <3>1. state \in MonitorState /\ Retained(state.openInterest \cup sample) \subseteq PriceSample
      BY <2>2, StateTyped DEF Retained
    <3> QED BY <2>1, <3>1 DEF MonitorState
  <2> QED BY <1>1, <2>1, <2>4, <2>5, QuietStep
<1>5. CASE PollFails
  <2>1. poll' = None /\ UNCHANGED <<change, phase, store, serial, state, warmups, stops>>
    BY <1>5 DEF PollFails
  <2> QED BY <1>1, <2>1, StateTyped, QuietStep
<1>6. CASE Close
  <2>1. /\ phase = "up" /\ phase' = "closing" /\ stops < MaxStops /\ stops' = stops + 1
        /\ Abandon /\ UNCHANGED <<store, serial, warmups, poll>>
    BY <1>6 DEF Close
  <2>2. stops' \in 0..MaxStops
    BY <2>1, MarketBounds DEF Inv, TypeOK
  <2> QED BY <1>1, <2>1, <2>2, AbandonStep
<1>7. CASE Closed
  <2>1. /\ phase = "closing" /\ phase' = "down" /\ poll = None
        /\ UNCHANGED <<config, pending, left, store, serial, state, warmups, poll, stops>>
    BY <1>7 DEF Closed, CycleEnded, change
  <2>2. TypeOK'
    BY <2>1 DEF Inv, TypeOK
  <2> QED BY <2>1, <2>2
          DEF Inv, StateOfConfig, RoomForObject, LeftRows, DownIsIdle, KeptMarket,
              PricesOfOneMarket, OfMarkets, RestartLosesNothing
<1>8. CASE Crash
  <2>1. /\ phase' = "down" /\ stops < MaxStops /\ stops' = stops + 1
        /\ poll' = None /\ warmups' = {} /\ Abandon /\ UNCHANGED <<store, serial>>
    BY <1>8 DEF Crash
  <2>2. stops' \in 0..MaxStops
    BY <2>1, MarketBounds DEF Inv, TypeOK
  <2> QED BY <2>1, <2>2, AbandonStep
<1>9. CASE UNCHANGED vars
  <2>1. TypeOK'
    BY <1>9 DEF vars, Inv, TypeOK
  <2> QED BY <1>9, <2>1
          DEF vars, Inv, StateOfConfig, RoomForObject, LeftRows, DownIsIdle, KeptMarket,
              PricesOfOneMarket, OfMarkets, RestartLosesNothing
<1> QED
  BY <1>2, <1>3, <1>4, <1>5, <1>6, <1>7, <1>8, <1>9, WarmupLoadsStep, CycleStep,
     CommitStep, ReconcileStep, TickStep, StartStep DEF Next

LEMMA InvAlways == Spec => []Inv
  BY InitInv, InvStep, PTL DEF Spec

---------------------------------------------------------------------------

\* Every value the variables can take has its type: the samples, the state of the
\* monitor and the reads in flight.
THEOREM TypeCorrect == Spec => []TypeOK
<1>1. Inv => TypeOK
  BY DEF Inv
<1> QED
  BY <1>1, InvAlways, PTL

\* A price window never mixes two markets, whatever warm-up of an earlier
\* configuration answers late (ensureWarmup, reconcile), except for the rows that a
\* process which ended between commit and reconcile has left.
THEOREM PricesOfOneMarketAlways == Spec => []PricesOfOneMarket
<1>1. Inv => PricesOfOneMarket
  BY DEF Inv
<1> QED
  BY <1>1, InvAlways, PTL

\* SQLite holds the samples the windows stand on: a restart at any moment finds
\* them (MarketMetricService, PriceSampleRepository).
THEOREM RestartLosesNothingAlways == Spec => []RestartLosesNothing
<1>1. Inv => RestartLosesNothing
  BY DEF Inv
<1> QED
  BY <1>1, InvAlways, PTL

\* After close nothing is written: warm-ups that answer late find no state, and the
\* cycle with its poll was awaited.
THEOREM NothingWrittenOnceClosed == Spec => ClosedWritesNothing
<1>1. Inv /\ [Next]_vars => (phase = "down" => store' \in {store, Aged(store)})
  <2> SUFFICES ASSUME Inv, [Next]_vars, phase = "down" PROVE store' \in {store, Aged(store)}
    OBVIOUS
  <2>1. state = None /\ poll = None
    BY DEF Inv, StateOfConfig, DownIsIdle
  <2> QED BY <2>1
          DEF Next, vars, WarmupLoads, WarmupFails, Wanted, PriceArrives, Cycle, PollAnswers,
              PollFails, Commit, Reconcile, Tick, Close, Closed, Crash, Start
<1> QED
  BY <1>1, InvAlways, PTL DEF Spec, ClosedWritesNothing
=============================================================================
