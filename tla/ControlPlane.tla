----------------------------- MODULE ControlPlane -----------------------------
(***************************************************************************)
(* What users change while the program runs: the calls of the dashboard on  *)
(* an integration, the monitors, and the symbols that quotes are asked for. *)
(* Each part is one of the modules, which share no state: one part moves,   *)
(* the others rest.                                                         *)
(***************************************************************************)
EXTENDS Integers, Sequences, FiniteSets, TLC

CONSTANTS
  \* the calls on an integration
  CallChains, CapabilitiesOf, Kinds, ChainOf, Calls, ResponseTtl, CatalogTtl,
  \* the monitors
  Monitors, KindOf, Integrations, MarketData, Chains, Tokens, Positions, Requests,
  \* the quotes
  Symbols, Bases, Settings, MaxLoads, MaxAge, MaxBackoff,
  \* bounds
  MaxClock, MaxCallChanges, MaxChanges, MaxFaults

VARIABLES
  part,        \* the part that moves
  callsClock, callsIntegration, callsHealth, catalog, responses, inflight, readers, positions,
  positionInflight, index, job, call, closing, late, carried, callsChanges, callsFaults,
  monitorsIntegration, monitorsHealth, monitorsMonitor, request, tasks, overlap, monitorsChanges,
  quotesClock, subscribed, quotesMonitor, state, stored, load, activeLoads, waitingLoads, scan,
  shown, closed, quotesFaults, quotesChanges

callsVars ==
  <<callsClock, callsIntegration, callsHealth, catalog, responses, inflight, readers, positions,
    positionInflight, index, job, call, closing, late, carried, callsChanges, callsFaults>>
monitorsVars ==
  <<monitorsIntegration, monitorsHealth, monitorsMonitor, request, tasks, overlap, monitorsChanges>>
quotesVars ==
  <<quotesClock, subscribed, quotesMonitor, state, stored, load, activeLoads, waitingLoads, scan,
    shown, closed, quotesFaults, quotesChanges>>
partVars == <<part, callsVars, monitorsVars, quotesVars>>

Served == INSTANCE Operations WITH
  Chains <- CallChains, MaxChanges <- MaxCallChanges, clock <- callsClock, integration <-
  callsIntegration, health <- callsHealth, changes <- callsChanges, faults <- callsFaults
Watched == INSTANCE Monitors WITH
  integration <- monitorsIntegration, health <- monitorsHealth, monitor <- monitorsMonitor,
  changes <- monitorsChanges
Quotes == INSTANCE StockQuotes WITH
  clock <- quotesClock, monitor <- quotesMonitor, faults <- quotesFaults, changes <- quotesChanges

ASSUME PartsParameters ==
  /\ Served!OperationsParameters
  /\ Watched!MonitorsParameters
  /\ Quotes!StockParameters

\* The variables of a part that rests hold nothing.
callsRests ==
  /\ callsClock = 0 /\ callsIntegration = 0 /\ callsHealth = 0 /\ catalog = 0 /\ responses = 0
  /\ inflight = 0 /\ readers = 0 /\ positions = 0 /\ positionInflight = 0 /\ index = 0 /\ job = 0
  /\ call = 0 /\ closing = 0 /\ late = 0 /\ carried = 0 /\ callsChanges = 0 /\ callsFaults = 0
monitorsRests ==
  /\ monitorsIntegration = 0 /\ monitorsHealth = 0 /\ monitorsMonitor = 0 /\ request = 0
  /\ tasks = 0 /\ overlap = 0 /\ monitorsChanges = 0
quotesRests ==
  /\ quotesClock = 0 /\ subscribed = 0 /\ quotesMonitor = 0 /\ state = 0 /\ stored = 0 /\ load = 0
  /\ activeLoads = 0 /\ waitingLoads = 0 /\ scan = 0 /\ shown = 0 /\ closed = 0
  /\ quotesFaults = 0 /\ quotesChanges = 0

PartsInit ==
  /\ part \in {"calls", "monitors", "quotes"}
  /\ IF part = "calls" THEN Served!Init ELSE callsRests
  /\ IF part = "monitors" THEN Watched!Init ELSE monitorsRests
  /\ IF part = "quotes" THEN Quotes!Init ELSE quotesRests

PartsNext ==
  \/ /\ part = "calls" /\ Served!Next
     /\ UNCHANGED <<part, monitorsVars, quotesVars>>
  \/ /\ part = "monitors" /\ Watched!Next
     /\ UNCHANGED <<part, callsVars, quotesVars>>
  \/ /\ part = "quotes" /\ Quotes!Next
     /\ UNCHANGED <<part, callsVars, monitorsVars>>

PartsSpec == PartsInit /\ [][PartsNext]_partVars

---------------------------------------------------------------------------

\* What is kept of an integration was read with its configuration of now, unless a call of
\* the same sort, or the index of the v4 tokens, outlived a change.
OnlyLateCallsMix == part = "calls" => Served!OnlyLateCallsMix

\* A load or read that can be joined is under way.
SharedIsUnderWay == part = "calls" => Served!SharedIsUnderWay

\* What is stored and what is watched refers to an integration that is there.
ReferencesExist == part = "monitors" => Watched!ReferencesExist

\* A position that is stored was found, unless two changes of its monitor overlapped.
OnlyOverlapsMix == part = "monitors" => Watched!OnlyOverlapsMix

\* No load stands in line while there is a place for it that nobody was told of.
NoPlaceIsLost == part = "quotes" => Quotes!NoPlaceIsLost

\* What the process knows of a symbol is what a restart would find.
KnownIsStored == part = "quotes" => Quotes!KnownIsStored

\* The price shown is one of the monitor as it is configured and enabled now.
ShownIsConfigured == part = "quotes" => Quotes!ShownIsConfigured
=============================================================================
