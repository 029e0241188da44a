------------------------------- MODULE StockQuotes -------------------------------
(***************************************************************************)
(* Stock quotes: core/integrations/stock-quote-service.ts with its reader   *)
(* (adapters/markets/stock-quotes.ts) and a stock monitor                   *)
(* (core/integrations/us-stock-coordinator.ts).                            *)
(*                                                                         *)
(* The quotes of a symbol are loaded for whoever asks, a few symbols at a   *)
(* time; the others wait in line.  A symbol that nobody subscribes to any   *)
(* longer is dropped and its load told to abort; a new state and a new load *)
(* may stand beside that one.  A quote is known by its time.                *)
(***************************************************************************)
EXTENDS Integers, Sequences, FiniteSets, FiniteSetsExt

CONSTANTS
  Symbols,
  Bases,                  \* what a price is of: the stock, a perpetual's mark
  Settings,               \* of a monitor besides the symbol: how often it asks, how old a quote may be
  MaxLoads,               \* loads at a time; 8 in the code
  MaxAge,                 \* an attempt is not repeated before that
  MaxBackoff,
  MaxClock, MaxFaults, MaxChanges

StockParameters ==
  /\ MaxLoads \in Nat \ {0} /\ MaxAge \in Nat /\ MaxBackoff \in Nat
  /\ MaxClock \in Nat /\ MaxFaults \in Nat /\ MaxChanges \in Nat

Loads == Symbols \X {1, 2}   \* bound: the load of a symbol and one that was told to abort
NoLoad == <<"none", 0>>
Scans == {1, 2}              \* bound: the scan of the task and one that was told to abort
Never == -1
Times == 0..MaxClock

VARIABLES
  clock,
  subscribed,           \* the symbols the API's subscribers ask for, persisted
  monitor,              \* the stock monitor
  state,                \* states: what the process knows of each symbol
  stored,               \* stock_quotes, persisted
  load, activeLoads, waitingLoads,
  scan,                 \* the monitor's scans
  shown,                \* the monitor's latest price
  closed,
  faults, changes

pool == <<load, activeLoads, waitingLoads>>
vars == <<clock, subscribed, monitor, state, stored, pool, scan, shown, closed, faults, changes>>

Quotes == [Bases -> Times \cup {Never}]
NoQuotes == [b \in Bases |-> Never]
State == [known : BOOLEAN, quotes : Quotes, lastAttempt : Times \cup {Never}, failures : Nat,
          nextAttempt : Nat, pending : Loads \cup {NoLoad}, error : BOOLEAN]
Unknown == [known |-> FALSE, quotes |-> NoQuotes, lastAttempt |-> Never, failures |-> 0,
            nextAttempt |-> 0, pending |-> NoLoad, error |-> FALSE]
Load == [phase : {"idle", "waiting", "woken", "reading"}, aborted : BOOLEAN]
NoGeneration == <<"none", 0>>
Generations == Symbols \X Settings
Scan == [load : Loads \cup {NoLoad}, generation : Generations \cup {NoGeneration}, aborted : BOOLEAN]
NoScan == [load |-> NoLoad, generation |-> NoGeneration, aborted |-> FALSE]
NothingShown == [generation |-> NoGeneration, at |-> Never, status |-> "none"]

TypeOK ==
  /\ clock \in Times /\ subscribed \subseteq Symbols
  /\ monitor \in [symbol : Symbols, setting : Settings, enabled : BOOLEAN]
  /\ state \in [Symbols -> State] /\ stored \in [Symbols -> Quotes]
  /\ load \in [Loads -> Load] /\ activeLoads \in 0..MaxLoads /\ waitingLoads \in Seq(Loads)
  /\ scan \in [Scans -> Scan]
  /\ shown \in [generation : Generations \cup {NoGeneration}, at : Times \cup {Never}, status : {"none", "ok", "error"}]
  /\ closed \in BOOLEAN /\ faults \in 0..MaxFaults /\ changes \in 0..MaxChanges

Init ==
  /\ clock = 0 /\ subscribed = {}
  /\ monitor \in [symbol : Symbols, setting : Settings, enabled : {FALSE}]
  /\ state = [s \in Symbols |-> Unknown] /\ stored = [s \in Symbols |-> NoQuotes]
  /\ load = [l \in Loads |-> [phase |-> "idle", aborted |-> FALSE]]
  /\ activeLoads = 0 /\ waitingLoads = <<>>
  /\ scan = [r \in Scans |-> NoScan] /\ shown = NothingShown
  /\ closed = FALSE /\ faults = 0 /\ changes = 0

---------------------------------------------------------------------------
(* States and loads *)

\* state(): what is stored is read when a symbol is first asked for.
Known(s) == IF state[s].known THEN state[s] ELSE [Unknown EXCEPT !.known = TRUE, !.quotes = stored[s]]

MayLoad(s) ==
  LET now == Known(s) IN
  /\ now.pending = NoLoad /\ clock >= now.nextAttempt
  /\ now.lastAttempt = Never \/ clock - now.lastAttempt >= MaxAge

FreeLoads(s) == {l \in Loads : l[1] = s /\ load[l].phase = "idle"}

\* A load that ends lets the next one in line look for a place.
Wake(new) ==
  /\ load' = IF waitingLoads = <<>> THEN new ELSE [new EXCEPT ![Head(waitingLoads)].phase = "woken"]
  /\ waitingLoads' = IF waitingLoads = <<>> THEN <<>> ELSE Tail(waitingLoads)

\* refresh(): a load is begun, if none is under way and the last attempt is long enough
\* ago; it reads at once or gets in line.
Refresh(s) ==
  IF ~closed /\ MayLoad(s)
  THEN \E l \in FreeLoads(s) :
         /\ state' = [state EXCEPT ![s] = [Known(s) EXCEPT !.lastAttempt = clock, !.pending = l]]
         /\ IF activeLoads < MaxLoads
            THEN /\ load' = [load EXCEPT ![l] = [phase |-> "reading", aborted |-> FALSE]]
                 /\ activeLoads' = activeLoads + 1 /\ UNCHANGED waitingLoads
            ELSE /\ load' = [load EXCEPT ![l] = [phase |-> "waiting", aborted |-> FALSE]]
                 /\ waitingLoads' = Append(waitingLoads, l) /\ UNCHANGED activeLoads
  ELSE state' = [state EXCEPT ![s] = Known(s)] /\ UNCHANGED pool

Idle(l) == [load EXCEPT ![l] = [phase |-> "idle", aborted |-> FALSE]]
Finished(l) == IF state[l[1]].pending = l THEN [state EXCEPT ![l[1]].pending = NoLoad] ELSE state

\* The task of a symbol runs, or the API asks for it.
Ask(s) ==
  /\ ~closed
  /\ Refresh(s)
  /\ UNCHANGED <<clock, subscribed, monitor, stored, scan, shown, closed, faults, changes>>

\* A cancelled load just leaves.
CancelledSilently(l) ==
  /\ load[l].phase = "woken" /\ load[l].aborted
  /\ load' = Idle(l) /\ UNCHANGED waitingLoads
  /\ state' = Finished(l)
  /\ UNCHANGED <<clock, subscribed, monitor, stored, activeLoads, scan, shown, closed, faults, changes>>

\* A load that was let out of the line: it may have been cancelled, and it may find its
\* place taken.
CancelledInLine(l) ==
  /\ load[l].phase = "woken" /\ load[l].aborted
  /\ Wake(Idle(l))
  /\ state' = Finished(l)
  /\ UNCHANGED <<clock, subscribed, monitor, stored, activeLoads, scan, shown, closed, faults, changes>>

TakePlace(l) ==
  /\ load[l].phase = "woken" /\ ~load[l].aborted
  /\ IF activeLoads < MaxLoads
     THEN /\ load' = [load EXCEPT ![l].phase = "reading"]
          /\ activeLoads' = activeLoads + 1 /\ UNCHANGED waitingLoads
     ELSE /\ load' = [load EXCEPT ![l].phase = "waiting"]
          /\ waitingLoads' = Append(waitingLoads, l) /\ UNCHANGED activeLoads
  /\ UNCHANGED <<clock, subscribed, monitor, state, stored, scan, shown, closed, faults, changes>>

\* What the sources of a symbol can answer: some basis at least, none of the future.
Answers == {q \in [Bases -> (0..clock) \cup {Never}] : q # NoQuotes}

Newer(old, new) == [b \in Bases |-> Max({old[b], new[b]})]

\* An answer is an answer.
AlwaysWanted(l) == TRUE

\* An answer that is still wanted is kept and stored, unless a newer one is known.
StillWanted(l) == ~closed /\ ~load[l].aborted /\ state[l[1]].pending = l

ReadAnswers(l) ==
  /\ load[l].phase = "reading"
  /\ activeLoads' = activeLoads - 1 /\ Wake(Idle(l))
  /\ \E q \in Answers :
       IF StillWanted(l)
       THEN /\ stored' = [stored EXCEPT ![l[1]] = Newer(@, q)]
            /\ state' = IF state[l[1]].pending = l
                        THEN [Finished(l) EXCEPT ![l[1]].quotes = Newer(@, q), ![l[1]].failures = 0,
                              ![l[1]].nextAttempt = 0, ![l[1]].error = FALSE]
                        ELSE state
       ELSE /\ state' = Finished(l)
            /\ UNCHANGED stored
  /\ UNCHANGED <<clock, subscribed, monitor, scan, shown, closed, faults, changes>>

RetryAfter(failures) == Min({2 ^ Min({failures - 1, 4}), MaxBackoff})

ReadFails(l) ==
  /\ load[l].phase = "reading" /\ faults < MaxFaults
  /\ faults' = faults + 1
  /\ activeLoads' = activeLoads - 1 /\ Wake(Idle(l))
  /\ LET failures == state[l[1]].failures + 1 IN
       state' = IF StillWanted(l)
                THEN [Finished(l) EXCEPT ![l[1]].failures = failures, ![l[1]].error = TRUE,
                      ![l[1]].nextAttempt = clock + RetryAfter(failures)]
                ELSE Finished(l)
  /\ UNCHANGED <<clock, subscribed, monitor, stored, scan, shown, closed, changes>>

---------------------------------------------------------------------------
(* The stock monitor *)

\* Two settings of the monitor are the same when they say the same.
Generation == <<monitor.symbol, monitor.setting>>

\* A task has one scan at a time, but one of a task that was removed may still wait.
StartScan(r) ==
  /\ monitor.enabled /\ ~closed /\ scan[r] = NoScan
  /\ \A o \in Scans : scan[o] = NoScan \/ scan[o].aborted
  /\ Refresh(monitor.symbol)
  /\ scan' = [scan EXCEPT ![r] = [load |-> state'[monitor.symbol].pending,
                                  generation |-> Generation, aborted |-> FALSE]]
  /\ UNCHANGED <<clock, subscribed, monitor, stored, shown, closed, faults, changes>>

\* get() has its load, or a load that was dropped is waited for no longer.
Got(r) ==
  /\ scan[r] # NoScan
  /\ scan[r].load # NoLoad => state[scan[r].load[1]].pending # scan[r].load
  /\ scan' = [scan EXCEPT ![r] = NoScan]

Newest(s) == Max({Known(s).quotes[b] : b \in Bases})
IsCurrent(r) == ~scan[r].aborted /\ monitor.enabled /\ Generation = scan[r].generation

\* What a scan shows of the symbol it was started for.
Shows(r) ==
  LET s == scan[r].generation[1] IN
  [generation |-> scan[r].generation, at |-> Newest(s),
   status |-> IF Newest(s) = Never \/ Known(s).error THEN "error" ELSE "ok"]

\* What was asked for is shown.
EndScanAnyhow(r) ==
  /\ Got(r) /\ shown' = Shows(r)
  /\ UNCHANGED <<clock, subscribed, monitor, state, stored, pool, closed, faults, changes>>

\* The newest quote is shown, unless the monitor was changed.
EndScan(r) ==
  /\ Got(r) /\ shown' = IF IsCurrent(r) THEN Shows(r) ELSE shown
  /\ UNCHANGED <<clock, subscribed, monitor, state, stored, pool, closed, faults, changes>>

\* The task of the monitor is removed, and its scan told to abort.
RemoveTask == scan' = [r \in Scans |-> IF scan[r] = NoScan THEN NoScan ELSE [scan[r] EXCEPT !.aborted = TRUE]]

---------------------------------------------------------------------------
(* Subscriptions, time and the end *)

Desired == subscribed \cup (IF monitor.enabled THEN {monitor.symbol} ELSE {})

\* The states of the symbols nobody wants any longer are dropped and their loads aborted.
Drop(gone) ==
  /\ state' = [s \in Symbols |-> IF s \in gone THEN Unknown
                                 ELSE IF s \in Desired' THEN Known(s) ELSE state[s]]
  /\ load' = [l \in Loads |-> IF l[1] \in gone /\ state[l[1]].pending = l
                              THEN [load[l] EXCEPT !.aborted = TRUE] ELSE load[l]]

Subscribe ==
  /\ ~closed /\ changes < MaxChanges /\ changes' = changes + 1
  /\ subscribed' \in SUBSET Symbols
  /\ UNCHANGED <<clock, monitor, stored, activeLoads, waitingLoads, scan, shown, closed, faults>>
  /\ Drop(Desired \ Desired')

\* The monitor is enabled, changed or disabled: it gets another task or none, and what it
\* showed is forgotten.
ChangeMonitor ==
  /\ ~closed /\ changes < MaxChanges /\ changes' = changes + 1
  /\ \E s \in Symbols, how \in Settings, on \in BOOLEAN :
       monitor' = [symbol |-> s, setting |-> how, enabled |-> on]
  /\ monitor' # monitor
  /\ shown' = NothingShown
  /\ RemoveTask
  /\ UNCHANGED <<clock, subscribed, stored, activeLoads, waitingLoads, closed, faults>>
  /\ Drop(Desired \ Desired')

Close ==
  /\ ~closed /\ closed' = TRUE
  /\ load' = [l \in Loads |-> IF state[l[1]].pending = l THEN [load[l] EXCEPT !.aborted = TRUE] ELSE load[l]]
  /\ RemoveTask
  /\ UNCHANGED <<clock, subscribed, monitor, state, stored, activeLoads, waitingLoads, shown, faults, changes>>

TimePasses ==
  /\ clock < MaxClock /\ clock' = clock + 1
  /\ UNCHANGED <<subscribed, monitor, state, stored, pool, scan, shown, closed, faults, changes>>

Next ==
  \/ \E s \in Symbols : Ask(s)
  \/ \E l \in Loads : CancelledInLine(l)
  \/ \E l \in Loads : TakePlace(l)
  \/ \E l \in Loads : ReadAnswers(l)
  \/ \E l \in Loads : ReadFails(l)
  \/ \E r \in Scans : StartScan(r)
  \/ \E r \in Scans : EndScan(r)
  \/ Subscribe
  \/ ChangeMonitor
  \/ Close
  \/ TimePasses

Spec == Init /\ [][Next]_vars

---------------------------------------------------------------------------
(* Properties *)

\* No load stands in line while there is a place for it that nobody was told of: a waiter
\* that was cancelled hands its turn on, and one that finds its place taken waits for the
\* end of a load that is reading.
NoPlaceIsLost ==
  waitingLoads # <<>> /\ activeLoads < MaxLoads => \E l \in Loads : load[l].phase = "woken"

\* What the process knows of a symbol is what a restart would find, whatever load of a
\* subscription that was dropped answers late.
KnownIsStored == \A s \in Symbols : state[s].known => state[s].quotes = stored[s]

\* The price shown is one of the monitor as it is configured and enabled now, however late
\* the scan of an earlier configuration gets its quote.
ShownIsConfigured ==
  shown # NothingShown => monitor.enabled /\ shown.generation = Generation
=============================================================================
