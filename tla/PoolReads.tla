-------------------------------- MODULE PoolReads --------------------------------
(***************************************************************************)
(* The scans of the monitors of one liquidity pool:                         *)
(* core/integrations/uniswap-pool-coordinator.ts with its reader             *)
(* (adapters/uniswap/uniswap-pool-reader.ts) and the persisted swap samples *)
(* (db/repositories/uniswap-pool-swap-sample-repository.ts).               *)
(*                                                                         *)
(* The monitors share a read of the pool, and one persisted cursor says     *)
(* where the next read begins; each of them hands the events of the read on *)
(* by itself.  The monitor that starts a read governs it: the read is       *)
(* aborted when reconcile removes the monitor, whoever joined it.  The runs *)
(* of the others go on.  A block comes with every unit of time and has one  *)
(* swap.                                                                   *)
(***************************************************************************)
EXTENDS Integers, FiniteSets, FiniteSetsExt

CONSTANTS
  Monitors, IntervalOf,   \* the pool's monitors, and how often each is scanned
  WindowsOf,              \* the volume windows the rules of each ask for
  ConfirmationBlocks, LookbackBlocks,
  Runs,                   \* runs of a monitor at one time: one, and those of registrations before
  ReadIds,                \* reads that someone still refers to
  MaxClock, MaxLag,
  MaxDisturbances         \* failures, crashes and reconfigurations, together

PoolParameters ==
  /\ IntervalOf \in [Monitors -> Nat \ {0}] /\ WindowsOf \in [Monitors -> SUBSET (Nat \ {0})]
  /\ \A m \in Monitors : IsFiniteSet(WindowsOf[m])
  /\ ConfirmationBlocks \in Nat /\ LookbackBlocks \in Nat
  /\ ReadIds \subseteq Nat \ {0} /\ IsFiniteSet(ReadIds)
  /\ MaxClock \in Nat /\ MaxLag \in Nat /\ MaxDisturbances \in Nat

NoRead == 0
NoCursor == -1
NotYet == -1
Scans == Monitors \X Runs
Blocks == 0..MaxClock

VARIABLES
  clock,        \* the time, and the height of the chain
  named,        \* the pool's tokens are known: of v3, or from the catalogue
  enabled, shared, read, scan,
  cursor,       \* persisted
  samples,      \* persisted: the swaps kept of each monitor
  given,        \* the events ingested for each monitor
  synced,       \* the last sync_status of each monitor: the block it names
  volume,       \* the last volumes of each monitor and window
  since,        \* history: the block after which a monitor is owed the events
  faults, reconciles

results == <<samples, given, synced, volume>>
vars == <<clock, named, enabled, shared, read, scan, cursor, results, since, faults, reconciles>>

Read == [phase : {"free", "tip", "logs", "resolved", "rejected"},
         aborted : BOOLEAN, from : Nat, confirmed : Nat, observedAt : Nat]
Free == [phase |-> "free", aborted |-> FALSE, from |-> 0, confirmed |-> 0, observedAt |-> 0]
Scan == [read : ReadIds \cup {NoRead}, starts : BOOLEAN, aborted : BOOLEAN, next : Nat \cup {NotYet}]
NoScan == [read |-> NoRead, starts |-> FALSE, aborted |-> FALSE, next |-> NotYet]
NotShared == [read |-> NoRead, expiresAt |-> 0]
Unavailable == -1
Volume == [at : Nat, confirmed : Nat, current : {Unavailable} \cup Nat, previous : {Unavailable} \cup Nat]
NoVolume == [at |-> 0, confirmed |-> 0, current |-> Unavailable, previous |-> Unavailable]

TypeOK ==
  /\ clock \in Blocks /\ named \in BOOLEAN
  /\ enabled \subseteq Monitors
  /\ shared \in [read : ReadIds \cup {NoRead}, expiresAt : Nat]
  /\ read \in [ReadIds -> Read] /\ scan \in [Scans -> Scan]
  /\ cursor \in Blocks \cup {NoCursor}
  /\ samples \in [Monitors -> SUBSET Blocks] /\ given \in [Monitors -> SUBSET Blocks]
  /\ synced \in [Monitors -> Blocks \cup {NoCursor}]
  /\ \A m \in Monitors : volume[m] \in [WindowsOf[m] -> Volume]
  /\ since \in [Monitors -> Int]
  /\ faults \in Nat /\ reconciles \in Nat /\ faults + reconciles <= MaxDisturbances

Init ==
  /\ clock = 0 /\ named \in BOOLEAN
  /\ enabled \in (SUBSET Monitors) \ {{}} /\ shared = NotShared
  /\ read = [r \in ReadIds |-> Free] /\ scan = [s \in Scans |-> NoScan]
  /\ cursor = NoCursor
  /\ samples = [m \in Monitors |-> {}] /\ given = [m \in Monitors |-> {}]
  /\ synced = [m \in Monitors |-> NoCursor]
  /\ volume = [m \in Monitors |-> [w \in WindowsOf[m] |-> NoVolume]]
  /\ since = [m \in Monitors |-> NoCursor]
  /\ faults = 0 /\ reconciles = 0

---------------------------------------------------------------------------
(* The shared read *)

Disturbs == faults + reconciles < MaxDisturbances

ResourceInterval == Min({IntervalOf[m] : m \in enabled})

Unused == {r \in ReadIds : shared.read # r /\ \A s \in Scans : scan[s].read # r}

\* A read that nobody refers to any longer is gone.
Reads(new) == read' = [r \in ReadIds |->
  IF shared'.read = r \/ \E s \in Scans : scan'[s].read = r THEN new[r] ELSE Free]

MayScan(m, k) ==
  /\ m \in enabled /\ scan[<<m, k>>].read = NoRead
  /\ \A j \in Runs : scan[<<m, j>>].read = NoRead \/ scan[<<m, j>>].aborted

WaitFor(m, k, r, starts) == scan' = [scan EXCEPT ![<<m, k>>] = [NoScan EXCEPT !.read = r, !.starts = starts]]

IsCached == shared.read # NoRead /\ shared.expiresAt > clock

JoinRead(m, k) ==
  /\ MayScan(m, k) /\ IsCached
  /\ WaitFor(m, k, shared.read, FALSE)
  /\ UNCHANGED <<clock, named, enabled, shared, read, cursor, results, since, faults, reconciles>>

StartRead(m, k) ==
  /\ MayScan(m, k) /\ ~IsCached /\ Unused # {}
  /\ WaitFor(m, k, Min(Unused), TRUE)
  /\ shared' = [read |-> Min(Unused), expiresAt |-> clock + ResourceInterval]
  /\ Reads([read EXCEPT ![Min(Unused)].phase = "tip"])
  /\ UNCHANGED <<clock, named, enabled, cursor, results, since, faults, reconciles>>

\* A rejected read is not shared any longer, unless another one has taken its place.
Reject(r) ==
  /\ read' = [read EXCEPT ![r].phase = "rejected"]
  /\ shared' = IF shared.read = r THEN NotShared ELSE shared

Confirmed(tip) == IF tip > ConfirmationBlocks THEN tip - ConfirmationBlocks ELSE 0

FirstBlock(confirmed) ==
  IF cursor = NoCursor THEN Max({0, confirmed - LookbackBlocks})
  ELSE IF cursor > ConfirmationBlocks THEN cursor - ConfirmationBlocks + 1 ELSE 0

\* The target is resolved; then latestBlock, from a node that may lag; then the cursor.  A
\* first read skips what is older than its lookback.
LatestBlock(r) ==
  /\ read[r].phase = "tip"
  /\ IF read[r].aborted THEN Reject(r) /\ UNCHANGED since
     ELSE \E tip \in Max({0, clock - MaxLag})..clock :
            LET first == FirstBlock(Confirmed(tip)) IN
            /\ read' = [read EXCEPT ![r].phase = "logs", ![r].confirmed = Confirmed(tip), ![r].from = first]
            /\ since' = IF cursor = NoCursor
                        THEN [m \in Monitors |-> Max({since[m], first - 1})] ELSE since
            /\ UNCHANGED shared
  /\ UNCHANGED <<clock, named, enabled, scan, cursor, results, faults, reconciles>>

\* The pool at the confirmed block, its logs and the times of their blocks.  Of the last the
\* signal is not looked at: a read that is aborted meanwhile is still answered.
ReadLogs(r) ==
  /\ read[r].phase = "logs"
  /\ \/ read[r].aborted /\ Reject(r)
     \/ read' = [read EXCEPT ![r].phase = "resolved", ![r].observedAt = clock] /\ UNCHANGED shared
  /\ UNCHANGED <<clock, named, enabled, scan, cursor, results, since, faults, reconciles>>

ReadFails(r) ==
  /\ read[r].phase \in {"tip", "logs"} /\ Disturbs
  /\ faults' = faults + 1
  /\ Reject(r)
  /\ UNCHANGED <<clock, named, enabled, scan, cursor, results, since, reconciles>>

---------------------------------------------------------------------------
(* A monitor's own part of the scan *)

NoVolumes(m) == [w \in WindowsOf[m] |-> NoVolume]

\* The tokens are named, so that amounts can be given.
AmountsKnown == named

\* The cursor is saved with the events still to be handed on.
TakeReadSaving(m, k) ==
  LET s == <<m, k>> IN
  /\ scan[s].read # NoRead /\ scan[s].next = NotYet
  /\ read[scan[s].read].phase = "resolved"
  /\ volume' = [volume EXCEPT ![m] = NoVolumes(m)] /\ synced' = [synced EXCEPT ![m] = NoCursor]
  /\ cursor' = read[scan[s].read].confirmed
  /\ scan' = [scan EXCEPT ![s].next = read[scan[s].read].from]
  /\ UNCHANGED <<clock, named, enabled, shared, read, samples, given, since, faults, reconciles>>

\* The read is over: what was shown is forgotten, and the state of the pool shown.
TakeRead(m, k) ==
  LET s == <<m, k>> IN
  /\ scan[s].read # NoRead /\ scan[s].next = NotYet
  /\ read[scan[s].read].phase = "resolved"
  /\ volume' = [volume EXCEPT ![m] = NoVolumes(m)] /\ synced' = [synced EXCEPT ![m] = NoCursor]
  /\ scan' = [scan EXCEPT ![s].next = read[scan[s].read].from]
  /\ UNCHANGED <<clock, named, enabled, shared, read, cursor, samples, given, since, faults, reconciles>>

\* The next event: the sample first, then the event.
Distribute(m, k) ==
  LET s == <<m, k>> IN
  /\ scan[s].next # NotYet /\ scan[s].next <= read[scan[s].read].confirmed
  /\ given' = [given EXCEPT ![m] = @ \cup {scan[s].next}]
  /\ samples' = IF WindowsOf[m] # {} /\ AmountsKnown
                THEN [samples EXCEPT ![m] = @ \cup {scan[s].next}] ELSE samples
  /\ scan' = [scan EXCEPT ![s].next = @ + 1]
  /\ UNCHANGED <<clock, named, enabled, shared, read, cursor, synced, volume, since, faults, reconciles>>

\* Samples of one window only.
CutoffOnce(m, at) == at - Max(WindowsOf[m])

\* Samples older than two of the longest window are neither counted nor kept.
Cutoff(m, at) == at - 2 * Max(WindowsOf[m])

Kept(m, at) == {b \in samples[m] : b >= Cutoff(m, at)}
Swaps(m, at, from, to) == Cardinality({b \in Kept(m, at) : b > from /\ b <= to})

WindowVolumes(m, at, confirmed) ==
  [w \in WindowsOf[m] |->
     IF AmountsKnown
     THEN [at |-> at, confirmed |-> confirmed, current |-> Swaps(m, at, at - w, at),
           previous |-> Swaps(m, at, at - 2 * w, at - w)]
     ELSE [NoVolume EXCEPT !.at = at, !.confirmed = confirmed]]

\* All events are handed on: the volumes, the cursor and the status.  The cursor is
\* saved whatever it was moved to meanwhile.
EndScan(m, k) ==
  LET s == <<m, k>>
      done == read[scan[s].read] IN
  /\ scan[s].next # NotYet /\ scan[s].next > done.confirmed
  /\ volume' = [volume EXCEPT ![m] = [w \in WindowsOf[m] |->
       LET new == WindowVolumes(m, done.observedAt, done.confirmed)[w] IN
       IF @[w].at > new.at THEN @[w] ELSE new]]
  /\ samples' = [samples EXCEPT ![m] = IF WindowsOf[m] = {} THEN {} ELSE Kept(m, done.observedAt)]
  /\ cursor' = done.confirmed
  /\ synced' = [synced EXCEPT ![m] = done.confirmed]
  /\ scan' = [scan EXCEPT ![s] = NoScan]
  /\ UNCHANGED <<clock, named, enabled, shared, given, since, faults, reconciles>>
  /\ Reads(read)

\* The read was rejected, or an ingest fails on the way: nothing is saved.
ScanFails(m, k) ==
  LET s == <<m, k>> IN
  /\ scan[s].read # NoRead
  /\ \/ read[scan[s].read].phase = "rejected" /\ UNCHANGED faults
     \/ scan[s].next # NotYet /\ Disturbs /\ faults' = faults + 1
  /\ scan' = [scan EXCEPT ![s] = NoScan]
  /\ UNCHANGED <<clock, named, enabled, shared, cursor, results, since, reconciles>>
  /\ Reads(read)

---------------------------------------------------------------------------
(* Configuration, crash and time *)

\* One monitor is enabled, is removed or moves to another pool, or something else changes.
AfterChange ==
  {enabled} \cup {enabled \cup {m} : m \in Monitors} \cup {enabled \ {m} : m \in Monitors}

\* The runs of these monitors are told to abort, and so are the reads they started.
Abort(dropped) ==
  /\ scan' = [s \in Scans |->
       IF s[1] \in dropped /\ scan[s].read # NoRead THEN [scan[s] EXCEPT !.aborted = TRUE] ELSE scan[s]]
  /\ LET governed == {scan[s].read : s \in {x \in Scans : x[1] \in dropped /\ scan[x].starts}} IN
     Reads([r \in ReadIds |-> IF r \in governed THEN [read[r] EXCEPT !.aborted = TRUE] ELSE read[r]])

\* The task of a monitor that is gone is removed; that of one that stays, or has moved, is
\* replaced, and its run goes on.  What was shared is not used any longer, and a monitor
\* enabled now is owed what is not scanned yet.
Reconcile ==
  /\ Disturbs /\ reconciles' = reconciles + 1
  /\ enabled' \in AfterChange
  /\ since' = [m \in Monitors |->
       IF m \in enabled' \ enabled
       THEN Max({since[m], cursor} \cup {read[r].confirmed : r \in ReadIds}) ELSE since[m]]
  /\ shared' = NotShared
  /\ \E dropped \in SUBSET (enabled \ enabled') : Abort(dropped)
  /\ UNCHANGED <<clock, named, cursor, results, faults>>

\* The process ends; the cursor, the samples and the inbox are on disk.
Restart ==
  /\ Disturbs /\ faults' = faults + 1
  /\ shared' = NotShared
  /\ read' = [r \in ReadIds |-> Free] /\ scan' = [s \in Scans |-> NoScan]
  /\ synced' = [m \in Monitors |-> NoCursor]
  /\ volume' = [m \in Monitors |-> NoVolumes(m)]
  /\ UNCHANGED <<clock, named, enabled, cursor, samples, given, since, reconciles>>

TimePasses ==
  /\ clock < MaxClock /\ clock' = clock + 1
  /\ UNCHANGED <<named, enabled, shared, read, scan, cursor, results, since, faults, reconciles>>

Next ==
  \/ \E m \in Monitors, k \in Runs : JoinRead(m, k)
  \/ \E m \in Monitors, k \in Runs : StartRead(m, k)
  \/ \E r \in ReadIds : LatestBlock(r)
  \/ \E r \in ReadIds : ReadLogs(r)
  \/ \E r \in ReadIds : ReadFails(r)
  \/ \E m \in Monitors, k \in Runs : TakeRead(m, k)
  \/ \E m \in Monitors, k \in Runs : Distribute(m, k)
  \/ \E m \in Monitors, k \in Runs : EndScan(m, k)
  \/ \E m \in Monitors, k \in Runs : ScanFails(m, k)
  \/ Reconcile
  \/ Restart
  \/ TimePasses

Spec == Init /\ [][Next]_vars

---------------------------------------------------------------------------
(* Properties *)

\* A monitor whose status says that it is synced up to a block was given every event up
\* to there, whatever failed, was aborted or was read from a node that lags, and wherever
\* the cursor was set.  README.md:278 says so of several monitors too: a read of the pool
\* is shared, and then written to each monitor's own stream.
SyncedMeansGiven ==
  \A m \in enabled, b \in Blocks : since[m] < b /\ b <= synced[m] => b \in given[m]

\* However many monitors share the cursor and wherever it is set, no event is passed over by
\* all of them: what any of them is owed, up to the cursor and to what any status names,
\* was given to one at least.
NonePassedOver ==
  \A b \in Blocks :
    (\E m \in Monitors : since[m] < b) /\ (b <= cursor \/ \E m \in Monitors : b <= synced[m]) =>
      \E m \in Monitors : b \in given[m]

\* While a monitor is alone at its pool and the configuration stays, the volumes of a window
\* count each confirmed swap of the window and of the one before it, if the monitor was there
\* for both: what is not kept any longer, was read twice or before a crash makes no difference.
VolumesAreComplete ==
  \A m \in Monitors : \A w \in WindowsOf[m] :
    LET v == volume[m][w]
        confirmed(from, to) == Cardinality({b \in Blocks : b > from /\ b <= Min({to, v.confirmed})}) IN
    enabled = {m} /\ reconciles = 0 /\ v.current # Unavailable /\ since[m] <= v.at - 2 * w =>
      v.current >= confirmed(v.at - w, v.at) /\ v.previous >= confirmed(v.at - 2 * w, v.at - w)
=============================================================================
