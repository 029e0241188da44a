------------------------------ MODULE Collectors ------------------------------
(***************************************************************************)
(* The collectors and what they emit.  Each part is one of the modules,     *)
(* which share no state: one part moves, the others rest.                   *)
(***************************************************************************)
EXTENDS Integers, Sequences, FiniteSets

CONSTANTS
  \* the Aave account
  Chains, Market, Endpoints, MaximumAttempts, FailureThreshold, Cooldown, Interval,
  AccountStale, AccountWindows, LeastHistory,
  \* the reader of positions
  Calls, SharedTtl, OwnerTtl, MaxHead,
  \* the wallet, with its monitors, and its snapshot
  WalletMonitors, WalletIntervalOf, Tokens, ClosedRefresh,
  Versions, Valued, MaxStale, MaxDelay, MaxForgets,
  \* the pool
  PoolMonitors, PoolIntervalOf, WindowsOf, PoolRuns, PoolReadIds,
  ConfirmationBlocks, LookbackBlocks,
  \* the v4 index
  Syncs, Confirmations, ChunkSize, MinimumChunkSize, MaximumChunksPerSync, MaxTip,
  \* bounds
  MaxClock, MaxReadClock, MaxLag, MaxFaults, MaxReconciles, MaxDisturbances

VARIABLES
  part,        \* the part that moves
  accountClock, legacy, configured, accountEnabled, held, circuits, accountScan, rpc, position, change, count,
  accountDataAge, accountScanStatus, eventAt, accountSamples, present, lifecycle, accountReconciles,
  head, version, deployment, latestBlock, latestBlockRequest, tokenIds, discoveries, owner, slots,
  readerPositions, positionReads, call, readerFaults,
  walletClock, walletEnabled, walletShared, walletRead, closed, walletScan, walletFaults,
  walletReconciles,
  snapshotClock, snapshotScanStatus, caughtUp, readErrors, snapshotDataAge, snapshotPositions,
  found, latestGood, forgets,
  poolClock, named, poolEnabled, poolShared, poolRead, poolScan, cursor, poolSamples, given, synced,
  volume, since, poolFaults, poolReconciles,
  holds, tip, checkpoint, owned, chunkSize, sync, overlapped, indexFaults

accountVars ==
  <<accountClock, legacy, configured, accountEnabled, held, circuits, accountScan, rpc, position, change, count,
    accountDataAge, accountScanStatus, eventAt, accountSamples, present, lifecycle,
    accountReconciles>>
readerVars ==
  <<head, version, deployment, latestBlock, latestBlockRequest, tokenIds, discoveries, owner, slots,
    readerPositions, positionReads, call, readerFaults>>
walletVars ==
  <<walletClock, walletEnabled, walletShared, walletRead, closed, walletScan, walletFaults,
    walletReconciles>>
snapshotVars ==
  <<snapshotClock, snapshotScanStatus, caughtUp, readErrors, snapshotDataAge, snapshotPositions,
    found, latestGood, forgets>>
poolVars ==
  <<poolClock, named, poolEnabled, poolShared, poolRead, poolScan, cursor, poolSamples, given,
    synced, volume, since, poolFaults, poolReconciles>>
indexVars ==
  <<holds, tip, checkpoint, owned, chunkSize, sync, overlapped, indexFaults>>
partVars == <<part, accountVars, readerVars, walletVars, snapshotVars, poolVars, indexVars>>

Account == INSTANCE AaveAccount WITH
  Windows <- AccountWindows, MaxStale <- AccountStale, MaxClock <- MaxReadClock, clock <- accountClock,
  enabled <- accountEnabled, scan <- accountScan, dataAge <- accountDataAge, scanStatus <- accountScanStatus, samples <-
  accountSamples, reconciles <- accountReconciles
Reader == INSTANCE PositionReader WITH
  positions <- readerPositions, faults <- readerFaults
Wallet == INSTANCE PositionCoordinator WITH
  Monitors <- WalletMonitors, IntervalOf <- WalletIntervalOf, MaxClock <- MaxReadClock, clock <-
  walletClock, enabled <- walletEnabled, shared <- walletShared, read <- walletRead, scan <-
  walletScan, faults <- walletFaults, reconciles <- walletReconciles
Snapshot == INSTANCE PositionSnapshot WITH
  MaxClock <- MaxReadClock, clock <- snapshotClock, scanStatus <-
  snapshotScanStatus, dataAge <- snapshotDataAge, positions <- snapshotPositions
Pool == INSTANCE PoolReads WITH
  Monitors <- PoolMonitors, IntervalOf <- PoolIntervalOf, Runs <- PoolRuns,
  ReadIds <- PoolReadIds, clock <- poolClock, enabled <- poolEnabled, shared <- poolShared, read <-
  poolRead, scan <- poolScan, samples <- poolSamples, faults <- poolFaults, reconciles <-
  poolReconciles
Index == INSTANCE OwnershipIndex WITH
  faults <- indexFaults

ASSUME PartsParameters ==
  /\ Account!AccountParameters
  /\ Reader!ReaderParameters
  /\ Wallet!CoordinatorParameters
  /\ Snapshot!SnapshotParameters
  /\ Pool!PoolParameters
  /\ Index!IndexParameters

\* The variables of a part that rests hold nothing.
accountRests ==
  /\ accountClock = 0 /\ legacy = 0 /\ configured = 0 /\ accountEnabled = 0 /\ held = 0 /\ circuits = 0
  /\ accountScan = 0 /\ rpc = 0 /\ position = 0 /\ change = 0 /\ count = 0 /\ accountDataAge = 0
  /\ accountScanStatus = 0 /\ eventAt = 0 /\ accountSamples = 0 /\ present = 0 /\ lifecycle = 0
  /\ accountReconciles = 0
readerRests ==
  /\ head = 0 /\ version = 0 /\ deployment = 0 /\ latestBlock = 0 /\ latestBlockRequest = 0
  /\ tokenIds = 0 /\ discoveries = 0 /\ owner = 0 /\ slots = 0 /\ readerPositions = 0
  /\ positionReads = 0 /\ call = 0 /\ readerFaults = 0
walletRests ==
  /\ walletClock = 0 /\ walletEnabled = 0 /\ walletShared = 0 /\ walletRead = 0 /\ closed = 0
  /\ walletScan = 0 /\ walletFaults = 0 /\ walletReconciles = 0
snapshotRests ==
  /\ snapshotClock = 0 /\ snapshotScanStatus = 0 /\ caughtUp = 0 /\ readErrors = 0
  /\ snapshotDataAge = 0 /\ snapshotPositions = 0 /\ found = 0 /\ latestGood = 0 /\ forgets = 0
poolRests ==
  /\ poolClock = 0 /\ named = 0 /\ poolEnabled = 0 /\ poolShared = 0 /\ poolRead = 0
  /\ poolScan = 0 /\ cursor = 0 /\ poolSamples = 0 /\ given = 0 /\ synced = 0 /\ volume = 0
  /\ since = 0 /\ poolFaults = 0 /\ poolReconciles = 0
indexRests ==
  /\ holds = 0 /\ tip = 0 /\ checkpoint = 0 /\ owned = 0 /\ chunkSize = 0 /\ sync = 0
  /\ overlapped = 0 /\ indexFaults = 0

PartsInit ==
  /\ part \in {"account", "reader", "wallet", "snapshot", "pool", "index"}
  /\ IF part = "account" THEN Account!Init ELSE accountRests
  /\ IF part = "reader" THEN Reader!Init ELSE readerRests
  /\ IF part = "wallet" THEN Wallet!Init ELSE walletRests
  /\ IF part = "snapshot" THEN Snapshot!Init ELSE snapshotRests
  /\ IF part = "pool" THEN Pool!Init ELSE poolRests
  /\ IF part = "index" THEN Index!Init ELSE indexRests

PartsNext ==
  \/ /\ part = "account" /\ Account!Next
     /\ UNCHANGED <<part, readerVars, walletVars, snapshotVars, poolVars, indexVars>>
  \/ /\ part = "reader" /\ Reader!Next
     /\ UNCHANGED <<part, accountVars, walletVars, snapshotVars, poolVars, indexVars>>
  \/ /\ part = "wallet" /\ Wallet!Next
     /\ UNCHANGED <<part, accountVars, readerVars, snapshotVars, poolVars, indexVars>>
  \/ /\ part = "snapshot" /\ Snapshot!Next
     /\ UNCHANGED <<part, accountVars, readerVars, walletVars, poolVars, indexVars>>
  \/ /\ part = "pool" /\ Pool!Next
     /\ UNCHANGED <<part, accountVars, readerVars, walletVars, snapshotVars, indexVars>>
  \/ /\ part = "index" /\ Index!Next
     /\ UNCHANGED <<part, accountVars, readerVars, walletVars, snapshotVars, poolVars>>

PartsSpec == PartsInit /\ [][PartsNext]_partVars

---------------------------------------------------------------------------

\* The count of a scan is good only if none of its chains failed.
CountsAreHonest == part = "account" => Account!CountsAreHonest

\* What is answered as the position at a block is of that block in all its parts.
PositionOfOneBlock == part = "reader" => Reader!PositionOfOneBlock

\* Who waits for a read waits for one that is under way.
SharedReadsGoOn == part = "reader" => Reader!SharedReadsGoOn

\* The abort of a removed monitor fails only scans that had joined its read before.
AbortFailsOnlyJoiners == part = "wallet" => Wallet!AbortFailsOnlyJoiners

\* No scan is served a read older than the shortest interval.
ServedRecent == part = "wallet" => Wallet!ServedRecent

\* A good or empty snapshot leaves nothing out that the newest scans found.
GoodIsComplete == part = "snapshot" => Snapshot!GoodIsComplete

\* A monitor told to be synced up to a block has been given the events up to it.
SyncedMeansGiven == part = "pool" => Pool!SyncedMeansGiven

\* No event of the pool is passed over by all of its monitors.
NonePassedOver == part = "pool" => Pool!NonePassedOver

\* A volume is of all the swaps in its window.
VolumesAreComplete == part = "pool" => Pool!VolumesAreComplete

\* Where syncs do not overlap, the index says what the chain says.
IndexIsExact == part = "index" => Index!IndexIsExact
=============================================================================
