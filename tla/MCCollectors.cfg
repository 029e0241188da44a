SPECIFICATION PartsSpec
CONSTANTS
  eth = eth
  base = base
  e1 = e1
  e2 = e2
  b1 = b1
  Chains <- MCChains
  Market = eth
  Endpoints <- MCEndpoints
  AccountStale = 0
  AccountWindows <- MCAccountWindows
  LeastHistory = 1
  WalletMonitors <- MCWalletMonitors
  WalletIntervalOf <- MCWalletIntervalOf
  Tokens <- MCTokens
  Valued <- MCTokens
  PoolMonitors <- MCPoolMonitors
  PoolIntervalOf <- MCPoolIntervalOf
  WindowsOf <- MCWindowsOf
  PoolRuns <- MCPoolRuns
  PoolReadIds <- MCPoolReadIds
  MaximumAttempts = 2
  FailureThreshold = 2
  Cooldown = 1
  Interval = 0
  Calls = {"c1", "c2"}
  SharedTtl = 1
  OwnerTtl = 1
  MaxHead = 1
  m1 = m1
  m2 = m2
  Token = "t"
  ClosedRefresh = 2
  Versions = {"v3", "v4"}
  MaxDelay = 1
  MaxForgets = 1
  ConfirmationBlocks = 1
  LookbackBlocks = 1
  Syncs = {"scan", "request"}
  Confirmations = 1
  ChunkSize = 2
  MinimumChunkSize = 1
  MaximumChunksPerSync = 2
  MaxTip = 3
  MaxStale = 1
  MaxClock = 3
  MaxReadClock = 2
  MaxLag = 0
  MaxFaults = 1
  MaxReconciles = 2
  MaxDisturbances = 1
INVARIANTS
  CountsAreHonest
  PositionOfOneBlock
  SharedReadsGoOn
  AbortFailsOnlyJoiners
  ServedRecent
  GoodIsComplete
  NonePassedOver
  VolumesAreComplete
  IndexIsExact
CHECK_DEADLOCK FALSE
