SPECIFICATION PartsSpec
CONSTANTS
  t1 = t1
  t2 = t2
  Ids <- MCIds
  Monitors <- MCMonitors
  Profile <- MCProfile
  Logs <- MCLogs
  MaxRegistrations = 4
  pool = pool
  account = account
  usdc = usdc
  weth = weth
  wallet = wallet
  ConfirmationBlocks = 1
  ReorgRewindBlocks = 1
  InitialLookbackBlocks = 1
  BlockChunkSize = 2
  MaxTip = 4
  MaxLag = 1
  MaxReorgs = 1
  MaxDisturbances = 2
INVARIANTS
  CloseWaitsForAll
  CursorCovers
PROPERTIES
  PollsForever
  EventsArrive
  FailedIsRetried
CHECK_DEADLOCK FALSE
