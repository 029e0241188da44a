SPECIFICATION Spec
CONSTANTS
  often = often
  seldom = seldom
  Monitors <- MCMonitors
  IntervalOf <- MCIntervalOf
  WindowsOf <- MCWindowsOf
  ConfirmationBlocks = 1
  LookbackBlocks = 1
  Runs = {1}
  ReadIds = {1, 2}
  MaxClock = 4
  MaxLag = 0
  MaxDisturbances = 0
INVARIANT
  SyncedMeansGiven
CHECK_DEADLOCK FALSE
