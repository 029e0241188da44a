SPECIFICATION FairSpec
CONSTANTS
  None = None
  btc = btc
  eth = eth
  Markets <- MCMarkets
  Windows <- MCWindows
  Retention = 2
  MaxStale = 0
  Delays <- MCDelays
  MaxObjects = 2
  MaxStops = 1
INVARIANTS
  PricesOfOneMarket
  RestartLosesNothing
PROPERTIES
  ClosedWritesNothing
  WindowsFill
