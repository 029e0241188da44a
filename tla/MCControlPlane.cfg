SPECIFICATION PartsSpec
CONSTANTS
  chain = chain
  CallChains <- MCCallChains
  CapabilitiesOf <- MCCapabilitiesOf
  Kinds <- MCKinds
  ChainOf <- MCChainOf
  Calls = {"a", "b"}
  ResponseTtl = 1
  CatalogTtl = 1
  m1 = m1
  m2 = m2
  rpc = rpc
  market = market
  Monitors <- MCMonitors
  KindOf <- MCKindOf
  Integrations <- MCIntegrations
  MarketData <- MCMarketData
  Chains = {1, 2}
  Tokens = {1, 2}
  Positions <- MCPositions
  Requests = {"a", "b"}
  Symbols = {"A", "B"}
  Bases = {"stock"}
  Settings = {1}
  MaxLoads = 1
  MaxAge = 1
  MaxBackoff = 1
  MaxClock = 1
  MaxCallChanges = 1
  MaxChanges = 2
  MaxFaults = 1
CONSTRAINT OneSortAtATime
INVARIANTS
  
  SharedIsUnderWay
  ReferencesExist
  OnlyOverlapsMix
  NoPlaceIsLost
  KnownIsStored
  ShownIsConfigured
CHECK_DEADLOCK FALSE
