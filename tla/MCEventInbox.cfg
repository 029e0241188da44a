SPECIFICATION FairSpec
CONSTANTS
  None = None
  e1 = e1
  e2 = e2
  r1 = r1
  r2 = r2
  Events <- MCEvents
  Rules <- MCRules
  Timeout = 1
  MaxQueue = 2
  MaxFailures = 1
  MaxCrashes = 1
PROPERTIES
  EffectsOnce
  RedeliveryIsProcessed
