SPECIFICATION FairSpec
CONSTANTS
  None = None
  a1 = a1
  a2 = a2
  Alerts <- MCAlerts
  TargetsOf <- MCTargetsOf
  MaxAttempts = 2
  MaxBatch = 2
  Lease = 1
  Backoff <- MCBackoff
  RetryAfters <- MCRetryAfters
  LegacyDue <- MCLegacyDue
  MaxDisruptions = 1
INVARIANTS
  IndexCoversTargets
  DuplicatesNeedAFault
  StopsBetweenRequests
  PollingContinues
PROPERTIES
  EveryTargetFinishes
