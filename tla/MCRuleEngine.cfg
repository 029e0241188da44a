SPECIFICATION Spec
CONSTANTS
  None = None
  c1 = c1
  c2 = c2
  e1 = e1
  Conditions <- MCConditions
  Metrics <- MCMetrics
  EventMetrics <- MCEventMetrics
  DataAgeMetrics <- MCDataAgeMetrics
  Definitions <- MCDefinitions
  Durations <- MCDurations
  Cooldowns <- MCCooldowns
  Samples <- MCSamples
  Lags <- MCLags
  EventIds <- MCEventIds
  MaxStale = 1
  MaxTime = 2
  MaxAlerts = 2
  MaxPatches = 1
INVARIANTS
  AlertsClosedWhenArmed
  OldEventsNeverDecide
PROPERTIES
  TriggerIsEarned
  RemindersRespectCooldown
  UnknownNeverDecides
