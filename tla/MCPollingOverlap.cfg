SPECIFICATION Spec
CONSTANTS
  t1 = t1
  t2 = t2
  Ids <- MCIds
  MaxRegistrations = 2
INVARIANT
  NoOverlapPerTask
CHECK_DEADLOCK FALSE
