SPECIFICATION FairSpec
CONSTANTS
  Request = {r1, r2, r3}
  Key = {k1}
  None = None
  CacheDuration = 1
  CleanUpPeriod = 1
  MaxTime = 3
PROPERTY
  EverythingEnds
CHECK_DEADLOCK FALSE
