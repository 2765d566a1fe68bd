SPECIFICATION Spec
CONSTANTS
  Request = {r1, r2, r3}
  Key = {k1, k2}
  None = None
  CacheDuration = 2
  CleanUpPeriod = 1
  MaxTime = 4
SYMMETRY Symmetric
INVARIANTS
  TypeOK
  FetchedOnceWhileFresh
  NothingDroppedWhileFresh
  BlockedOnlyBySameKey
  SingleFlight
PROPERTIES
  CleanUpsSpaced
  ReadsNeverGoBack
  IsReadThroughCache
CHECK_DEADLOCK FALSE
