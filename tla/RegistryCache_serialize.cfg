SPECIFICATION Spec
CONSTANTS
  Request = {r1, r2, r3, r4}
  Key = {k1}
  None = None
  CacheDuration = 1
  CleanUpPeriod = 1
  MaxTime = 3
SYMMETRY Symmetric
INVARIANT
  SerializedPerKey
CHECK_DEADLOCK FALSE
