SPECIFICATION FairSpec
CONSTANTS
  Request = {r1, r2, r3, r4}
  Key = {k1, k2}
  ConcurrentCallsLimit = 2
INVARIANTS
  TypeOK
  NoSendOnClosedChannel
  AtMostLimitInFlight
  QueuedOnlyBehindOwnKey
PROPERTY
  EverythingEnds
CHECK_DEADLOCK FALSE
