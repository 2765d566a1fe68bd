SPECIFICATION Spec
CONSTANTS
  Thread = {worker, successor, handler}
  worker = worker
  successor = successor
  handler = handler
  owner = owner
  Unnamed = Unnamed
  None = None
  Home <- MCHome
  Upserts <- MCUpserts
INVARIANTS
  TypeOK
  NothingRecordedIsLost
CHECK_DEADLOCK FALSE
