SPECIFICATION Spec
CONSTANTS
  Thread = {worker, successor, handler}
  worker = worker
  successor = successor
  handler = handler
  owner = owner
  Unnamed = Unnamed
  None = None
  Home <- MCHome
  Upserts <- MCUpserts
INVARIANT
  EveryDeletionVisible
CHECK_DEADLOCK FALSE
