SPECIFICATION Spec
CONSTANTS
  e = e
  c1 = c1
  c2 = c2
  None = None
  Runs = {e, c1, c2}
  Entry = e
  IdleTimeout = 1
  SendInterval = 1
  MaxBatchBytes = 2
  Requests <- MCRequests
INVARIANTS NothingLost SealIsFinal NoSleepOnDueOutput
PROPERTY CompletionEnds
CHECK_DEADLOCK FALSE
