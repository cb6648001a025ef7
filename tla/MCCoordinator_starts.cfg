SPECIFICATION Spec
CONSTANTS
  o1 = o1
  o2 = o2
  stop = stop
  keep = keep
  None = None
  MaxCalls = 2
  MaxFaults = 1
  Ops = {o1}
  Targets = {stop, keep}
  Continue = {keep}
  EntryTarget = keep
INVARIANTS OperationIdempotent DisconnectReachesEveryRun
  FailedStartLeavesNoRun RegisteredWhileNeeded NoStartForgotten
CHECK_DEADLOCK FALSE
