SPECIFICATION Spec
CONSTANTS
  c1 = c1
  c2 = c2
  None = None
  Cleaners = {c1, c2}
  MaxLifecycles = 2
  MaxRuns = 2
  MaxNew = 1
  Histories = {0, 1, 2}
  Retained = 1
  MaxCalls <- MCCalls
  Outcomes = {"success"}
  MaxFaults = 1
INVARIANTS RecordOutlivesData NewestKept
PROPERTY OnlyLateRunsLost
SYMMETRY CleanerSymmetry
CHECK_DEADLOCK FALSE
