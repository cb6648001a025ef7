SPECIFICATION Spec
CONSTANTS
  d1 = d1
  d2 = d2
  r1 = r1
  r2 = r2
  None = None
  Declarations = {d1, d2}
  Secretive = {d1}
  Resolutions = {1, 2}
  Requests = {r1, r2}
  MaxCalls = 4
  MaxFaults = 2
INVARIANTS ShownIsTrue InstallKeepsPromise NoCircularWait
SYMMETRY RequestSymmetry
CHECK_DEADLOCK FALSE
