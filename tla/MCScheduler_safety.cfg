SPECIFICATION Spec
CONSTANTS
  r1 = r1
  r2 = r2
  b1 = b1
  b2 = b2
  None = None
  Runs = {r1, r2}
  Blocks = {b1, b2}
  IdleTimeout = 1
  SendInterval = 1
  MaxBatchBytes = 2
  AtomicTexts = {3}
  StartShapes <- MCBounded
  FinishTexts = {0}
  MaxFrames <- MCInterrupted
INVARIANTS SegmentsNeverInterleave TextConserved
SYMMETRY BlockSymmetry
CHECK_DEADLOCK FALSE
