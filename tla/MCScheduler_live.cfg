SPECIFICATION Spec
CONSTANTS
  r1 = r1
  r2 = r2
  b1 = b1
  b2 = b2
  None = None
  Runs = {r1, r2}
  Blocks = {b1}
  IdleTimeout = 1
  SendInterval = 1
  MaxBatchBytes = 2
  AtomicTexts = {1}
  StartShapes <- MCShapes
  FinishTexts = {0}
  MaxFrames <- MCLive
INVARIANT SealedResponseComplete
PROPERTY EverythingIsSaid
CHECK_DEADLOCK FALSE
