CONSTANTS
  N = 2
  IntBits = 3
  SizeBits = 4
SPECIFICATION Spec
INVARIANT StopMeansStopped
CHECK_DEADLOCK FALSE
