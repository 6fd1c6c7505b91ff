CONSTANTS
  MaxSend = 2
  MaxSent = 3
  MaxClose = 2
SPECIFICATION Spec
INVARIANT InOrder
CHECK_DEADLOCK FALSE
