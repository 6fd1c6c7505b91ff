CONSTANTS
  MaxSend = 2
  MaxSent = 3
  MaxClose = 2
SPECIFICATION FairSpec
INVARIANTS StreamIsTrue WritableIffPending ClosedUse
PROPERTY ClosedIsRemoved
CHECK_DEADLOCK FALSE
