CONSTANTS
  Conns = {c1, c2}
  MaxThreadNum = 2
SPECIFICATION ServerSpec
INVARIANT AcceptedWhileRunning
CHECK_DEADLOCK FALSE
