CONSTANTS
  N = 3
  IntBits = 3
  SizeBits = 8
  Conns = {c1, c2}
  WheelConns = {c1, c2}
  MaxThreadNum = 2
  Slots = 2
  MaxMsg = 2
  Capacity = 3
  MaxNotify = 8
  MaxFire = 3
  MaxCancel = 3
SPECIFICATION MCSpec
INVARIANTS PoolIndex PoolStops TableIsKept ServerAborts ExpiresOnTime WheelFaults TimerFaults WatcherIsSound
PROPERTIES LoopsAnswer ConnectionsSettle WheelCloses CancelWorks
CHECK_DEADLOCK FALSE
