CONSTANTS
  Loop = Loop
  Others = {o1, o2}
  Creator = Loop
  Tasks = {k1, k2}
  Stop = Stop
  NoItem = NoItem
  MaxStops = 1
SPECIFICATION FairSpec
INVARIANTS NoLostWakeup QueueIsFaithful
PROPERTIES Delivered StopExits
CHECK_DEADLOCK FALSE
