CONSTANTS
  Loop = Loop
  Others = {o1}
  Creator = o1
  Tasks = {k1}
  Stop = Stop
  NoItem = NoItem
  MaxStops = 1
SPECIFICATION FairSpec
PROPERTY StopExits
CHECK_DEADLOCK FALSE
