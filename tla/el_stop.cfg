CONSTANTS
  Loop = Loop
  Others = {o1, o2}
  Creator = Loop
  Tasks = {k1, k2}
  Stop = Stop
  NoItem = NoItem
  MaxStops = 2
SPECIFICATION Spec
SYMMETRY Symmetry
INVARIANTS DrainedBeforeExit Affinity ExactlyOnce
CHECK_DEADLOCK FALSE
