CONSTANTS
  Workers = {w1, w2}
  Tasks = {k1, k2}
  NoTask = NoTask
  CoreThreads = 0
  MaxThreads = 1
SPECIFICATION FairSpec
PROPERTY TasksRun
CHECK_DEADLOCK FALSE
