CONSTANTS
  Workers = {w1, w2, w3, w4}
  Tasks = {k1, k2, k3}
  NoTask = NoTask
  CoreThreads = 1
  MaxThreads = 2
SPECIFICATION FairSpec
INVARIANTS NoStrandedTask CountersAgree WithinLimits DestroyedClean
PROPERTIES TasksRun DestroyReturns
CHECK_DEADLOCK FALSE
