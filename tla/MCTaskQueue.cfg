SPECIFICATION FairSpec
CONSTANTS
  t1 = t1
  t2 = t2
  t3 = t3
  w1 = w1
  w2 = w2
  NoTask = NoTask
  Tasks <- MCTasks
  Workers <- MCWorkers
  Priority <- MCPriority
  MaxSize = 1
  MaxAttempts = 2
  MaxStarts = 2
INVARIANTS
  Accounted
  OnlyShutdownLoses
PROPERTY EveryTaskSettles
CHECK_DEADLOCK FALSE
