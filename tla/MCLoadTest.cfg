SPECIFICATION FairLoadSpec
CONSTANTS
  w1 = w1
  w2 = w2
  Consumers <- MCConsumers
  TaskCount = 2
  BatchSize = 2
  MaxRepeats = 2
  MaxFaults = 2
INVARIANTS
  TasksAccounted
  EffectsPerDelivery
  TargetsTrusted
PROPERTY EveryTaskLeaves
CHECK_DEADLOCK FALSE
