SPECIFICATION FairSpec
CONSTANTS
  r1 = r1
  r2 = r2
  r3 = r3
  w1 = w1
  w2 = w2
  NoRequest = NoRequest
  Requests <- MCRequests
  Workers <- MCWorkers
  MaxSize = 2
  MaxAttempts = 2
  MaxStarts = 2
INVARIANT Accounted
PROPERTIES
  KeepsPromise
  NobodyHangs
CHECK_DEADLOCK FALSE
