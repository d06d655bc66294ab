SPECIFICATION FairSpec
CONSTANTS
  s1 = s1
  t1 = t1
  x1 = x1
  p1 = p1
  NoCaller = NoCaller
  Callers <- MCCallers
  Kind <- MCKind
  MaxAttempts = 2
  MaxFaults = 2
INVARIANTS
  SharedSafely
  NoAbandonedTransaction
PROPERTY EveryCallEnds
CHECK_DEADLOCK FALSE
