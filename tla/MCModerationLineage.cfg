SPECIFICATION Spec
CONSTANTS
  x = x
  m1 = m1
  m2 = m2
  r1 = r1
  r2 = r2
  e1 = e1
  a = a
  b = b
  k = k
  NoKey = NoKey
  NoAction = NoAction
  Messages <- MCMessages
  Moderations <- MCModerations
  About <- MCAbout
  Key <- MCKey
  Reporters <- MCReporters
  Executors <- MCExecutors
  Actions <- MCActions
  MaxRuns = 2
  MaxAttempts = 2
  MaxFaults = 2
SYMMETRY MCSymmetry
INVARIANTS
  LineageSound
  FeedbackKept
CHECK_DEADLOCK FALSE
