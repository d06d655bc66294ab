SPECIFICATION FairSpec
CONSTANTS
  Plans <- MCPlans
  Policies <- MCPolicies
  MaxAttempts = 3
  MaxRepeats = 2
  MaxFaults = 2
INVARIANTS
  PolicyRespected
  ReportHonest
PROPERTY Finishes
CHECK_DEADLOCK FALSE
