SPECIFICATION Spec
CONSTANTS
  c1 = c1
  c2 = c2
  c3 = c3
  p1 = p1
  p2 = p2
  a = a
  b = b
  Default = Default
  Callers <- MCCallers
  Processes <- MCProcesses
  Where <- MCWhere
  Policies <- MCPolicies
  MaxAttempts = 2
  MaxLost = 2
SYMMETRY MCSymmetry
INVARIANTS
  AuditComplete
  FreshResponse
PROPERTY NoLostUpdate
CHECK_DEADLOCK FALSE
