SPECIFICATION Spec
CONSTANTS
  Labels <- MCLabels
  LabelOrder <- MCLabelOrder
  ModelSeverity <- MCModelSeverity
  ModelThreshold <- MCModelThreshold
  Rules <- MCRules
  DecisionPolicies <- MCPolicies
  Matches <- MCMatches
  Classifications <- MCClassifications
  Authors <- MCAuthors
  OtherSignals <- MCOther
  MaxMatches = 2
  MaxSignals = 4
  MaxLinks = 1
INVARIANTS
  JudgementSound
  Consistent
PROPERTY EvidenceNeverLowersRisk
CHECK_DEADLOCK FALSE
