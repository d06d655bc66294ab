SPECIFICATION Spec
CONSTANTS
  HarmDistance <- MCHarmDistance
  Texts <- MCTexts
  Content <- MCContent
  InviteTexts <- MCInviteTexts
  FamilyTemplates <- MCFamilyTemplates
  OwnRows <- MCOwnRows
  LocalRows <- MCLocalRows
  Required <- MCRequired
  MaxOwn <- MCMaxOwn
  MaxRuns = 2
  MaxOffers = 2
INVARIANTS
  MergeKeeps
  CurateIsAccepted
PROPERTIES
  HeldOutStaysOut
  NothingLost
CHECK_DEADLOCK FALSE
