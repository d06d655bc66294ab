SPECIFICATION FairMediaSpec
CONSTANTS
  r1 = r1
  r2 = r2
  m1 = m1
  Nobody = Nobody
  Requests <- MCRequests
  Messages <- MCMessages
  About <- MCAbout
  Contents <- MCContents
  Size <- MCSize
  MaxAttachments = 2
  MaxTotal = 3
  Configs <- MCConfigs
  MediaPolicies <- MCMediaPolicies
  Permits <- MCPermits
  Loads <- MCLoads
  MaxFaults = 1
PROPERTY OcrMaterialExpires
CHECK_DEADLOCK FALSE
