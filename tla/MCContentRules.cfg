SPECIFICATION ContentSpec
CONSTANTS
  Fold <- MCFold
  Cyrillic <- MCCyrillic
  Latin <- MCLatin
  Uppercase <- MCUppercase
  Digits = {"1"}
  Space = " "
  Blanks <- MCBlanks
  ZeroWidth <- MCZeroWidth
  Controls <- MCControls
  Separators <- MCSeparators
  Hyphen = "-"
  Underscore = "_"
  Emoji = {"em"}
  Links <- MCLinks
  Mentions <- MCMentions
  Address <- MCAddress
  SoftSign = "s"
  Typos <- MCTypos
  Stems <- MCStems
  Host <- MCHost
  Code <- MCCode
  Dictionary <- MCDictionary
  DiscordDomains <- MCDiscordDomains
  HarmDistance <- MCHarmDistance
  ClassNames <- MCClassNames
  Messages <- MCMessages
  Images <- MCImages
  SensitiveTexts <- MCTexts
  Lookups <- MCLookups
  RateLimit = 2
  RateWindow = 2
  MaxKeys = 2
  Keys = {"k1", "k2", "k3"}
  Waits = {0, 1}
  MaxArrivals = 6
INVARIANTS
  MessageRead
  EvidenceSurvives
  DetectionsAccounted
  TopicsJudged
  RatesKept
  PolicyFits
CHECK_DEADLOCK FALSE
