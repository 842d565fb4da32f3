SPECIFICATION Spec
CONSTANTS
  Layout <- MCLayout
  FirstText <- MCFirstText
  Phrases <- MCPhrases
  Titles <- MCTitles
  Across <- MCAcross
  Requirements <- MCRequirements
  Credentials <- MCCredentials
  Related <- MCRelated
  MaxEdits = 2
  MaxReports = 1
  MaxSets = 1
  MaxVersions = 3
INVARIANTS
  TypeOK
  VersionsFormAChain
  RefusedForOverlookedTextOnly
PROPERTIES
  NoEditIsLost
  RenderedIsReviewed
  NoAutomaticEdit
  ShowingNeverLowersTheMatch
CHECK_DEADLOCK FALSE
