SPECIFICATION FairSpec
CONSTANTS
  A = A
  B = B
  Things = {A, B}
  Places <- MCPlaces
  MaxCalls = 2
  MaxActs = 4
INVARIANTS
  TypeOK
  ReviewShowsItsDraft
PROPERTIES
  PollingEnds
CHECK_DEADLOCK FALSE
