SPECIFICATION FairSpec
CONSTANTS
  A = A
  B = B
  Things = {A, B}
  Places <- MCUploadPlaces
  MaxCalls = 2
  MaxActs = 5
PROPERTIES
  ApprovedWasShown
CHECK_DEADLOCK FALSE
