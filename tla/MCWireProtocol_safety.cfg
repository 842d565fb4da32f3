SPECIFICATION Spec
CONSTANTS
  CallCount = 3
  Timeouts = TRUE
INVARIANTS
  TypeOK
  CleanConnectionAnswersOwn
PROPERTIES
  LagIsPermanent
  TransactionsDoNotMix
CHECK_DEADLOCK FALSE
