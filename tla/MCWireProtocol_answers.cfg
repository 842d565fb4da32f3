SPECIFICATION Spec
CONSTANTS
  CallCount = 3
  Timeouts = FALSE
INVARIANTS
  AnswersAreOwn
CHECK_DEADLOCK FALSE
