SPECIFICATION Spec
CONSTANTS
  Runs = {run1, run2}
  Blocks = 1
  Driver = "postgres"
  OneClient = FALSE
  Timeouts = TRUE
  Crashes = TRUE
SYMMETRY RunSymmetry
INVARIANTS
  RunningJobHasRunner
  QuiescentDraftIsWhole
  AttemptsCountFailures
