SPECIFICATION Spec
CONSTANTS
  Runs = {run1, run2, run3}
  Blocks = 2
  Driver = "postgres"
  OneClient = TRUE
  Timeouts = FALSE
  Crashes = TRUE
INVARIANTS
  TypeOK
  SucceededJobHasItsDraft
PROPERTIES
  ImplementsLifecycle
