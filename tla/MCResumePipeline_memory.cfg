SPECIFICATION FairSpec
CONSTANTS
  Runs = {run1, run2}
  Blocks = 2
  Driver = "memory"
  OneClient = FALSE
  Timeouts = FALSE
  Crashes = FALSE
INVARIANTS
  PromotionTakesOneWholeDraft
PROPERTIES
  JobSettles
