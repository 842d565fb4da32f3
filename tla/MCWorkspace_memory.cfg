SPECIFICATION Spec
CONSTANTS
  Calls = {call1, call2, call3}
  Seed = Seed
  Driver = "memory"
  MaxOpen = 3
  MaxFailures = 0
  Addresses = {home, fresh}
  Home = home
  Files = {cv}
  Store = "minio"
  Texts = {posting}
  Requirements = 1
  Keywords = 1
  Statuses = {"draft", "applied", "rejected"}
  Artifacts = {"rendered"}
SYMMETRY Symmetry
INVARIANTS
  OneAccountPerAddress
  AnswersAreWhole
CHECK_DEADLOCK FALSE
