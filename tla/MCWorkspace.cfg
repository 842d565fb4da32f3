SPECIFICATION Spec
CONSTANTS
  Calls = {call1, call2, call3}
  Seed = Seed
  Driver = "postgres"
  MaxOpen = 2
  MaxFailures = 1
  Addresses = {home, fresh}
  Home = home
  Files = {cv}
  Store = "filesystem"
  Texts = {posting}
  Requirements = 1
  Keywords = 1
  Statuses = {"draft", "applied"}
  Artifacts = {"rendered"}
SYMMETRY Symmetry
INVARIANTS
  TypeOK
  SessionsCanLogInAgain
  StoredFileIsWhole
  UploadsBelongTogether
  HalfMadeIsExplained
  UndisturbedHistoryTellsStatus
PROPERTIES
  LoggedOutSessionOpensNothing
CHECK_DEADLOCK FALSE
