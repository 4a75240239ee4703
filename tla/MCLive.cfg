CONSTANTS
  KeyIds = {1, 2, 3}
  AlgorithmOf <- OneAndOther
  Scenarios <- Keeping
  NumThreads = 2
  Revisions = 3
  RU_COUNT = 1
  Capacity = 2
  Ahead = 1
  SessionScenarios <- LiveSessions
SPECIFICATION LiveSpec
CHECK_DEADLOCK FALSE
PROPERTIES Retired RollServed
