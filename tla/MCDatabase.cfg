CONSTANTS
  Width = 7
  NumHolders = 2
  MaxCommits = 2
  MaxRows = 4
  MaxCalls = 7
  NumThreads = 2
  Revisions = 8
  RU_COUNT = 1
  Capacity = 10
  Ahead = 1
  QWidth = 3
  QValues = {0, 1, 6}
  QLists <- MCClauses
  QSteps = 4
  WThreads = {"a", "b"}
  WTimeout = 2
  WUsleep = 1
  WPerSecond = 2
  WMaxTime = 5
  WMaxWrites = 3
  SessionScenarios <- MCDatabaseScenarios
SPECIFICATION DatabaseSpec
INVARIANTS RowsSound WalkComplete BackendsAgree WaitSound SessionsSound
PROPERTY ChangesOnlyItsOwn
CHECK_DEADLOCK FALSE
