CONSTANTS
  Workers = {w1}
  Drudgers = {d1, d2}
  MaxBatch = 3
  MaxCount = 2
  MaxTries = 1
  MaxReloads = 1
  PoolThreads = {t1, t2, t3, t4}
  MaxViews = 3
SPECIFICATION SharedFairSpec
INVARIANTS JobsDone ContextsAlive InitialExclusive NoSleepOnFree
PROPERTIES BatchFinishes Woken
CHECK_DEADLOCK FALSE
