SPECIFICATION FairSpec
CONSTANTS
  Workers = {w1, w2}
  Tasks <- TwoTasks
  Locks <- TwoLocks
  LockOf <- TwoLockOf
  Enforcer <- TwoTasks
  Delays = {1}
  MinBackoff = 1
  MaxBackoff = 1
  AllowLeap = FALSE
  MaxTime = 3
  MaxAsks = 2
PROPERTIES RequestsServed StopCompletes
