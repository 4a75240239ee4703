SPECIFICATION Spec
CONSTANTS
  Workers = {w1, w2}
  Tasks <- TwoTasks
  Locks <- TwoLocks
  LockOf <- TwoLockOf
  Enforcer <- FirstOnly
  Delays = {1}
  MinBackoff = 1
  MaxBackoff = 2
  AllowLeap = TRUE
  MaxTime = 3
  MaxAsks = 2
SYMMETRY Symmetry
INVARIANTS MutualExclusion RequestsKept
PROPERTY NeverPostponed
CHECK_DEADLOCK FALSE
