---------------------------- MODULE MCScheduler ----------------------------
(* Two owners with a task each.                                            *)
EXTENDS Scheduler, TLC

TwoTasks == {"enforce_a", "enforce_b"}
TwoLocks == {"lock_a", "lock_b"}
TwoLockOf == [t \in TwoTasks |-> IF t = "enforce_b" THEN "lock_b" ELSE "lock_a"]

\* a task of each class: the library serves both daemons, and this is every way
\* in which its treatment of the classes can differ
FirstOnly == {"enforce_a"}

Symmetry == Permutations(Workers)
============================================================================
