\* Two tasks and a thread whose methods run to their end, twice each.
CONSTANTS
  Tasks = {t1, t2}
  Threads = {h1}
  Interruptible = FALSE
  MaxRounds = 2
  MaxSpurious = 1
SPECIFICATION Spec
INVARIANTS MutualExclusion LockWordCounts
CHECK_DEADLOCK FALSE
