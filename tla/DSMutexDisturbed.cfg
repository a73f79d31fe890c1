\* A task and a thread of another core.
CONSTANTS
  Tasks = {t1}
  Threads = {h1}
  Interruptible = TRUE
  MaxRounds = 2
  MaxSpurious = 0
SPECIFICATION Spec
INVARIANT MutualExclusion
CHECK_DEADLOCK FALSE
