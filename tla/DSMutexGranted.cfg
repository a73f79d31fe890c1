\* A task and a thread whose methods run to their end, twice each, fairly.
CONSTANTS
  Tasks = {t1}
  Threads = {h1}
  Interruptible = FALSE
  MaxRounds = 2
  MaxSpurious = 0
SPECIFICATION FairSpec
PROPERTY LockGranted
CHECK_DEADLOCK FALSE
