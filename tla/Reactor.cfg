\* Two Sleeps of up to two ticks, two tasks, a timer one tick ahead.
CONSTANTS
  Sleeps = {s1, s2}
  Tasks = {t1, t2}
  Early = 1
  MaxDelay = 2
  MaxLag = 1
  MaxTime = 4
  MaxMoves = 1
  MaxSpurious = 1
SPECIFICATION FairSpec
INVARIANTS NothingPanics DueAtDeadline NoLostWake
PROPERTY SleepEnds
CHECK_DEADLOCK FALSE
