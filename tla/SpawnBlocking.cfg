\* One blocking function, two tasks that may own its future.
CONSTANTS
  Tasks = {t1, t2}
  NoTask = NoTask
  Value = v
  NoValue = none
  MaxMoves = 2
  MaxSpurious = 2
SPECIFICATION SBFairSpec
INVARIANTS NoDataRace Delivered NoLostWake
INVARIANTS ClosureFreedOnce HandleFreedOnce JoinGetsResult
PROPERTY BlockingCompletes
CHECK_DEADLOCK FALSE
