\* Two files and two workers, one of which may die; three operations.
\* The pool's semaphore does not saturate: there are two futures at most.
CONSTANTS
  Files = {f1, f2}
  Workers = {w1, w2}
  MaxOps = 3
  MaxLen = 1
  MaxSpurious = 1
  MaxDeaths = 1
  MaxPermits = 2
SPECIFICATION FairSpec
INVARIANTS TypeOK OpInOnePlace ReturnsOutcome
PROPERTIES CursorFollowsTransfer OpsComplete
CHECK_DEADLOCK FALSE
