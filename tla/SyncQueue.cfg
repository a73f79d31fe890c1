\* Two consumers that drain or take, and a semaphore that saturates.
CONSTANTS
  Producers = {p1, p2, p3}
  Consumers = {c1, c2}
  MaxAdds = 2
  MaxPermits = 2
SPECIFICATION SQFairSpec
INVARIANTS NothingStranded PermitAccounting ExactlyOnce
PROPERTY RemovedInTheEnd
CHECK_DEADLOCK FALSE
