\* Two sockets (two streams, or a listener and what it accepts), two tasks.
CONSTANTS
  Sockets = {1, 2}
  Fds = {1, 2}
  BadFd = bad
  Addrs <- MCAddrs
  MaxFaults = 1
  Tasks = {1, 2}
  MaxOps = 2
  MaxRx = 1
  MaxPermits = 1
SPECIFICATION FairSpec
INVARIANTS TypeOK HandlesMatchFds AddressIsThePeers
INVARIANTS NoInterestLost WorkerHasItsFd ClosedWithLastOwner
PROPERTY ReadinessServed
CHECK_DEADLOCK FALSE
