\* Three jobs, one of them joinable, and two events.
CONSTANTS
  Root = r
  MaxPermits = 1
  TokenSpace = 4
  Jobs = {r, a, b}
  Joinable = {a}
  MaxEvents = 2
  TotalEvents = 2
  Oneshots = {a}
SPECIFICATION FairSpec
INVARIANTS TypeOK TokenNamesTask NoLostWake QueuesServed BlockOnNeverPanics
PROPERTIES JobsFinish BlockOnReturns ImplementsWaker
CHECK_DEADLOCK FALSE
