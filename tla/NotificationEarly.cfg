\* One pair, whose sender may be faster than the first poll.
CONSTANTS
  Pairs = {n1}
  MaxSpuriousPolls = 0
SPECIFICATION NfFairSpec
PROPERTY NotifyArrives
CHECK_DEADLOCK FALSE
