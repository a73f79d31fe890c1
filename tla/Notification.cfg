\* Two pairs whose waiters share the executor's thread.
CONSTANTS
  Pairs = {n1, n2}
  MaxSpuriousPolls = 1
SPECIFICATION NfFairSpec
INVARIANT NfTypeOK
PROPERTIES RegisteredIsNotified ReadyIsFinal
CHECK_DEADLOCK FALSE
