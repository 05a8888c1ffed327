CONSTANTS
  MaxCalls = 3
  MaxTries = 5
SPECIFICATION FairSpec
INVARIANTS OneSafeAttempt StopIsFinal
PROPERTIES GetsConnected
CHECK_DEADLOCK FALSE
