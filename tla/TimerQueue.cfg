CONSTANTS
  Callers = {c1}
  Addrs = {1, 2}
  Delays = {3}
  Whens = {0}
  MaxSeq = 2
  MaxQueue = 1
  MaxTime = 3
  MaxBack = 1
SPECIFICATION FairSpec
INVARIANTS OneOwner NoMissedTimer CancelledStaysSilent
PROPERTIES TimerFires
