CONSTANTS
  Workers = {w1, w2}
  Clients = {c1, c2}
  MaxTaskNum = 2
  MaxTasks = 3
SPECIFICATION FairSpec
INVARIANTS NotifyOneSuffices
PROPERTIES AllDone StopReturns
CHECK_DEADLOCK FALSE
