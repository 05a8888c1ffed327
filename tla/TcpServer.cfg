CONSTANTS
  MaxThreads = 2
  FdLimit = 3
  MaxOther = 1
  MaxConns = 2
SPECIFICATION FairSpec
INVARIANTS FreedDisconnected RemovalFindsConnection
PROPERTIES BacklogDrains Released
CHECK_DEADLOCK FALSE
