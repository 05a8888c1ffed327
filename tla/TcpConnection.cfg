CONSTANTS
  Users = {u1}
  HighWater = 3
  MaxOps = 2
  MaxReads = 1
SPECIFICATION FairSpec
INVARIANTS OutputThenFin UpThenDown RegisteredMeansAlive
PROPERTIES CloseCompletes
CHECK_DEADLOCK FALSE
