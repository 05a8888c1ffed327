CONSTANTS
  Lens = {1, 2}
  Size = 5
  Limit = 2
  MaxMsgs = 5
SPECIFICATION FairSpec
INVARIANTS OnceInOrder
PROPERTIES WrittenInTime StopReturns
CHECK_DEADLOCK FALSE
