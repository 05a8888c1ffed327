CONSTANTS
  Threads = {t1, t2}
  MaxCalls = 2
  Ids = 2
  Kinds = {"ok", "NO_METHOD"}
  Sizes = {1, 3}
  kMaxMessageLen = 4
  Goods = {TRUE, FALSE}
SPECIFICATION FairSpec
INVARIANT RightResponse
PROPERTIES CallsComplete
CHECK_DEADLOCK FALSE
