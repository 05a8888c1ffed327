SPECIFICATION Spec
CONSTANTS
  Lens = {2}
  Size = 6
  Limit = 2
  MaxMsgs = 3
INVARIANTS AllOutput
CHECK_DEADLOCK FALSE
