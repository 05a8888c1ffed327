CONSTANTS
  MaxText = 4
  MaxArg = 2
  MaxGrown = 8
  SizeMod = 256
  Channels = {"c1", "c2"}
  Fds = {1, 2}
  Conditions = {"in", "hup"}
  kInitEventListSize = 1
SPECIFICATION MCSpec
INVARIANT ChannelsAgree
PROPERTIES CallsReturn DataIsRead
CHECK_DEADLOCK FALSE
