CONSTANTS
  Base = 2
  Byte = {0, 1}
  Zero = 0
  kCheapPrepend = 2
  kInitialSize = 2
  ExtraSize = 2
  MaxLen = 3
  MaxSize = 8
  Widths = {1, 2}
  MaxInts = 2
  FirstYear = 1970
  LastYear = 2200
  Starts <- MCStarts
  Amounts <- MCAmounts
  MaxAdditions = 2
  Threads = {t1, t2}
  Items <- MCItems
  LevelsUsed = {1, 4}
  LevelsSet = {3}
  MaxLines = 2
  MaxItems = 1
  Factories = {"f1", "f2", "f3"}
  Offers <- MCOffers
  MaxOffers = 8
  Programs = {p1, p2}
  kRollPerSeconds = 2
  RollSize = 0
  DelDays = 2
  MaxClock = 8
  MaxClockBack = 6
  MaxMessages = 2
  MaxBack = 1
  Backs = 1
  MaxSweep = 0
  iFloatMaxStrLen = 9
  iDoubleMaxStrLen = 11
SPECIFICATION MCSpec
INVARIANTS ContentsKept ReadsAsPut CalendarRight LinesComeOut Retention FirstRegisteredAnswers
CHECK_DEADLOCK FALSE
SYMMETRY Permuted
