CONSTANTS
  IntMod = 64
  U64Mod = 1024
  NsPerMs = 6
  Divisors <- SomeDivisors
  Calls <- GoodCalls
  StartTimes = {48, 62, 70, 118}
  MaxNow = 132
  MaxDelay = 2
  FrameReports = 2
  MaxQueued = 1
  ReportKinds = {"touch", "other", "broken"}
SPECIFICATION Spec
INVARIANT InTime
INVARIANT NotEarly
INVARIANT NonblockingReturns
INVARIANT EndsWithImage
CHECK_DEADLOCK FALSE
