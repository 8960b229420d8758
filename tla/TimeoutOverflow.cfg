CONSTANTS
  IntMod = 64
  U64Mod = 1024
  NsPerMs = 6
  Divisors <- OneDivisor
  Calls <- OverflowingCalls
  StartTimes = {1}
  MaxNow = 20
  MaxDelay = 2
  FrameReports = 2
  MaxQueued = 2
  ReportKinds = {"touch"}
SPECIFICATION Spec
INVARIANT NotEarly
CHECK_DEADLOCK FALSE
