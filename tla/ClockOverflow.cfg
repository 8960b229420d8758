CONSTANTS
  IntMod = 64
  U64Mod = 1024
  NsPerMs = 6
  Divisors <- WindowsDivisors
  Calls <- WindowsCalls
  StartTimes = {62}
  MaxNow = 100
  MaxDelay = 2
  FrameReports = 2
  MaxQueued = 1
  ReportKinds = {"touch"}
SPECIFICATION Spec
INVARIANT WithinTimeout
CHECK_DEADLOCK FALSE
