CONSTANTS
  Readers = {r1, r2}
  QueueLimit = 0
  MaxReports = 3
  FaultSets <- AnyFaults
SPECIFICATION FairSpec
PROPERTY ImplementsQueue
INVARIANT NoLostWakeup
INVARIANT RunLoopValid
INVARIANT NoCloseWhenGone
INVARIANT NoUseAfterFree
PROPERTY CloseReturns
PROPERTY DisconnectEndsReads
CHECK_DEADLOCK FALSE
