CONSTANTS
  Readers = {r1}
  QueueLimit = 1
  MaxReports = 5
  FaultSets <- AnyFaults
SPECIFICATION FairSpec
INVARIANT NoLostWakeup
INVARIANT TransferFreedIdle
INVARIANT NoUseAfterFree
INVARIANT OpenHasTransfer
PROPERTY ImplementsQueue
PROPERTY CloseReturns
PROPERTY DisconnectEndsReads
PROPERTY DisconnectNoticed
CHECK_DEADLOCK FALSE
