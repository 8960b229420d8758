CONSTANTS
  RingSize = 2
  MaxReports = 5
  FaultSets <- AnyFaults
SPECIFICATION FairSpec
INVARIANT Releases
INVARIANT RequestTracked
INVARIANT EachReportOnce
INVARIANT NothingPendingWhenFreed
PROPERTY UnplugEndsReads
CHECK_DEADLOCK FALSE
