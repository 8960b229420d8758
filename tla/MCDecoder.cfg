CONSTANTS
  ImageLen = 5
  RunMark = 2
  MinRun = 3
  Timestamps = {0, 1}
  MaxLength = 6
  HeaderBytes = 1
  BufferBytes = 4
SPECIFICATION Spec
INVARIANT TypeOK
INVARIANT NoDanglingRunMark
INVARIANT SingleTimestamp
INVARIANT ReadInBuffer
