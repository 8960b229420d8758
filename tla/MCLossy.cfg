CONSTANTS
  ImageLen = 4
  RunMark = 2
  MinRun = 2
  Timestamps = {0, 1}
  MaxLength = 4
  HeaderBytes = 1
  BufferBytes = 4
  Images <- MCImages
  MaxData = 1
  MaxFrames = 3
  MaxLost = 2
SPECIFICATION PipeSpec
INVARIANT OnlyEqualStampsMerge
INVARIANT IntactFrameDelivered
CHECK_DEADLOCK FALSE
