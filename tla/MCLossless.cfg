CONSTANTS
  ImageLen = 4
  RunMark = 2
  MinRun = 2
  Timestamps = {0, 1}
  MaxLength = 4
  HeaderBytes = 1
  BufferBytes = 4
  Images <- MCImages
  MaxData = 2
  MaxFrames = 2
  MaxLost = 0
SPECIFICATION FairPipeSpec
PROPERTY ImplementsDelivery
CHECK_DEADLOCK FALSE
