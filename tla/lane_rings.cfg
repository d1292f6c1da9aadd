SPECIFICATION FairSpec
CONSTANTS
  NumLanes = 2
  Capacity = 4
  FrameSize = 2
  MaxBlock = 3
  MaxOffered = 6
INVARIANTS
  NoSampleIsShared
PROPERTIES
  IsFrameQueue
  FramesAreRead
