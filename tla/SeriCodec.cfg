SPECIFICATION FairSpec
CONSTANTS
  Frame <- MCFrame
  Garbage = {3}
  MaxFrames = 3
  Skip = Skip
  Short = Short
INVARIANTS TypeOK WholeFramesDecoded IdAsLoopExpects CommandReturns
PROPERTY DecodeEnds
CHECK_DEADLOCK FALSE
