SPECIFICATION Spec
CONSTANTS
  Conns = {c1}
  MaxBuffer = 2
  ChannelBuffer = 8
  MaxSegment = 2
  MaxUnits = 5
  MaxInc = 1
  Scripts <- LongResponse
  Window = 2
  NoParser = NoParser
INVARIANT PairsMatch
CHECK_DEADLOCK FALSE
