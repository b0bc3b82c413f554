SPECIFICATION Spec
CONSTANTS
  Conns = {c1}
  MaxBuffer = 2
  ChannelBuffer = 2
  MaxSegment = 2
  MaxUnits = 3
  MaxInc = 2
  Scripts <- ShortScripts
  Window = 2
  NoParser = NoParser
INVARIANTS RTypeOK InOrder NothingMissing MarkerLast NumberingExact AllReported
CHECK_DEADLOCK FALSE
