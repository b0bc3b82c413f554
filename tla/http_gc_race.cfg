SPECIFICATION Spec
CONSTANTS
  Conns = {c1}
  Objs = {o1, o2, o3}
  NoObj = NoObj
  NoConn = NoConn
  MaxChunk = 2
  MaxMsgs = 2
  MaxInc = 1
INVARIANT NumberingExact
CHECK_DEADLOCK FALSE
