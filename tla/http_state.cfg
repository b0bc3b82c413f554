SPECIFICATION FairSpec
CONSTANTS
  Conns = {c1}
  Objs = {o1, o2, o3, o4}
  NoObj = NoObj
  NoConn = NoConn
  MaxChunk = 2
  MaxMsgs = 2
  MaxInc = 1
INVARIANTS TypeOK ExactUnlessEvicted
PROPERTY NoLeak
CHECK_DEADLOCK FALSE
