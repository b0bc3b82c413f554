SPECIFICATION FairSpec
CONSTANTS
  TCPPackets = {t1}
  UDPPackets = {}
  OtherPackets = {}
  Queues = {q1}
  DecodeWorkers = {d1}
  KafkaWorkers = {k1}
  ChannelBuffer = 1
  Stages <- MainOrder
PROPERTY RollbackReturns
CHECK_DEADLOCK FALSE
