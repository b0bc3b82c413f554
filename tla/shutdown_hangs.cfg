SPECIFICATION FairSpec
CONSTANTS
  TCPPackets = {t1}
  UDPPackets = {u1}
  OtherPackets = {}
  Queues = {q1}
  DecodeWorkers = {d1}
  KafkaWorkers = {k1}
  ChannelBuffer = 1
  Stages <- NoMetrics
PROPERTY ShutdownTerminates
CHECK_DEADLOCK FALSE
