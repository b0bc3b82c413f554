SPECIFICATION FairSpec
CONSTANTS
  TCPPackets = {t1, t2}
  UDPPackets = {}
  OtherPackets = {}
  Queues = {q1}
  DecodeWorkers = {d1}
  KafkaWorkers = {k1}
  ChannelBuffer = 1
  Stages <- NoMetrics
PROPERTIES Delivers PacketsFlow SignalClosesWriters SignalStopsCapture
CHECK_DEADLOCK FALSE
