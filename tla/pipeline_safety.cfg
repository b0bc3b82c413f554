SPECIFICATION Spec
CONSTANTS
  TCPPackets = {t1}
  UDPPackets = {u1}
  OtherPackets = {o1}
  Queues = {q1, q2}
  DecodeWorkers = {d1}
  KafkaWorkers = {k1, k2}
  ChannelBuffer = 1
  Stages <- MainOrder
INVARIANTS TypeOK NoPanic StopContract Conservation
SYMMETRY WorkerSymmetry
CHECK_DEADLOCK FALSE
