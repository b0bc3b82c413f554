SPECIFICATION FairSpec
CONSTANTS
  NumQueues = 3
  OutputBuffer = 1
  Fds = {f1, f2, f3}
  NoFd = NoFd
  MaxReads = 3
INVARIANTS TypeOK NoSocketLeak LoopsHaveSockets SendsOnOpen CountsAgree
PROPERTY CloseTerminates
CHECK_DEADLOCK FALSE
