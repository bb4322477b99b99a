SPECIFICATION LoopFairSpec
CONSTANTS
  Skt = {s1, s2}
  Fd = {f1, f2}
  Masks = {{"READ"}, {"READ", "CLOSE"}}
  Readiness = {{"OUT"}, {"IN"}, {"IN", "OUT", "RDHUP", "HUP"}}
  NoSocket = NoSocket
  NoFd = NoFd
  StopEvent = StopEvent
INVARIANT LoopInv
PROPERTIES RemovedGetsNothing  StopIsReported
