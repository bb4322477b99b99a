SPECIFICATION FairSpec
CONSTANTS
  Stream = {s1}
  Fd = {f1}
  NoStream = NoStream
  NoFd = NoFd
  EventFd = EventFd
  Sizes <- MCSizes
  Room = 1
  MaxStarts = 2
  MaxSent = 1
  MaxWakes = 1
  MaxFaults = 0
PROPERTIES  WaitServes
CHECK_DEADLOCK FALSE
