SPECIFICATION Spec
CONSTANTS
  Stream = {s1, s2}
  Fd = {f1}
  NoStream = NoStream
  NoFd = NoFd
  EventFd = EventFd
  Sizes <- MCSizes
  Room = 1
  MaxStarts = 2
  MaxSent = 1
  MaxWakes = 0
  MaxFaults = 1
SYMMETRY Symmetry
INVARIANTS OperationsOnTheirWay AnsweredOnce
CHECK_DEADLOCK FALSE
