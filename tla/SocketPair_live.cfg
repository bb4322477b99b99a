SPECIFICATION FairSpec
CONSTANTS
  BUFFER_SIZE = 2
  AutoJoin = TRUE
  Room = 1
  RxLimit = 2
  CallerSize = 2
  ZeroLimit = 1
  Sizes = {1}
  Sinks = {"Client"}
  Sources = {"Client"}
  MaxReads = 1
  MaxSent = 1
  MaxWrites = 1
  MaxEvents = 1
  Reads <- MCBoth
  Events <- MCLiveEvents
PROPERTIES CloseReturns ReadEnds OutputIsSent
CHECK_DEADLOCK FALSE
