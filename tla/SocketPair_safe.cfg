SPECIFICATION Spec
CONSTANTS
  BUFFER_SIZE = 2
  AutoJoin = TRUE
  Room = 1
  RxLimit = 2
  CallerSize = 2
  ZeroLimit = 1
  Sizes = {1}
  Sinks = {"Client"}
  Sources = {"Client"}
  MaxReads = 2
  MaxSent = 2
  MaxWrites = 2
  MaxEvents = 1
  Reads <- MCForEver
  Events <- MCSafeEvents
INVARIANTS  DrainedBeforeGone 
CHECK_DEADLOCK FALSE
