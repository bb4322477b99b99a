SPECIFICATION FairSpec
CONSTANTS
  SocketEvent = {e1, e2}
  Busy = {e1}
  GROW_SIZE = 2
  MaxChanges = 2
  MaxWaits = 2
  MaxCreated = 2
  Masks <- MCMasks
INVARIANT QueueSound
PROPERTIES ReadinessEndsWait CallsReturn
CHECK_DEADLOCK FALSE
