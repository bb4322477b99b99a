CONSTANTS
  Timer = {t1, t2}
  Droppable = {t1}
  Delays = {1, 2}
  FOREVER = 2
  CallbackOps = {"Set", "Cancel"}
  NoTimer = NoTimer
SPECIFICATION FairSpec
INVARIANTS IInv NoOversleep
PROPERTIES DueTimersFire CancelReturns
