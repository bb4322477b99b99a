SPECIFICATION FairSpec
CONSTANTS
  Task = {k1, k2}
  Worker = {w1, w2}
  MaxThreads = 1
  MaxUnusedThreads = 0
  Modes = {"WAIT", "FAIL"}
  Trying = {k2}
  Nobody = Nobody
  App = App
  NoTask = NoTask
  NoWorker = NoWorker
INVARIANTS PoolSound LimitKept
  
