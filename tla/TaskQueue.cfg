CONSTANTS
  Task = {k1, k2, k3}
  Client = {c1, c2}
  NoTask = NoTask
SPECIFICATION TaskFairSpec
INVARIANT TaskInv
PROPERTIES KeepsContract WaitsEnd
