CONSTANTS
  Handle = {h1, h2}
  Object = {auto, manual}
  Notification = {manual}
  Waiter = {t1, t2}
  NoObject = NoObject
  NoHandle = NoHandle
  Arrays <- MCPairs
  Singles = {h1, h2}
SYMMETRY Symmetry
SPECIFICATION Spec
INVARIANTS ResultInv NoSleepWhenSatisfied ResultSound
PROPERTIES CloseIsIndependent AutoResetReleasesOne
