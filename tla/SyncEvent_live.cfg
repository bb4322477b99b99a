CONSTANTS
  Handle = {h1, h2}
  Object = {auto}
  Notification = {}
  Waiter = {t1, t2}
  NoObject = NoObject
  NoHandle = NoHandle
  Arrays <- MCOnePair
  Singles = {h1}
SPECIFICATION FairSpec
PROPERTIES CloseReleasesWaiters SignalReachesWaiter
