SPECIFICATION FairSpec
CONSTANTS
  p1 = p1
  p2 = p2
  h1 = h1
  h2 = h2
  h3 = h3
  o1 = o1
  o2 = o2
  a1 = a1
  Process = {p1}
  Handle = {h1}
  Owner <- MCOwnerOneProcess
  Events <- LifecycleEvents
  Methods = {"appendOnceAtHead"}
  MaxQueue = 2
  NoHandle = NoHandle
  NoHead = NoHead
INVARIANT
  CommittedLifecycle
PROPERTY
  ImplementsLog
  CloseSettles
  OpenSettles
