SPECIFICATION Spec
CONSTANTS
  p1 = p1
  p2 = p2
  h1 = h1
  h2 = h2
  h3 = h3
  o1 = o1
  o2 = o2
  a1 = a1
  Process = {p1, p2}
  Handle = {h1, h2, h3}
  Owner <- MCOwnerThree
  Events <- RaceEvents
  Methods = {"append", "appendAtHead", "appendOnceAtHead"}
  MaxQueue = 2
  NoHandle = NoHandle
  NoHead = NoHead
INVARIANTS
  AckedDurable
  HeadWonOnce
  MetadataPrecedesJournal
  MemoryDurable
  LockHeldByWriter
  WriterReaderAgree
