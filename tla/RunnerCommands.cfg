SPECIFICATION RunnerFairSpec
CONSTANTS
  c1 = c1
  o1 = o1
  o2 = o2
  a1 = a1
  f1 = f1
  f2 = f2
  t1 = t1
  t2 = t2
  b1 = b1
  b2 = b2
  m1 = m1
  m2 = m2
  m3 = m3
  Call = {c1}
  Inputs <- RunInputs
  OtherEvents <- RunEvents
  Intents <- RunIntents
  MaxCalls = 3
  NoAuth = NoAuth
  NoCall = NoCall
  NoIntent = NoIntent
INVARIANTS
  ResultsHold
  OneFreshClose
PROPERTIES
  RunSettles
