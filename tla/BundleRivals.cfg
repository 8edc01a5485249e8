SPECIFICATION Spec
CONSTANTS
  c1 = c1
  c2 = c2
  o1 = o1
  o2 = o2
  a1 = a1
  k1 = k1
  k2 = k2
  b1 = b1
  e1 = e1
  m1 = m1
  m2 = m2
  Call = {c1, c2}
  Inputs <- RivalInputs
  OtherEvents <- RivalEvents
  MaxCalls = 3
  NoAuth = NoAuth
  NoCall = NoCall
SYMMETRY Calls
INVARIANTS
  ReceiptsHold
  CommitsBacked
  ExactRepeat
PROPERTY
  ImplementsRegistry
