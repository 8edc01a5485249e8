CONSTANTS
  e1 = e1
  e2 = e2
  x = x
  y = y
  NoReport = NoReport
  Operation = Operation
  Contract = Contract
  Records <- MCRecords
  Rumours <- MCRumours
  Stories <- MCStories
  MaxObservations = 2
  MaxBundles = 1
SPECIFICATION Spec
INVARIANTS
  FreshPaysOnce
  DeliveredHappened
  FailedNeverSettles
