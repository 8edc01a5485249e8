SPECIFICATION Spec
CONSTANTS
  c1 = c1
  c2 = c2
  o1 = o1
  k1 = k1
  k2 = k2
  a1 = a1
  e1 = e1
  e2 = e2
  x = x
  None = None
  Contracts = {c1, c2}
  Policy <- MCPolicy
  Operations = {o1}
  StartedAt <- MCStartedAt
  Keys = {k1, k2}
  Holder <- MCHolder
  Manifests <- MCManifests
  Effects = {e1, e2}
  Payloads = {x}
  Claims <- MCClaims
  Starts = {0, 1}
  Contract = c1
  Operation = o1
  MaxTime = 3
  MaxRows = 2
  MaxSigned = 1
  MaxVerified = 1
SYMMETRY Symmetry
INVARIANTS
  AbsenceIsFinal
  CommitsHappened
PROPERTY
  ImplementsEffectReport
