SPECIFICATION Spec
CONSTANTS
  p1 = p1
  p2 = p2
  p3 = p3
  a1 = a1
  a2 = a2
  Put = {p1, p2, p3}
  Artifact = {a1, a2}
  ArtifactOf <- MCArtifactOf
  NoFile = NoFile
INVARIANTS
  NeverTorn
PROPERTIES
  ImplementsStore
