SPECIFICATION Spec
CONSTANTS
  b1 = b1
  b2 = b2
  d1 = d1
  d2 = d2
  n1 = n1
  n2 = n2
  None = None
  Builders <- MCBuilders
  Digests <- MCDigests
  Names <- MCNames
  MaxSessions = 2
  MaxBuilds = 2
  MaxDisks = 2
SYMMETRY Symmetry
INVARIANTS
  ArtifactIsOfThisBuild
CHECK_DEADLOCK FALSE
