SPECIFICATION Spec
CONSTANTS
  d1 = d1
  d2 = d2
  noOvmf = noOvmf
  None = None
  Digests <- MCDigests
  Faults <- MCFaults
  PullAttempts = 3
  MaxRuns = 2
INVARIANTS
  TypeOK
  VerifiedWasVetted
  PassPinsWhatIsStored
  BlockedLeavesManifest
PROPERTIES
  RunEnds
CHECK_DEADLOCK FALSE
