SPECIFICATION Spec
CONSTANTS
  p1 = p1
  p2 = p2
  p3 = p3
  StaticPairs <- MCStaticPairs
  FoundListings <- MCFoundListings
  CodeName <- MCCodeName
  MAX_BOOT_ATTEMPTS = 2
  MaxRuns = 2
  MaxRebuilds = 2
INVARIANTS
  TypeOK
  CandidatesAreListedOnce
  PrebootChoosesFirstUsable
  DeniedOnlyByBadVars
  RetriesAreEarned
  NoQemuBetweenAttempts
  ExitAgreesWithEvidence
  PassEvidenceHasItsLog
  UnmodifiedMeansOneDisk
PROPERTIES
  RunEnds
  KeepsPromise
CHECK_DEADLOCK FALSE
