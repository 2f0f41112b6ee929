SPECIFICATION Spec
CONSTANTS
  GatePlan <- MCGatePlan
  ExitCodes <- MCExitCodes
  MaxRuns = 2
INVARIANTS
  TypeOK
  StopsAtFirstFailure
  CandidateShowsAllGates
  UploadedReviewIsEarned
  VerdictsAgree
  FreshFinalizeTellsThisRun
PROPERTIES
  JobEnds
CHECK_DEADLOCK FALSE
