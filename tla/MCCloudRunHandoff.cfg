SPECIFICATION Spec
CONSTANTS
  GatePlan <- MCGatePlan
  ExitCodes <- MCExitCodes
  MaxRuns = 2
INVARIANTS
  HandoffReachesReview
CHECK_DEADLOCK FALSE
