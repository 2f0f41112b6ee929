SPECIFICATION Spec
CONSTANTS
  GatePlan <- MCGatePlan
  ExitCodes <- MCExitCodes
  MaxRuns = 2
INVARIANTS
  FinalizeTellsThisRun
CHECK_DEADLOCK FALSE
