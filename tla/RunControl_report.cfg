SPECIFICATION Spec
CONSTANTS
  NumStages = 3
  Role <- RoleReport
  Routes <- ChainOrPart
  MetricIds = {}
  AgentUpdates = {}
  Verdicts = {"PASS"}
  MaxAttempt = 1
  MaxRoute = 2
  MaxQuery = 0
  MaxLease = 3
  MaxCrash = 1
INVARIANTS ReportBehindReview CompletedIsConsistent FinalizingCanEnd
CHECK_DEADLOCK FALSE
