SPECIFICATION Spec
CONSTANTS
  NumStages = 3
  Role <- RoleReport
  Routes <- OneChain
  MetricIds = {}
  AgentUpdates = {}
  Verdicts = {"PASS"}
  MaxAttempt = 1
  MaxRoute = 1
  MaxQuery = 0
  MaxLease = 3
  MaxCrash = 0
INVARIANTS LineageAtEnd
CHECK_DEADLOCK FALSE
