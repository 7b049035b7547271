SPECIFICATION Spec
CONSTANTS
  NumStages = 2
  Role <- RoleQuery
  Routes <- ChainOrLacking
  MetricIds = {}
  AgentUpdates = {{"review"}}
  Verdicts = {"PASS", "BLOCKED", "FAIL"}
  MaxAttempt = 2
  MaxRoute = 2
  MaxQuery = 2
  MaxLease = 1
  MaxCrash = 1
INVARIANTS QueryResultsCurrent QueryLeaseApproved OnlyKnownStops
CHECK_DEADLOCK FALSE
