SPECIFICATION Spec
CONSTANTS
  NumStages = 3
  Role <- RoleReviewed
  Routes <- OneChain
  MetricIds = {}
  AgentUpdates = {}
  Verdicts = {"PASS", "BLOCKED", "FAIL"}
  MaxAttempt = 2
  MaxRoute = 2
  MaxQuery = 0
  MaxLease = 0
  MaxCrash = 0
INVARIANTS PlansIntact
CHECK_DEADLOCK FALSE
