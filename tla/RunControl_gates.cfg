SPECIFICATION Spec
CONSTANTS
  NumStages = 3
  Role <- RoleReviewed
  Routes <- ChainOrFork
  MetricIds = {}
  AgentUpdates = {}
  Verdicts = {"PASS", "BLOCKED", "FAIL"}
  MaxAttempt = 2
  MaxRoute = 2
  MaxQuery = 0
  MaxLease = 0
  MaxCrash = 1
INVARIANTS TypeOK InputsApproved ApprovalsExact OneRunning Boundaries
PROPERTIES ApprovedByUser
CHECK_DEADLOCK FALSE
