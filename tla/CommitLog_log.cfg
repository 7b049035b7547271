SPECIFICATION FairSpec
CONSTANTS
  Keys = {k1, k2}
  NoKey = NoKey
  MaxEvents = 6
  MaxCrash = 3
INVARIANTS TypeOK EventsRecoverable StateNearHead CommittedApprovalsKept RecoverAgrees OneApproval
PROPERTIES LedgerSpec HealthyAgain
CHECK_DEADLOCK FALSE
