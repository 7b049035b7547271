SPECIFICATION Spec
CONSTANTS
  Ids = {m1, m2}
  Fields = {f1}
  Values = {0, 1}
  EditIds = {e1, e2}
  MaxVersion = 3
  MaxAttempt = 4
  MaxCrash = 1
SYMMETRY EditNames
INVARIANTS EditsCanBeApplied
CHECK_DEADLOCK FALSE
