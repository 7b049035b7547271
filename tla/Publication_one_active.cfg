SPECIFICATION Spec
CONSTANTS
  c1 = c1
  Builders = {l1, l2, c1}
  Kind <- KindOf
  Nobody = Nobody
  MaxRevision = 7
  MaxFaults = 1
INVARIANTS OneActive
CHECK_DEADLOCK FALSE
