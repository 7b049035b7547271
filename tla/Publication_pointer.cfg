SPECIFICATION Spec
CONSTANTS
  c1 = c1
  Builders = {l1, l2, c1}
  Kind <- KindOf
  Nobody = Nobody
  MaxRevision = 6
  MaxFaults = 1
INVARIANTS TypeOK NothingDangling PointerSettled
PROPERTIES Reconciled
CHECK_DEADLOCK FALSE
