SPECIFICATION Spec
CONSTANTS
  Installers = {i1}
  Versions = {"v1", "v2"}
  PkgPaths = {"a", "b"}
  UserPaths = {"u", "w"}
  Shipped <- TwoVersions
  Absent = Absent
  Within <- InW
  MaxJobs = 2
  MaxWrites = 2
  MaxFaults = 2
INVARIANTS TypeOK NothingLost AllOrNothing
PROPERTIES LeftoversAreTold
CHECK_DEADLOCK FALSE
