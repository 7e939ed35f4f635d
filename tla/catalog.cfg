SPECIFICATION Spec
CONSTANTS
  i1 = i1  i2 = i2  i3 = i3
  s1 = s1  s2 = s2  s3 = s3
  None = None
  Instances = {i1, i2, i3}
  Sessions = {s1, s2, s3}
  Requests <- MCRequests
  Role <- MCRole
  Misconfigured = {i3}
  Inactive = {"processor-webhook"}
  DefaultPage = 2
  Limit = 2
  MaxCrashes = 1
INVARIANTS
  SeededOnce
  Provisioned
  DefaultIsSeeded
  WalkMissesNobody
  WaitsEnd
SYMMETRY ActorSymmetry
CHECK_DEADLOCK FALSE
