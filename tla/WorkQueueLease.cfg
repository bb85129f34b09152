SPECIFICATION Spec
CONSTANTS
  s1 = s1
  s2 = s2
  s3 = s3
  planner = planner
  executor = executor
  Null = Null
  k1 = k1
  k2 = k2
  Sessions = {s1, s2, s3}
  Roles = {planner, executor}
  RoleOf <- MCRoleOf3
  Injected = {planner}
  Keys = {k1, k2}
  Priorities = {0, 1}
  Lease = 2
  MaxAttempts = 2
  AttemptCap = 2
  MaxItems = 2
  Overrun = FALSE
INVARIANTS
  SoleHolder
  AttemptsBounded
  OneLiveRowPerKey
PROPERTIES
  ImplementsLedger
SYMMETRY Symmetry2
