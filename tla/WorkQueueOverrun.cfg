SPECIFICATION Spec
CONSTANTS
  s1 = s1
  s2 = s2
  s3 = s3
  planner = planner
  executor = executor
  k1 = k1
  k2 = k2
  Null = Null
  Sessions = {s1, s2}
  Roles = {planner}
  RoleOf <- MCRoleOf2
  Injected = {planner}
  Keys = {k1}
  Priorities = {0, 1}
  Lease = 1
  MaxAttempts = 2
  AttemptCap = 3
  MaxItems = 2
  Overrun = TRUE
INVARIANTS
  KeyedRowsAreLive
  SweepSeesEveryClaim
