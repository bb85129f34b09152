SPECIFICATION LoopSpec
CONSTANTS
  s1 = s1
  s2 = s2
  executor = executor
  gated = gated
  plain = plain
  broken = broken
  listed = listed
  Null = Null
  Sessions = {s1, s2}
  Roles = {executor}
  RoleOf <- MCRoleOf
  Injected = {}
  Keys = {gated, plain, broken, listed}
  Priorities = {0}
  Lease = 1
  MaxAttempts = 1
  AttemptCap = 1
  MaxItems = 2
  Overrun = FALSE
  CallOf <- MCCallOf
  Urgency = 2
  MaxRows = 2
  MaxAge = 1
INVARIANTS
  LoopTypeOK
  SettledWorkPassedTheGate
  AskedWorkWaits
SYMMETRY Symmetric
