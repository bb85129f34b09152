\* Two containers and three sessions, which may share one.
SPECIFICATION SandboxSpec
CONSTANTS
  plain = plain
  visual = visual
  WorkItems = {plain, visual}
  Requires <- RequiresOfEach
  Containers = {c1, c2}
  Sessions = {s1, s2, s3}
  Contents = {v1}
  Operator = Operator
  None = None
SYMMETRY Symmetric
INVARIANTS
  SandboxTypeOK
  ClosedIsSilent
  ContainersAreAccounted
