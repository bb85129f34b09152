\* One project, two repositories it may be registered with; two branch names, and one of each kind that is refused.
SPECIFICATION Spec
CONSTANTS
  p1 = p1
  r1 = r1
  r2 = r2
  t1 = t1
  t2 = t2
  b1 = b1
  b2 = b2
  b3 = b3
  b4 = b4
  Null = Null
  Projects = {p1}
  Repos = {r1, r2}
  Tickets = {t1, t2}
  Branches = {b1, b2, b3, b4}
  Refused = {b3}
  Flags = {b4}
  MaxPulls = 2
  MaxFailures = 2
  MaxRestarts = 1
INVARIANTS
  StateIsOfOnePull
  NoSecondPull
SYMMETRY Symmetric
