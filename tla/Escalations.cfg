SPECIFICATION SweepSpec
CONSTANTS
  p1 = p1
  p2 = p2
  Null = Null
  Pollers = {p1, p2}
  Urgencies = {1, 2}
  Origins = {}
  MaxRows = 2
  Limit = 1
  Cooldown = 1
  MaxAge = 1
INVARIANTS
  TypeOK
  SurfacedWasTold
PROPERTIES
  ClosedIsFinal
  QuestionsClose
