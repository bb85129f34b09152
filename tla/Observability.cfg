\* Two tasks that overlap, three work items, and two starts of the plugin.
SPECIFICATION Spec
CONSTANTS
  Tasks = {t1, t2}
  Items = {i1, i2, i3}
  MaxRows = 2
  MaxStarts = 3
  Null = Null
SYMMETRY Symmetric
INVARIANTS
  
  HealthShowsWorkInHand
