SPECIFICATION Spec
CONSTANTS
  None = None
  Daemons = {d1, d2}
  Refs = {r1, r2}
  MaxScans = 2
  MaxTouches = 2
  d1 = d1
  d2 = d2
  r1 = r1
  r2 = r2
CHECK_DEADLOCK FALSE
INVARIANTS
  TypeOK
  TasksMatchItems
  HandledOnce
PROPERTY
  ResolvedStays
