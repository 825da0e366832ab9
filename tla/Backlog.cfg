SPECIFICATION Spec
CONSTANTS
  None = None
  Callers = {c1, c2}
  c1 = c1
  c2 = c2
  Issues = {i1}
  i1 = i1
  Statuses = {"todo", "done"}
  First = "To Do"
  Columns <- MCColumns
  StatusOf <- MCStatusOf
  Offered <- MCOffered
  MaxTasks = 2
  MaxCalls = 4
  MaxComments = 1
  MaxLate = 1
INVARIANTS
  TypeOK
  Mirrored
  RemoteAccounted
SYMMETRY Symmetry
CHECK_DEADLOCK FALSE
