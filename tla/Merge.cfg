SPECIFICATION Spec
CONSTANTS
  None = None
  Tasks = {a, b}
  a = a
  b = b
  JobsOf = 1
  Attempts = 2
  MaxForks = 1
  MaxPushes = 1
  MaxFaults = 1
CHECK_DEADLOCK FALSE
INVARIANTS
  DoneIsDelivered
  OvertakenBeforeGivingUp
PROPERTIES
  NothingStomped
