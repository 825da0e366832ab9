SPECIFICATION Spec
CONSTANTS
  None = None
  Daemons = {d1}
  MaxBounce = 1
  MaxJobs = 8
  MaxTouches = 1
  MaxSlips = 1
  d1 = d1
CONSTRAINT HumanOrWatchdog
CHECK_DEADLOCK FALSE
INVARIANTS
  TypeOK
  BlocksFollowedUp
  ReworksBounded
  MergedWasApproved
  WorkKept
