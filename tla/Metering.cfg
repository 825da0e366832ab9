SPECIFICATION MeteringSpec
CONSTANTS
  NoEvent = NoEvent
  Instances = {i1, i2, i3}
  Slots = 2
  Hours = 2
  HourCap = 1
  DayCap = 2
  Caps <- MCCaps
  PipeMax = 1
  MaxTurns = 1
  MaxCost = 1
  MaxCalls = 1
  MaxHour = 1
  MaxFaults = 1
SYMMETRY Interchangeable
INVARIANTS MeteringTypeOK OvershootBounded Reconciled
CHECK_DEADLOCK FALSE
