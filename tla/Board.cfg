SPECIFICATION FairSpec
CONSTANTS
  Nothing = Nothing
  QueueMax = 2
  MaxWire = 1
  MaxFetches = 3
  MaxChanges = 2
  MaxFailures = 1
PROPERTIES
  Converges
  SummaryInOrder
CHECK_DEADLOCK FALSE
