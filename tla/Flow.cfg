SPECIFICATION FlowSpec
CONSTANTS
  Null = Null
  Terminals = {a, b}
  Period = 1
  MaxTime = 2
  MaxCommands = 4
  MaxAgents = 1
INVARIANTS FlowTypeOK Nested ActiveTimeAccounted
CHECK_DEADLOCK FALSE
