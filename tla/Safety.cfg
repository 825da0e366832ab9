SPECIFICATION Spec
CONSTANTS
  Jobs = {1, 2, 3}
  MergeJobs = {3}
  Keys = {module}
  None = None
  MaxInstances = 3
  MaxAttempts = 2
  MaxConcurrent = 2
  Limits = {1, 2}
  StaleFloor = 1
  SlowSteps = {"start", "wait", "merging"}
  MayDryRun = FALSE
  IsolatedSweep = FALSE
  MaxFaults = 1
  Rank <- MCRank
  KeyOf <- MCKeyOf
  module = module
CONSTRAINTS
  TwoAdded
  LowOrFew
INVARIANTS
  TypeOK
  OneSupervisorPerJob
  OneEditorPerKey
PROPERTIES
  WaitingNeverReaped
  SettledStaysSettled
