SPECIFICATION FairSpec
CONSTANTS
  Jobs = {1, 2}
  MergeJobs = {}
  Keys = {module}
  None = None
  MaxInstances = 4
  MaxAttempts = 2
  MaxConcurrent = 2
  Limits = {1}
  StaleFloor = 1
  SlowSteps = {"wait"}
  MayDryRun = TRUE
  IsolatedSweep = TRUE
  MaxFaults = 1
  Rank <- MCRank
  KeyOf <- MCKeyOf
  module = module
PROPERTIES
  JobsSettle
  ResourcesFreed
  ImplementsQueue
