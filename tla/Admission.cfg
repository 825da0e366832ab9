SPECIFICATION FairSpec
CONSTANTS
  None = None
  Tasks = {1, 2}
  Score <- MCScore
  NeedsDesign = {2}
  Bases = {"dev", "devops"}
  Variants = {"dev-scoped", "dev-one", "dev-other"}
  BaseOf <- MCBaseOf
  Scoped = {"dev-scoped"}
  Patterned = {"dev-one", "dev-other"}
  InProject <- MCInProject
  Matches <- MCMatches
  PoSweepers = {po, command}
  DevopsSweepers = {devops}
  Loops = {po, devops}
  Batch = 1
  MaxFailures = 1
  MaxBlocks = 1
INVARIANTS AdmissionTypeOK OneOpenJob
PROPERTY TakenUp
