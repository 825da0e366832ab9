SPECIFICATION MCSpec
CONSTANTS
  None = None
  Tasks = {t1, t2}
  t1 = t1
  t2 = t2
  Panels <- MCPanels
  SettingPanels <- MCSettingPanels
  EventKinds <- MCKinds
  Values = {v}
  v = v
  Secrets = {"token"}
  MaxClicks = 4
  MaxEvents = 2
  MaxBlocks = 2
  MaxElsewhere = 1
CONSTRAINTS
  FewEvents
  FewRequests
INVARIANTS
  ModalTrue
  ApprovedOnce
  LastSaveStored
CHECK_DEADLOCK FALSE
