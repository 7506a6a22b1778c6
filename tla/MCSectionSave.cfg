CONSTANTS
  m1 = m1
  m2 = m2
  Models <- MCModels
  MaxSaves = 2
  MaxOthersWrite = 3
  MaxFaults = 1
CHECK_DEADLOCK FALSE
SPECIFICATION Spec
INVARIANTS
  CopiesAreTrue
PROPERTIES
  SavesOnlyItsOwn
  StalePanelCanSave
