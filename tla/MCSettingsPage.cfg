CONSTANTS
  Fields = {"supportsDeveloperRole", "vllmPriority"}
  Declared = {"supportsDeveloperRole", "vllmPriority"}
  Apis = {"undeclared", "responses"}
  Rows = {"provider"}
  Leaves = {"ratio", "route", "toggle"}
  FormatKeys = {"mode", "script"}
  Values = {"a", "b"}
  None = None
  Unusable = Unusable
  Refused <- MCRefused
  MaxEdits = 2
  MaxSaves = 2
  MaxOthers = 1
SPECIFICATION Spec
INVARIANTS
  EditsKept
  SavesWriteOnlyEdits
  RefusedOnlyIfMoved
PROPERTIES
  AppliedMeansStored
  PageSettles
CHECK_DEADLOCK FALSE
