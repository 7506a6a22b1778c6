CONSTANTS
  m1 = m1
  m2 = m2
  o1 = o1
  o2 = o2
  Models <- MCModels
  Overrides <- MCOverrides
  BaseOver <- MCBaseOver
  MaxFillPasses = 3
  MaxRetries = 2
  MaxEdits = 2
  MaxFaults = 1
SPECIFICATION FairSpec
PROPERTY CustomNeverOverwritten
CHECK_DEADLOCK FALSE
