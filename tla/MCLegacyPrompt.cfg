SPECIFICATION FairPromptSpec
CONSTANTS
  effort = effort
  mode = mode
  Paths <- MCPaths
  MaxMigrationPasses = 2
  MaxDecisions = 1
  MaxEdits = 0
  MaxLegacyChanges = 1
  MaxFaults = 1
  MaxCrashes = 0
  PollAttempts = 2
CHECK_DEADLOCK FALSE
PROPERTIES
  DismissesWhatWasShown
  LaterIsSticky
  PromptSettles
