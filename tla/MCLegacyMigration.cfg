SPECIFICATION FairSpec
CONSTANTS
  effort = effort
  mode = mode
  Paths <- MCPaths
  MaxMigrationPasses = 2
  MaxDecisions = 2
  MaxEdits = 1
  MaxLegacyChanges = 1
  MaxFaults = 1
  MaxCrashes = 1
INVARIANTS
  OneChain
  OfferIsReal
PROPERTIES
  MigrationIsReversible
  DismissedStaysSilent
  DecisionAnswered
CHECK_DEADLOCK FALSE
