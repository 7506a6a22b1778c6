CONSTANTS
  Items = {"item"}
  Caps = {"old", "new"}
  Wirings = {"ours", "theirs"}
  Efforts = {"e1", "e2"}
  Missing = Missing
  EntryConfig = TRUE
  Files <- MCFiles
  Initials <- MCInitials
  Foreign <- MCForeign
  Choices <- MCChoices
  MaxImports = 2
  MaxSpent = 1
SPECIFICATION Spec
INVARIANTS
  RollbackRestores
  AppliedMeansImported
PROPERTIES
  ImportsAtomically
  WiringStaysHome
CHECK_DEADLOCK FALSE
