CONSTANTS
  Models = {"m1", "m2"}
  Absent = Absent
  Window <- MCWindow
  Wires <- MCWires
  Price <- MCPrice
  Policies <- MCPolicies
  Children <- MCChildren
  MaxNodes = 7
  MaxChanges = 1
SPECIFICATION FairSpec
INVARIANTS
  CompactsWhatIsSafe
  ChildRunsAsConfigured
PROPERTIES
  TurnsGoOn
CHECK_DEADLOCK FALSE
