CONSTANTS
  None = None
  Selection <- MCSelection
  Default <- MCDefault
  Initial <- MCInitial
  MaxCalls = 2
  MaxOthers = 1
  MaxBreaks = 1
SPECIFICATION FairSpec
INVARIANTS
  PendingIsLive
PROPERTIES
  RetainedThroughGaps
  AnswersNeverGoBack
  SeatConverges
CHECK_DEADLOCK FALSE
