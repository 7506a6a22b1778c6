CONSTANTS
  None = None
  Sessions = {s1, s2}
  Calls = {c1, c2}
  Streams = {st}
  Configs <- MCConfigs
  Starts <- MCStarts
  MaxEntries = 1
  Moments = {1, 2}
  Interval = 1
  Faulty = {2}
  MaxSpent = 1
SPECIFICATION HeaderFairSpec
INVARIANTS
  FormatterTypeOK
  AnswersItsConfig
PROPERTIES
  InjectsWhileInstalled
  ScriptCatchesUp
CHECK_DEADLOCK FALSE
