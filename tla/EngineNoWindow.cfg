SPECIFICATION Spec
CONSTANTS
  Sizes <- MCSizes
  InitSize <- MCInitSize
  Positions <- MCPositions
  MaxLoads = 1
  MaxCalls = 2
  Failures <- MCWindowFails
  HookCalls <- MCDocumentedCalls
  Asserts = TRUE
  Frequency = 60
  Resolution = 10
  Durations <- MCShort
CHECK_DEADLOCK FALSE
INVARIANT FailedWindowUnloads
