SPECIFICATION Spec
CONSTANTS
  Sizes <- MCSizes
  InitSize <- MCInitSize
  Positions <- MCPositions
  MaxLoads = 1
  MaxCalls = 2
  Failures <- MCAllFailures
  HookCalls <- MCAllCalls
  Asserts = TRUE
  Frequency = 60
  Resolution = 10
  Durations <- MCShort
CHECK_DEADLOCK FALSE
INVARIANTS
  FboMatchesWindow
  TerminateEndsLoop
  AllOrNothing
