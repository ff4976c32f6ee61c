SPECIFICATION Spec
CONSTANTS
  Sizes <- MCUsedSizes
  InitSize <- MCInitSize
  Positions <- MCPositions
  MaxLoads = 1
  MaxCalls = 2
  Failures <- MCNoFailures
  HookCalls <- MCDocumentedCalls
  Asserts = TRUE
  Frequency = 60
  Resolution = 10
  Durations <- MCAnyDuration
CHECK_DEADLOCK FALSE
PROPERTY SlowFrameIsTimed
