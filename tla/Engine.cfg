SPECIFICATION Spec
CONSTANTS
  Sizes <- MCUsedSizes
  InitSize <- MCInitSize
  Positions <- MCPositions
  MaxLoads = 2
  MaxCalls = 2
  Failures <- MCNoFailures
  HookCalls <- MCDocumentedCalls
  Asserts = TRUE
  Frequency = 60
  Resolution = 10
  Durations <- MCAnyDuration
CHECK_DEADLOCK FALSE
INVARIANTS
  TypeOK
  WholeEngineInUse
  FboIsWindowsOrLoads
PROPERTIES
  NeverTooFast
  WholeEngineSurvives
  ClosedWindowUnloads
  TerminateUnloads
  ImplementsLifecycle
