SPECIFICATION FairSpec
CONSTANTS
  N = 3
  FanOut = 2
  Workflows = 2
  MaxAttempts = 1
  AnyGraph = TRUE
CHECK_DEADLOCK FALSE
INVARIANTS
  DependenciesFirst
  SkippedForCause
PROPERTIES
  CallReturns
  WorkflowsGetThreads
