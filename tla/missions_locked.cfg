SPECIFICATION Spec
CONSTANTS
  Requests = {p1, p2, p3}
  NoRequest = NoRequest
  RowLocks = TRUE
  ClientKeys <- PlanningKey
  MaxRejections = 6
SYMMETRY RequestSymmetry
CHECK_DEADLOCK FALSE
INVARIANTS
  RejectionsCounted
  FourthRejectionEscalates
  MergeGated
PROPERTY
  ImplementsLifecycle
