SPECIFICATION ControlSpec
CONSTANTS
  p1 = p1
  p2 = p2
  Requests = {p1, p2}
  NoRequest = NoRequest
  RowLocks = TRUE
  ClientKeys <- NoKeys
  MaxRejections = 2
  Serves <- LockingAndUnlocked
  ReviewModel = TRUE
CHECK_DEADLOCK FALSE
INVARIANTS
  LockedReadIsCurrent
  NeverOverCounted
  MergedForCause
PROPERTIES
  LockedChangeIsLegal
