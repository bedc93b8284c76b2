SPECIFICATION ControlSpec
CONSTANTS
  p1 = p1
  p2 = p2
  Requests = {p1, p2}
  NoRequest = NoRequest
  RowLocks = TRUE
  ClientKeys <- NoKeys
  MaxRejections = 6
  Serves <- AnyRejectPath
  ReviewModel = FALSE
CHECK_DEADLOCK FALSE
INVARIANT
  FourthRejectionEscalates
