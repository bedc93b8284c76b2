SPECIFICATION Spec
CONSTANTS
  issue = issue
  branchA = branchA
  branchB = branchB
  Requests = {w1, w2, r1, r2}
  Webhooks = {w1, w2}
  None = None
  Duplicate = Duplicate
  Payloads <- Deliveries
  Places <- TwoBranches
CHECK_DEADLOCK FALSE
SYMMETRY RequestSymmetry
INVARIANT
  OneMissionPerKey
PROPERTY
  RedeliveriesAreSafe
