SPECIFICATION FairSpec
CONSTANTS
  Requests = {r1, r2, r3}
  NoRequest = NoRequest
  Fan = {t1, t2}
  PoolSize = 2
  GitEnabled = TRUE
CHECK_DEADLOCK FALSE
INVARIANTS
  TypeOK
  LockHolderNeedsNoPool
  NoOtherCircle
PROPERTY
  RequestsAreAnswered
