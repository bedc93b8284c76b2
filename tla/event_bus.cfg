SPECIFICATION FairSpec
CONSTANTS
  c1 = c1
  m1 = m1
  Clients = {c1}
  Publishers = {p1, p2}
  Missions = {m1}
  Wildcard = Wildcard
  Subscription <- ToWildcard
  QueueMax = 2
  MaxEvents = 2
  None = None
CHECK_DEADLOCK FALSE
INVARIANTS
  TypeOK
  PublisherOrderKept
  NoSilentLoss
PROPERTIES
  ImplementsStreams
  SubscribersAreReleased
  EventsArrive
