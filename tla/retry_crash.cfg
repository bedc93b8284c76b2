SPECIFICATION FairSpec
CONSTANTS
  Runs = {r1, r2, r3}
  Overlapping = FALSE
  AgentsVanish = TRUE
  MaxFaults = 2
  NoCopy = NoCopy
CHECK_DEADLOCK FALSE
INVARIANTS
  TypeOK
  CompletedOnce
  EscalatedAfterBudget
  AttemptsRestartByFault
  BudgetHonoured
  EventsAreTrue
PROPERTIES
  ImplementsTaskLife
  EveryRunEnds
  EveryOutcomeIsAnnounced
