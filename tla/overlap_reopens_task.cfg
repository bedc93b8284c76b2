SPECIFICATION Spec
CONSTANTS
  Runs = {r1, r2}
  Overlapping = TRUE
  AgentsVanish = FALSE
  MaxFaults = 0
  NoCopy = NoCopy
CHECK_DEADLOCK FALSE
PROPERTY
  FinishedIsFinal
