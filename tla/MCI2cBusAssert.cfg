CONSTANTS
  Transfers <- MCTransfers
  MayTimeOut = FALSE
  Dates <- MCNewYear
  Hours = {0}
  MaxMidnights = 0
SPECIFICATION Spec
INVARIANTS FoundReady
CHECK_DEADLOCK FALSE
