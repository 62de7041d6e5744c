CONSTANTS
  Transfers <- MCTransfers
  MayTimeOut = TRUE
  Dates <- MCDates
  Hours = {35}
  MaxMidnights = 1
SPECIFICATION Spec
INVARIANTS OverlapOnlyInAlarm AlarmInAMonth
PROPERTIES BusGranted
CHECK_DEADLOCK FALSE
