CONSTANTS
  MaxCells = 2
  Volts = {1, 2, 3}
  Configs <- MCConfigs
  CompleteCount = 1
SPECIFICATION Spec
INVARIANTS TypeOK NoChargeWhileBalancing DrainStops
PROPERTIES OvervoltageOpens ResistorsEndOff
CHECK_DEADLOCK FALSE
