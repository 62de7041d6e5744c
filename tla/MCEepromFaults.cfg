CONSTANTS
  NB_OF_VAR = 2
  Slots = 3
  Data = {1, 65535}
  MaxCrashes = 2
  FlashMayFail = TRUE
SPECIFICATION Spec
PROPERTIES LossNeedsTwoValidPages HeaderRemains
CHECK_DEADLOCK TRUE
