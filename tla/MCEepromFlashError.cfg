CONSTANTS
  NB_OF_VAR = 2
  Slots = 3
  Data = {1, 2}
  MaxCrashes = 0
  FlashMayFail = TRUE
SPECIFICATION Spec
PROPERTIES WrittenIsRead
CHECK_DEADLOCK TRUE
