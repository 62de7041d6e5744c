CONSTANTS
  NB_OF_VAR = 2
  Slots = 5
  Data = {1, 65535}
  MaxCrashes = 1
  FlashMayFail = FALSE
SPECIFICATION Spec
INVARIANTS TypeOK KnownGoodState
PROPERTIES ImplementsStore CallsReturn
CHECK_DEADLOCK TRUE
