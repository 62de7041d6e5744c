CONSTANTS
  NB_OF_VAR = 2
  Slots = 5
  Data = {1}
  MaxCrashes = 2
  FlashMayFail = FALSE
SPECIFICATION Spec
PROPERTIES StoredSurvives
CHECK_DEADLOCK TRUE
