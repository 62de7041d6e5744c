CONSTANTS
  DischargeSamples = {0, 6, 24}
  BusSamples = {0, 24}
  Configs <- MCConfigs
  ShortCheck = 1
  MsWrap = 6
  MaxPass = 2
  MaxGap = 1
SPECIFICATION Spec
INVARIANTS TypeOK DischargeThroughGate ParkedSafe OvercurrentDisables
PROPERTIES FaultsLatch NeverSwitchedIntoShort TripOpensSwitch TurnsOn HeldButtonShutsDown
CHECK_DEADLOCK TRUE
