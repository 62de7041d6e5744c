CONSTANTS
  Words = 3
  Fields <- MCFields
  addr <- MCaddr
  size <- MCsize
  ValueBytes = 2
  Sessions <- MCSessions
  Leftovers = {0, 3}
  defaults <- MCdefaults
  CellLimit = 2
  VoltLimit = 2
  CurrentMin = 1
  CurrentMax = 3
  AlertStep = 2
  MaxCrashes = 2
SPECIFICATION Spec
INVARIANTS Persisted TornByWords LimitAgrees CellsBounded VoltageWithinPack
PROPERTIES Starts
CHECK_DEADLOCK TRUE
