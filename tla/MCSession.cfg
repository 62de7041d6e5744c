CONSTANTS
  FW_NUM_PAGES = 2
  PageWords = 2
  Chunks <- MCChunks
  Bytes = {0, 9}
  MaxFaults = 2
SPECIFICATION Spec
INVARIANTS AcknowledgedInImage LeakedByFailures ExitIsFinal
PROPERTIES UpdateCompletes ConnectShown
CHECK_DEADLOCK FALSE
