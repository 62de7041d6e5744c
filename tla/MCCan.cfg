CONSTANTS
  RX_FRAMES_SIZE = 3
  FifoDepth = 3
  Headers <- MCHeaders
  CANDeviceID = 1
  CAN_BROADCAST = 255
  MaxFrames = 6
SPECIFICATION Spec
INVARIANTS TakenOnce
PROPERTIES NeverBack FramesDrained
CHECK_DEADLOCK FALSE
