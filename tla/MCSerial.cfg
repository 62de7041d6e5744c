CONSTANTS
  Radix = 5
  PACKET_START = 4
  PACKET_LONG_START = 3
  PACKET_END = 2
  BufferSize = 7
  Payloads <- MCPayloads
  Crc <- MCCrc
  SERIAL_RX_BUFFER_SIZE = 3
  QueueSize = 1
  MaxLosses = 2
  MaxPending = 3
SPECIFICATION Spec
INVARIANTS NothingLost
PROPERTIES ImplementsLink Resynchronises
CHECK_DEADLOCK TRUE
