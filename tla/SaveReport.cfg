SPECIFICATION Spec
CONSTANTS
  PacketSize = 188
  Packets <- MCPackets
  MaxPackets = 1
  OldSizes = {0}
  WriteSizes = {188}
INVARIANTS
  FailureReported
CHECK_DEADLOCK FALSE
