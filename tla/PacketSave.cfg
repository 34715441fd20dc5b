SPECIFICATION Spec
CONSTANTS
  PacketSize = 188
  Packets <- MCPackets
  MaxPackets = 3
  OldSizes = {0, 188, 376, 1000}
  WriteSizes = {100, 188}
INVARIANTS
  PacketsInStep
  FileReplaced
CHECK_DEADLOCK FALSE
