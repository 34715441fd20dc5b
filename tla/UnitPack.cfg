SPECIFICATION Spec
CONSTANTS
  PacketSize = 13
  Units <- MCUnitSet
  MaxUnits = 3
INVARIANTS
  PacketsFit
  PacketsCover
CHECK_DEADLOCK FALSE
