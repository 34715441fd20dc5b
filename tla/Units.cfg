SPECIFICATION Spec
CONSTANTS
  Packets <- MCPackets
  MaxPackets = 5
  MaxCalls = 2
INVARIANTS
  TypeOK
  UnitsAreRuns
  PlacedOnce
  OpenedInOrder
  OneOpenPerPid
PROPERTIES
  ImplementsFlows
CHECK_DEADLOCK FALSE
