SPECIFICATION RemuxSpec
CONSTANTS
  PacketSize = 13
  Units <- MCUnitSet
  MaxUnits = 3
  MaxFaults = 2
  ReceiveBound = 12
INVARIANTS
  RoundTrip
  GluedOnlyByLostStart
  FaultsStayOnTheirPid
CHECK_DEADLOCK FALSE
