SPECIFICATION ProgramSpec
CONSTANTS
  Programs <- MCPrograms
  MaxSection = 1021
  Shapes <- MCShapes
  OldEnds <- MCOldEnds
  MaxPackets = 40
INVARIANTS
  LoadsWhatFileHolds
  OldEndStaysBehind
CHECK_DEADLOCK FALSE
