SPECIFICATION Spec
CONSTANTS
  Tables <- MCTables
  Foreign <- MCForeign
  MaxSection = 1021
INVARIANTS
  FillsPackets
  ReadsBack
  CutIsShort
  WrongOnlyBehindDamage
CHECK_DEADLOCK FALSE
