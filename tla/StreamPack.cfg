SPECIFICATION Spec
CONSTANTS
  Programs <- MCPrograms
  MaxSection = 40
INVARIANTS
  TypeOK
  StreamsKeepOrder
  MergedByTime
  LostOnlyBehindUntimed
  FailsForCause
  OnePcr
CHECK_DEADLOCK FALSE
