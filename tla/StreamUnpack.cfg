SPECIFICATION Spec
CONSTANTS
  Units <- MCUnitSet
  CallerPids = {34}
  MaxUnits = 4
INVARIANTS
  OneStreamPerPid
  SucceedsIfTablesAgree
  LoadsWhatTablesSay
  FailureAttachesNothing
PROPERTIES
  HoldsOn
  CallReturns
CHECK_DEADLOCK FALSE
