SPECIFICATION Spec
CONSTANTS
  list1 = list1
  list2 = list2
  pid1 = pid1
  pid2 = pid2
  Lists = {list1, list2}
  Pids = {pid1, pid2}
  Modulus = 3
  MaxPackets = 3
  MaxWrites = 5
SYMMETRY Symmetry
INVARIANTS
  PayloadsNumbered
  GapsOnce
  CountersInStep
CHECK_DEADLOCK FALSE
