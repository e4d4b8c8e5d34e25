SPECIFICATION Spec
CONSTANTS
  L0Ids = {m1}
  L1Ids = {n1, n2}
  Models = {e1, e2}
  None = None
  Requests = {r1}
  MinRetain = 1
  MaxWrites = 3
  MaxTime = 1
  MaxStarts = 3
  MaxFaults = 1
PROPERTY UpdateKeepsKind
CHECK_DEADLOCK FALSE
