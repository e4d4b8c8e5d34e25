\* Two sessions with three rows and two memories; three records and two models.
\* The bounds run out, so the system may stop.
SPECIFICATION Spec
CONSTANTS
  Sessions = {s1, s2}
  L1_BATCH_PROCESS = 1
  MaxNew = 1
  MaxPerCapture = 2
  MaxRows = 3
  MaxMemories = 2
  MaxTime = 2
  MaxFaults = 1
  L0Ids = {m1}
  L1Ids = {n1, n2}
  Models = {e1, e2}
  None = None
  Requests = {r1}
  MinRetain = 1
  MaxWrites = 3
  MaxDays = 1
  MaxStarts = 3
SYMMETRY MCSymmetry
INVARIANTS TypeOK CursorsSkipNothing MemoriesKeepFacts SearchesTrue
CHECK_DEADLOCK FALSE
