SPECIFICATION Spec
CONSTANTS
  a = a
  b = b
  NoSession = NoSession
  Sessions <- MCSessions
  EveryN = 2
  EnableWarmup = FALSE
  MaxRetries = 0
  GcEvery = 1
  Batches <- AnyMessages
  Restored <- NothingRestored
  L1Results <- NoBacklog
  MaxRounds = 1
SYMMETRY MCSymmetry
INVARIANTS FlagsExact WorkHasState NoLostWakeup
CHECK_DEADLOCK FALSE
