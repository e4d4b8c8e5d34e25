SPECIFICATION Spec
CONSTANTS
  a = a
  b = b
  NoSession = NoSession
  Sessions <- OneSession
  EveryN = 3
  EnableWarmup = TRUE
  MaxRetries = 1
  GcEvery = 2
  Batches <- WithMessages
  Restored <- MCRestored
  L1Results <- AnyResult
  MaxRounds = 3
INVARIANTS TypeOK MessagesInOrder PendingL2HasTrigger
CHECK_DEADLOCK FALSE
