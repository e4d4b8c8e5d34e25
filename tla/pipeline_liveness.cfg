SPECIFICATION FairSpec
CONSTANTS
  a = a
  b = b
  NoSession = NoSession
  Sessions <- OneSession
  EveryN = 2
  EnableWarmup = FALSE
  MaxRetries = 0
  GcEvery = 2
  Batches <- WithMessages
  Restored <- NothingRestored
  L1Results <- SmallTail
  MaxRounds = 2
PROPERTIES TriggersFire DestroyReturns PersonaCatchesUp
CHECK_DEADLOCK FALSE
