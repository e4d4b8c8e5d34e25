SPECIFICATION Spec
CONSTANTS
  Sessions = {s1}
  Coroutines = {c1, c2}
  Clients = {r1, r2}
  EveryN = 2
  EnableWarmup = TRUE
  BatchN = 2
  MaxRetries = 1
  MessageIds = {1, 2, 3, 4}
  Backlog = 2
  MaxAdds = 2
  Scenarios <- MCScenarios
INVARIANTS TypeOK LockExcludes ExtractedOncePerLoss MemoriesHaveTrigger
PROPERTIES MemoriesReachPersona
CHECK_DEADLOCK FALSE
