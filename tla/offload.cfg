\* Conversations of three tool calls in every format, of two in the plugin; two tool pairs with one task,
\* two prompts and two coroutines.  The bounds run out, so the system may stop.
SPECIFICATION Spec
CONSTANTS
  Formats = {"calls", "blocks", "merged"}
  AGGRESSIVE_MIN_KEEP = 2
  MaxCalls = 3
  MaxMessages = 5
  MIN_KEEP = 3
  maxDistFromTail = 2
  EngineCalls = 2
  Pairs = {p1, p2}
  Tasks = {t1}
  NoTask = NoTask
  MaxPrompts = 2
  L1_BATCH_SIZE = 1
  MAX_L1_CHUNK_RETRIES = 2
  ForceThreshold = 2
  NullThreshold = 2
  Coroutines = {c1, c2}
  maxRetries = 1
  namedLocks = FALSE
  MaxEvents = 3
SYMMETRY MCSymmetry
INVARIANTS TypeOK PairsIntact DecisionsStay UserTurnKept PairsTogether PairsKept EntriesReachL2
CHECK_DEADLOCK FALSE
