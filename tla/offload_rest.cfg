SPECIFICATION FairSpec
CONSTANTS
  Pairs = {p1, p2}
  Tasks = {t1}
  NoTask = NoTask
  L1_BATCH_SIZE = 2
  MAX_L1_CHUNK_RETRIES = 2
  ForceThreshold = 2
  NullThreshold = 2
  MaxPrompts = 1
PROPERTY ShortTasksRest
CHECK_DEADLOCK FALSE
