\* One tool pair is appended while a worker's rename copies and deletes the file.
SPECIFICATION Spec
CONSTANTS
  Pairs = {p1, p2}
  Tasks = {t1}
  NoTask = NoTask
  Coroutines = {c1, c2}
  forceTriggerThreshold = 2
  l2NullThreshold = 2
  maxRetries = 1
  namedLocks = FALSE
  MaxEvents = 3
INVARIANT ClaimKeepsPairs
CHECK_DEADLOCK FALSE
