\* One provider with one capture at a time, two Gateway processes at a time, two
\* events.  The bounds run out, so the system may stop.
SPECIFICATION FairSpec
CONSTANTS
  Provider = provider
  Host = host
  InitThread = init
  Watchdog = watchdog
  Syncs = {sync}
  Supervisors = {provider}
  Threads = {host, init, watchdog, sync}
  supervisorOf <- MCSupervisorOf
  NoThread = NoThread
  Outside = Outside
  MaxGateways = 2
  MaxEvents = 2
  MAX_INFLIGHT_SYNCS = 1
  BREAKER_THRESHOLD = 1
INVARIANTS TypeOK OneLaunch ReleasedIsQuiet
PROPERTY GatewayComesBack
CHECK_DEADLOCK FALSE
