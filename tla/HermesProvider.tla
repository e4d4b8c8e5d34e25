--------------------------- MODULE HermesProvider ---------------------------
(***************************************************************************)
(* The Hermes memory provider (hermes-plugin/memory/memory_tencentdb/       *)
(* __init__.py): the host's thread, which initializes it, sends requests    *)
(* and shuts it down; the thread that starts the Gateway in the background; *)
(* the watchdog; a thread for every captured turn.  All of them may find    *)
(* the Gateway down and try to bring it back, through one supervisor.       *)
(* at[t] is where thread t is, next[t] where it goes on after a recovery.   *)
(***************************************************************************)
EXTENDS GatewaySupervisor

CONSTANTS
  Provider, Host, InitThread, Watchdog, Syncs,
  MAX_INFLIGHT_SYNCS, BREAKER_THRESHOLD

ASSUME ProviderAssumption ==
  /\ Supervisors = {Provider}
  /\ Threads = {Host, InitThread, Watchdog} \cup Syncs
  /\ Host # InitThread /\ Host # Watchdog /\ InitThread # Watchdog
  /\ {Host, InitThread, Watchdog} \cap Syncs = {}
  /\ MAX_INFLIGHT_SYNCS \in Nat \ {0} /\ BREAKER_THRESHOLD \in Nat \ {0}

VARIABLES
  supervisor, client, available,  \* _supervisor, _client, _gateway_available: set or not
  failures,                       \* _consecutive_failures, up to the threshold
  recoverLock,                    \* who holds _recover_lock
  attempted,                      \* _last_recover_attempt is a time
  watchdogStop,                   \* the event _watchdog_stop
  activeSyncs,                    \* _active_syncs; the wait for the oldest ends whichever it is
  at, next,
  abandoned                       \* history: the threads that shutdown did not wait for

state == <<supervisor, client, available, failures, attempted>>
threads == <<activeSyncs, watchdogStop, abandoned>>
vars == <<supervisorVars, state, recoverLock, at, next, threads>>

ShuttingDown == {"joinWatchdog", "joinSyncs", "shutdown", "release", "released"}
Positions ==
  {"none", "done", "idle", "tick", "call", "tool", "capture", "register", "joinOldest",
   "probe", "attach", "start", "starting", "recover", "ensure", "recovered"}
  \cup ShuttingDown

Running(t) == at[t] \notin {"none", "done"}
Moves(t, place) == at' = [at EXCEPT ![t] = place]

Init ==
  /\ SupervisorInit
  /\ supervisor = FALSE /\ client = FALSE /\ available = FALSE
  /\ failures = 0 /\ attempted = FALSE
  /\ recoverLock = NoThread /\ watchdogStop = FALSE /\ activeSyncs = {}
  /\ at = [t \in Threads |-> "none"] /\ next = [t \in Threads |-> "none"]
  /\ abandoned = {}
-----------------------------------------------------------------------------
(* The Gateway is reachable: the client is attached and the breaker closed. *)

Attach == client' = TRUE /\ available' = TRUE /\ failures' = 0

RecordFailure ==
  failures' = IF failures < BREAKER_THRESHOLD THEN failures + 1 ELSE failures

\* Variant: a pause that is over takes the threshold off the count.
BreakerIsSubtracting(open) ==
  IF open THEN failures = BREAKER_THRESHOLD /\ UNCHANGED failures
  ELSE failures' = failures - BREAKER_THRESHOLD
\* _is_breaker_open: with enough failures it answers TRUE, or the pause since the
\* last of them is over and they are forgotten.  How much time has passed is left
\* open, here and in the cooldown of the recoveries.
BreakerIs(open) ==
  IF open THEN failures = BREAKER_THRESHOLD /\ UNCHANGED failures
  ELSE failures' = IF failures = BREAKER_THRESHOLD THEN 0 ELSE failures
-----------------------------------------------------------------------------
(* _try_recover_gateway, by thread t, which then goes on at place after     *)

\* its early returns: released, too soon, or another thread is at it
Refuses(bypass_cooldown) ==
  ~supervisor \/ recoverLock # NoThread \/ (~bypass_cooldown /\ attempted)

TryRecover(t, bypass_cooldown, after) ==
  \/ /\ supervisor /\ recoverLock = NoThread
     /\ recoverLock' = t /\ Moves(t, "recover")
     /\ next' = [next EXCEPT ![t] = after]
  \/ Refuses(bypass_cooldown) /\ Moves(t, after) /\ UNCHANGED <<recoverLock, next>>

RecoverProbes(t) ==
  /\ at[t] = "recover"
  /\ \/ HealthIs(TRUE) /\ Moves(t, "recovered") /\ UNCHANGED supervisorVars
     \/ HealthIs(FALSE) /\ Moves(t, "ensure") /\ EnsureRunning(t)
  /\ UNCHANGED <<state, recoverLock, next, threads>>

RecoverEnds(t) ==
  /\ \/ at[t] = "recovered" /\ UNCHANGED supervisorVars
     \/ at[t] = "ensure" /\ Returned(t)
  /\ attempted' = TRUE
  /\ IF at[t] = "recovered" \/ ensure[t] = "up" THEN Attach
     ELSE UNCHANGED <<client, available, failures>>
  /\ recoverLock' = NoThread /\ Moves(t, next[t])
  /\ next' = [next EXCEPT ![t] = "none"]
  /\ UNCHANGED <<supervisor, threads>>

Recovery(t) == RecoverProbes(t) \/ RecoverEnds(t)
-----------------------------------------------------------------------------
(* initialize and its background thread                                    *)

Initialize ==
  /\ at[Host] = "none" /\ supervisor' = TRUE
  /\ \/ /\ HealthIs(TRUE) /\ client' = TRUE /\ available' = TRUE
        /\ at' = [at EXCEPT ![Host] = "idle", ![Watchdog] = "tick"]
     \/ /\ HealthIs(FALSE) /\ UNCHANGED <<client, available>>
        /\ at' = [at EXCEPT ![Host] = "idle", ![Watchdog] = "tick", ![InitThread] = "start"]
  /\ UNCHANGED <<supervisorVars, failures, attempted, recoverLock, next, threads>>

\* it does not take _recover_lock; a released provider has no supervisor to ask
BackgroundStart ==
  /\ at[InitThread] = "start"
  /\ IF supervisor THEN Moves(InitThread, "starting") /\ EnsureRunning(InitThread)
     ELSE Moves(InitThread, "done") /\ UNCHANGED supervisorVars
  /\ UNCHANGED <<state, recoverLock, next, threads>>

BackgroundStarted ==
  /\ at[InitThread] = "starting" /\ Returned(InitThread)
  /\ IF ensure[InitThread] = "up" /\ supervisor THEN client' = TRUE /\ available' = TRUE
     ELSE UNCHANGED <<client, available>>
  /\ Moves(InitThread, "done")
  /\ UNCHANGED <<supervisor, failures, attempted, recoverLock, next, threads>>
-----------------------------------------------------------------------------
(* The watchdog.  A tick that finds the child alive and the provider        *)
(* available does nothing.                                                  *)

ProcessAlive == process[Provider] \in Alive

WatchdogTick ==
  /\ at[Watchdog] = "tick"
  /\ \/ (watchdogStop \/ ~supervisor) /\ Moves(Watchdog, "done")
     \/ ~watchdogStop /\ supervisor /\ ~(available /\ ProcessAlive) /\ Moves(Watchdog, "probe")
  /\ UNCHANGED <<supervisorVars, state, recoverLock, next, threads>>

\* Variant: the watchdog waits for the cooldown like everybody else.
WatchdogProbesLater ==
  /\ at[Watchdog] = "probe"
  /\ \/ /\ HealthIs(TRUE)
        /\ Moves(Watchdog, IF available THEN "tick" ELSE "attach")
        /\ UNCHANGED <<recoverLock, next>>
     \/ HealthIs(FALSE) /\ TryRecover(Watchdog, FALSE, "tick")
  /\ UNCHANGED <<supervisorVars, state, threads>>
WatchdogProbes ==
  /\ at[Watchdog] = "probe"
  /\ \/ /\ HealthIs(TRUE)
        /\ Moves(Watchdog, IF available THEN "tick" ELSE "attach")
        /\ UNCHANGED <<recoverLock, next>>
     \/ HealthIs(FALSE) /\ TryRecover(Watchdog, TRUE, "tick")
  /\ UNCHANGED <<supervisorVars, state, threads>>

WatchdogAttaches ==
  /\ at[Watchdog] = "attach" /\ Attach /\ Moves(Watchdog, "tick")
  /\ UNCHANGED <<supervisorVars, supervisor, attempted, recoverLock, next, threads>>

WatchdogLoop ==
  WatchdogTick \/ WatchdogProbes \/ WatchdogAttaches
-----------------------------------------------------------------------------
(* Requests of the host: prefetch and the tools ask the Gateway at once,      *)
(* sync_turn ("register") hands the turn to a thread ("register").           *)

\* _ensure_alive_for_request; what an open breaker refuses is left out
Request ==
  /\ at[Host] = "idle" /\ Happens
  /\ \E kind \in {"call", "tool", "register"} :
       \/ available /\ Moves(Host, kind) /\ UNCHANGED <<failures, recoverLock, next>>
       \/ ~available /\ BreakerIs(FALSE) /\ TryRecover(Host, FALSE, kind)
  /\ UNCHANGED <<gateways, process, shutdownRequested, startLock, ensure, stopping, commands,
                 missed, supervisor, client, available, attempted, activeSyncs, watchdogStop, abandoned>>

Refused ==
  /\ \/ at[Host] \in {"call", "register"} /\ ~(available /\ client)
     \/ at[Host] = "tool" /\ (~client \/ BreakerIs(TRUE))
  /\ Moves(Host, "idle")
  /\ UNCHANGED <<supervisorVars, state, recoverLock, next, threads>>

ToolAdmitted ==
  /\ at[Host] = "tool" /\ client /\ BreakerIs(FALSE) /\ Moves(Host, "call")
  /\ UNCHANGED <<supervisorVars, supervisor, client, available, attempted, recoverLock,
                 next, threads>>

\* the call of thread t to the Gateway: a failure is counted and starts a recovery
Calls(t, after) ==
  /\ \/ /\ HealthIs(TRUE) /\ failures' = 0 /\ Moves(t, after)
        /\ UNCHANGED <<recoverLock, next>>
     \/ HealthIs(FALSE) /\ RecordFailure /\ TryRecover(t, FALSE, after)
  /\ UNCHANGED <<supervisorVars, supervisor, client, available, attempted, threads>>

Asks == at[Host] = "call" /\ available /\ client /\ Calls(Host, "idle")

RunningSyncs == {t \in activeSyncs : Running(t)}

\* sync_turn reaps the threads that have ended; when there are too many it first
\* waits for the oldest, for SYNC_JOIN_TIMEOUT_SECS
SyncTurn ==
  /\ at[Host] = "register" /\ available /\ client /\ Cardinality(RunningSyncs) >= MAX_INFLIGHT_SYNCS
  /\ activeSyncs' = RunningSyncs /\ Moves(Host, "joinOldest")
  /\ UNCHANGED <<supervisorVars, state, recoverLock, next, watchdogStop, abandoned>>

StartSync ==
  /\ \/ at[Host] = "register" /\ available /\ client /\ Cardinality(RunningSyncs) < MAX_INFLIGHT_SYNCS
     \/ at[Host] = "joinOldest"
  /\ \E t \in Syncs :
       /\ ~Running(t) /\ activeSyncs' = RunningSyncs \cup {t}
       /\ at' = [at EXCEPT ![Host] = "idle", ![t] = "capture"]
  /\ UNCHANGED <<supervisorVars, state, recoverLock, next, watchdogStop, abandoned>>

Captures(t) == at[t] = "capture" /\ Calls(t, "done")
-----------------------------------------------------------------------------
(* shutdown: the watchdog first, then the captures, then the Gateway.  Every *)
(* wait has a timeout.                                                       *)

BeginShutdown ==
  /\ at[Host] = "idle" /\ watchdogStop' = TRUE /\ Moves(Host, "joinWatchdog")
  /\ UNCHANGED <<supervisorVars, state, recoverLock, next, activeSyncs, abandoned>>

Abandon(those) == abandoned' = abandoned \cup {t \in those : Running(t)}

JoinWatchdog ==
  /\ at[Host] = "joinWatchdog" /\ Abandon({Watchdog}) /\ Moves(Host, "joinSyncs")
  /\ UNCHANGED <<supervisorVars, state, recoverLock, next, activeSyncs, watchdogStop>>

\* Variant: the captures are forgotten and nobody waits for them.
JoinSyncsForgets ==
  /\ at[Host] = "joinSyncs" /\ activeSyncs' = {} /\ UNCHANGED abandoned
  /\ Moves(Host, "shutdown")
  /\ UNCHANGED <<supervisorVars, state, recoverLock, next, watchdogStop>>
JoinSyncs ==
  /\ at[Host] = "joinSyncs" /\ Abandon(activeSyncs) /\ activeSyncs' = {}
  /\ Moves(Host, "shutdown")
  /\ UNCHANGED <<supervisorVars, state, recoverLock, next, watchdogStop>>

ShutdownSupervisor ==
  /\ at[Host] = "shutdown"
  /\ \/ RequestShutdown(Provider) /\ Abandon({InitThread}) /\ UNCHANGED at
     \/ ShutdownSteps(Provider) /\ UNCHANGED <<abandoned, at>>
     \/ /\ stopping[Provider].at = "done" /\ Moves(Host, "release")
        /\ UNCHANGED <<supervisorVars, abandoned>>
  /\ UNCHANGED <<state, recoverLock, next, activeSyncs, watchdogStop>>

Release ==
  /\ at[Host] = "release" /\ Moves(Host, "released")
  /\ client' = FALSE /\ available' = FALSE /\ supervisor' = FALSE
  /\ UNCHANGED <<supervisorVars, failures, attempted, recoverLock, next, threads>>
-----------------------------------------------------------------------------

Environment ==
  /\ Processes
  /\ UNCHANGED <<state, recoverLock, at, next, threads>>

\* the steps of ensure_running itself
Ensures(t) ==
  /\ Steps(t)
  /\ UNCHANGED <<state, recoverLock, at, next, threads>>

HostSteps ==
  \/ Refused \/ ToolAdmitted \/ Asks \/ SyncTurn \/ StartSync
  \/ JoinWatchdog \/ JoinSyncs \/ ShutdownSupervisor \/ Release

ThreadSteps(t) ==
  \/ Recovery(t) \/ Ensures(t)
  \/ t = Host /\ HostSteps
  \/ t = InitThread /\ (BackgroundStart \/ BackgroundStarted)
  \/ t = Watchdog /\ WatchdogLoop
  \/ t \in Syncs /\ Captures(t)

Next ==
  \/ \E t \in Threads : ThreadSteps(t)
  \/ Initialize \/ Request \/ BeginShutdown
  \/ Environment

Spec == Init /\ [][Next]_vars

\* Threads run, a launched Gateway listens unless it crashes, and one that hangs
\* answers again or is killed.
Settles(g) ==
  /\ Listens(g) \/ AnswersAgain(g)
  /\ UNCHANGED <<state, recoverLock, at, next, threads>>
FairSpec ==
  /\ Spec
  /\ \A g \in 1..MaxGateways : WF_vars(Settles(g))
  /\ \A t \in Threads : WF_vars(ThreadSteps(t))
-----------------------------------------------------------------------------
TypeOK ==
  /\ SupervisorTypeOK
  /\ supervisor \in BOOLEAN /\ client \in BOOLEAN /\ available \in BOOLEAN
  /\ failures \in 0..BREAKER_THRESHOLD /\ attempted \in BOOLEAN
  /\ recoverLock \in Threads \cup {NoThread} /\ watchdogStop \in BOOLEAN
  /\ activeSyncs \in SUBSET Syncs
  /\ at \in [Threads -> Positions] /\ next \in [Threads -> Positions]
  /\ abandoned \in SUBSET Threads

\* When shutdown has waited for every thread, the Gateway it started is gone and
\* nothing attaches the released provider again, except for processes that the
\* supervisor lost sight of (test_gateway_shutdown_leak.py:322,
\* __init__.py:466-468).
ReleasedIsQuiet ==
  at[Host] = "released" /\ abandoned = {} =>
    /\ ~client /\ ~available
    /\ LaunchedBy({Provider}) \cap Alive \subseteq missed

\* The Gateway is up and the provider knows it.
Attached == available /\ client /\ In({"serving"}) # {}

\* When the troubles are over the watchdog brings the Gateway back, whatever the
\* requests, the recoveries and the breaker were doing (__init__.py:577-583).
GatewayComesBack ==
  <>[](Attached \/ at[Host] \in {"none"} \cup ShuttingDown \/ commands = {})
=============================================================================
