-------------------------- MODULE GatewaySupervisor --------------------------
(***************************************************************************)
(* The supervisors of the Hermes plugin and the Gateway processes that      *)
(* they and others launch for one address                                   *)
(* (hermes-plugin/memory/memory_tencentdb/supervisor.py).  A thread that    *)
(* needs the Gateway runs ensure_running: probe, lock, probe again, launch, *)
(* wait for health; another one may run shutdown of the same supervisor in  *)
(* between.  ensure[t] is where thread t is in ensure_running, stopping[s]  *)
(* where the shutdown of s is.  The number of a process is taken again when *)
(* it has exited and nothing holds a handle of it.                         *)
(***************************************************************************)
EXTENDS Naturals, FiniteSets

CONSTANTS
  Supervisors, Threads, supervisorOf,
  NoThread,
  Outside,          \* who launches a Gateway that no supervisor launched
  MaxGateways,      \* processes at a time
  MaxEvents         \* crashes, hangs, slow starts, failed launches, launches by
                    \* others and requests in all

ASSUME SupervisorAssumption ==
  /\ supervisorOf \in [Threads -> Supervisors]
  /\ NoThread \notin Threads /\ Outside \notin Supervisors
  /\ MaxGateways \in Nat /\ MaxEvents \in Nat

VARIABLES
  gateways,           \* the processes: who launched each, and its state
  process,            \* _process: the supervisor's Popen handle, 0 for None
  shutdownRequested,  \* _shutdown_requested
  startLock,          \* the holder of the single-flight lock of the address
  ensure, stopping,
  commands,           \* the supervisors with a _gateway_cmd
  events,
  missed              \* history: the processes that a health check gave up on

supervisorVars == <<gateways, process, shutdownRequested, startLock, ensure, stopping,
                    commands, events, missed>>

Ids == 1..MaxGateways
Exited == [by |-> Outside, state |-> "exited"]
States == {"starting", "serving", "hung", "stopping", "exited"}
Places == {"idle", "probe", "lock", "reprobe", "popen", "wait", "up", "down"}
NotStopping == [at |-> "no", proc |-> 0]

In(states) == {g \in Ids : gateways[g].state \in states}
Alive == In({"starting", "serving", "hung", "stopping"})
LaunchedBy(who) == {g \in Ids : gateways[g].by \in who}

\* a listener holds the port, also one that does not answer
PortTaken == In({"serving", "hung", "stopping"}) # {}

\* is_running() and one round of _wait_for_health: a Gateway that shuts down may
\* still answer
HealthIs(answer) ==
  IF answer THEN In({"serving", "stopping"}) # {} ELSE In({"serving"}) = {}

SupervisorInit ==
  /\ gateways = [g \in Ids |-> Exited]
  /\ process = [s \in Supervisors |-> 0]
  /\ shutdownRequested = [s \in Supervisors |-> FALSE]
  /\ startLock = NoThread
  /\ ensure = [t \in Threads |-> "idle"]
  /\ stopping = [s \in Supervisors |-> NotStopping]
  /\ commands \in SUBSET Supervisors
  /\ events = 0 /\ missed = {}
-----------------------------------------------------------------------------
(* ensure_running, by thread t                                             *)

Goes(t, place) == ensure' = [ensure EXCEPT ![t] = place]
Returns(t, up) == Goes(t, IF up THEN "up" ELSE "down")
Unlock == startLock' = NoThread
Happens == events < MaxEvents /\ events' = events + 1

SupervisorKeeps == UNCHANGED <<commands, stopping>>

EnsureRunning(t) ==
  /\ ensure[t] = "idle" /\ Goes(t, "probe")
  /\ UNCHANGED <<gateways, process, shutdownRequested, startLock, events, missed>>
  /\ SupervisorKeeps

FirstProbe(t) ==
  /\ ensure[t] = "probe"
  /\ \/ HealthIs(TRUE) /\ Returns(t, TRUE)
     \/ HealthIs(FALSE) /\ Goes(t, "lock")
  /\ UNCHANGED <<gateways, process, shutdownRequested, startLock, events, missed>>
  /\ SupervisorKeeps

StartupSingleflight(t) ==
  /\ ensure[t] = "lock" /\ startLock = NoThread
  /\ startLock' = t /\ Goes(t, "reprobe")
  /\ UNCHANGED <<gateways, process, shutdownRequested, events, missed>>
  /\ SupervisorKeeps

\* _reap_dead_process: the handle of a process that has exited is dropped
Reaped(s) ==
  IF process[s] # 0 /\ gateways[process[s]].state = "exited" THEN 0 ELSE process[s]

\* another supervisor may have launched it while we waited for the lock
Reprobe(t) ==
  /\ ensure[t] = "reprobe" /\ HealthIs(TRUE) /\ Returns(t, TRUE) /\ Unlock
  /\ UNCHANGED <<gateways, process, shutdownRequested, events, missed>>
  /\ SupervisorKeeps

\* Variant: what was down before the lock is taken to be down still.
PrepareUnprobed(t) ==
  LET s == supervisorOf[t] IN
  /\ ensure[t] = "reprobe"
  /\ process' = [process EXCEPT ![s] = Reaped(s)]
  /\ IF s \in commands
     THEN /\ shutdownRequested' = [shutdownRequested EXCEPT ![s] = FALSE]
          /\ Goes(t, "popen") /\ UNCHANGED startLock
     ELSE /\ Returns(t, FALSE) /\ Unlock /\ UNCHANGED shutdownRequested
  /\ UNCHANGED <<gateways, events, missed>> /\ SupervisorKeeps
Prepare(t) ==
  LET s == supervisorOf[t] IN
  /\ ensure[t] = "reprobe" /\ HealthIs(FALSE)
  /\ process' = [process EXCEPT ![s] = Reaped(s)]
  /\ IF s \in commands
     THEN /\ shutdownRequested' = [shutdownRequested EXCEPT ![s] = FALSE]
          /\ Goes(t, "popen") /\ UNCHANGED startLock
     ELSE /\ Returns(t, FALSE) /\ Unlock /\ UNCHANGED shutdownRequested
  /\ UNCHANGED <<gateways, events, missed>> /\ SupervisorKeeps

Free(g, who) ==
  /\ gateways[g].state = "exited"
  /\ \A s \in Supervisors : stopping[s].proc # g /\ (s # who => process[s] # g)

Launch(g, who) ==
  /\ Free(g, who) /\ \A h \in 1..(g - 1) : ~Free(h, who)
  /\ gateways' = [gateways EXCEPT ![g] = [by |-> who, state |-> "starting"]]
  /\ missed' = missed \ {g}

\* the handle of a process that still runs, one that hangs or starts slowly, is
\* replaced
Popen(t) ==
  LET s == supervisorOf[t] IN
  /\ ensure[t] = "popen"
  /\ \/ /\ \E g \in Ids : Launch(g, s) /\ process' = [process EXCEPT ![s] = g]
        /\ Goes(t, "wait") /\ UNCHANGED <<startLock, events>>
     \/ Happens /\ Returns(t, FALSE) /\ Unlock /\ UNCHANGED <<gateways, process, missed>>
  /\ UNCHANGED shutdownRequested /\ SupervisorKeeps

StartingHere == {g \in In({"starting"}) : gateways[g].by # Outside}

\* one round of _wait_for_health that ends it
WaitForHealth(t) ==
  LET s == supervisorOf[t]
      died == process[s] # 0 /\ gateways[process[s]].state = "exited" IN
  /\ ensure[t] = "wait"
  /\ \/ (shutdownRequested[s] \/ died) /\ Returns(t, FALSE)
     \/ ~shutdownRequested[s] /\ ~died /\ HealthIs(TRUE) /\ Returns(t, TRUE)
  /\ Unlock /\ missed' = missed \cup StartingHere
  /\ UNCHANGED <<gateways, process, shutdownRequested, events>> /\ SupervisorKeeps

\* HEALTH_CHECK_MAX_WAIT is over: a slow start, or nothing is left to wait for
WaitExpires(t) ==
  /\ ensure[t] = "wait" /\ HealthIs(FALSE)
  /\ IF StartingHere = {} THEN UNCHANGED events ELSE Happens
  /\ Returns(t, FALSE) /\ Unlock /\ missed' = missed \cup StartingHere
  /\ UNCHANGED <<gateways, process, shutdownRequested>> /\ SupervisorKeeps

Returned(t) ==
  /\ ensure[t] \in {"up", "down"} /\ Goes(t, "idle")
  /\ UNCHANGED <<gateways, process, shutdownRequested, startLock, events, missed>>
  /\ SupervisorKeeps
-----------------------------------------------------------------------------
(* shutdown, of supervisor s, without the lock                             *)

ShutdownKeeps == UNCHANGED <<startLock, ensure, commands, events, missed>>

RequestShutdown(s) ==
  /\ stopping[s].at = "no"
  /\ shutdownRequested' = [shutdownRequested EXCEPT ![s] = TRUE]
  /\ stopping' = [stopping EXCEPT ![s].at = "requested"]
  /\ UNCHANGED <<gateways, process>> /\ ShutdownKeeps

\* SIGTERM to the process group; one that serves shuts down, one that hangs
\* does not notice
Terminate(s) ==
  LET p == process[s] IN
  /\ stopping[s].at = "requested"
  /\ IF p = 0 THEN stopping' = [stopping EXCEPT ![s] = [at |-> "done", proc |-> 0]]
     ELSE stopping' = [stopping EXCEPT ![s] = [at |-> "wait", proc |-> p]]
  /\ gateways' =
       IF p = 0 THEN gateways
       ELSE [gateways EXCEPT ![p].state =
               CASE @ = "serving" -> "stopping" [] @ = "starting" -> "exited" [] OTHER -> @]
  /\ UNCHANGED <<process, shutdownRequested>> /\ ShutdownKeeps

\* proc.wait, after ten seconds SIGKILL; whatever _process is by then is dropped
Collect(s) ==
  /\ stopping[s].at = "wait"
  /\ gateways' = [gateways EXCEPT ![stopping[s].proc].state = "exited"]
  /\ process' = [process EXCEPT ![s] = 0]
  /\ stopping' = [stopping EXCEPT ![s] = [at |-> "done", proc |-> 0]]
  /\ UNCHANGED shutdownRequested /\ ShutdownKeeps

\* another provider process may take the supervisor's place
ShutdownOver(s) ==
  /\ stopping[s].at = "done" /\ stopping' = [stopping EXCEPT ![s] = NotStopping]
  /\ UNCHANGED <<gateways, process, shutdownRequested>> /\ ShutdownKeeps
-----------------------------------------------------------------------------
(* The Gateway processes.                                                  *)

ProcessesKeep ==
  UNCHANGED <<process, shutdownRequested, startLock, ensure, stopping, commands>>

Becomes(g, state) == gateways' = [gateways EXCEPT ![g].state = state]

\* it listens, or finds the address in use and exits
Listens(g) ==
  /\ gateways[g].state = "starting"
  /\ Becomes(g, IF PortTaken THEN "exited" ELSE "serving")
  /\ UNCHANGED <<events, missed>> /\ ProcessesKeep

Crashes(g) ==
  /\ g \in In({"starting", "serving", "hung"}) /\ Happens /\ Becomes(g, "exited")
  /\ UNCHANGED missed /\ ProcessesKeep

Hangs(g) ==
  /\ gateways[g].state = "serving" /\ Happens /\ Becomes(g, "hung")
  /\ missed' = missed \cup {g}
  /\ ProcessesKeep

AnswersAgain(g) ==
  /\ gateways[g].state = "hung" /\ Becomes(g, "serving")
  /\ UNCHANGED <<events, missed>> /\ ProcessesKeep

LaunchedOutside(g) ==
  /\ Happens /\ Launch(g, Outside)
  /\ ProcessesKeep

Steps(t) ==
  \/ FirstProbe(t) \/ StartupSingleflight(t) \/ Reprobe(t) \/ Prepare(t) \/ Popen(t)
  \/ WaitForHealth(t) \/ WaitExpires(t)

ShutdownSteps(s) == Terminate(s) \/ Collect(s)

Processes ==
  \E g \in Ids : Listens(g) \/ Crashes(g) \/ Hangs(g) \/ AnswersAgain(g) \/ LaunchedOutside(g)

SupervisorNext ==
  \/ \E t \in Threads : EnsureRunning(t) \/ Steps(t) \/ Returned(t)
  \/ \E s \in Supervisors : RequestShutdown(s) \/ ShutdownSteps(s) \/ ShutdownOver(s)
  \/ Processes

SupervisorSpec == SupervisorInit /\ [][SupervisorNext]_supervisorVars
-----------------------------------------------------------------------------
SupervisorTypeOK ==
  /\ gateways \in [Ids -> [by : Supervisors \cup {Outside}, state : States]]
  /\ process \in [Supervisors -> 0..MaxGateways]
  /\ shutdownRequested \in [Supervisors -> BOOLEAN]
  /\ startLock \in Threads \cup {NoThread}
  /\ ensure \in [Threads -> Places]
  /\ stopping \in [Supervisors ->
                    [at : {"no", "requested", "wait", "done"}, proc : 0..MaxGateways]]
  /\ commands \in SUBSET Supervisors
  /\ events \in 0..MaxEvents
  /\ missed \in SUBSET Ids

\* However many supervisors and threads find the Gateway down at once, they
\* launch one: a second process runs only beside one that hung, whose start took
\* longer than the wait, or whose launch was overtaken by a shutdown
\* (supervisor.py:279-281, test_memory_tencentdb_recovery.py:235).
OneLaunch ==
  \A g, h \in LaunchedBy(Supervisors) \cap In({"starting", "serving"}) :
    g \notin missed /\ h \notin missed => g = h
=============================================================================
