----------------------------- MODULE HermesProofs -----------------------------
(***************************************************************************)
(* However many supervisors, threads and Gateway processes there are, no    *)
(* Gateway is launched beside one that still answers or whose start         *)
(* somebody waits for.  The argument: who launches holds the lock from its  *)
(* second probe to the end of its wait (LaunchersHoldLock), so a process    *)
(* that starts is awaited by the holder (StartsAreAwaited); one that hangs  *)
(* has missed a health check (HungMissed); hence nothing fresh runs when    *)
(* the holder of the lock is about to launch (NothingFreshAtLaunch).        *)
(*                                                                          *)
(* The provider's threads launch one Gateway at a time, because every step  *)
(* of the provider is a step of the supervisor or leaves it alone; and      *)
(* nobody attaches a client to a provider that has been released.           *)
(***************************************************************************)
EXTENDS HermesProvider, TLAPS

-----------------------------------------------------------------------------
(* The supervisor *)

\* the processes of supervisors that no health check has given up on
Fresh(g) ==
  /\ gateways[g].by \in Supervisors
  /\ gateways[g].state \in {"starting", "serving"}
  /\ g \notin missed

ProcessTypes ==
  /\ gateways \in [Ids -> [by : Supervisors \cup {Outside}, state : States]]
  /\ ensure \in [Threads -> Places]
  /\ startLock \in Threads \cup {NoThread}

LaunchersHoldLock ==
  \A t \in Threads : ensure[t] \in {"reprobe", "popen", "wait"} => startLock = t

StartsAreAwaited ==
  \A g \in Ids : Fresh(g) /\ gateways[g].state = "starting" =>
    \E t \in Threads : ensure[t] = "wait"

HungMissed ==
  \A g \in Ids : gateways[g].by \in Supervisors /\ gateways[g].state = "hung" => g \in missed

NothingFreshAtLaunch ==
  (\E t \in Threads : ensure[t] = "popen") => \A g \in Ids : ~Fresh(g)

OneFresh == \A g, h \in Ids : Fresh(g) /\ Fresh(h) => g = h

LaunchInv ==
  /\ ProcessTypes /\ LaunchersHoldLock /\ StartsAreAwaited /\ HungMissed
  /\ NothingFreshAtLaunch /\ OneFresh

launchVars == <<gateways, missed, ensure, startLock>>

LEMMA LaunchInvInit == SupervisorInit => LaunchInv
BY SupervisorAssumption
   DEF SupervisorInit, LaunchInv, ProcessTypes, LaunchersHoldLock, StartsAreAwaited,
       HungMissed, NothingFreshAtLaunch, OneFresh, Fresh, Exited, States, Places

\* A step that changes no process and no history, and by which no thread comes to
\* launch or stops waiting.
LEMMA ThreadMoves ==
  ASSUME LaunchInv, UNCHANGED <<gateways, missed>>,
         NEW t \in Threads, NEW place \in Places, ensure' = [ensure EXCEPT ![t] = place],
         place \notin {"popen", "wait"}, ensure[t] # "wait",
         \/ startLock' = startLock /\ (place = "reprobe" => startLock = t)
         \/ startLock = NoThread /\ startLock' = t
         \/ startLock = t /\ startLock' = NoThread /\ place # "reprobe"
  PROVE  LaunchInv'
<1>1. ProcessTypes'
  BY DEF LaunchInv, ProcessTypes
<1>2. LaunchersHoldLock'
  BY SupervisorAssumption DEF LaunchInv, ProcessTypes, LaunchersHoldLock
<1>3. StartsAreAwaited'
  BY DEF LaunchInv, ProcessTypes, StartsAreAwaited, Fresh
<1>4. HungMissed'
  BY DEF LaunchInv, HungMissed
<1>5. NothingFreshAtLaunch'
  BY DEF LaunchInv, ProcessTypes, NothingFreshAtLaunch, Fresh
<1>6. OneFresh'
  BY DEF LaunchInv, OneFresh, Fresh
<1> QED BY <1>1, <1>2, <1>3, <1>4, <1>5, <1>6 DEF LaunchInv

\* A step of the processes alone: none is launched by a supervisor, one that hangs
\* is marked, one that answered or started before may have stopped.
LEMMA ProcessMoves ==
  ASSUME LaunchInv, UNCHANGED <<ensure, startLock>>,
         NEW g \in Ids, NEW new \in [by : Supervisors \cup {Outside}, state : States],
         gateways' = [gateways EXCEPT ![g] = new],
         \A h \in Ids \ {g} : h \in missed' <=> h \in missed,
         Fresh(g)' => Fresh(g) /\ (new.state = "starting" => gateways[g].state = "starting"),
         new.by \in Supervisors /\ new.state = "hung" => g \in missed'
  PROVE  LaunchInv'
<1>1. \A h \in Ids : Fresh(h)' => Fresh(h)
                       /\ (gateways'[h].state = "starting" => gateways[h].state = "starting")
  BY DEF LaunchInv, ProcessTypes, Fresh
<1>2. ProcessTypes'
  BY DEF LaunchInv, ProcessTypes
<1>3. LaunchersHoldLock'
  BY DEF LaunchInv, LaunchersHoldLock
<1>4. StartsAreAwaited'
  BY <1>1 DEF LaunchInv, StartsAreAwaited
<1>5. HungMissed'
  BY DEF LaunchInv, ProcessTypes, HungMissed
<1>6. NothingFreshAtLaunch' /\ OneFresh'
  BY <1>1 DEF LaunchInv, NothingFreshAtLaunch, OneFresh
<1> QED BY <1>2, <1>3, <1>4, <1>5, <1>6 DEF LaunchInv
-----------------------------------------------------------------------------
\* Popen by t: it holds the lock, so nobody else waits or launches, and nothing
\* fresh runs; the new process is the only fresh one, and t waits for it.
LEMMA PopenKeepsInv ==
  ASSUME LaunchInv, NEW t \in Threads, Popen(t)
  PROVE  LaunchInv'
<1> DEFINE s == supervisorOf[t]
<1>0. s \in Supervisors /\ ensure[t] = "popen" /\ startLock = t
  BY SupervisorAssumption DEF LaunchInv, LaunchersHoldLock, Popen
<1>1. ASSUME NEW g \in Ids, Launch(g, s), Goes(t, "wait"), UNCHANGED startLock
      PROVE  LaunchInv'
  <2>1. \A h \in Ids : Fresh(h)' => h = g
    BY <1>0, <1>1 DEF LaunchInv, ProcessTypes, NothingFreshAtLaunch, Fresh, Launch
  <2>2. ProcessTypes'
    BY <1>0, <1>1 DEF LaunchInv, ProcessTypes, Launch, Goes, States, Places
  <2>3. LaunchersHoldLock' /\ \A u \in Threads : ensure'[u] # "popen"
    BY <1>0, <1>1 DEF LaunchInv, ProcessTypes, LaunchersHoldLock, Goes
  <2>4. StartsAreAwaited'
    BY <1>1 DEF LaunchInv, ProcessTypes, StartsAreAwaited, Goes
  <2>5. HungMissed'
    BY <1>1 DEF LaunchInv, ProcessTypes, HungMissed, Launch
  <2> QED BY <2>1, <2>2, <2>3, <2>4, <2>5
          DEF LaunchInv, NothingFreshAtLaunch, OneFresh
<1>2. CASE Returns(t, FALSE) /\ Unlock /\ UNCHANGED <<gateways, process, missed>>
  BY <1>0, <1>2, ThreadMoves DEF Returns, Goes, Unlock, Places
<1> QED BY <1>1, <1>2 DEF Popen

\* The end of a wait: what still starts is given up, the lock is free.
LEMMA WaitEndsKeepsInv ==
  ASSUME LaunchInv, NEW t \in Threads, WaitForHealth(t) \/ WaitExpires(t)
  PROVE  LaunchInv'
<1>1. /\ startLock = t /\ startLock' = NoThread /\ gateways' = gateways
      /\ missed' = missed \cup StartingHere
      /\ ensure' \in [Threads -> Places]
      /\ \A u \in Threads : ensure'[u] \in {"up", "down"} \/ (u # t /\ ensure'[u] = ensure[u])
  BY DEF LaunchInv, LaunchersHoldLock, ProcessTypes, WaitForHealth, WaitExpires,
         Returns, Goes, Unlock, Places
<1>2. \A g \in Ids : Fresh(g)' => Fresh(g) /\ gateways[g].state # "starting"
  BY <1>1, SupervisorAssumption DEF LaunchInv, ProcessTypes, Fresh, StartingHere, In
<1>3. ProcessTypes' /\ HungMissed'
  BY <1>1 DEF LaunchInv, ProcessTypes, HungMissed
<1>4. LaunchersHoldLock'
  BY <1>1 DEF LaunchInv, LaunchersHoldLock
<1>5. StartsAreAwaited'
  BY <1>1, <1>2 DEF StartsAreAwaited
<1>6. NothingFreshAtLaunch' /\ OneFresh'
  BY <1>1, <1>2 DEF LaunchInv, NothingFreshAtLaunch, OneFresh
<1> QED BY <1>3, <1>4, <1>5, <1>6 DEF LaunchInv

\* A second probe that fails: nothing serves, and nobody waits for a start.
LEMMA PrepareKeepsInv ==
  ASSUME LaunchInv, NEW t \in Threads, Prepare(t)
  PROVE  LaunchInv'
<1>1. ensure[t] = "reprobe" /\ startLock = t /\ UNCHANGED <<gateways, missed>>
  BY DEF LaunchInv, LaunchersHoldLock, Prepare
<1>2. CASE Goes(t, "popen") /\ UNCHANGED startLock
  <2>1. \A u \in Threads : ensure[u] # "wait"
    BY <1>1 DEF LaunchInv, LaunchersHoldLock
  <2>2. \A g \in Ids : ~Fresh(g)
    BY <2>1 DEF LaunchInv, StartsAreAwaited, Fresh, Prepare, HealthIs, In
  <2>3. ProcessTypes' /\ LaunchersHoldLock' /\ HungMissed'
    BY <1>1, <1>2 DEF LaunchInv, ProcessTypes, LaunchersHoldLock, HungMissed, Goes, Places
  <2> QED BY <1>1, <2>2, <2>3
          DEF LaunchInv, StartsAreAwaited, NothingFreshAtLaunch, OneFresh, Fresh
<1>3. CASE Returns(t, FALSE) /\ Unlock
  BY <1>1, <1>3, ThreadMoves DEF Returns, Goes, Unlock, Places
<1> QED BY <1>2, <1>3 DEF Prepare

LEMMA EnsureKeepsInv ==
  ASSUME LaunchInv, NEW t \in Threads, EnsureRunning(t) \/ Steps(t) \/ Returned(t)
  PROVE  LaunchInv'
<1>1. CASE EnsureRunning(t) \/ FirstProbe(t) \/ Returned(t)
  <2>1. /\ UNCHANGED <<gateways, missed, startLock>> /\ ensure[t] # "wait"
        /\ \E place \in Places \ {"reprobe", "popen", "wait"} :
             ensure' = [ensure EXCEPT ![t] = place]
    BY <1>1 DEF EnsureRunning, FirstProbe, Returned, Returns, Goes, Places
  <2> QED BY <2>1, ThreadMoves
<1>2. CASE StartupSingleflight(t)
  BY <1>2, ThreadMoves DEF StartupSingleflight, Goes, Places
<1>3. CASE Reprobe(t)
  <2>1. startLock = t
    BY <1>3 DEF LaunchInv, LaunchersHoldLock, Reprobe
  <2> QED BY <1>3, <2>1, ThreadMoves DEF Reprobe, Returns, Goes, Unlock, Places
<1>4. CASE Prepare(t) \/ Popen(t) \/ WaitForHealth(t) \/ WaitExpires(t)
  BY <1>4, PrepareKeepsInv, PopenKeepsInv, WaitEndsKeepsInv
<1> QED BY <1>1, <1>2, <1>3, <1>4 DEF Steps

\* Nothing a shutdown does makes a process fresh.
LEMMA ShutdownKeepsInv ==
  ASSUME LaunchInv, NEW s \in Supervisors,
         RequestShutdown(s) \/ ShutdownSteps(s) \/ ShutdownOver(s)
  PROVE  LaunchInv'
<1>0. UNCHANGED <<ensure, startLock, missed>>
  BY DEF RequestShutdown, ShutdownSteps, Terminate, Collect, ShutdownOver, ShutdownKeeps
<1>1. \/ UNCHANGED gateways
      \/ \E p \in Ids, becomes \in {"stopping", "exited"} :
           gateways' = [gateways EXCEPT ![p] = [gateways[p] EXCEPT !.state = becomes]]
  <2> DEFINE p == IF stopping[s].at = "wait" THEN stopping[s].proc ELSE process[s]
  <2>1. \/ UNCHANGED gateways
        \/ \E becomes \in {"stopping", "exited"} :
             gateways' = [gateways EXCEPT ![p] = [gateways[p] EXCEPT !.state = becomes]]
    BY DEF LaunchInv, ProcessTypes, RequestShutdown, ShutdownSteps, Terminate, Collect,
           ShutdownOver
  <2> QED BY <2>1 DEF LaunchInv, ProcessTypes
<1>2. CASE UNCHANGED gateways
  BY <1>0, <1>2 DEF LaunchInv, ProcessTypes, LaunchersHoldLock, StartsAreAwaited,
                    HungMissed, NothingFreshAtLaunch, OneFresh, Fresh
<1>3. ASSUME NEW p \in Ids, NEW becomes \in {"stopping", "exited"},
             gateways' = [gateways EXCEPT ![p] = [gateways[p] EXCEPT !.state = becomes]]
      PROVE  LaunchInv'
  <2>1. [gateways[p] EXCEPT !.state = becomes] \in [by : Supervisors \cup {Outside}, state : States]
    BY DEF LaunchInv, ProcessTypes, States
  <2>2. ~Fresh(p)'
    BY <1>3 DEF LaunchInv, ProcessTypes, Fresh
  <2> QED BY <1>0, <1>3, <2>1, <2>2, ProcessMoves DEF LaunchInv, ProcessTypes
<1> QED BY <1>1, <1>2, <1>3

LEMMA ProcessesKeepInv == LaunchInv /\ Processes => LaunchInv'
<1> SUFFICES ASSUME LaunchInv, NEW g \in Ids,
                    Listens(g) \/ Crashes(g) \/ Hangs(g) \/ AnswersAgain(g)
                      \/ LaunchedOutside(g)
             PROVE  LaunchInv'
  BY DEF Processes
<1>0. UNCHANGED <<ensure, startLock>>
  BY DEF Listens, Crashes, Hangs, AnswersAgain, LaunchedOutside, ProcessesKeep
<1>1. ASSUME NEW becomes \in {"serving", "hung", "exited"}, Becomes(g, becomes),
             \A h \in Ids \ {g} : h \in missed' <=> h \in missed,
             g \in missed => g \in missed',
             becomes = "hung" => g \in missed',
             becomes = "serving" => gateways[g].state \in {"starting", "hung"}
      PROVE  LaunchInv'
  <2> DEFINE new == [gateways[g] EXCEPT !.state = becomes]
  <2>1. new \in [by : Supervisors \cup {Outside}, state : States]
    BY DEF LaunchInv, ProcessTypes, States
  <2>2. gateways' = [gateways EXCEPT ![g] = new] /\ new.state = becomes /\ new.by = gateways[g].by
    BY <1>1 DEF Becomes, LaunchInv, ProcessTypes
  <2>3. Fresh(g)' => Fresh(g) /\ new.state # "starting"
    BY <1>1, <2>2 DEF LaunchInv, ProcessTypes, HungMissed, Fresh
  <2> HIDE DEF new
  <2> QED BY <1>0, <1>1, <2>1, <2>2, <2>3, ProcessMoves
<1>2. CASE Listens(g) \/ Crashes(g) \/ Hangs(g) \/ AnswersAgain(g)
  <2>1. CASE Listens(g)
    BY <1>1, <2>1 DEF Listens
  <2>2. CASE Crashes(g)
    BY <1>1, <2>2 DEF Crashes
  <2>3. CASE Hangs(g)
    BY <1>1, <2>3 DEF Hangs
  <2>4. CASE AnswersAgain(g)
    BY <1>1, <2>4 DEF AnswersAgain
  <2> QED BY <1>2, <2>1, <2>2, <2>3, <2>4
<1>3. CASE LaunchedOutside(g)
  <2> DEFINE new == [by |-> Outside, state |-> "starting"]
  <2>1. /\ new \in [by : Supervisors \cup {Outside}, state : States]
        /\ gateways' = [gateways EXCEPT ![g] = new] /\ new.by \notin Supervisors
        /\ \A h \in Ids \ {g} : h \in missed' <=> h \in missed
    BY <1>3, SupervisorAssumption DEF LaunchedOutside, Launch, States
  <2>2. ~Fresh(g)'
    BY <2>1 DEF LaunchInv, ProcessTypes, Fresh
  <2> HIDE DEF new
  <2> QED BY <1>0, <2>1, <2>2, ProcessMoves
<1> QED BY <1>2, <1>3

LEMMA StutterKeepsInv == LaunchInv /\ UNCHANGED launchVars => LaunchInv'
BY DEF launchVars, LaunchInv, ProcessTypes, LaunchersHoldLock, StartsAreAwaited, HungMissed,
       NothingFreshAtLaunch, OneFresh, Fresh

LEMMA SupervisorStepKeepsInv == LaunchInv /\ SupervisorNext => LaunchInv'
BY EnsureKeepsInv, ShutdownKeepsInv, ProcessesKeepInv DEF SupervisorNext

LEMMA OneFreshIsOneLaunch == LaunchInv => OneLaunch
BY DEF LaunchInv, OneFresh, OneLaunch, Fresh, LaunchedBy, In
-----------------------------------------------------------------------------
\* However many supervisors share the address, one Gateway is launched at a time
\* (supervisor.py:184-282).
THEOREM SupervisorsLaunchOne == SupervisorSpec => []OneLaunch
<1>1. SupervisorInit => LaunchInv
  BY LaunchInvInit
<1>2. LaunchInv /\ [SupervisorNext]_supervisorVars => LaunchInv'
  BY SupervisorStepKeepsInv, StutterKeepsInv DEF supervisorVars, launchVars
<1>3. LaunchInv => OneLaunch
  BY OneFreshIsOneLaunch
<1> QED BY <1>1, <1>2, <1>3, PTL DEF SupervisorSpec
-----------------------------------------------------------------------------
(* Types *)

LEMMA SupervisorTypesInit == SupervisorInit => SupervisorTypeOK
BY SupervisorAssumption
   DEF SupervisorInit, SupervisorTypeOK, Exited, States, Places, NotStopping, Ids

LEMMA EventsKeepType == SupervisorTypeOK /\ Happens => events' \in 0..MaxEvents
BY SupervisorAssumption DEF SupervisorTypeOK, Happens

\* A new process, of a supervisor or of somebody else.
LEMMA LaunchKeepsType ==
  ASSUME SupervisorTypeOK, NEW g \in Ids, NEW who \in Supervisors \cup {Outside},
         Launch(g, who)
  PROVE  /\ gateways' \in [Ids -> [by : Supervisors \cup {Outside}, state : States]]
         /\ missed' \in SUBSET Ids
BY DEF SupervisorTypeOK, Launch, States

\* A process in another state.
LEMMA BecomesKeepsType ==
  ASSUME SupervisorTypeOK, NEW g, NEW new \in States,
         gateways' = [gateways EXCEPT ![g].state = new]
  PROVE  gateways' \in [Ids -> [by : Supervisors \cup {Outside}, state : States]]
<1>1. CASE g \in Ids
  <2>1. [gateways[g] EXCEPT !.state = new] \in [by : Supervisors \cup {Outside}, state : States]
    BY <1>1 DEF SupervisorTypeOK
  <2> QED BY <1>1, <2>1 DEF SupervisorTypeOK
<1>2. CASE g \notin Ids
  <2>1. gateways' = gateways
    BY <1>2 DEF SupervisorTypeOK
  <2> QED BY <2>1 DEF SupervisorTypeOK
<1> QED BY <1>1, <1>2

LEMMA EnsureKeepsType ==
  ASSUME SupervisorTypeOK, NEW t \in Threads, EnsureRunning(t) \/ Steps(t) \/ Returned(t)
  PROVE  SupervisorTypeOK'
<1> DEFINE s == supervisorOf[t]
<1>0. s \in Supervisors
  BY SupervisorAssumption
<1>1. ensure' \in [Threads -> Places]
  BY DEF SupervisorTypeOK, EnsureRunning, Returned, Steps, FirstProbe, StartupSingleflight,
         Reprobe, Prepare, Popen, WaitForHealth, WaitExpires, Returns, Goes, Places
<1>2. startLock' \in Threads \cup {NoThread}
  BY DEF SupervisorTypeOK, EnsureRunning, Returned, Steps, FirstProbe, StartupSingleflight,
         Reprobe, Prepare, Popen, WaitForHealth, WaitExpires, Unlock
<1>3. CASE EnsureRunning(t) \/ FirstProbe(t) \/ StartupSingleflight(t) \/ Reprobe(t) \/ Returned(t)
  <2>1. /\ UNCHANGED <<gateways, process, shutdownRequested, events, missed>>
        /\ UNCHANGED <<commands, stopping>>
    BY <1>3 DEF EnsureRunning, Returned, FirstProbe, StartupSingleflight, Reprobe, SupervisorKeeps
  <2> QED BY <1>1, <1>2, <2>1 DEF SupervisorTypeOK
<1>4. CASE Prepare(t)
  <2>1. process' \in [Supervisors -> 0..MaxGateways]
    BY <1>0, <1>4, SupervisorAssumption DEF SupervisorTypeOK, Prepare, Reaped
  <2>2. shutdownRequested' \in [Supervisors -> BOOLEAN]
    BY <1>4 DEF SupervisorTypeOK, Prepare
  <2>3. UNCHANGED <<gateways, events, missed, commands, stopping>>
    BY <1>4 DEF Prepare, SupervisorKeeps
  <2> QED BY <1>1, <1>2, <2>1, <2>2, <2>3 DEF SupervisorTypeOK
<1>5. CASE Popen(t)
  <2>1. UNCHANGED <<shutdownRequested, commands, stopping>>
    BY <1>5 DEF Popen, SupervisorKeeps
  <2>2. /\ gateways' \in [Ids -> [by : Supervisors \cup {Outside}, state : States]]
        /\ missed' \in SUBSET Ids /\ process' \in [Supervisors -> 0..MaxGateways]
        /\ events' \in 0..MaxEvents
    <3>1. CASE Happens /\ UNCHANGED <<gateways, process, missed>>
      BY <3>1, EventsKeepType DEF SupervisorTypeOK
    <3>2. ASSUME NEW g \in Ids, Launch(g, s), process' = [process EXCEPT ![s] = g],
                 UNCHANGED events
          PROVE  /\ gateways' \in [Ids -> [by : Supervisors \cup {Outside}, state : States]]
                 /\ missed' \in SUBSET Ids /\ process' \in [Supervisors -> 0..MaxGateways]
                 /\ events' \in 0..MaxEvents
      <4>1. /\ gateways' \in [Ids -> [by : Supervisors \cup {Outside}, state : States]]
            /\ missed' \in SUBSET Ids
        BY <1>0, <3>2, LaunchKeepsType
      <4>2. g \in 0..MaxGateways
        BY SupervisorAssumption DEF Ids
      <4> QED BY <3>2, <4>1, <4>2 DEF SupervisorTypeOK
    <3> QED BY <1>5, <3>1, <3>2 DEF Popen
  <2> QED BY <1>1, <1>2, <2>1, <2>2 DEF SupervisorTypeOK
<1>6. CASE WaitForHealth(t) \/ WaitExpires(t)
  <2>1. UNCHANGED <<gateways, process, shutdownRequested, commands, stopping>>
    BY <1>6 DEF WaitForHealth, WaitExpires, SupervisorKeeps
  <2>2. events' \in 0..MaxEvents /\ missed' \in SUBSET Ids
    BY <1>6, EventsKeepType DEF SupervisorTypeOK, WaitForHealth, WaitExpires, StartingHere, In
  <2> QED BY <1>1, <1>2, <2>1, <2>2 DEF SupervisorTypeOK
<1> QED BY <1>3, <1>4, <1>5, <1>6 DEF Steps

LEMMA ShutdownKeepsType ==
  ASSUME SupervisorTypeOK, NEW s \in Supervisors,
         RequestShutdown(s) \/ ShutdownSteps(s) \/ ShutdownOver(s)
  PROVE  SupervisorTypeOK'
<1>1. UNCHANGED <<startLock, ensure, commands, events, missed>>
  BY DEF RequestShutdown, ShutdownSteps, Terminate, Collect, ShutdownOver, ShutdownKeeps
<1>2. stopping' \in [Supervisors ->
                      [at : {"no", "requested", "wait", "done"}, proc : 0..MaxGateways]]
  <2>1. PICK new : /\ stopping' = [stopping EXCEPT ![s] = new]
                   /\ new \in [at : {"no", "requested", "wait", "done"}, proc : 0..MaxGateways]
    <3>1. /\ stopping[s] \in [at : {"no", "requested", "wait", "done"}, proc : 0..MaxGateways]
          /\ process[s] \in 0..MaxGateways /\ 0 \in 0..MaxGateways
      BY SupervisorAssumption DEF SupervisorTypeOK
    <3>2. CASE RequestShutdown(s)
      <4>1. stopping' = [stopping EXCEPT ![s] = [stopping[s] EXCEPT !.at = "requested"]]
        BY <3>2 DEF RequestShutdown
      <4>2. [stopping[s] EXCEPT !.at = "requested"] \in
              [at : {"no", "requested", "wait", "done"}, proc : 0..MaxGateways]
        BY <3>1
      <4> QED BY <4>1, <4>2
    <3>3. CASE Terminate(s) \/ Collect(s) \/ ShutdownOver(s)
      BY <3>1, <3>3 DEF Terminate, Collect, ShutdownOver, NotStopping
    <3> QED BY <3>2, <3>3 DEF ShutdownSteps
  <2> QED BY <2>1 DEF SupervisorTypeOK
<1>3. /\ process' \in [Supervisors -> 0..MaxGateways]
      /\ shutdownRequested' \in [Supervisors -> BOOLEAN]
  <2>1. \/ process' = process
        \/ process' = [process EXCEPT ![s] = 0]
    BY DEF RequestShutdown, ShutdownSteps, Terminate, Collect, ShutdownOver
  <2>2. \/ shutdownRequested' = shutdownRequested
        \/ shutdownRequested' = [shutdownRequested EXCEPT ![s] = TRUE]
    BY DEF RequestShutdown, ShutdownSteps, Terminate, Collect, ShutdownOver
  <2>3. 0 \in 0..MaxGateways
    BY SupervisorAssumption
  <2> QED BY <2>1, <2>2, <2>3 DEF SupervisorTypeOK
<1>4. gateways' \in [Ids -> [by : Supervisors \cup {Outside}, state : States]]
  <2>1. CASE Terminate(s)
    <3> DEFINE p == process[s]
    <3>1. CASE p \notin Ids
      BY <2>1, <3>1 DEF SupervisorTypeOK, Terminate
    <3>2. CASE p \in Ids
      <4>1. \E new \in States : gateways' \in {gateways, [gateways EXCEPT ![p].state = new]}
        <5>1. gateways[p].state \in States
          BY <3>2 DEF SupervisorTypeOK
        <5> QED BY <2>1, <3>2, <5>1 DEF Terminate, States
      <4> QED BY <4>1, BecomesKeepsType DEF SupervisorTypeOK
    <3> QED BY <3>1, <3>2
  <2>2. CASE Collect(s)
    BY <2>2, BecomesKeepsType DEF Collect, States
  <2> QED BY <2>1, <2>2 DEF SupervisorTypeOK, RequestShutdown, ShutdownSteps, ShutdownOver
<1> QED BY <1>1, <1>2, <1>3, <1>4 DEF SupervisorTypeOK

LEMMA ProcessesKeepType == SupervisorTypeOK /\ Processes => SupervisorTypeOK'
<1> SUFFICES ASSUME SupervisorTypeOK, NEW g \in Ids,
                    Listens(g) \/ Crashes(g) \/ Hangs(g) \/ AnswersAgain(g)
                      \/ LaunchedOutside(g)
             PROVE  SupervisorTypeOK'
  BY DEF Processes
<1>1. UNCHANGED <<process, shutdownRequested, startLock, ensure, stopping, commands>>
  BY DEF Listens, Crashes, Hangs, AnswersAgain, LaunchedOutside, ProcessesKeep
<1>2. events' \in 0..MaxEvents
  BY EventsKeepType DEF SupervisorTypeOK, Listens, Crashes, Hangs, AnswersAgain, LaunchedOutside
<1>3. /\ gateways' \in [Ids -> [by : Supervisors \cup {Outside}, state : States]]
      /\ missed' \in SUBSET Ids
  <2>1. CASE LaunchedOutside(g)
    BY <2>1, LaunchKeepsType DEF LaunchedOutside
  <2>2. CASE Listens(g) \/ Crashes(g) \/ Hangs(g) \/ AnswersAgain(g)
    <3>1. missed' \in SUBSET Ids
      BY <2>2 DEF SupervisorTypeOK, Listens, Crashes, Hangs, AnswersAgain
    <3>2. \E new \in States : gateways' = [gateways EXCEPT ![g].state = new]
      BY <2>2 DEF Listens, Crashes, Hangs, AnswersAgain, Becomes, States
    <3> QED BY <3>1, <3>2, BecomesKeepsType
  <2> QED BY <2>1, <2>2
<1> QED BY <1>1, <1>2, <1>3 DEF SupervisorTypeOK

LEMMA SupervisorStepKeepsType ==
  SupervisorTypeOK /\ [SupervisorNext]_supervisorVars => SupervisorTypeOK'
<1>1. SupervisorTypeOK /\ UNCHANGED supervisorVars => SupervisorTypeOK'
  BY DEF SupervisorTypeOK, supervisorVars
<1> QED BY <1>1, EnsureKeepsType, ShutdownKeepsType, ProcessesKeepType DEF SupervisorNext

-----------------------------------------------------------------------------
(* The provider launches through its supervisor *)

\* Every step of the provider is a step of its supervisor or leaves it alone.
LEMMA ProviderSteps == Next => SupervisorNext \/ UNCHANGED launchVars
<1> USE ProviderAssumption
<1> SUFFICES ASSUME Next PROVE SupervisorNext \/ UNCHANGED launchVars
  OBVIOUS
<1>1. ASSUME NEW t \in Threads, Recovery(t)
      PROVE  SupervisorNext \/ UNCHANGED launchVars
  BY <1>1 DEF Recovery, RecoverProbes, RecoverEnds, SupervisorNext, launchVars, supervisorVars
<1>2. ASSUME NEW t \in Threads, Ensures(t)
      PROVE  SupervisorNext
  BY <1>2 DEF Ensures, SupervisorNext
<1>3. ASSUME HostSteps
      PROVE  SupervisorNext \/ UNCHANGED launchVars
  <2>1. CASE ShutdownSupervisor
    BY <2>1 DEF ShutdownSupervisor, SupervisorNext, launchVars, supervisorVars
  <2>2. CASE HostSteps /\ ~ShutdownSupervisor
    BY <2>2 DEF HostSteps, Refused, ToolAdmitted, Asks, Calls, SyncTurn, StartSync,
                JoinWatchdog, JoinSyncs, Release, launchVars, supervisorVars
  <2> QED BY <1>3, <2>1, <2>2
<1>4. ASSUME BackgroundStart \/ BackgroundStarted
      PROVE  SupervisorNext \/ UNCHANGED launchVars
  BY <1>4 DEF BackgroundStart, BackgroundStarted, SupervisorNext, launchVars, supervisorVars
<1>5. ASSUME WatchdogLoop
      PROVE  UNCHANGED launchVars
  BY <1>5 DEF WatchdogLoop, WatchdogTick, WatchdogProbes, WatchdogAttaches, launchVars,
              supervisorVars
<1>6. ASSUME NEW t \in Threads, Captures(t)
      PROVE  UNCHANGED launchVars
  BY <1>6 DEF Captures, Calls, launchVars, supervisorVars
<1>7. ASSUME Initialize \/ Request \/ BeginShutdown
      PROVE  UNCHANGED launchVars
  BY <1>7 DEF Initialize, Request, BeginShutdown, launchVars, supervisorVars
<1>8. ASSUME Environment
      PROVE  SupervisorNext
  BY <1>8 DEF Environment, SupervisorNext
<1> QED BY <1>1, <1>2, <1>3, <1>4, <1>5, <1>6, <1>7, <1>8 DEF Next, ThreadSteps

\* The same of the threads of one provider, whatever they recover from and whenever
\* the provider is shut down (__init__.py:449-539, 718-814).
THEOREM ProviderLaunchesOne == Spec => []OneLaunch
<1>1. Init => LaunchInv
  BY LaunchInvInit DEF Init
<1>2. LaunchInv /\ [Next]_vars => LaunchInv'
  BY ProviderSteps, SupervisorStepKeepsInv, StutterKeepsInv
     DEF vars, supervisorVars, launchVars
<1>3. LaunchInv => OneLaunch
  BY OneFreshIsOneLaunch
<1> QED BY <1>1, <1>2, <1>3, PTL DEF Spec
-----------------------------------------------------------------------------
(* Types *)

\* What the provider does to the supervisor, as far as types go.
LEMMA SupervisorKeepsType ==
  ASSUME SupervisorTypeOK, [Next]_vars
  PROVE  SupervisorTypeOK'
<1> USE ProviderAssumption
<1>1. ASSUME NEW t \in Threads, Recovery(t)
      PROVE  SupervisorNext \/ UNCHANGED supervisorVars
  BY <1>1 DEF Recovery, RecoverProbes, RecoverEnds, SupervisorNext
<1>2. ASSUME NEW t \in Threads, Ensures(t)
      PROVE  SupervisorNext
  BY <1>2 DEF Ensures, SupervisorNext
<1>3. ASSUME HostSteps
      PROVE  SupervisorNext \/ UNCHANGED supervisorVars
  <2>1. CASE ShutdownSupervisor
    BY <2>1 DEF ShutdownSupervisor, SupervisorNext
  <2>2. CASE HostSteps /\ ~ShutdownSupervisor
    BY <2>2 DEF HostSteps, Refused, ToolAdmitted, Asks, Calls, SyncTurn, StartSync,
                JoinWatchdog, JoinSyncs, Release
  <2> QED BY <1>3, <2>1, <2>2
<1>4. ASSUME BackgroundStart \/ BackgroundStarted
      PROVE  SupervisorNext \/ UNCHANGED supervisorVars
  BY <1>4 DEF BackgroundStart, BackgroundStarted, SupervisorNext
<1>5. ASSUME WatchdogLoop
      PROVE  UNCHANGED supervisorVars
  BY <1>5 DEF WatchdogLoop, WatchdogTick, WatchdogProbes, WatchdogAttaches
<1>6. ASSUME NEW t \in Threads, Captures(t)
      PROVE  UNCHANGED supervisorVars
  BY <1>6 DEF Captures, Calls
<1>7. ASSUME Initialize \/ BeginShutdown
      PROVE  UNCHANGED supervisorVars
  BY <1>7 DEF Initialize, BeginShutdown
<1>8. ASSUME Request
      PROVE  SupervisorTypeOK'
  BY <1>8, EventsKeepType DEF Request, SupervisorTypeOK
<1>9. ASSUME Environment
      PROVE  SupervisorNext
  BY <1>9 DEF Environment, SupervisorNext
<1>10. UNCHANGED vars => UNCHANGED supervisorVars
  BY DEF vars
<1> QED BY <1>1, <1>2, <1>3, <1>4, <1>5, <1>6, <1>7, <1>8, <1>9, <1>10,
           SupervisorStepKeepsType DEF Next, ThreadSteps

ProviderTypes ==
  /\ supervisor \in BOOLEAN /\ client \in BOOLEAN /\ available \in BOOLEAN
  /\ failures \in 0..BREAKER_THRESHOLD /\ attempted \in BOOLEAN
  /\ recoverLock \in Threads \cup {NoThread} /\ watchdogStop \in BOOLEAN
  /\ activeSyncs \in SUBSET Syncs
  /\ at \in [Threads -> Positions] /\ next \in [Threads -> Positions]
  /\ abandoned \in SUBSET Threads

LEMMA MovesKeepsType ==
  ASSUME ProviderTypes, NEW t \in Threads, NEW place \in Positions, Moves(t, place)
  PROVE  at' \in [Threads -> Positions]
BY DEF ProviderTypes, Moves

LEMMA BreakerKeepsType ==
  ASSUME ProviderTypes, NEW open, BreakerIs(open) \/ RecordFailure \/ failures' = 0
  PROVE  failures' \in 0..BREAKER_THRESHOLD
BY ProviderAssumption DEF ProviderTypes, BreakerIs, RecordFailure

LEMMA TryRecoverKeepsType ==
  ASSUME ProviderTypes, NEW t \in Threads, NEW b, NEW place \in Positions,
         TryRecover(t, b, place)
  PROVE  /\ at' \in [Threads -> Positions] /\ next' \in [Threads -> Positions]
         /\ recoverLock' \in Threads \cup {NoThread}
<1>1. "recover" \in Positions
  BY DEF Positions
<1>2. at' \in [Threads -> Positions]
  BY <1>1, MovesKeepsType DEF TryRecover
<1>3. next' \in [Threads -> Positions] /\ recoverLock' \in Threads \cup {NoThread}
  BY DEF ProviderTypes, TryRecover
<1> QED BY <1>2, <1>3

LEMMA CallsKeepType ==
  ASSUME ProviderTypes, NEW t \in Threads, NEW place \in Positions, Calls(t, place)
  PROVE  ProviderTypes'
<1>1. failures' \in 0..BREAKER_THRESHOLD
  BY BreakerKeepsType DEF Calls
<1>2. /\ at' \in [Threads -> Positions] /\ next' \in [Threads -> Positions]
      /\ recoverLock' \in Threads \cup {NoThread}
  BY MovesKeepsType, TryRecoverKeepsType DEF Calls, ProviderTypes
<1> QED BY <1>1, <1>2 DEF ProviderTypes, Calls, threads

LEMMA ProviderStepKeepsType == ProviderTypes /\ [Next]_vars => ProviderTypes'
<1> SUFFICES ASSUME ProviderTypes, [Next]_vars PROVE ProviderTypes'
  OBVIOUS
<1>0. /\ {"none", "done", "idle", "tick", "call", "tool", "capture", "register", "joinOldest",
          "probe", "attach", "start", "starting", "recover", "ensure", "recovered",
          "joinWatchdog", "joinSyncs", "shutdown", "release", "released"} \subseteq Positions
      /\ {Host, InitThread, Watchdog} \subseteq Threads /\ Syncs \subseteq Threads
  BY ProviderAssumption DEF Positions, ShuttingDown
<1>1. ASSUME NEW t \in Threads, Recovery(t) PROVE ProviderTypes'
  <2>1. CASE RecoverProbes(t)
    <3>1. at' \in [Threads -> Positions]
      BY <1>0, <2>1, MovesKeepsType DEF RecoverProbes
    <3> QED BY <2>1, <3>1 DEF RecoverProbes, ProviderTypes, state, threads
  <2>2. CASE RecoverEnds(t)
    <3>1. next[t] \in Positions
      BY DEF ProviderTypes
    <3>2. at' \in [Threads -> Positions] /\ next' \in [Threads -> Positions]
      BY <1>0, <2>2, <3>1, MovesKeepsType DEF RecoverEnds, ProviderTypes
    <3>3. /\ failures' \in 0..BREAKER_THRESHOLD
          /\ client' \in BOOLEAN /\ available' \in BOOLEAN
      BY <2>2, BreakerKeepsType DEF RecoverEnds, Attach, ProviderTypes
    <3> QED BY <2>2, <3>2, <3>3 DEF RecoverEnds, ProviderTypes, threads
  <2> QED BY <1>1, <2>1, <2>2 DEF Recovery
<1>2. ASSUME NEW t \in Threads, Ensures(t) PROVE ProviderTypes'
  BY <1>2 DEF Ensures, ProviderTypes, state, threads
<1>3. CASE Refused \/ ToolAdmitted \/ SyncTurn \/ BeginShutdown \/ JoinWatchdog \/ JoinSyncs
  <2>1. at' \in [Threads -> Positions]
    BY <1>0, <1>3, MovesKeepsType
       DEF Refused, ToolAdmitted, SyncTurn, BeginShutdown, JoinWatchdog, JoinSyncs
  <2>2. failures' \in 0..BREAKER_THRESHOLD
    <3>1. CASE ToolAdmitted
      BY <3>1, BreakerKeepsType DEF ToolAdmitted
    <3>2. CASE ~ToolAdmitted
      BY <1>3, <3>2 DEF Refused, SyncTurn, BeginShutdown, JoinWatchdog, JoinSyncs, state, ProviderTypes
    <3> QED BY <3>1, <3>2
  <2>3. activeSyncs' \in SUBSET Syncs /\ abandoned' \in SUBSET Threads /\ watchdogStop' \in BOOLEAN
    BY <1>0, <1>3 DEF Refused, ToolAdmitted, SyncTurn, BeginShutdown, JoinWatchdog, JoinSyncs,
       Abandon, RunningSyncs, threads, ProviderTypes
  <2>4. UNCHANGED <<supervisor, client, available, attempted, recoverLock, next>>
    BY <1>3 DEF Refused, ToolAdmitted, SyncTurn, BeginShutdown, JoinWatchdog, JoinSyncs, state
  <2> QED BY <2>1, <2>2, <2>3, <2>4 DEF ProviderTypes
<1>4. CASE Asks
  BY <1>0, <1>4, CallsKeepType DEF Asks
<1>5. CASE StartSync
  <2>1. PICK t \in Syncs : /\ activeSyncs' = RunningSyncs \cup {t}
                           /\ at' = [at EXCEPT ![Host] = "idle", ![t] = "capture"]
    BY <1>5 DEF StartSync
  <2>2. at' \in [Threads -> Positions] /\ activeSyncs' \in SUBSET Syncs
    BY <1>0, <2>1 DEF ProviderTypes, RunningSyncs
  <2> QED BY <1>5, <2>2 DEF StartSync, ProviderTypes, state
<1>6. CASE ShutdownSupervisor
  <2>1. at' \in [Threads -> Positions]
    <3>1. at' = at \/ Moves(Host, "release")
      BY <1>6 DEF ShutdownSupervisor
    <3> QED BY <1>0, <3>1, MovesKeepsType DEF ProviderTypes
  <2>2. abandoned' \in SUBSET Threads
    BY <1>0, <1>6 DEF ShutdownSupervisor, Abandon, ProviderTypes
  <2> QED BY <1>6, <2>1, <2>2 DEF ShutdownSupervisor, ProviderTypes, state
<1>7. CASE Release
  BY <1>0, <1>7, MovesKeepsType DEF Release, ProviderTypes, threads
<1>8. CASE BackgroundStart
  <2>1. at' \in [Threads -> Positions]
    BY <1>0, <1>8, MovesKeepsType DEF BackgroundStart
  <2> QED BY <1>8, <2>1 DEF BackgroundStart, ProviderTypes, state, threads
<1>9. CASE BackgroundStarted
  <2>1. at' \in [Threads -> Positions]
    BY <1>0, <1>9, MovesKeepsType DEF BackgroundStarted
  <2>2. client' \in BOOLEAN /\ available' \in BOOLEAN
    BY <1>9 DEF BackgroundStarted, ProviderTypes
  <2> QED BY <1>9, <2>1, <2>2 DEF BackgroundStarted, ProviderTypes, threads
<1>10. CASE WatchdogTick
  <2>1. at' \in [Threads -> Positions]
    BY <1>0, <1>10, MovesKeepsType DEF WatchdogTick
  <2> QED BY <1>10, <2>1 DEF WatchdogTick, ProviderTypes, state, threads
<1>11. CASE WatchdogProbes
  <2>1. /\ at' \in [Threads -> Positions] /\ next' \in [Threads -> Positions]
        /\ recoverLock' \in Threads \cup {NoThread}
    <3>1. CASE TryRecover(Watchdog, TRUE, "tick")
      BY <1>0, <3>1, TryRecoverKeepsType
    <3>2. CASE /\ Moves(Watchdog, IF available THEN "tick" ELSE "attach")
               /\ UNCHANGED <<recoverLock, next>>
      <4>1. (IF available THEN "tick" ELSE "attach") \in Positions
        BY <1>0
      <4> QED BY <1>0, <3>2, <4>1, MovesKeepsType DEF ProviderTypes
    <3> QED BY <1>11, <3>1, <3>2 DEF WatchdogProbes
  <2> QED BY <1>11, <2>1 DEF WatchdogProbes, ProviderTypes, state, threads
<1>12. CASE WatchdogAttaches
  <2>1. at' \in [Threads -> Positions] /\ failures' \in 0..BREAKER_THRESHOLD
    BY <1>0, <1>12, MovesKeepsType, BreakerKeepsType DEF WatchdogAttaches, Attach
  <2> QED BY <1>12, <2>1 DEF WatchdogAttaches, Attach, ProviderTypes, threads
<1>13. ASSUME NEW t \in Threads, Captures(t) PROVE ProviderTypes'
  BY <1>0, <1>13, CallsKeepType DEF Captures
<1>14. CASE Initialize
  <2>1. at' \in [Threads -> Positions]
    BY <1>0, <1>14 DEF Initialize, ProviderTypes
  <2>2. client' \in BOOLEAN /\ available' \in BOOLEAN /\ supervisor' \in BOOLEAN
    BY <1>14 DEF Initialize, ProviderTypes
  <2> QED BY <1>14, <2>1, <2>2 DEF Initialize, ProviderTypes, threads
<1>15. CASE Request
  <2>1. PICK kind \in {"call", "tool", "register"} :
          \/ available /\ Moves(Host, kind) /\ UNCHANGED <<failures, recoverLock, next>>
          \/ ~available /\ BreakerIs(FALSE) /\ TryRecover(Host, FALSE, kind)
    BY <1>15 DEF Request
  <2>2. /\ at' \in [Threads -> Positions] /\ next' \in [Threads -> Positions]
        /\ recoverLock' \in Threads \cup {NoThread}
    BY <1>0, <2>1, MovesKeepsType, TryRecoverKeepsType DEF ProviderTypes
  <2>3. failures' \in 0..BREAKER_THRESHOLD
    BY <2>1, BreakerKeepsType DEF ProviderTypes
  <2> QED BY <1>15, <2>2, <2>3 DEF Request, ProviderTypes
<1>16. CASE Environment \/ UNCHANGED vars
  BY <1>16 DEF Environment, ProviderTypes, vars, state, threads
<1> QED BY <1>1, <1>2, <1>3, <1>4, <1>5, <1>6, <1>7, <1>8, <1>9, <1>10, <1>11, <1>12, <1>13,
           <1>14, <1>15, <1>16 DEF Next, ThreadSteps, HostSteps, WatchdogLoop

LEMMA StepKeepsType == TypeOK /\ [Next]_vars => TypeOK'
BY SupervisorKeepsType, ProviderStepKeepsType DEF TypeOK, ProviderTypes

LEMMA InitHasType == Init => TypeOK
<1> SUFFICES ASSUME Init PROVE TypeOK
  OBVIOUS
<1>1. SupervisorTypeOK
  BY SupervisorTypesInit DEF Init
<1>2. ProviderTypes
  <2>1. "none" \in Positions /\ 0 \in 0..BREAKER_THRESHOLD
    BY ProviderAssumption DEF Positions
  <2>2. /\ supervisor \in BOOLEAN /\ client \in BOOLEAN /\ available \in BOOLEAN
        /\ attempted \in BOOLEAN /\ watchdogStop \in BOOLEAN
        /\ recoverLock \in Threads \cup {NoThread} /\ failures \in 0..BREAKER_THRESHOLD
    BY <2>1 DEF Init
  <2>3. /\ at \in [Threads -> Positions] /\ next \in [Threads -> Positions]
        /\ activeSyncs \in SUBSET Syncs /\ abandoned \in SUBSET Threads
    BY <2>1 DEF Init
  <2> QED BY <2>2, <2>3 DEF ProviderTypes
<1> QED BY <1>1, <1>2 DEF TypeOK, ProviderTypes

\* Every variable of the provider and of its supervisor keeps its type, whichever
\* threads recover and whenever the provider is shut down.
THEOREM TypeCorrect == Spec => []TypeOK
<1> QED BY InitHasType, StepKeepsType, PTL DEF Spec
-----------------------------------------------------------------------------
(* The invariant behind ReleasedIsQuiet *)

Recovering == {"recover", "ensure", "recovered"}
Released == {"release", "released"}
GatewayGoes == {"shutdown"} \cup Released

\* Where each thread can be, and where it goes on after a recovery.
PlacesOf(t) ==
  IF t = Host THEN {"none", "idle", "call", "tool", "register", "joinOldest"}
                     \cup Recovering \cup ShuttingDown
  ELSE IF t = InitThread THEN {"none", "start", "starting", "done"}
  ELSE IF t = Watchdog THEN {"none", "tick", "probe", "attach", "done"} \cup Recovering
  ELSE {"none", "capture", "done"} \cup Recovering
ResumesAt(t) ==
  IF t = Host THEN {"idle", "call", "tool", "register"}
  ELSE IF t = Watchdog THEN {"tick"} ELSE {"done"}

Roles ==
  \A t \in Threads : /\ at[t] \in PlacesOf(t)
                     /\ at[t] \in Recovering => next[t] \in ResumesAt(t)

\* Before initialize there are no threads.
NotYet == at[Host] = "none" => \A t \in Threads : at[t] = "none"

\* The supervisor is shut down from one place, and released after that.
ShutdownOrder ==
  /\ stopping[Provider].at # "no" => at[Host] \in GatewayGoes
  /\ at[Host] \in Released => stopping[Provider].at = "done"

\* Whom shutdown has waited for does not run, and nobody starts it again.
WatchdogJoined ==
  at[Host] \in {"joinSyncs"} \cup GatewayGoes /\ abandoned = {} => ~Running(Watchdog)
SyncsJoined ==
  /\ at[Host] \notin GatewayGoes => \A t \in Syncs : Running(t) => t \in activeSyncs
  /\ at[Host] \in GatewayGoes /\ abandoned = {} => \A t \in Syncs : ~Running(t)
StarterJoined ==
  stopping[Provider].at # "no" /\ abandoned = {} => ~Running(InitThread)

ThreadsInv ==
  Roles /\ NotYet /\ ShutdownOrder /\ WatchdogJoined /\ SyncsJoined /\ StarterJoined

\* A thread is in ensure_running where the provider has called it.
EnsuresWhereCalled ==
  \A t \in Threads : ensure[t] # "idle" => at[t] \in {"ensure", "starting"}

\* The supervisor has a handle of whatever it launched and still runs, but for
\* what a health check gave up on.
HandleKnown ==
  /\ stopping[Provider].at \in {"no", "requested"} =>
       \A g \in Ids : gateways[g].state # "stopping"
  /\ abandoned = {} =>
       \A g \in Ids : gateways[g].by = Provider /\ gateways[g].state # "exited" /\ g \notin missed =>
         /\ process[Provider] = g
         /\ stopping[Provider].at # "done"
         /\ stopping[Provider].at = "wait" => stopping[Provider].proc = g

Detached == at[Host] = "released" /\ abandoned = {} => ~client /\ ~available

QuietInv == ThreadsInv /\ EnsuresWhereCalled /\ HandleKnown /\ Detached
-----------------------------------------------------------------------------
(* The threads and who has waited for them *)

LEMMA RolesAre ==
  /\ Host \in Threads /\ InitThread \in Threads /\ Watchdog \in Threads
  /\ \A t \in Threads : t = Host \/ t = InitThread \/ t = Watchdog \/ t \in Syncs
  /\ \A t \in Syncs : t \in Threads /\ t # Host /\ t # InitThread /\ t # Watchdog
  /\ Host # InitThread /\ Host # Watchdog /\ InitThread # Watchdog
BY ProviderAssumption

\* A thread other than the host's that has started goes elsewhere.
LEMMA WorkerMoves ==
  ASSUME ProviderTypes, ThreadsInv, NEW t \in Threads, t # Host, Running(t),
         NEW place \in PlacesOf(t), place # "none", Moves(t, place),
         \A u \in Threads : u # t => next'[u] = next[u],
         place \in Recovering => next'[t] \in ResumesAt(t),
         UNCHANGED <<activeSyncs, abandoned, stopping>>
  PROVE  ThreadsInv'
<1>1. /\ at'[t] = place /\ \A u \in Threads : u # t => at'[u] = at[u]
      /\ at'[Host] = at[Host]
  BY RolesAre DEF ProviderTypes, Moves
<1>2. \A u \in Threads : Running(u)' => Running(u)
  BY <1>1 DEF Running
<1>3. Roles'
  <2>1. ASSUME NEW u \in Threads
        PROVE  at'[u] \in PlacesOf(u) /\ (at'[u] \in Recovering => next'[u] \in ResumesAt(u))
    BY <1>1 DEF ThreadsInv, Roles
  <2> QED BY <2>1 DEF Roles, PlacesOf, ResumesAt
<1>4. NotYet'
  BY <1>1 DEF ThreadsInv, NotYet, Running
<1>5. ShutdownOrder'
  BY <1>1 DEF ThreadsInv, ShutdownOrder
<1>6. WatchdogJoined' /\ SyncsJoined' /\ StarterJoined'
  BY <1>1, <1>2, RolesAre DEF ThreadsInv, WatchdogJoined, SyncsJoined, StarterJoined
<1> QED BY <1>3, <1>4, <1>5, <1>6 DEF ThreadsInv

\* The host's thread goes elsewhere, at most to the beginning of shutdown.
LEMMA HostMoves ==
  ASSUME ProviderTypes, ThreadsInv, at[Host] \notin {"none"} \cup ShuttingDown,
         NEW place \in PlacesOf(Host), place \notin {"none", "joinSyncs"} \cup GatewayGoes,
         Moves(Host, place),
         \A u \in Threads : u # Host => next'[u] = next[u],
         place \in Recovering => next'[Host] \in ResumesAt(Host),
         \A u \in activeSyncs : Running(u) => u \in activeSyncs',
         UNCHANGED <<abandoned, stopping>>
  PROVE  ThreadsInv'
<1>1. at'[Host] = place /\ \A u \in Threads : u # Host => at'[u] = at[u]
  BY RolesAre DEF ProviderTypes, Moves
<1>2. stopping[Provider].at = "no" /\ at[Host] \notin GatewayGoes
  BY DEF ThreadsInv, ShutdownOrder, GatewayGoes, Released, ShuttingDown
<1>3. Roles'
  <2>1. ASSUME NEW u \in Threads
        PROVE  at'[u] \in PlacesOf(u) /\ (at'[u] \in Recovering => next'[u] \in ResumesAt(u))
    BY <1>1 DEF ThreadsInv, Roles
  <2> QED BY <2>1 DEF Roles, PlacesOf, ResumesAt
<1>4. NotYet' /\ ShutdownOrder' /\ WatchdogJoined' /\ StarterJoined'
  BY <1>1, <1>2 DEF NotYet, ShutdownOrder, WatchdogJoined, StarterJoined, GatewayGoes, Released
<1>5. SyncsJoined'
  <2>1. \A u \in Syncs : Running(u)' => Running(u)
    BY <1>1, RolesAre DEF Running
  <2> QED BY <1>1, <1>2, <2>1 DEF ThreadsInv, SyncsJoined
<1> QED BY <1>3, <1>4, <1>5 DEF ThreadsInv

\* Any thread goes elsewhere, but for initialize and shutdown.
LEMMA ThreadGoes ==
  ASSUME ProviderTypes, ThreadsInv, NEW t \in Threads,
         at[t] \notin {"none", "done"} \cup ShuttingDown,
         NEW place \in PlacesOf(t), place \notin {"none"} \cup ShuttingDown, Moves(t, place),
         \A u \in Threads : u # t => next'[u] = next[u],
         place \in Recovering => next'[t] \in ResumesAt(t),
         UNCHANGED <<activeSyncs, abandoned, stopping>>
  PROVE  ThreadsInv'
<1>1. CASE t = Host
  BY <1>1, HostMoves DEF ShuttingDown, GatewayGoes, Released
<1>2. CASE t # Host
  BY <1>2, WorkerMoves DEF Running
<1> QED BY <1>1, <1>2

LEMMA SameThreads ==
  ASSUME ThreadsInv, UNCHANGED <<at, next, activeSyncs, abandoned, stopping>>
  PROVE  ThreadsInv'
<1>1. Roles'
  BY DEF ThreadsInv, Roles, PlacesOf, ResumesAt
<1> QED BY <1>1 DEF ThreadsInv, NotYet, ShutdownOrder, WatchdogJoined, SyncsJoined,
                    StarterJoined, Running

\* A thread that recovers may, whoever it is, go on where it was or try.
LEMMA TriesToRecover ==
  ASSUME ProviderTypes, ThreadsInv, NEW t \in Threads, t # InitThread,
         at[t] \notin {"none", "done"} \cup ShuttingDown,
         NEW b, NEW place \in ResumesAt(t), TryRecover(t, b, place),
         UNCHANGED <<activeSyncs, abandoned, stopping>>
  PROVE  ThreadsInv'
<1>1. place \in PlacesOf(t) /\ place \notin {"none"} \cup ShuttingDown \cup Recovering
  BY RolesAre DEF PlacesOf, ResumesAt, ShuttingDown, Recovering
<1>2. CASE Moves(t, place) /\ UNCHANGED next
  BY <1>1, <1>2, ThreadGoes
<1>3. CASE Moves(t, "recover") /\ next' = [next EXCEPT ![t] = place]
  <2>1. "recover" \in PlacesOf(t) /\ "recover" \notin {"none"} \cup ShuttingDown
    BY RolesAre DEF PlacesOf, ShuttingDown, Recovering
  <2>2. next'[t] = place /\ \A u \in Threads : u # t => next'[u] = next[u]
    BY <1>3 DEF ProviderTypes
  <2> QED BY <1>3, <2>1, <2>2, ThreadGoes
<1> QED BY <1>2, <1>3 DEF TryRecover

LEMMA CallsKeepThreads ==
  ASSUME ProviderTypes, ThreadsInv, NEW t \in Threads, t # InitThread,
         at[t] \notin {"none", "done"} \cup ShuttingDown,
         NEW place \in ResumesAt(t), Calls(t, place)
  PROVE  ThreadsInv'
<1>1. place \in PlacesOf(t) /\ place \notin {"none"} \cup ShuttingDown \cup Recovering
  BY RolesAre DEF PlacesOf, ResumesAt, ShuttingDown, Recovering
<1>2. UNCHANGED <<activeSyncs, abandoned, stopping>>
  BY DEF Calls, threads, supervisorVars
<1>3. CASE Moves(t, place) /\ UNCHANGED next
  BY <1>1, <1>2, <1>3, ThreadGoes
<1>4. CASE TryRecover(t, FALSE, place)
  BY <1>2, <1>4, TriesToRecover
<1> QED BY <1>3, <1>4 DEF Calls

LEMMA RecoveryKeepsThreads ==
  ASSUME ProviderTypes, ThreadsInv, NEW t \in Threads, Recovery(t)
  PROVE  ThreadsInv'
<1>1. /\ UNCHANGED <<activeSyncs, abandoned>> /\ UNCHANGED stopping
  BY DEF Recovery, RecoverProbes, RecoverEnds, threads, supervisorVars, EnsureRunning, Returned,
         SupervisorKeeps
<1>2. at[t] \in Recovering
  BY DEF Recovery, RecoverProbes, RecoverEnds, Recovering
<1>3. /\ t # InitThread /\ next[t] \in ResumesAt(t)
      /\ at[t] \notin {"none", "done"} \cup ShuttingDown
  BY <1>2, RolesAre DEF ThreadsInv, Roles, PlacesOf, Recovering, ShuttingDown
<1>4. CASE RecoverProbes(t)
  <2>1. PICK place \in {"recovered", "ensure"} : Moves(t, place) /\ UNCHANGED next
    BY <1>4 DEF RecoverProbes
  <2>2. place \in PlacesOf(t) /\ place \notin {"none"} \cup ShuttingDown
    BY <1>3, RolesAre DEF PlacesOf, Recovering, ShuttingDown
  <2> QED BY <1>1, <1>3, <2>1, <2>2, ThreadGoes
<1>5. CASE RecoverEnds(t)
  <2>1. next[t] \in PlacesOf(t) /\ next[t] \notin {"none"} \cup ShuttingDown \cup Recovering
    BY <1>3, RolesAre DEF PlacesOf, ResumesAt, ShuttingDown, Recovering
  <2>2. Moves(t, next[t]) /\ \A u \in Threads : u # t => next'[u] = next[u]
    BY <1>5 DEF RecoverEnds, ProviderTypes
  <2> QED BY <1>1, <1>3, <2>1, <2>2, ThreadGoes
<1> QED BY <1>4, <1>5 DEF Recovery

LEMMA StartSyncKeepsThreads ==
  ASSUME ProviderTypes, ThreadsInv, StartSync
  PROVE  ThreadsInv'
<1>1. PICK t \in Syncs : /\ activeSyncs' = RunningSyncs \cup {t}
                         /\ at' = [at EXCEPT ![Host] = "idle", ![t] = "capture"]
  BY DEF StartSync
<1>2. /\ at'[Host] = "idle" /\ at'[t] = "capture"
      /\ \A u \in Threads : u # Host /\ u # t => at'[u] = at[u]
  BY <1>1, RolesAre DEF ProviderTypes
<1>3. /\ UNCHANGED <<next, abandoned, stopping>>
      /\ at[Host] \in {"register", "joinOldest"}
  BY DEF StartSync, supervisorVars, state
<1>4. stopping[Provider].at = "no"
  BY <1>3 DEF ThreadsInv, ShutdownOrder, GatewayGoes, Released
<1>5. Roles'
  <2>1. ASSUME NEW u \in Threads
        PROVE  at'[u] \in PlacesOf(u) /\ (at'[u] \in Recovering => next'[u] \in ResumesAt(u))
    <3>1. CASE u = Host \/ u = t
      BY <1>1, <1>2, <3>1, RolesAre DEF PlacesOf, Recovering
    <3>2. CASE u # Host /\ u # t
      BY <1>2, <1>3, <3>2 DEF ThreadsInv, Roles
    <3> QED BY <3>1, <3>2
  <2> QED BY <2>1 DEF Roles, PlacesOf, ResumesAt
<1>6. NotYet' /\ ShutdownOrder' /\ WatchdogJoined' /\ StarterJoined'
  BY <1>2, <1>3, <1>4 DEF NotYet, ShutdownOrder, WatchdogJoined, StarterJoined, GatewayGoes, Released
<1>7. SyncsJoined'
  <2>1. ASSUME NEW u \in Syncs, Running(u)'
        PROVE  u \in activeSyncs'
    <3>1. CASE u # t
      <4>1. Running(u)
        BY <1>2, <2>1, <3>1, RolesAre DEF Running
      <4>2. u \in activeSyncs
        BY <1>3, <4>1 DEF ThreadsInv, SyncsJoined, GatewayGoes, Released
      <4> QED BY <1>1, <4>1, <4>2 DEF RunningSyncs
    <3> QED BY <1>1, <3>1
  <2> QED BY <1>2, <2>1 DEF SyncsJoined, GatewayGoes, Released
<1> QED BY <1>5, <1>6, <1>7 DEF ThreadsInv

\* shutdown waits for the watchdog and for the captures.
LEMMA JoinsKeepThreads ==
  ASSUME ProviderTypes, ThreadsInv, JoinWatchdog \/ JoinSyncs
  PROVE  ThreadsInv'
<1>1. /\ UNCHANGED <<next, stopping>>
      /\ at[Host] \in {"joinWatchdog", "joinSyncs"}
  BY DEF JoinWatchdog, JoinSyncs, supervisorVars
<1>2. /\ at'[Host] \in {"joinSyncs", "shutdown"}
      /\ \A u \in Threads : u # Host => at'[u] = at[u]
  BY RolesAre DEF JoinWatchdog, JoinSyncs, Moves, ProviderTypes
<1>3. stopping[Provider].at = "no"
  BY <1>1 DEF ThreadsInv, ShutdownOrder, GatewayGoes, Released
<1>4. Roles'
  <2>1. ASSUME NEW u \in Threads
        PROVE  at'[u] \in PlacesOf(u) /\ (at'[u] \in Recovering => next'[u] \in ResumesAt(u))
    BY <1>1, <1>2 DEF ThreadsInv, Roles, PlacesOf, Recovering, ShuttingDown
  <2> QED BY <2>1 DEF Roles, PlacesOf, ResumesAt
<1>5. NotYet' /\ ShutdownOrder' /\ StarterJoined'
  BY <1>1, <1>2, <1>3 DEF NotYet, ShutdownOrder, StarterJoined, GatewayGoes, Released
<1>6. \A u \in Threads : u # Host => (Running(u)' <=> Running(u))
  BY <1>2 DEF Running
<1>7. CASE JoinWatchdog
  <2>1. /\ abandoned' = {} => ~Running(Watchdog) /\ abandoned = {}
        /\ activeSyncs' = activeSyncs /\ at'[Host] = "joinSyncs" /\ at[Host] = "joinWatchdog"
    BY <1>7, RolesAre DEF JoinWatchdog, Abandon, Moves, ProviderTypes
  <2>2. WatchdogJoined'
    BY <1>6, <2>1, RolesAre DEF WatchdogJoined
  <2>3. SyncsJoined'
    BY <1>6, <2>1, RolesAre DEF ThreadsInv, SyncsJoined, GatewayGoes, Released
  <2> QED BY <1>4, <1>5, <2>2, <2>3 DEF ThreadsInv
<1>8. CASE JoinSyncs
  <2>1. /\ abandoned' = {} => abandoned = {} /\ \A u \in activeSyncs : ~Running(u)
        /\ at'[Host] = "shutdown" /\ at[Host] = "joinSyncs"
    BY <1>8, RolesAre DEF JoinSyncs, Abandon, Moves, ProviderTypes
  <2>2. WatchdogJoined'
    BY <1>6, <2>1, RolesAre DEF ThreadsInv, WatchdogJoined
  <2>3. SyncsJoined'
    BY <1>6, <2>1, RolesAre DEF ThreadsInv, SyncsJoined, GatewayGoes, Released
  <2> QED BY <1>4, <1>5, <2>2, <2>3 DEF ThreadsInv
<1> QED BY <1>7, <1>8

\* The shutdown of the supervisor begins with the wait for the thread that starts
\* the Gateway.
LEMMA ShutdownKeepsThreads ==
  ASSUME TypeOK, ThreadsInv, ShutdownSupervisor \/ Release
  PROVE  ThreadsInv'
<1>0. /\ ProviderTypes /\ Provider \in Supervisors
      /\ stopping[Provider] \in [at : {"no", "requested", "wait", "done"}, proc : 0..MaxGateways]
      /\ stopping \in [Supervisors ->
                        [at : {"no", "requested", "wait", "done"}, proc : 0..MaxGateways]]
  BY ProviderAssumption DEF TypeOK, ProviderTypes, SupervisorTypeOK
<1>1. CASE RequestShutdown(Provider) /\ Abandon({InitThread}) /\ UNCHANGED at
           /\ at[Host] = "shutdown" /\ UNCHANGED <<next, activeSyncs>>
  <2>1. /\ stopping[Provider].at = "no" /\ stopping'[Provider].at # "no"
        /\ abandoned' = {} => abandoned = {} /\ ~Running(InitThread)
    BY <1>0, <1>1 DEF RequestShutdown, Abandon
  <2>2. Roles'
    BY <1>1 DEF ThreadsInv, Roles, PlacesOf, ResumesAt
  <2> QED BY <1>1, <2>1, <2>2
          DEF ThreadsInv, NotYet, ShutdownOrder, WatchdogJoined, SyncsJoined,
              StarterJoined, Running, GatewayGoes, Released
<1>2. CASE ShutdownSteps(Provider) /\ at[Host] = "shutdown"
           /\ UNCHANGED <<abandoned, at, next, activeSyncs>>
  <2>1. stopping[Provider].at # "no"
    BY <1>2 DEF ShutdownSteps, Terminate, Collect
  <2>2. Roles'
    BY <1>2 DEF ThreadsInv, Roles, PlacesOf, ResumesAt
  <2> QED BY <1>2, <2>1, <2>2
          DEF ThreadsInv, NotYet, ShutdownOrder, WatchdogJoined, SyncsJoined,
              StarterJoined, Running, GatewayGoes, Released
<1>3. ASSUME NEW place \in Released, Moves(Host, place), at[Host] \in GatewayGoes,
             stopping[Provider].at = "done",
             UNCHANGED <<abandoned, next, activeSyncs, stopping>>
      PROVE  ThreadsInv'
  <2>1. /\ at'[Host] = place /\ at'[Host] \in GatewayGoes
        /\ \A u \in Threads : u # Host => at'[u] = at[u]
    BY <1>0, <1>3, RolesAre DEF Moves, ProviderTypes, GatewayGoes
  <2>2. Roles'
    <3>1. ASSUME NEW u \in Threads
          PROVE  at'[u] \in PlacesOf(u) /\ (at'[u] \in Recovering => next'[u] \in ResumesAt(u))
      BY <1>3, <2>1 DEF ThreadsInv, Roles, PlacesOf, Recovering, ShuttingDown, Released
    <3> QED BY <3>1 DEF Roles, PlacesOf, ResumesAt
  <2>3. \A u \in Threads : u # Host => (Running(u)' <=> Running(u))
    BY <2>1 DEF Running
  <2>4. NotYet' /\ ShutdownOrder'
    BY <1>3, <2>1 DEF NotYet, ShutdownOrder, Released
  <2>5. WatchdogJoined' /\ StarterJoined' /\ SyncsJoined'
    BY <1>3, <2>1, <2>3, RolesAre DEF ThreadsInv, WatchdogJoined, StarterJoined, SyncsJoined
  <2> QED BY <2>2, <2>4, <2>5 DEF ThreadsInv
<1>4. CASE Release
  <2>1. stopping[Provider].at = "done"
    BY <1>4 DEF Release, ThreadsInv, ShutdownOrder, Released
  <2> QED BY <1>3, <1>4, <2>1 DEF Release, Released, GatewayGoes, threads, supervisorVars
<1>5. CASE ShutdownSupervisor
  BY <1>1, <1>2, <1>3, <1>5 DEF ShutdownSupervisor, Released, GatewayGoes, supervisorVars
<1> QED BY <1>4, <1>5

LEMMA InitializeKeepsThreads ==
  ASSUME ProviderTypes, ThreadsInv, Initialize
  PROVE  ThreadsInv'
<1>1. /\ at[Host] = "none" /\ \A t \in Threads : at[t] = "none"
      /\ UNCHANGED <<next, activeSyncs, abandoned, stopping>>
  BY DEF Initialize, ThreadsInv, NotYet, threads, supervisorVars
<1>2. /\ at'[Host] = "idle" /\ at'[Watchdog] = "tick"
      /\ at'[InitThread] \in {"none", "start"}
      /\ \A t \in Syncs : at'[t] = "none"
  BY <1>1, RolesAre DEF Initialize, ProviderTypes
<1>3. stopping[Provider].at = "no"
  BY <1>1 DEF ThreadsInv, ShutdownOrder, GatewayGoes, Released
<1>4. Roles'
  <2>1. ASSUME NEW u \in Threads
        PROVE  at'[u] \in PlacesOf(u) /\ (at'[u] \in Recovering => next'[u] \in ResumesAt(u))
    BY <1>2, RolesAre DEF PlacesOf, Recovering
  <2> QED BY <2>1 DEF Roles, PlacesOf, ResumesAt
<1> QED BY <1>1, <1>2, <1>3, <1>4
        DEF ThreadsInv, NotYet, ShutdownOrder, WatchdogJoined, SyncsJoined, StarterJoined,
            Running, GatewayGoes, Released

LEMMA StepKeepsThreads ==
  ASSUME TypeOK, ThreadsInv, [Next]_vars
  PROVE  ThreadsInv'
<1>0. ProviderTypes
  BY DEF TypeOK, ProviderTypes
<1>1. ASSUME NEW t \in Threads, Recovery(t) PROVE ThreadsInv'
  BY <1>0, <1>1, RecoveryKeepsThreads
<1>2. ASSUME NEW t \in Threads, Ensures(t) PROVE ThreadsInv'
  <2>1. UNCHANGED <<at, next, activeSyncs, abandoned, stopping>>
    BY <1>2 DEF Ensures, threads, Steps, FirstProbe, StartupSingleflight, Reprobe, Prepare,
                Popen, WaitForHealth, WaitExpires, SupervisorKeeps
  <2> QED BY <2>1, SameThreads
<1>3. CASE Refused \/ ToolAdmitted \/ SyncTurn \/ BeginShutdown
  <2>1. /\ at[Host] \notin {"none"} \cup ShuttingDown
        /\ UNCHANGED <<abandoned, stopping, next>>
        /\ \A u \in activeSyncs : Running(u) => u \in activeSyncs'
        /\ \E place \in {"idle", "call", "joinOldest", "joinWatchdog"} : Moves(Host, place)
    BY <1>3 DEF Refused, ToolAdmitted, SyncTurn, BeginShutdown, RunningSyncs, ShuttingDown,
                threads, supervisorVars, state
  <2>2. \A place \in {"idle", "call", "joinOldest", "joinWatchdog"} :
          place \in PlacesOf(Host) /\ place \notin {"none", "joinSyncs"} \cup GatewayGoes \cup Recovering
    BY DEF PlacesOf, GatewayGoes, Released, Recovering, ShuttingDown
  <2> QED BY <1>0, <2>1, <2>2, HostMoves
<1>4. CASE Asks
  BY <1>0, <1>4, RolesAre, CallsKeepThreads DEF Asks, ResumesAt, ShuttingDown
<1>5. CASE BackgroundStart \/ BackgroundStarted
  <2>1. /\ UNCHANGED <<next, activeSyncs, abandoned, stopping>>
        /\ at[InitThread] \in {"start", "starting"}
        /\ \E place \in {"starting", "done"} : Moves(InitThread, place)
    BY <1>5 DEF BackgroundStart, BackgroundStarted, threads, supervisorVars, EnsureRunning,
                Returned, SupervisorKeeps
  <2>2. \A place \in {"starting", "done"} :
          place \in PlacesOf(InitThread) /\ place \notin {"none"} \cup ShuttingDown \cup Recovering
    BY RolesAre DEF PlacesOf, ShuttingDown, Recovering
  <2>3. at[InitThread] \notin {"none", "done"} \cup ShuttingDown
    BY <2>1 DEF ShuttingDown
  <2> QED BY <1>0, <2>1, <2>2, <2>3, RolesAre, ThreadGoes
<1>6. CASE WatchdogLoop
  <2>1. /\ UNCHANGED <<activeSyncs, abandoned, stopping>>
        /\ at[Watchdog] \notin {"none", "done"} \cup ShuttingDown
        /\ \/ TryRecover(Watchdog, TRUE, "tick")
           \/ UNCHANGED next /\ \E place \in {"tick", "probe", "attach", "done"} : Moves(Watchdog, place)
    BY <1>6 DEF WatchdogLoop, WatchdogTick, WatchdogProbes, WatchdogAttaches, threads,
                supervisorVars, ShuttingDown
  <2>2. \A place \in {"tick", "probe", "attach", "done"} :
          place \in PlacesOf(Watchdog) /\ place \notin {"none"} \cup ShuttingDown \cup Recovering
    BY RolesAre DEF PlacesOf, ShuttingDown, Recovering
  <2>3. "tick" \in ResumesAt(Watchdog)
    BY RolesAre DEF ResumesAt
  <2> QED BY <1>0, <2>1, <2>2, <2>3, RolesAre, ThreadGoes, TriesToRecover
<1>7. ASSUME NEW t \in Syncs, Captures(t) PROVE ThreadsInv'
  <2>1. at[t] \notin {"none", "done"} \cup ShuttingDown /\ Calls(t, "done")
    BY <1>7 DEF Captures, ShuttingDown
  <2>2. "done" \in ResumesAt(t) /\ t # InitThread /\ t \in Threads
    BY RolesAre DEF ResumesAt
  <2> QED BY <1>0, <2>1, <2>2, CallsKeepThreads
<1>8. CASE Request
  <2>1. PICK kind \in {"call", "tool", "register"} :
          \/ Moves(Host, kind) /\ UNCHANGED next
          \/ TryRecover(Host, FALSE, kind)
    BY <1>8 DEF Request
  <2>2. /\ at[Host] \notin {"none", "done"} \cup ShuttingDown
        /\ UNCHANGED <<activeSyncs, abandoned, stopping>>
    BY <1>8 DEF Request, ShuttingDown
  <2>3. /\ kind \in ResumesAt(Host) /\ kind \in PlacesOf(Host)
        /\ kind \notin {"none"} \cup ShuttingDown \cup Recovering
    BY DEF ResumesAt, PlacesOf, ShuttingDown, Recovering
  <2> QED BY <1>0, <2>1, <2>2, <2>3, RolesAre, ThreadGoes, TriesToRecover
<1>9. CASE StartSync
  BY <1>0, <1>9, StartSyncKeepsThreads
<1>10. CASE JoinWatchdog \/ JoinSyncs
  BY <1>0, <1>10, JoinsKeepThreads
<1>11. CASE ShutdownSupervisor \/ Release
  BY <1>11, ShutdownKeepsThreads
<1>12. CASE Initialize
  BY <1>0, <1>12, InitializeKeepsThreads
<1>13. CASE Environment \/ UNCHANGED vars
  <2>1. UNCHANGED <<at, next, activeSyncs, abandoned, stopping>>
    BY <1>13 DEF Environment, vars, threads, supervisorVars, Processes, Listens, Crashes, Hangs,
                 AnswersAgain, LaunchedOutside, ProcessesKeep
  <2> QED BY <2>1, SameThreads
<1> QED BY <1>1, <1>2, <1>3, <1>4, <1>5, <1>6, <1>7, <1>8, <1>9, <1>10, <1>11, <1>12, <1>13
        DEF Next, ThreadSteps, HostSteps
-----------------------------------------------------------------------------
(* ensure_running is entered and left where the provider calls it *)

LEMMA NobodyRuns ==
  ASSUME ThreadsInv, stopping[Provider].at # "no", abandoned = {}
  PROVE  /\ at[Host] \in GatewayGoes
         /\ \A t \in Threads : t # Host => ~Running(t)
<1>1. at[Host] \in GatewayGoes
  BY DEF ThreadsInv, ShutdownOrder
<1>2. ~Running(Watchdog) /\ ~Running(InitThread) /\ \A t \in Syncs : ~Running(t)
  BY <1>1 DEF ThreadsInv, WatchdogJoined, SyncsJoined, StarterJoined
<1> QED BY <1>1, <1>2, RolesAre

\* Once the supervisor is shut down nobody is in ensure_running, unless a wait of
\* the shutdown gave up.
LEMMA NobodyEnsures ==
  ASSUME ThreadsInv, EnsuresWhereCalled, stopping[Provider].at # "no", abandoned = {}
  PROVE  \A t \in Threads : ensure[t] = "idle"
BY NobodyRuns DEF EnsuresWhereCalled, Running, GatewayGoes, Released

LEMMA AbandonedStay == [Next]_vars => abandoned \subseteq abandoned'
BY DEF Next, vars, threads, ThreadSteps, Recovery, RecoverProbes, RecoverEnds, Ensures, HostSteps,
       Refused, ToolAdmitted, Asks, Calls, SyncTurn, StartSync, JoinWatchdog, JoinSyncs,
       ShutdownSupervisor, Release, BackgroundStart, BackgroundStarted, WatchdogLoop,
       WatchdogTick, WatchdogProbes, WatchdogAttaches, Captures, Initialize, Request,
       BeginShutdown, Environment, Abandon

\* Threads that are in no ensure_running go elsewhere.
LEMMA ElsewhereKeepsEnsures ==
  ASSUME EnsuresWhereCalled, UNCHANGED ensure,
         \A t \in Threads : at'[t] = at[t] \/ at[t] \notin {"ensure", "starting"}
  PROVE  EnsuresWhereCalled'
BY DEF EnsuresWhereCalled

LEMMA MovingKeepsEnsures ==
  ASSUME ProviderTypes, EnsuresWhereCalled, UNCHANGED ensure,
         NEW t \in Threads, at[t] \notin {"ensure", "starting"}, NEW place, Moves(t, place)
  PROVE  EnsuresWhereCalled'
BY ElsewhereKeepsEnsures DEF ProviderTypes, Moves

LEMMA CallsKeepEnsures ==
  ASSUME ProviderTypes, EnsuresWhereCalled, NEW t \in Threads,
         at[t] \notin {"ensure", "starting"}, NEW place, Calls(t, place)
  PROVE  EnsuresWhereCalled'
BY MovingKeepsEnsures DEF Calls, TryRecover, supervisorVars

LEMMA StepKeepsEnsures ==
  ASSUME TypeOK, ThreadsInv, EnsuresWhereCalled, [Next]_vars
  PROVE  EnsuresWhereCalled'
<1>0. ProviderTypes /\ ensure \in [Threads -> Places]
  BY DEF TypeOK, ProviderTypes, SupervisorTypeOK
<1>1. ASSUME NEW t \in Threads, EnsureRunning(t), NEW place \in {"ensure", "starting"},
             Moves(t, place)
      PROVE  EnsuresWhereCalled'
  BY <1>0, <1>1 DEF EnsuresWhereCalled, EnsureRunning, Goes, Moves, ProviderTypes
<1>2. ASSUME NEW t \in Threads, Returned(t), NEW place, Moves(t, place)
      PROVE  EnsuresWhereCalled'
  BY <1>0, <1>2 DEF EnsuresWhereCalled, Returned, Goes, Moves, ProviderTypes
<1>3. ASSUME NEW t \in Threads, Recovery(t) PROVE EnsuresWhereCalled'
  <2>1. CASE RecoverProbes(t)
    BY <1>0, <1>1, <2>1, MovingKeepsEnsures DEF RecoverProbes, supervisorVars
  <2>2. CASE RecoverEnds(t)
    BY <1>0, <1>2, <2>2, MovingKeepsEnsures DEF RecoverEnds, supervisorVars
  <2> QED BY <1>3, <2>1, <2>2 DEF Recovery
<1>4. ASSUME NEW t \in Threads, Ensures(t) PROVE EnsuresWhereCalled'
  <2>1. /\ ensure[t] # "idle" /\ UNCHANGED at
        /\ \A u \in Threads : u # t => ensure'[u] = ensure[u]
    BY <1>0, <1>4 DEF Ensures, Steps, FirstProbe, StartupSingleflight, Reprobe, Prepare, Popen,
                      WaitForHealth, WaitExpires, Returns, Goes
  <2> QED BY <2>1 DEF EnsuresWhereCalled
<1>5. CASE \/ Refused \/ ToolAdmitted \/ SyncTurn \/ BeginShutdown \/ JoinWatchdog \/ JoinSyncs
           \/ Release
  <2>1. /\ UNCHANGED ensure /\ at[Host] \notin {"ensure", "starting"}
        /\ \E place : Moves(Host, place)
    BY <1>5 DEF Refused, ToolAdmitted, SyncTurn, BeginShutdown, JoinWatchdog, JoinSyncs, Release,
                supervisorVars
  <2> QED BY <1>0, <2>1, RolesAre, MovingKeepsEnsures
<1>6. CASE Asks
  BY <1>0, <1>6, RolesAre, CallsKeepEnsures DEF Asks
<1>7. CASE StartSync
  BY <1>0, <1>7, RolesAre, ElsewhereKeepsEnsures DEF StartSync, Running, ProviderTypes, supervisorVars
<1>8. CASE ShutdownSupervisor
  <2>1. UNCHANGED ensure /\ at[Host] = "shutdown" /\ (at' = at \/ Moves(Host, "release"))
    BY <1>8 DEF ShutdownSupervisor, RequestShutdown, ShutdownSteps, Terminate, Collect,
                ShutdownKeeps, supervisorVars
  <2> QED BY <1>0, <2>1, RolesAre, MovingKeepsEnsures, ElsewhereKeepsEnsures
<1>9. CASE BackgroundStart
  BY <1>0, <1>1, <1>9, RolesAre, MovingKeepsEnsures DEF BackgroundStart, supervisorVars
<1>10. CASE BackgroundStarted
  BY <1>2, <1>10, RolesAre DEF BackgroundStarted
<1>11. CASE WatchdogLoop
  <2>1. /\ UNCHANGED ensure /\ at[Watchdog] \notin {"ensure", "starting"}
        /\ \E place : Moves(Watchdog, place)
    BY <1>11 DEF WatchdogLoop, WatchdogTick, WatchdogProbes, WatchdogAttaches, TryRecover,
                 supervisorVars
  <2> QED BY <1>0, <2>1, RolesAre, MovingKeepsEnsures
<1>12. ASSUME NEW t \in Threads, Captures(t) PROVE EnsuresWhereCalled'
  BY <1>0, <1>12, CallsKeepEnsures DEF Captures
<1>13. CASE Request
  <2>1. UNCHANGED ensure /\ at[Host] = "idle" /\ \E place : Moves(Host, place)
    BY <1>13 DEF Request, TryRecover
  <2> QED BY <1>0, <2>1, RolesAre, MovingKeepsEnsures
<1>14. CASE Initialize
  BY <1>14, ElsewhereKeepsEnsures DEF Initialize, ThreadsInv, NotYet, supervisorVars
<1>15. CASE Environment \/ UNCHANGED vars
  <2>1. UNCHANGED <<ensure, at>>
    BY <1>15 DEF Environment, Processes, Listens, Crashes, Hangs, AnswersAgain, LaunchedOutside,
                 ProcessesKeep, vars, supervisorVars
  <2> QED BY <2>1, ElsewhereKeepsEnsures
<1> QED BY <1>3, <1>4, <1>5, <1>6, <1>7, <1>8, <1>9, <1>10, <1>11, <1>12, <1>13, <1>14, <1>15
        DEF Next, ThreadSteps, HostSteps
-----------------------------------------------------------------------------
(* The supervisor knows what it launched *)

\* A step that launches nothing for the provider and makes nothing shut down.
LEMMA SameHandles ==
  ASSUME HandleKnown, UNCHANGED <<process, stopping>>, abandoned \subseteq abandoned',
         \A g \in Ids :
           /\ gateways'[g].by = Provider /\ gateways'[g].state # "exited" /\ g \notin missed' =>
                gateways[g].by = Provider /\ gateways[g].state # "exited" /\ g \notin missed
           /\ gateways'[g].state = "stopping" => gateways[g].state = "stopping"
  PROVE  HandleKnown'
BY DEF HandleKnown

\* Popen replaces the handle, and nothing that the supervisor has not missed runs.
LEMMA PopenKeepsHandles ==
  ASSUME TypeOK, LaunchInv, ThreadsInv, EnsuresWhereCalled, HandleKnown,
         NEW t \in Threads, Popen(t), UNCHANGED abandoned
  PROVE  HandleKnown'
<1>0. /\ gateways \in [Ids -> [by : Supervisors \cup {Outside}, state : States]]
      /\ process \in [Supervisors -> 0..MaxGateways]
  BY DEF TypeOK, SupervisorTypeOK
<1>1. supervisorOf[t] = Provider /\ Provider \in Supervisors
  BY ProviderAssumption, SupervisorAssumption
<1>2. ensure[t] = "popen" /\ UNCHANGED stopping
  BY DEF Popen, SupervisorKeeps
<1>3. abandoned = {} => stopping[Provider].at = "no"
  BY <1>2, NobodyEnsures
<1>4. ASSUME NEW g \in Ids, Launch(g, Provider), process' = [process EXCEPT ![Provider] = g]
      PROVE  HandleKnown'
  <2>1. /\ gateways'[g].state = "starting" /\ process'[Provider] = g
        /\ \A h \in Ids : h # g => gateways'[h] = gateways[h] /\ (h \in missed' <=> h \in missed)
    BY <1>0, <1>1, <1>4 DEF Launch
  <2>2. ASSUME abandoned = {}, NEW h \in Ids, gateways'[h].by = Provider,
               gateways'[h].state # "exited", h \notin missed', h # g
        PROVE  FALSE
    <3>1. /\ gateways[h].by = Provider /\ gateways[h].state # "exited" /\ h \notin missed
          /\ gateways[h].state \in States
      BY <1>0, <2>1, <2>2
    <3>2. gateways[h].state # "stopping"
      BY <1>3, <2>2 DEF HandleKnown
    <3>3. gateways[h].state # "hung"
      BY <1>1, <3>1 DEF LaunchInv, HungMissed
    <3>4. ~Fresh(h)
      BY <1>2 DEF LaunchInv, NothingFreshAtLaunch
    <3> QED BY <1>1, <3>1, <3>2, <3>3, <3>4 DEF Fresh, States
  <2>3. \A h \in Ids : gateways'[h].state = "stopping" => gateways[h].state = "stopping"
    BY <2>1
  <2> QED BY <1>2, <1>3, <2>1, <2>2, <2>3 DEF HandleKnown
<1>5. CASE UNCHANGED <<gateways, process, missed>>
  BY <1>2, <1>5, SameHandles
<1> QED BY <1>1, <1>4, <1>5 DEF Popen

LEMMA EnsuresKeepHandles ==
  ASSUME TypeOK, LaunchInv, ThreadsInv, EnsuresWhereCalled, HandleKnown,
         NEW t \in Threads, Steps(t), UNCHANGED abandoned
  PROVE  HandleKnown'
<1>1. CASE Popen(t)
  BY <1>1, PopenKeepsHandles
<1>2. CASE Prepare(t)
  <2>1. UNCHANGED <<gateways, missed, stopping>>
    BY <1>2 DEF Prepare, SupervisorKeeps
  <2>2. supervisorOf[t] = Provider /\ Provider \in Supervisors
    BY ProviderAssumption, SupervisorAssumption
  <2>3. \A g \in Ids : process[Provider] = g /\ gateways[g].state # "exited" =>
                         process'[Provider] = g
    BY <1>2, <2>2 DEF Prepare, Reaped, TypeOK, SupervisorTypeOK
  <2> QED BY <2>1, <2>3 DEF HandleKnown
<1>3. CASE FirstProbe(t) \/ StartupSingleflight(t) \/ Reprobe(t) \/ WaitForHealth(t) \/ WaitExpires(t)
  <2>1. UNCHANGED <<gateways, process, stopping>> /\ missed \subseteq missed'
    BY <1>3 DEF FirstProbe, StartupSingleflight, Reprobe, WaitForHealth, WaitExpires, SupervisorKeeps
  <2> QED BY <2>1, SameHandles
<1> QED BY <1>1, <1>2, <1>3 DEF Steps

\* shutdown ends what the handle is for.
LEMMA ShutdownKeepsHandles ==
  ASSUME TypeOK, HandleKnown, ShutdownSupervisor
  PROVE  HandleKnown'
<1>0. /\ gateways \in [Ids -> [by : Supervisors \cup {Outside}, state : States]]
      /\ process \in [Supervisors -> 0..MaxGateways]
      /\ stopping \in [Supervisors ->
                        [at : {"no", "requested", "wait", "done"}, proc : 0..MaxGateways]]
      /\ Provider \in Supervisors
      /\ 0 \notin Ids
  BY ProviderAssumption DEF TypeOK, SupervisorTypeOK, Ids
<1>1. abandoned \subseteq abandoned'
  BY DEF ShutdownSupervisor, Abandon, Happens
<1>2. CASE RequestShutdown(Provider)
  <2>1. /\ UNCHANGED <<gateways, process, missed>> /\ stopping[Provider].at = "no"
        /\ stopping' = [stopping EXCEPT ![Provider] = [stopping[Provider] EXCEPT !.at = "requested"]]
    BY <1>2 DEF RequestShutdown, ShutdownKeeps
  <2>2. stopping'[Provider].at = "requested"
    BY <1>0, <2>1
  <2> QED BY <1>1, <2>1, <2>2 DEF HandleKnown
<1>3. CASE Terminate(Provider)
  <2>1. /\ UNCHANGED <<process, missed>> /\ stopping[Provider].at = "requested"
        /\ \A g \in Ids : /\ gateways'[g].by = gateways[g].by
                          /\ gateways'[g].state # "exited" => gateways[g].state # "exited"
    <3>1. UNCHANGED <<process, missed>> /\ stopping[Provider].at = "requested"
      BY <1>3 DEF Terminate, ShutdownKeeps
    <3>2. \/ gateways' = gateways
          \/ \E new : /\ gateways' = [gateways EXCEPT ![process[Provider]] =
                                        [gateways[process[Provider]] EXCEPT !.state = new]]
                      /\ new # "exited" => gateways[process[Provider]].state # "exited"
      BY <1>3 DEF Terminate
    <3>3. \A g \in Ids : /\ gateways'[g].by = gateways[g].by
                         /\ gateways'[g].state # "exited" => gateways[g].state # "exited"
      <4>1. CASE gateways' = gateways
        BY <4>1
      <4>2. ASSUME NEW new, new # "exited" => gateways[process[Provider]].state # "exited",
                   gateways' = [gateways EXCEPT ![process[Provider]] =
                                  [gateways[process[Provider]] EXCEPT !.state = new]]
            PROVE  \A g \in Ids : /\ gateways'[g].by = gateways[g].by
                                 /\ gateways'[g].state # "exited" => gateways[g].state # "exited"
        BY <1>0, <4>2
      <4>3. CASE \E new : /\ gateways' = [gateways EXCEPT ![process[Provider]] =
                                            [gateways[process[Provider]] EXCEPT !.state = new]]
                          /\ new # "exited" => gateways[process[Provider]].state # "exited"
        <5>1. PICK new : /\ gateways' = [gateways EXCEPT ![process[Provider]] =
                                           [gateways[process[Provider]] EXCEPT !.state = new]]
                         /\ new # "exited" => gateways[process[Provider]].state # "exited"
          BY <4>3
        <5> QED BY <5>1, <4>2
      <4> QED BY <3>2, <4>1, <4>3
    <3> QED BY <3>1, <3>3
  <2>2. CASE process[Provider] = 0
    <3>1. stopping'[Provider].at = "done"
      BY <1>0, <1>3, <2>2 DEF Terminate
    <3>2. abandoned = {} => \A g \in Ids :
            ~(gateways[g].by = Provider /\ gateways[g].state # "exited" /\ g \notin missed)
      BY <1>0, <2>2 DEF HandleKnown
    <3> QED BY <1>1, <2>1, <3>1, <3>2 DEF HandleKnown
  <2>3. CASE process[Provider] # 0
    <3>1. stopping'[Provider].at = "wait" /\ stopping'[Provider].proc = process[Provider]
      BY <1>0, <1>3, <2>3 DEF Terminate
    <3> QED BY <1>1, <2>1, <3>1 DEF HandleKnown
  <2> QED BY <2>2, <2>3
<1>4. CASE Collect(Provider)
  <2>1. stopping[Provider].at = "wait" /\ stopping'[Provider].at = "done" /\ UNCHANGED missed
    BY <1>0, <1>4 DEF Collect, ShutdownKeeps
  <2>2. \A g \in Ids : /\ gateways'[g].by = gateways[g].by
                       /\ gateways'[g].state # "exited" =>
                            gateways[g].state # "exited" /\ g # stopping[Provider].proc
    BY <1>0, <1>4 DEF Collect
  <2> QED BY <1>1, <2>1, <2>2 DEF HandleKnown
<1>5. CASE UNCHANGED supervisorVars
  BY <1>1, <1>5, SameHandles DEF supervisorVars
<1> QED BY <1>2, <1>3, <1>4, <1>5 DEF ShutdownSupervisor, ShutdownSteps

\* What others launch is not the supervisor's; what hangs is missed.
LEMMA ProcessesKeepHandles ==
  ASSUME TypeOK, HandleKnown, Processes, UNCHANGED abandoned
  PROVE  HandleKnown'
<1>0. /\ gateways \in [Ids -> [by : Supervisors \cup {Outside}, state : States]]
      /\ Provider # Outside
  BY ProviderAssumption, SupervisorAssumption DEF TypeOK, SupervisorTypeOK
<1>1. PICK g \in Ids :
        Listens(g) \/ Crashes(g) \/ Hangs(g) \/ AnswersAgain(g) \/ LaunchedOutside(g)
  BY DEF Processes
<1>2. UNCHANGED <<process, stopping>>
  BY <1>1 DEF Listens, Crashes, Hangs, AnswersAgain, LaunchedOutside, ProcessesKeep
<1>3. ASSUME NEW new, Becomes(g, new), gateways[g].state # "exited", new # "stopping",
             missed \subseteq missed'
      PROVE  HandleKnown'
  <2>1. /\ gateways'[g].by = gateways[g].by /\ gateways'[g].state = new
        /\ \A h \in Ids : h # g => gateways'[h] = gateways[h]
    <3>1. gateways' = [gateways EXCEPT ![g] = [gateways[g] EXCEPT !.state = new]]
      BY <1>3 DEF Becomes
    <3> QED BY <1>0, <3>1
  <2> QED BY <1>2, <1>3, <2>1, SameHandles
<1>4. CASE Listens(g) \/ Crashes(g) \/ Hangs(g) \/ AnswersAgain(g)
  BY <1>3, <1>4 DEF Listens, Crashes, Hangs, AnswersAgain, In
<1>5. CASE LaunchedOutside(g)
  <2>1. /\ gateways'[g].by = Outside /\ gateways'[g].state = "starting"
        /\ \A h \in Ids : h # g => gateways'[h] = gateways[h] /\ (h \in missed' <=> h \in missed)
    BY <1>0, <1>5 DEF LaunchedOutside, Launch
  <2> QED BY <1>0, <1>2, <2>1, SameHandles
<1> QED BY <1>1, <1>4, <1>5

LEMMA StepKeepsHandles ==
  ASSUME TypeOK, LaunchInv, ThreadsInv, EnsuresWhereCalled, HandleKnown, [Next]_vars
  PROVE  HandleKnown'
<1>1. abandoned \subseteq abandoned'
  BY AbandonedStay
<1>2. CASE UNCHANGED <<gateways, process, stopping, missed>>
  BY <1>1, <1>2, SameHandles
<1>3. ASSUME NEW t \in Threads, Recovery(t)
      PROVE  UNCHANGED <<gateways, process, stopping, missed>>
  BY <1>3 DEF Recovery, RecoverProbes, RecoverEnds, EnsureRunning, Returned, SupervisorKeeps,
              supervisorVars
<1>4. ASSUME NEW t \in Threads, Ensures(t) PROVE HandleKnown'
  BY <1>4, EnsuresKeepHandles DEF Ensures, threads
<1>5. ASSUME \/ Refused \/ ToolAdmitted \/ Asks \/ SyncTurn \/ StartSync \/ JoinWatchdog
             \/ JoinSyncs \/ Release \/ WatchdogLoop \/ Initialize \/ Request \/ BeginShutdown
             \/ UNCHANGED vars
      PROVE  UNCHANGED <<gateways, process, stopping, missed>>
  BY <1>5 DEF Refused, ToolAdmitted, Asks, Calls, SyncTurn, StartSync, JoinWatchdog, JoinSyncs,
              Release, WatchdogLoop, WatchdogTick, WatchdogProbes, WatchdogAttaches, Initialize,
              Request, BeginShutdown, supervisorVars, vars
<1>6. ASSUME BackgroundStart \/ BackgroundStarted
      PROVE  UNCHANGED <<gateways, process, stopping, missed>>
  BY <1>6 DEF BackgroundStart, BackgroundStarted, EnsureRunning, Returned, SupervisorKeeps,
              supervisorVars
<1>7. ASSUME NEW t \in Threads, Captures(t)
      PROVE  UNCHANGED <<gateways, process, stopping, missed>>
  BY <1>7 DEF Captures, Calls, supervisorVars
<1>8. CASE ShutdownSupervisor
  BY <1>8, ShutdownKeepsHandles
<1>9. CASE Environment
  BY <1>9, ProcessesKeepHandles DEF Environment, threads
<1> QED BY <1>2, <1>3, <1>4, <1>5, <1>6, <1>7, <1>8, <1>9
        DEF Next, ThreadSteps, HostSteps
-----------------------------------------------------------------------------
(* Nobody attaches a released provider *)

LEMMA StepKeepsDetached ==
  ASSUME TypeOK, ThreadsInv, Detached, [Next]_vars
  PROVE  Detached'
<1>0. ProviderTypes
  BY DEF TypeOK, ProviderTypes
<1>1. SUFFICES ASSUME at'[Host] = "released", abandoned' = {}
               PROVE  ~client' /\ ~available'
  BY DEF Detached
<1>2. abandoned = {}
  BY <1>1, AbandonedStay
<1>3. CASE Release
  BY <1>3 DEF Release
<1>4. ASSUME at[Host] = "released", UNCHANGED <<client, available>>
      PROVE  ~client' /\ ~available'
  BY <1>2, <1>4 DEF Detached
<1>5. ASSUME at[Host] = "released", NEW t \in Threads, t # Host PROVE ~Running(t)
  BY <1>2, <1>5, NobodyRuns DEF ThreadsInv, ShutdownOrder, Released
<1>6. ASSUME NEW t \in Threads, NEW place, Moves(t, place), t # Host
      PROVE  at[Host] = "released"
  BY <1>0, <1>1, <1>6, RolesAre DEF Moves, ProviderTypes
<1>7. ASSUME NEW place, Moves(Host, place), place # "released" PROVE FALSE
  BY <1>0, <1>1, <1>7, RolesAre DEF Moves, ProviderTypes
<1>8. ASSUME NEW t \in Threads, Recovery(t) PROVE FALSE
  <2>1. at[t] \in Recovering /\ \E place : Moves(t, place)
    BY <1>8 DEF Recovery, RecoverProbes, RecoverEnds, Recovering
  <2>2. CASE t # Host
    BY <1>5, <1>6, <2>1, <2>2 DEF Running, Recovering
  <2>3. CASE t = Host
    <3>1. next[t] # "released"
      BY <2>1, <2>3, RolesAre DEF ThreadsInv, Roles, ResumesAt
    <3> QED BY <1>7, <1>8, <2>3, <3>1 DEF Recovery, RecoverProbes, RecoverEnds
  <2> QED BY <2>2, <2>3
<1>9. CASE (\E t \in Threads : Ensures(t)) \/ Environment \/ UNCHANGED vars
  <2>1. UNCHANGED <<at, client, available>>
    BY <1>9 DEF Ensures, Environment, vars, state
  <2> QED BY <1>1, <1>4, <2>1
<1>10. CASE Refused \/ ToolAdmitted \/ SyncTurn \/ BeginShutdown \/ JoinWatchdog \/ JoinSyncs
  BY <1>7, <1>10 DEF Refused, ToolAdmitted, SyncTurn, BeginShutdown, JoinWatchdog, JoinSyncs
<1>11. CASE Asks \/ Request
  <2>1. Moves(Host, "idle") \/ Moves(Host, "recover")
          \/ \E kind \in {"call", "tool", "register"} : Moves(Host, kind)
    BY <1>11 DEF Asks, Calls, Request, TryRecover
  <2> QED BY <1>7, <2>1
<1>12. CASE StartSync
  BY <1>0, <1>1, <1>12, RolesAre DEF StartSync, ProviderTypes
<1>13. CASE ShutdownSupervisor
  <2>1. UNCHANGED <<client, available>> /\ at[Host] = "shutdown" /\ (at' = at \/ Moves(Host, "release"))
    BY <1>13 DEF ShutdownSupervisor, state
  <2> QED BY <1>1, <1>7, <2>1
<1>14. CASE BackgroundStart \/ BackgroundStarted
  <2>1. Running(InitThread) /\ \E place : Moves(InitThread, place)
    BY <1>14 DEF BackgroundStart, BackgroundStarted, Running
  <2> QED BY <1>5, <1>6, <2>1, RolesAre
<1>15. CASE WatchdogLoop
  <2>1. Running(Watchdog) /\ \E place : Moves(Watchdog, place)
    BY <1>15 DEF WatchdogLoop, WatchdogTick, WatchdogProbes, WatchdogAttaches, TryRecover, Running
  <2> QED BY <1>5, <1>6, <2>1, RolesAre
<1>16. ASSUME NEW t \in Syncs, Captures(t) PROVE FALSE
  <2>1. Running(t) /\ \E place : Moves(t, place)
    BY <1>16 DEF Captures, Calls, TryRecover, Running
  <2> QED BY <1>5, <1>6, <2>1, RolesAre
<1>17. CASE Initialize
  BY <1>0, <1>1, <1>17, RolesAre DEF Initialize, ProviderTypes
<1> QED BY <1>3, <1>8, <1>9, <1>10, <1>11, <1>12, <1>13, <1>14, <1>15, <1>16, <1>17
        DEF Next, ThreadSteps, HostSteps
-----------------------------------------------------------------------------
LEMMA InitIsQuiet == Init => QuietInv
<1> SUFFICES ASSUME Init PROVE QuietInv
  OBVIOUS
<1>1. /\ at = [t \in Threads |-> "none"] /\ ensure = [t \in Threads |-> "idle"]
      /\ gateways = [g \in Ids |-> Exited] /\ stopping[Provider].at = "no"
      /\ Host \in Threads
  BY ProviderAssumption DEF Init, SupervisorInit, NotStopping
<1>2. Roles
  BY <1>1 DEF Roles, PlacesOf, Recovering
<1>3. ThreadsInv
  BY <1>1, <1>2, RolesAre
     DEF ThreadsInv, NotYet, ShutdownOrder, WatchdogJoined, SyncsJoined, StarterJoined, Running,
         GatewayGoes, Released
<1>4. EnsuresWhereCalled /\ HandleKnown /\ Detached
  BY <1>1 DEF EnsuresWhereCalled, HandleKnown, Detached, Exited
<1> QED BY <1>3, <1>4 DEF QuietInv

\* When shutdown has waited for every thread the Gateway is gone, or is one that a
\* health check gave up on, and the released provider stays detached
\* (__init__.py:937-990, supervisor.py:371-403).
THEOREM ReleaseIsQuiet == Spec => []ReleasedIsQuiet
<1> DEFINE Inv == TypeOK /\ LaunchInv /\ QuietInv
<1>1. Init => Inv
  BY InitHasType, LaunchInvInit, InitIsQuiet DEF Init
<1>2. Inv /\ [Next]_vars => Inv'
  <2> SUFFICES ASSUME Inv, [Next]_vars PROVE Inv'
    OBVIOUS
  <2>1. TypeOK'
    BY StepKeepsType
  <2>2. LaunchInv'
    BY ProviderSteps, SupervisorStepKeepsInv, StutterKeepsInv
       DEF vars, supervisorVars, launchVars
  <2>3. QuietInv'
    BY StepKeepsThreads, StepKeepsEnsures, StepKeepsHandles, StepKeepsDetached DEF QuietInv
  <2> QED BY <2>1, <2>2, <2>3
<1>3. Inv => ReleasedIsQuiet
  <2> SUFFICES ASSUME Inv, at[Host] = "released", abandoned = {}
               PROVE  ~client /\ ~available /\ LaunchedBy({Provider}) \cap Alive \subseteq missed
    BY DEF ReleasedIsQuiet
  <2>1. stopping[Provider].at = "done"
    BY DEF QuietInv, ThreadsInv, ShutdownOrder, Released
  <2>2. \A g \in Ids : gateways[g].by = Provider /\ gateways[g].state # "exited" => g \in missed
    BY <2>1 DEF QuietInv, HandleKnown
  <2> QED BY <2>2 DEF QuietInv, Detached, LaunchedBy, Alive, In
<1> QED BY <1>1, <1>2, <1>3, PTL DEF Spec
=============================================================================
