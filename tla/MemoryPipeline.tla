--------------------------- MODULE MemoryPipeline ---------------------------
(***************************************************************************)
(* MemoryPipelineManager, the in-process L0 -> L1 -> L2 -> L3 scheduler of *)
(* the plugin (src/src/utils/pipeline-manager.ts), with the SerialQueue    *)
(* and ManagedTimer objects it owns.                                       *)
(*                                                                         *)
(* The manager runs on one event loop: an action is the code between two   *)
(* awaits (or the whole body of a timer callback), and everything that can *)
(* happen during an await is another action.  Timers are "pending or not": *)
(* a pending timer may fire at any later moment.  Sessions that the filter *)
(* rejects leave no trace, so Sessions are the accepted ones; the runners  *)
(* are installed before start().                                           *)
(***************************************************************************)
EXTENDS Naturals, FiniteSets, Sequences, SequencesExt

CONSTANTS
  Sessions,        \* session keys the filter accepts
  NoSession,       \* "no task is running"
  EveryN,          \* config.everyNConversations
  EnableWarmup,    \* config.enableWarmup
  MaxRetries,      \* L1_MAX_RETRIES
  GcEvery,         \* SESSION_GC_EVERY_N_NOTIFICATIONS
  Batches,         \* numbers of messages one notifyConversation may carry
  Restored,        \* session states a checkpoint may hold at start()
  L1Results,       \* what the L1 runner may report of the backlog it left
  MaxRounds        \* bound: conversations notified per session

SessionState == [conversation_count : Nat, l2_pending_l1_count : Nat,
                 warmup_threshold : Nat]

ASSUME PipelineAssumption ==
  /\ IsFiniteSet(Sessions)
  /\ NoSession \notin Sessions
  /\ EveryN \in Nat \ {0}
  /\ EnableWarmup \in BOOLEAN
  /\ MaxRetries \in Nat
  /\ GcEvery \in Nat \ {0}
  /\ Batches \subseteq Nat
  /\ Restored \subseteq SessionState
  /\ "drained" \in L1Results
  /\ L1Results \subseteq {"drained", "hasMore", "hasFullBacklog"}
  /\ MaxRounds \in Nat

VARIABLES
  known,           \* keys of sessionStates
  sessionStates,   \* PipelineSessionState of each session
  sessionTimers,   \* SessionTimerState of each session
  messageBuffers,  \* messages waiting for L1, by capture number
  l2LastRunTime,   \* sessions with a completed, non-skipped L2
  activity,        \* how long ago last_active_time is
  notifying,       \* notifyConversation calls awaiting persistStates
  notifyCounter,
  l1Queue, l1Run,  \* the L1 SerialQueue and its running task
  l2Queue, l2Run,  \* the L2 SerialQueue and its running task
  l3Running, l3Pending,
  flushWaiters,    \* sessions whose flushSession awaits l1Queue.onIdle()
  flush,           \* progress of _doFlush
  flushWaits,      \* queues _doFlush awaits
  teardown,        \* progress of destroy()
  rounds,          \* history: conversations notified
  captured,        \* history: messages captured
  delivered,       \* history: messages a successful L1 has consumed
  l3Stale          \* history: an L2 completed after the last L3 started

pipelineVars == <<known, sessionStates, sessionTimers, messageBuffers,
                  l2LastRunTime, activity, notifying, notifyCounter>>
l1Vars == <<l1Queue, l1Run>>
l2Vars == <<l2Queue, l2Run>>
l3Vars == <<l3Running, l3Pending, l3Stale>>
lifeVars == <<flushWaiters, flush, flushWaits, teardown>>
historyVars == <<rounds, captured, delivered>>
vars == <<pipelineVars, l1Vars, l2Vars, l3Vars, lifeVars, historyVars>>

destroyed == teardown # "up"

-----------------------------------------------------------------------------
(* Records of the code *)

Schedules == {"none", "delay-after-l1", "max-interval"}

SessionTimerState == [l1Idle : BOOLEAN, l2Schedule : Schedules,
                      l1Queued : BOOLEAN, l2Queued : BOOLEAN,
                      l1RetryCount : 0..(MaxRetries + 1)]

NewTimers == [l1Idle |-> FALSE, l2Schedule |-> "none", l1Queued |-> FALSE,
              l2Queued |-> FALSE, l1RetryCount |-> 0]

NewState == [conversation_count |-> 0, l2_pending_l1_count |-> 0,
             warmup_threshold |-> IF EnableWarmup THEN 1 ELSE 0]

L1Phases  == {"idle", "runner", "persist"}
L2Phases  == {"idle", "runner", "persist", "persist-skipped"}

L1Idle == [session |-> NoSession, phase |-> "idle", batch |-> <<>>,
           result |-> "drained"]
L2Idle == [session |-> NoSession, phase |-> "idle"]

(* getEffectiveThreshold *)
EffectiveThreshold(state) ==
  IF EnableWarmup /\ state.warmup_threshold > 0
     /\ state.warmup_threshold < EveryN
  THEN state.warmup_threshold
  ELSE EveryN

(* advanceWarmupThreshold: double, and graduate to 0 at EveryN *)
AdvanceWarmup(w) ==
  IF ~EnableWarmup \/ w = 0 THEN w
  ELSE IF 2 * w >= EveryN THEN 0 ELSE 2 * w

-----------------------------------------------------------------------------
(* SerialQueue: one task at a time, in FIFO order.  A task's first stretch *)
(* runs inside the drain() that takes it off the queue; for L1 that        *)
(* stretch takes the session's buffer.                                     *)

DrainL1(q, buffers) ==
  IF q = <<>>
  THEN /\ l1Run' = L1Idle
       /\ l1Queue' = q
       /\ messageBuffers' = buffers
  ELSE /\ l1Run' = [session |-> Head(q), phase |-> "runner",
                    batch |-> buffers[Head(q)], result |-> "drained"]
       /\ l1Queue' = Tail(q)
       /\ messageBuffers' = [buffers EXCEPT ![Head(q)] = <<>>]

AddL1(p) ==
  IF l1Run.phase = "idle" THEN DrainL1(l1Queue \o p, messageBuffers)
  ELSE /\ l1Queue' = l1Queue \o p
       /\ UNCHANGED <<l1Run, messageBuffers>>

DrainL2(q) ==
  IF q = <<>> THEN l2Run' = L2Idle /\ l2Queue' = q
  ELSE /\ l2Run' = [session |-> Head(q), phase |-> "runner"]
       /\ l2Queue' = Tail(q)

AddL2(p) ==
  IF l2Run.phase = "idle" THEN DrainL2(l2Queue \o p)
  ELSE l2Queue' = l2Queue \o p /\ UNCHANGED l2Run

(* mutants: a queue that empties wakes nobody *)
L1WakesNobody == UNCHANGED <<flushWaiters, flushWaits>>
L2WakesNobody == UNCHANGED flushWaits

(* the idle resolvers run when a queue finds itself empty *)
WakeL1Waiters ==
  IF l1Queue = <<>>
  THEN flushWaiters' = {} /\ flushWaits' = flushWaits \ {"l1"}
  ELSE UNCHANGED <<flushWaiters, flushWaits>>

WakeL2Waiters ==
  flushWaits' = IF l2Queue = <<>> THEN flushWaits \ {"l2"} ELSE flushWaits

(* the order in which a loop over sessionTimers meets the sessions of S *)
Orders(S) == {p \in SetToSeqs(S) : Range(p) = S}

-----------------------------------------------------------------------------
(* enqueueL1, advanceL2Timer, armL2MaxInterval as updates of the timers *)

(* mutant: the double-queue check of enqueueL1 dropped *)
EnqueueL1Unchecked(s, timers) ==
  /\ sessionTimers' = [timers EXCEPT ![s].l1Idle = FALSE, ![s].l1Queued = TRUE]
  /\ AddL1(<<s>>)

(* enqueueL1 for one session: nothing if an L1 task is queued or running *)
EnqueueL1(s, timers) ==
  IF timers[s].l1Queued
  THEN /\ sessionTimers' = timers
       /\ UNCHANGED <<l1Queue, l1Run, messageBuffers>>
  ELSE /\ sessionTimers' = [timers EXCEPT ![s].l1Idle = FALSE,
                                          ![s].l1Queued = TRUE]
       /\ AddL1(<<s>>)

EnqueueL2(s, timers) ==
  IF timers[s].l2Queued
  THEN /\ sessionTimers' = [timers EXCEPT ![s].l2Schedule = "none"]
       /\ UNCHANGED <<l2Queue, l2Run>>
  ELSE /\ sessionTimers' = [timers EXCEPT ![s].l2Schedule = "none",
                                          ![s].l2Queued = TRUE]
       /\ AddL2(<<s>>)

(* tryAdvanceTo keeps a pending timer that is due no later; which of the   *)
(* two is due first is left open here.                                     *)
AdvanceL2Timer(schedule) ==
  IF destroyed THEN {schedule}
  ELSE IF schedule = "max-interval" THEN {"max-interval", "delay-after-l1"}
  ELSE {"delay-after-l1"}

(* mutant: a failed or finished L2 arms nothing *)
ArmNothing(schedule) == schedule

ArmL2MaxInterval(schedule) ==
  IF destroyed THEN schedule ELSE "max-interval"

-----------------------------------------------------------------------------
(* start(restoredStates) and recoverPendingSessions *)

MaxOf(a, b) == IF a >= b THEN a ELSE b

Recovered(saved) ==
  [saved EXCEPT !.conversation_count = 0,
                !.l2_pending_l1_count =
                   MaxOf(saved.l2_pending_l1_count, saved.conversation_count)]

HasPending(saved) ==
  saved.conversation_count # 0 \/ saved.l2_pending_l1_count # 0

Init ==
  /\ \E K \in SUBSET Sessions : \E saved \in [K -> Restored] :
       /\ known = K
       /\ sessionStates = [s \in Sessions |->
                             IF s \in K THEN Recovered(saved[s]) ELSE NewState]
       /\ sessionTimers = [s \in Sessions |->
                             IF s \in K /\ HasPending(saved[s])
                             THEN [NewTimers EXCEPT !.l2Schedule = "delay-after-l1"]
                             ELSE NewTimers]
       /\ activity \in {a \in [Sessions -> {"active", "cold", "stale"}] :
                          \A s \in Sessions \ K : a[s] = "active"}
  /\ messageBuffers = [s \in Sessions |-> <<>>]
  /\ l2LastRunTime = {}
  /\ notifying = [s \in Sessions |-> <<>>]
  /\ notifyCounter = 0
  /\ l1Queue = <<>> /\ l1Run = L1Idle
  /\ l2Queue = <<>> /\ l2Run = L2Idle
  /\ l3Running = FALSE /\ l3Pending = FALSE /\ l3Stale = FALSE
  /\ flushWaiters = {} /\ flush = "none" /\ flushWaits = {}
  /\ teardown = "up"
  /\ rounds = [s \in Sessions |-> 0]
  /\ captured = [s \in Sessions |-> 0]
  /\ delivered = [s \in Sessions |-> 0]

-----------------------------------------------------------------------------
(* L0 -> L1 *)

(* notifyConversation up to "await this.persistStates()".  The threshold   *)
(* compared after the await is the one computed before it.                 *)
Notify(s, m) ==
  /\ ~destroyed
  /\ rounds[s] < MaxRounds
  /\ known' = known \cup {s}
  /\ sessionStates' = [sessionStates EXCEPT ![s].conversation_count = @ + 1]
  /\ activity' = [activity EXCEPT ![s] = "active"]
  /\ sessionTimers' = [sessionTimers EXCEPT ![s].l1RetryCount = 0]
  /\ messageBuffers' = [messageBuffers EXCEPT
                          ![s] = @ \o [i \in 1..m |-> captured[s] + i]]
  /\ notifying' = [notifying EXCEPT
                     ![s] = Append(@, EffectiveThreshold(sessionStates[s]))]
  /\ rounds' = [rounds EXCEPT ![s] = @ + 1]
  /\ captured' = [captured EXCEPT ![s] = @ + m]
  /\ UNCHANGED <<l2LastRunTime, notifyCounter, delivered,
                 l1Vars, l2Vars, l3Vars, lifeVars>>

(* mutant: eviction without the active-work check *)
EvictableWithWork(s) ==
  /\ s \in known
  /\ activity[s] = "stale"
  /\ messageBuffers[s] = <<>>

(* gcStaleSessions may evict s, given the timers and buffers of the moment *)
Evictable(s) ==
  /\ s \in known
  /\ activity[s] = "stale"
  /\ ~sessionTimers[s].l1Queued
  /\ ~sessionTimers[s].l2Queued
  /\ messageBuffers[s] = <<>>

(* mutant: the counter of notifications is never reset *)
NotifyCountGrows(n) == n + 1

NextNotifyCount(n) == (n + 1) % GcEvery

(* the rest of notifyConversation, below the threshold: the idle timer is  *)
(* reset, and every GcEvery-th such call collects stale sessions.          *)
NotifyBelowThreshold(s) ==
  /\ notifying[s] # <<>>
  /\ sessionStates[s].conversation_count < Head(notifying[s])
  /\ notifying' = [notifying EXCEPT ![s] = Tail(@)]
  /\ notifyCounter' = NextNotifyCount(notifyCounter)
  /\ LET evicted == IF notifyCounter' = 0
                    THEN {t \in Sessions : Evictable(t)} ELSE {}
     IN /\ known' = known \ evicted
        /\ sessionStates' = [t \in Sessions |->
                               IF t \in evicted THEN NewState ELSE sessionStates[t]]
        /\ sessionTimers' = [t \in Sessions |->
                               IF t \in evicted THEN NewTimers
                               ELSE IF t = s
                               THEN [sessionTimers[t] EXCEPT !.l1Idle = TRUE]
                               ELSE sessionTimers[t]]
        /\ messageBuffers' = [t \in Sessions |->
                                IF t \in evicted THEN <<>> ELSE messageBuffers[t]]
        /\ l2LastRunTime' = l2LastRunTime \ evicted
        /\ activity' = [t \in Sessions |->
                          IF t \in evicted THEN "active" ELSE activity[t]]
  /\ UNCHANGED <<l1Vars, l2Vars, l3Vars, lifeVars, historyVars>>

(* the rest of notifyConversation at or above the threshold *)
NotifyAtThreshold(s) ==
  /\ notifying[s] # <<>>
  /\ sessionStates[s].conversation_count >= Head(notifying[s])
  /\ notifying' = [notifying EXCEPT ![s] = Tail(@)]
  /\ EnqueueL1(s, sessionTimers)
  /\ UNCHANGED <<known, sessionStates, l2LastRunTime, activity, notifyCounter,
                 l2Vars, l3Vars, lifeVars, historyVars>>

(* onL1IdleTimeout, through ManagedTimer.fire: swallowed once destroyed *)
L1IdleFires(s) ==
  /\ sessionTimers[s].l1Idle
  /\ LET fired == [sessionTimers EXCEPT ![s].l1Idle = FALSE]
     IN IF destroyed
        THEN sessionTimers' = fired /\ UNCHANGED <<l1Vars, messageBuffers>>
        ELSE EnqueueL1(s, fired)
  /\ UNCHANGED <<known, sessionStates, l2LastRunTime, activity, notifying,
                 notifyCounter, l2Vars, l3Vars, lifeVars, historyVars>>

-----------------------------------------------------------------------------
(* L1 *)

(* runL1: the runner resolved; the state advances, then persistStates *)
L1RunnerReturns(result) ==
  LET s == l1Run.session IN
  /\ l1Run.phase = "runner"
  /\ sessionTimers' = [sessionTimers EXCEPT ![s].l1RetryCount = 0]
  /\ sessionStates' =
       [sessionStates EXCEPT ![s].l2_pending_l1_count = sessionStates[s].conversation_count,
                             ![s].conversation_count = 0,
                             ![s].warmup_threshold = AdvanceWarmup(@)]
  /\ delivered' = [delivered EXCEPT ![s] = @ + Len(l1Run.batch)]
  /\ l1Run' = [l1Run EXCEPT !.phase = "persist", !.batch = <<>>, !.result = result]
  /\ UNCHANGED <<known, messageBuffers, l2LastRunTime, activity, notifying,
                 notifyCounter, l1Queue, l2Vars, l3Vars, lifeVars, rounds, captured>>

(* mutant: a failed batch is put back behind the newer messages *)
RestoreBatchBehind(batch, buffer) == buffer \o batch

RestoreBatch(batch, buffer) == batch \o buffer

(* runL1: the runner threw; the batch goes back in front of the buffer and *)
(* the idle timer retries a bounded number of times.                       *)
L1RunnerThrows ==
  LET s == l1Run.session
      retries == IF sessionTimers[s].l1RetryCount > MaxRetries
                 THEN MaxRetries + 1 ELSE sessionTimers[s].l1RetryCount + 1
  IN
  /\ l1Run.phase = "runner"
  /\ sessionTimers' = [sessionTimers EXCEPT
                         ![s].l1RetryCount = retries,
                         ![s].l1Idle = @ \/ retries <= MaxRetries,
                         ![s].l1Queued = FALSE]
  /\ DrainL1(l1Queue, [messageBuffers EXCEPT ![s] = RestoreBatch(l1Run.batch, @)])
  /\ WakeL1Waiters
  /\ UNCHANGED <<known, sessionStates, l2LastRunTime, activity, notifying,
                 notifyCounter, l2Vars, l3Vars, flush, teardown, historyVars>>

(* runL1 after its persistStates: the L2 timer is advanced.  With a full   *)
(* backlog enqueueL1 is called while this task still counts as queued, so  *)
(* it returns at once; with a small tail the idle timer is armed.  Then    *)
(* l1Queued is cleared and the queue takes its next task.                  *)
L1Persisted ==
  LET s == l1Run.session IN
  /\ l1Run.phase = "persist"
  /\ \E schedule \in AdvanceL2Timer(sessionTimers[s].l2Schedule) :
       sessionTimers' = [sessionTimers EXCEPT
                           ![s].l2Schedule = schedule,
                           ![s].l1Idle = @ \/ l1Run.result = "hasMore",
                           ![s].l1Queued = FALSE]
  /\ DrainL1(l1Queue, messageBuffers)
  /\ WakeL1Waiters
  /\ UNCHANGED <<known, sessionStates, l2LastRunTime, activity, notifying,
                 notifyCounter, l2Vars, l3Vars, flush, teardown, historyVars>>

-----------------------------------------------------------------------------
(* L2 *)

(* mutant: the cold check applied to delay-after-L1 timers as well *)
StopsWhenCold(s) == sessionTimers[s].l2Schedule # "none" /\ activity[s] # "active"

(* onL2TimerFired: a periodic timer of a session that is no longer active  *)
(* stops; any other enqueues L2.  A timer armed during a persist does not  *)
(* fire before the persist has ended: the delays are seconds, the persist  *)
(* is one small file.                                                      *)
Stops(s) ==
  sessionTimers[s].l2Schedule = "max-interval" /\ activity[s] # "active"

L2TimerFires(s) ==
  /\ sessionTimers[s].l2Schedule # "none"
  /\ ~(l2Run.session = s /\ l2Run.phase = "persist-skipped")
  /\ IF destroyed \/ Stops(s)
     THEN /\ sessionTimers' = [sessionTimers EXCEPT ![s].l2Schedule = "none"]
          /\ UNCHANGED l2Vars
     ELSE EnqueueL2(s, sessionTimers)
  /\ UNCHANGED <<known, sessionStates, messageBuffers, l2LastRunTime, activity,
                 notifying, notifyCounter, l1Vars, l3Vars, lifeVars, historyVars>>

(* runL2: the runner threw; only the periodic timer is armed *)
L2RunnerThrows ==
  LET s == l2Run.session IN
  /\ l2Run.phase = "runner"
  /\ sessionTimers' = [sessionTimers EXCEPT ![s].l2Schedule = ArmL2MaxInterval(@),
                                            ![s].l2Queued = FALSE]
  /\ DrainL2(l2Queue)
  /\ WakeL2Waiters
  /\ UNCHANGED <<known, sessionStates, messageBuffers, l2LastRunTime, activity,
                 notifying, notifyCounter, l1Vars, l3Vars, flushWaiters, flush,
                 teardown, historyVars>>

(* runL2: the runner resolved with records, or again with none *)
L2RunnerReturns ==
  LET s == l2Run.session IN
  /\ l2Run.phase = "runner"
  /\ sessionStates' = [sessionStates EXCEPT ![s].l2_pending_l1_count = 0]
  /\ l2LastRunTime' = l2LastRunTime \cup {s}
  /\ l2Run' = [l2Run EXCEPT !.phase = "persist"]
  /\ UNCHANGED <<known, sessionTimers, messageBuffers, activity, notifying,
                 notifyCounter, l1Vars, l2Queue, l3Vars, lifeVars, historyVars>>

(* runL2: the session's first L2 found nothing; the run leaves no trace in *)
(* l2LastRunTime and will not trigger L3.                                  *)
L2RunnerSkips ==
  LET s == l2Run.session IN
  /\ l2Run.phase = "runner"
  /\ s \notin l2LastRunTime
  /\ sessionStates' = [sessionStates EXCEPT ![s].l2_pending_l1_count = 0]
  /\ sessionTimers' = [sessionTimers EXCEPT ![s].l2Schedule = ArmL2MaxInterval(@)]
  /\ l2Run' = [l2Run EXCEPT !.phase = "persist-skipped"]
  /\ UNCHANGED <<known, messageBuffers, l2LastRunTime, activity, notifying,
                 notifyCounter, l1Vars, l2Queue, l3Vars, lifeVars, historyVars>>

L2SkipPersisted ==
  /\ l2Run.phase = "persist-skipped"
  /\ sessionTimers' = [sessionTimers EXCEPT ![l2Run.session].l2Queued = FALSE]
  /\ DrainL2(l2Queue)
  /\ WakeL2Waiters
  /\ UNCHANGED <<known, sessionStates, messageBuffers, l2LastRunTime, activity,
                 notifying, notifyCounter, l1Vars, l3Vars, flushWaiters, flush,
                 teardown, historyVars>>

(* mutant: a trigger during an L3 run is taken as served by that run *)
TriggerL3Forgets ==
  IF destroyed \/ l3Running
  THEN UNCHANGED <<l3Running, l3Pending>> /\ l3Stale' = TRUE
  ELSE l3Running' = TRUE /\ l3Pending' = FALSE /\ l3Stale' = FALSE

(* triggerL3: start it, or leave a mark for the run in progress *)
TriggerL3 ==
  IF destroyed THEN UNCHANGED <<l3Running, l3Pending>> /\ l3Stale' = TRUE
  ELSE IF l3Running THEN l3Pending' = TRUE /\ l3Stale' = TRUE /\ UNCHANGED l3Running
  ELSE l3Running' = TRUE /\ l3Pending' = FALSE /\ l3Stale' = FALSE

(* runL2 after its persistStates *)
L2Persisted ==
  LET s == l2Run.session IN
  /\ l2Run.phase = "persist"
  /\ sessionTimers' = [sessionTimers EXCEPT ![s].l2Schedule = ArmL2MaxInterval(@),
                                            ![s].l2Queued = FALSE]
  /\ TriggerL3
  /\ DrainL2(l2Queue)
  /\ WakeL2Waiters
  /\ UNCHANGED <<known, sessionStates, messageBuffers, l2LastRunTime, activity,
                 notifying, notifyCounter, l1Vars, flushWaiters, flush,
                 teardown, historyVars>>

-----------------------------------------------------------------------------
(* L3: runL3 returns (it swallows a runner's error) and, if an L2 finished *)
(* meanwhile, it is enqueued again.                                        *)
L3Returns ==
  /\ l3Running
  /\ l3Running' = (l3Pending /\ ~destroyed)
  /\ l3Pending' = (l3Pending /\ destroyed)
  /\ l3Stale' = (l3Stale /\ ~l3Running')
  /\ flushWaits' = IF l3Running' THEN flushWaits ELSE flushWaits \ {"l3"}
  /\ UNCHANGED <<pipelineVars, l1Vars, l2Vars, flushWaiters, flush, teardown,
                 historyVars>>

-----------------------------------------------------------------------------
(* flushSession, destroy and _doFlush *)

HasBuffered(s) == Len(messageBuffers[s]) > 0

(* flushSession up to "await this.l1Queue.onIdle()" *)
FlushSession(s) ==
  /\ ~destroyed
  /\ LET cancelled == [sessionTimers EXCEPT ![s].l1Idle = FALSE]
     IN IF HasBuffered(s) THEN EnqueueL1(s, cancelled)
        ELSE sessionTimers' = cancelled /\ UNCHANGED <<l1Vars, messageBuffers>>
  /\ flushWaiters' = IF l1Run'.phase = "idle" THEN flushWaiters
                     ELSE flushWaiters \cup {s}
  /\ UNCHANGED <<known, sessionStates, l2LastRunTime, activity, notifying,
                 notifyCounter, l2Vars, l3Vars, flush, flushWaits, teardown,
                 historyVars>>

(* destroy: the pending idle timers are cancelled, and those of sessions   *)
(* with buffered messages become L1 tasks.                                 *)
Destroy ==
  /\ ~destroyed
  /\ teardown' = "flushing"
  /\ flush' = "l1"
  /\ LET queued == {s \in Sessions : /\ sessionTimers[s].l1Idle
                                     /\ HasBuffered(s)
                                     /\ ~sessionTimers[s].l1Queued}
     IN /\ sessionTimers' = [s \in Sessions |->
              [sessionTimers[s] EXCEPT !.l1Idle = FALSE,
                                       !.l1Queued = @ \/ s \in queued]]
        /\ \E p \in Orders(queued) : AddL1(p)
  /\ flushWaits' = IF l1Run'.phase = "idle" THEN {} ELSE {"l1"}
  /\ UNCHANGED <<known, sessionStates, l2LastRunTime, activity, notifying,
                 notifyCounter, l2Vars, l3Vars, flushWaiters, historyVars>>

(* _doFlush once L1 has drained: the pending L2 timers are flushed *)
FlushL2Timers ==
  /\ flush = "l1"
  /\ flushWaits = {}
  /\ flush' = "l2l3"
  /\ LET queued == {s \in Sessions : /\ sessionTimers[s].l2Schedule # "none"
                                     /\ ~Stops(s)
                                     /\ ~sessionTimers[s].l2Queued}
     IN /\ sessionTimers' = [s \in Sessions |->
              [sessionTimers[s] EXCEPT !.l2Schedule = "none",
                                       !.l2Queued = @ \/ s \in queued]]
        /\ \E p \in Orders(queued) : AddL2(p)
  /\ flushWaits' = (IF l2Run'.phase = "idle" THEN {} ELSE {"l2"})
                   \cup (IF l3Running THEN {"l3"} ELSE {})
  /\ UNCHANGED <<known, sessionStates, messageBuffers, l2LastRunTime, activity,
                 notifying, notifyCounter, l1Vars, l3Vars, flushWaiters,
                 teardown, historyVars>>

(* _doFlush resolves; nobody listens any more if destroy() timed out *)
FlushReturns ==
  /\ flush = "l2l3"
  /\ flushWaits = {}
  /\ flush' = "done"
  /\ teardown' = "down"
  /\ UNCHANGED <<pipelineVars, l1Vars, l2Vars, l3Vars, flushWaiters, flushWaits,
                 historyVars>>

(* DESTROY_TIMEOUT_MS elapsed first; the flush goes on in the background *)
DestroyTimesOut ==
  /\ teardown = "flushing"
  /\ teardown' = "down"
  /\ UNCHANGED <<pipelineVars, l1Vars, l2Vars, l3Vars, flushWaiters, flush,
                 flushWaits, historyVars>>

-----------------------------------------------------------------------------
(* Time passes without a notification.  A persist takes less than the      *)
(* active window, and no timer is set further ahead than three windows.    *)
GrowsCold(s) ==
  /\ s \in known
  /\ notifying[s] = <<>>
  /\ \/ /\ activity[s] = "active"
        /\ activity' = [activity EXCEPT ![s] = "cold"]
     \/ /\ activity[s] = "cold"
        /\ ~sessionTimers[s].l1Idle
        /\ sessionTimers[s].l2Schedule = "none"
        /\ activity' = [activity EXCEPT ![s] = "stale"]
  /\ UNCHANGED <<known, sessionStates, sessionTimers, messageBuffers,
                 l2LastRunTime, notifying, notifyCounter,
                 l1Vars, l2Vars, l3Vars, lifeVars, historyVars>>

Next ==
  \/ \E s \in Sessions :
       \/ \E m \in Batches : Notify(s, m)
       \/ NotifyBelowThreshold(s)
       \/ NotifyAtThreshold(s)
       \/ L1IdleFires(s)
       \/ L2TimerFires(s)
       \/ FlushSession(s)
       \/ GrowsCold(s)
  \/ \E result \in L1Results : L1RunnerReturns(result)
  \/ L1RunnerThrows
  \/ L1Persisted
  \/ L2RunnerReturns
  \/ L2RunnerSkips
  \/ L2RunnerThrows
  \/ L2SkipPersisted
  \/ L2Persisted
  \/ L3Returns
  \/ Destroy
  \/ FlushL2Timers
  \/ FlushReturns
  \/ DestroyTimesOut

Spec == Init /\ [][Next]_vars

(* A pending timer fires, an await completes, a runner settles: the event  *)
(* loop runs every ready callback.  Users and operators owe nothing.       *)
Fairness ==
  /\ \A s \in Sessions : /\ WF_vars(NotifyBelowThreshold(s) \/ NotifyAtThreshold(s))
                         /\ WF_vars(L1IdleFires(s))
                         /\ WF_vars(L2TimerFires(s))
  /\ WF_vars(L1RunnerThrows \/ \E result \in L1Results : L1RunnerReturns(result))
  /\ WF_vars(L1Persisted)
  /\ WF_vars(L2RunnerReturns \/ L2RunnerSkips \/ L2RunnerThrows)
  /\ WF_vars(L2SkipPersisted)
  /\ WF_vars(L2Persisted)
  /\ WF_vars(L3Returns)
  /\ WF_vars(FlushL2Timers)
  /\ WF_vars(FlushReturns \/ DestroyTimesOut)

FairSpec == Spec /\ Fairness

-----------------------------------------------------------------------------
(* The shape of the state: every timer, queue and running task is made of  *)
(* known session keys, and L1 retries are counted to one past the limit.   *)
TypeOK ==
  /\ known \in SUBSET Sessions
  /\ sessionStates \in [Sessions -> SessionState]
  /\ sessionTimers \in [Sessions -> SessionTimerState]
  /\ messageBuffers \in [Sessions -> Seq(Nat)]
  /\ l2LastRunTime \in SUBSET Sessions
  /\ activity \in [Sessions -> {"active", "cold", "stale"}]
  /\ notifying \in [Sessions -> Seq(Nat)]
  /\ notifyCounter \in 0..(GcEvery - 1)
  /\ l1Queue \in Seq(Sessions)
  /\ l1Run \in [session : Sessions \cup {NoSession}, phase : L1Phases,
                batch : Seq(Nat), result : L1Results]
  /\ l2Queue \in Seq(Sessions)
  /\ l2Run \in [session : Sessions \cup {NoSession}, phase : L2Phases]
  /\ l3Running \in BOOLEAN /\ l3Pending \in BOOLEAN /\ l3Stale \in BOOLEAN
  /\ flushWaiters \in SUBSET Sessions
  /\ flush \in {"none", "l1", "l2l3", "done"}
  /\ flushWaits \in SUBSET {"l1", "l2", "l3"}
  /\ teardown \in {"up", "flushing", "down"}
  /\ rounds \in [Sessions -> Nat]
  /\ captured \in [Sessions -> Nat]
  /\ delivered \in [Sessions -> Nat]

Queued(q, s) == \E i \in 1..Len(q) : q[i] = s

(* A queue and its flags agree: no session is twice in it, the running one *)
(* is not in it, and the flag is set for exactly those in it or running.   *)
FlagsMatch(q, running, flagged) ==
  /\ \A i, j \in 1..Len(q) : q[i] = q[j] => i = j
  /\ ~Queued(q, running)
  /\ flagged = {s \in Sessions : Queued(q, s) \/ running = s}

(* l1Queued and l2Queued say exactly "one such task of this session is     *)
(* queued or running", through every trigger, retry, conflict, flush and   *)
(* shutdown: never two L1 or two L2 runs of a session, and never a flag    *)
(* left behind that would block it.                                        *)
L1FlagExact ==
  FlagsMatch(l1Queue, l1Run.session, {s \in Sessions : sessionTimers[s].l1Queued})
L2FlagExact ==
  FlagsMatch(l2Queue, l2Run.session, {s \in Sessions : sessionTimers[s].l2Queued})
FlagsExact == L1FlagExact /\ L2FlagExact

InFlight(s) ==
  IF l1Run.session = s /\ l1Run.phase = "runner" THEN l1Run.batch ELSE <<>>

(* No buffered message is lost, duplicated or reordered: what L1 has not   *)
(* consumed is exactly the running batch followed by the buffer, in the    *)
(* order of capture, whatever fails, retries or is collected as garbage.   *)
MessagesInOrder ==
  \A s \in Sessions :
    InFlight(s) \o messageBuffers[s] =
      [i \in 1..(captured[s] - delivered[s]) |-> delivered[s] + i]

(* gcStaleSessions never takes the state away under a queued or running    *)
(* task or an unfinished notification: runL1 and runL2 would return at     *)
(* "if (!state)" and drop the work.                                        *)
WorkHasState ==
  \A s \in Sessions :
    \/ sessionTimers[s].l1Queued \/ sessionTimers[s].l2Queued
    \/ messageBuffers[s] # <<>> \/ notifying[s] # <<>>
    => s \in known

(* New memories that L2 has not seen always have an L2 run coming: a timer,*)
(* a queued or running L2, or an L1 about to arm one.  Only a session gone *)
(* cold may be left without, until its next conversation.                  *)
PendingL2HasTrigger ==
  \A s \in Sessions :
    ~destroyed /\ sessionStates[s].l2_pending_l1_count > 0 =>
      \/ sessionTimers[s].l2Schedule # "none"
      \/ sessionTimers[s].l2Queued
      \/ l1Run.session = s /\ l1Run.phase = "persist"
      \/ activity[s] # "active"
      \/ sessionStates[s].conversation_count > 0

(* Nobody waits on an idle queue: flushSession, and each stage of          *)
(* _doFlush, sleep only while a task that will wake them is running.       *)
NoLostWakeup ==
  /\ flushWaiters # {} \/ "l1" \in flushWaits => l1Run.phase # "idle"
  /\ "l2" \in flushWaits => l2Run.phase # "idle"
  /\ "l3" \in flushWaits => l3Running

UnderWay(s) == l2Run.session = s
Pending(s) == sessionTimers[s].l2Schedule # "none"

(* A delay-after-L1 timer that is pending while no L2 of its session is    *)
(* under way brings a run that begins later, whatever conflicts, failures  *)
(* and cold checks come before.  The end of a run under way replaces the   *)
(* timer by a periodic one (armL2MaxInterval), so for it less holds: the   *)
(* run does not end without a timer, and a timer brings a later run unless *)
(* the session goes cold.  A shutdown ends both.                           *)
DelayedL2Runs ==
  \A s \in Sessions :
    /\ sessionTimers[s].l2Schedule = "delay-after-l1" /\ ~UnderWay(s)
         ~> UnderWay(s) \/ destroyed
    /\ Pending(s) /\ UnderWay(s) ~> (Pending(s) /\ ~UnderWay(s)) \/ destroyed
    /\ Pending(s) /\ ~UnderWay(s) ~> UnderWay(s) \/ activity[s] # "active" \/ destroyed

(* Buffered messages with a trigger pending reach the L1 runner.           *)
TriggeredL1Runs ==
  \A s \in Sessions :
    sessionTimers[s].l1Idle /\ messageBuffers[s] # <<>>
      ~> l1Run.session = s \/ destroyed

(* No trigger is lost on its way to its runner, whichever of the two.      *)
TriggersFire == DelayedL2Runs /\ TriggeredL1Runs

(* destroy() always returns and its background flush always ends: the      *)
(* stages of _doFlush do not wait on each other.                           *)
DestroyReturns ==
  /\ teardown = "flushing" ~> teardown = "down"
  /\ flush = "l1" ~> flush = "done"

(* L3 eventually starts after the last L2, unless the plugin shuts down.   *)
PersonaCatchesUp == l3Stale ~> ~l3Stale \/ destroyed

=============================================================================
