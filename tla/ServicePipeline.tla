--------------------------- MODULE ServicePipeline ---------------------------
(***************************************************************************)
(* The gateway's pipeline of one instance: conversations are counted in a  *)
(* state backend (StatefulPipelineManager over IStateBackend), thresholds  *)
(* and timers turn the counts into tasks, and the coroutines of            *)
(* PipelineWorker run the tasks under TTL locks and cascade L1 -> L2 -> L3. *)
(*                                                                         *)
(* `deployment' is "local": a standalone gateway over LocalStateBackend,   *)
(* all coroutines in one worker, serving the manager's default instance;   *)
(* "shared": replicas over a remote backend, every coroutine a worker of   *)
(* its own, unacknowledged tasks can be claimed again, and the default     *)
(* instance is "__unset__"; or "pinned": the same with a configured one.   *)
(***************************************************************************)
EXTENDS Integers, Sequences, FiniteSets, SequencesExt

CONSTANTS
  Sessions,      \* session keys of the instance
  Coroutines,    \* consumeLoop()s
  Clients,       \* requests that may be in flight at once
  EveryN,        \* everyNConversations
  EnableWarmup,  \* enableWarmup
  BatchN,        \* rows one L1 run processes; it queries twice as many
  MaxRetries,    \* maxRetries
  MessageIds,    \* ids of consumed messages, used again when nobody knows them any more
  Backlog,       \* bound: rows stored before, by requests whose notification failed
  MaxAdds,       \* bound: requests that add a conversation
  Scenarios      \* a deployment, and bounds: how many rows are there before, conversations
                 \* added, sessions ended, tasks failed, and other incidents (crashes,
                 \* expired locks, claims from living holders, refusals) met

Free == "free"
Dead == "dead"                    \* a lock whose worker is gone, until its TTL ends
Worker == "worker"

ASSUME ServiceAssumption ==
  /\ EveryN \in Nat \ {0} /\ BatchN \in Nat \ {0} /\ EnableWarmup \in BOOLEAN
  /\ MaxRetries \in Nat /\ Backlog \in Nat /\ MaxAdds \in Nat
  /\ Scenarios \subseteq {"local", "shared", "pinned"} \X
       [before : 0..Backlog, adds : 0..MaxAdds, flushes : Nat, failures : Nat, incidents : Nat]
  /\ {Free, Dead, Worker} \cap Coroutines = {}   \* owner ids are fresh UUIDs
  /\ IsFiniteSet(Clients) /\ MessageIds \subseteq Nat \ {0}

MaxRows == Backlog + MaxAdds
Instance == "instance"            \* L3 locks the instance, the others a session

Timers == Sessions \X {"L1_idle", "L2_schedule"}
Tasks == [type : {"L1", "L2", "L3", "flush"}, session : Sessions,
          retry : 0..MaxRetries, byTimer : BOOLEAN]

VARIABLES
  deployment, \* "local", "shared" or "pinned"; never changes
  rows,       \* rows[s]: L0 rows in the store
  cursor,     \* cursor[s]: rows behind the L1 cursor of the checkpoint
  extracted,  \* extracted[s][i]: how often row i was handed to the model for memories
  unread,     \* unread[s]: 1 when memories are stored that the L2 cursor has not passed
  scenes,     \* L2 runs that wrote scenes
  persona,    \* the scenes the last L3 run looked at (whether it then writes is Persona's)
  st,         \* st[s]: the session's state in the backend (its counter of pending
              \* L1 runs is written and never read, and left out)
  timers,     \* timers that are set
  queue,      \* the task queue, by priority and age
  pending,    \* pending[m]: the task consumed under message id m and not yet
              \* acknowledged; only a remote backend keeps it
  locks,      \* locks[k]: the owner id stored under lock key k
  req,        \* req[r]: a request inside notifyConversation
  co,         \* co[c]: what coroutine c is doing
  budget,     \* additions, session ends, failures and incidents still allowed
  expired,    \* some lock expired under its holder
  wasted,     \* L1 runs lost after they had stored memories
  excused     \* sessions whose trigger the worker has given up since their L2 timer
              \* was last armed

service == <<deployment, rows, cursor, extracted, unread, scenes, persona, st, timers,
             queue, pending, locks, req, co, budget, expired, wasted, excused>>
data == <<rows, cursor, extracted, unread, scenes, persona>>
history == <<budget, expired, wasted, excused>>

Shared == deployment # "local"
ServesDefault == deployment # "shared"
NoTask == [type |-> "none"]
NoMessage == 0
Job(phase, t, m) == [phase |-> phase, task |-> t, msg |-> m, lost |-> FALSE,
                     from |-> 0, seen |-> 0, skipped |-> FALSE]
Idle == Job("idle", NoTask, NoMessage)
Smaller(a, b) == IF a < b THEN a ELSE b
Task(type, s, byTimer) == [type |-> type, session |-> s, retry |-> 0, byTimer |-> byTimer]

Priority(t) ==
  CASE t.type = "L3" -> 2
    [] t.type = "L2" /\ Shared -> 1       \* as the scanner queues it
    [] OTHER -> 0
\* Before the first task of a lower priority.
Enqueued(q, t) ==
  LET later == {i \in 1..Len(q) : Priority(q[i]) > Priority(t)}
  IN  InsertAt(q, IF later = {} THEN Len(q) + 1 ELSE Min(later), t)

LockKey(t) == IF t.type = "L3" THEN Instance ELSE t.session
Owner(c) == IF Shared THEN c ELSE Worker
Released(c) ==
  LET k == LockKey(co[c].task)
  IN  IF locks[k] = Owner(c) THEN [locks EXCEPT ![k] = Free] ELSE locks

Init ==
  /\ \E sc \in Scenarios : deployment = sc[1] /\ budget = sc[2]
  /\ rows = [s \in Sessions |-> budget.before]
  /\ cursor = [s \in Sessions |-> 0] /\ unread = cursor
  /\ extracted = [s \in Sessions |-> [i \in 1..MaxRows |-> 0]]
  /\ scenes = 0 /\ persona = 0
  /\ st = [s \in Sessions |-> [exists |-> FALSE, count |-> 0, warm |-> 0]]
  /\ timers = {} /\ queue = <<>> /\ pending = [m \in MessageIds |-> NoTask]
  /\ locks = [k \in Sessions \cup {Instance} |-> Free]
  /\ req = [r \in Clients |-> [phase |-> "idle"]]
  /\ co = [c \in Coroutines |-> Idle]
  /\ expired = FALSE /\ wasted = 0 /\ excused = {}

----------------------------------------------------------------------------
(* Requests: handleConversationAdd stores the row, then notifyConversation *)
(* reads the state, captures atomically and advances the warm-up.          *)

EffectiveThreshold(w) ==
  IF ~EnableWarmup \/ w <= 0 THEN EveryN ELSE Smaller(w, EveryN)

AddsAndReads(r, s) ==
  /\ req[r].phase = "idle" /\ budget.adds > 0
  /\ budget' = [budget EXCEPT !.adds = @ - 1]
  /\ rows' = [rows EXCEPT ![s] = @ + 1]
  /\ req' = [req EXCEPT ![r] =
       [phase |-> "read", session |-> s,
        known |-> IF st[s].exists THEN st[s].warm ELSE IF EnableWarmup THEN 1 ELSE 0,
        warm  |-> IF st[s].exists THEN st[s].warm ELSE 1]]
  /\ UNCHANGED <<deployment, cursor, extracted, unread, scenes, persona, st, timers, queue,
                 pending, locks, co, expired, wasted, excused>>

\* captureAtomic: count, then either a task or the idle timer.
CaptureAtomic(r) ==
  LET s == req[r].session
      count == st[s].count + 1
      triggered == count >= EffectiveThreshold(req[r].known)
  IN  /\ req[r].phase = "read"
      /\ st' = [st EXCEPT ![s] = [@ EXCEPT !.exists = TRUE, !.count = IF triggered THEN 0 ELSE count]]
      /\ \/ /\ triggered
            /\ queue' = Enqueued(queue, Task("L1", s, FALSE))
            /\ timers' = timers \ {<<s, "L1_idle">>}
            /\ req' = [req EXCEPT ![r] = IF EnableWarmup /\ req[r].warm > 0
                                         THEN [req[r] EXCEPT !.phase = "warming"]
                                         ELSE [phase |-> "idle"]]
         \/ /\ ~triggered
            /\ timers' = timers \cup {<<s, "L1_idle">>}
            /\ req' = [req EXCEPT ![r] = [phase |-> "idle"]]
            /\ UNCHANGED queue
      /\ UNCHANGED <<deployment, data, pending, locks, co, history>>

NextWarm(w) == IF 2 * w >= EveryN THEN 0 ELSE 2 * w

\* advanceWarmupInBackend writes under the default instance, and zeroes the count.
AdvanceWarmup(r) ==
  LET s == req[r].session
  IN  /\ req[r].phase = "warming"
      /\ st' = IF ~ServesDefault THEN st
               ELSE [st EXCEPT ![s] = [@ EXCEPT !.warm = NextWarm(req[r].warm), !.count = 0]]
      /\ req' = [req EXCEPT ![r] = [phase |-> "idle"]]
      /\ UNCHANGED <<deployment, data, timers, queue, pending, locks, co, history>>

\* handleSessionEnd -> flushSession under the default instance; without one it only logs.
FlushSession(s) ==
  /\ budget.flushes > 0 /\ ServesDefault /\ st[s].exists /\ st[s].count # 0
  /\ budget' = [budget EXCEPT !.flushes = @ - 1]
  /\ timers' = timers \ {<<s, "L1_idle">>}
  /\ queue' = Enqueued(queue, Task("flush", s, FALSE))
  /\ UNCHANGED <<deployment, data, st, pending, locks, req, co, expired, wasted, excused>>

----------------------------------------------------------------------------
(* Timers become tasks.                                                    *)

TimerTask(s, kind) == Task(IF kind = "L1_idle" THEN "L1" ELSE "L2", s, TRUE)

\* LocalStateBackend's setTimeout runs onTimerExpired with createLocalTimerTask.
LocalTimerFires(s, kind) ==
  /\ ~Shared /\ <<s, kind>> \in timers
  /\ timers' = timers \ {<<s, kind>>}
  /\ queue' = Enqueued(queue, TimerTask(s, kind))
  /\ UNCHANGED <<deployment, data, st, pending, locks, req, co, history>>

\* TimerScanner.scan claims each expired timer once, whichever replica scans.
Scan(s, kind) ==
  /\ Shared /\ <<s, kind>> \in timers
  /\ timers' = timers \ {<<s, kind>>}
  /\ queue' = Enqueued(queue, TimerTask(s, kind))
  /\ UNCHANGED <<deployment, data, st, pending, locks, req, co, history>>

----------------------------------------------------------------------------
(* The worker.                                                             *)

Holding == {"running", "working", "stored", "ran", "failed", "backoff"}

\* Variant: an owner id may take its own lock again.
AcquirableAgain(c, k) == locks[k] \in {Free, Owner(c)}
Acquirable(c, k) == locks[k] = Free

\* processTask up to the first attempt at the lock.
Takes(c, t, m) ==
  IF Acquirable(c, LockKey(t))
  THEN /\ co' = [co EXCEPT ![c] = Job("running", t, m)]
       /\ locks' = [locks EXCEPT ![LockKey(t)] = Owner(c)]
  ELSE /\ co' = [co EXCEPT ![c] = Job("waiting", t, m)]
       /\ UNCHANGED locks

Held(m) == \E d \in Coroutines : co[d].msg = m
Fresh == {m \in MessageIds : pending[m] = NoTask /\ ~Held(m)}

ConsumeTask(c) ==
  /\ co[c].phase = "idle" /\ queue # <<>>
  /\ queue' = Tail(queue)
  /\ \/ ~Shared /\ Takes(c, Head(queue), NoMessage) /\ UNCHANGED pending
     \/ Shared /\ \E m \in Fresh :
          /\ \A n \in Fresh : m <= n
          /\ pending' = [pending EXCEPT ![m] = Head(queue)]
          /\ Takes(c, Head(queue), m)
  /\ UNCHANGED <<deployment, data, st, timers, req, history>>

\* startPendingRecovery: claimStaleTasks hands over what was not acknowledged for
\* pendingStaleMs, which stays unacknowledged, to a worker with room for it.
ClaimStale(c) ==
  /\ co[c].phase = "idle"
  /\ \E m \in MessageIds : pending[m] # NoTask /\ ~Held(m) /\ Takes(c, pending[m], m)
  /\ UNCHANGED <<deployment, data, st, timers, queue, pending, req, history>>

Offered(c) == Shared /\ pending[co[c].msg] # NoTask
\* ackTask; the others that hold the same message do not notice.
Acked(c) == [m \in MessageIds |-> IF m = co[c].msg THEN NoTask ELSE pending[m]]

AcquireAfterConflict(c) ==
  LET k == LockKey(co[c].task)
  IN  /\ co[c].phase = "waiting" /\ Acquirable(c, k)
      /\ locks' = [locks EXCEPT ![k] = Owner(c)]
      /\ co' = [co EXCEPT ![c].phase = "running"]
      /\ UNCHANGED <<deployment, data, st, timers, queue, pending, req, history>>

Incident ==
  /\ budget.incidents > 0
  /\ budget' = [budget EXCEPT !.incidents = @ - 1]

\* A body may take longer than pendingStaleMs under a lock it keeps renewing: the
\* message is claimed from a holder that is alive.
ClaimFromLiving(c) ==
  /\ co[c].phase = "idle" /\ Incident
  /\ \E m \in MessageIds : pending[m] # NoTask /\ Held(m) /\ Takes(c, pending[m], m)
  /\ UNCHANGED <<deployment, data, st, timers, queue, pending, req, expired, wasted, excused>>

\* The conflict outlasts lockTtlMs: acknowledged and dropped.
DropAfterConflict(c) ==
  /\ co[c].phase = "waiting" /\ Incident
  /\ pending' = Acked(c)
  /\ excused' = excused \cup {co[c].task.session}
  /\ co' = [co EXCEPT ![c] = Idle]
  /\ UNCHANGED <<deployment, data, st, timers, queue, locks, req, expired, wasted>>

\* A timer's L1 task finds no counted conversation: "already processed".
L1SkipsProcessed(c) ==
  LET t == co[c].task
  IN  /\ co[c].phase = "running" /\ t.type = "L1" /\ t.byTimer
      /\ st[t.session].exists /\ st[t.session].count = 0
      /\ co' = [co EXCEPT ![c].phase = "ran"]
      /\ UNCHANGED <<deployment, data, st, timers, queue, pending, locks, req, history>>

PassesDedup(t) ==
  ~(t.type = "L1" /\ t.byTimer /\ st[t.session].exists /\ st[t.session].count = 0)

\* checkCreditQuota refuses: the task returns as if it had run.
QuotaRefuses(c) ==
  LET t == co[c].task
  IN  /\ co[c].phase = "running" /\ t.type # "flush" /\ PassesDedup(t) /\ Incident
      /\ co' = [co EXCEPT ![c].phase = "ran"]
      /\ excused' = excused \cup {t.session}
      /\ UNCHANGED <<deployment, data, st, timers, queue, pending, locks, req, expired, wasted>>

\* The task body begins with its reads: the L1 cursor and 2N rows behind it,
\* the memories behind the L2 cursor, or the scenes.
BodyReads(c) ==
  LET t == co[c].task
      s == t.session
  IN  /\ co[c].phase = "running" /\ t.type # "flush" /\ PassesDedup(t)
      /\ co' = [co EXCEPT ![c] =
           [@ EXCEPT !.phase = "working",
                     !.from = CASE t.type = "L1" -> cursor[s]
                                [] t.type = "L2" -> unread[s]
                                [] t.type = "L3" -> scenes,
                     !.seen = IF t.type = "L1" THEN Smaller(rows[s], cursor[s] + 2 * BatchN) ELSE 0]]
      /\ UNCHANGED <<deployment, data, st, timers, queue, pending, locks, req, history>>

\* Variant: a batch is always full.
UptoUnclipped(c) == co[c].from + BatchN
Upto(c) == Smaller(co[c].seen, co[c].from + BatchN)
HasFullBacklog(c) == co[c].seen = co[c].from + 2 * BatchN
HasMore(c) == co[c].seen > Upto(c) /\ ~HasFullBacklog(c)

\* The memories of a batch are stored; the model may find none in it, and when it
\* fails extractL1Memories reports none.
L1Finds(c) ==
  /\ co[c].phase = "working" /\ co[c].task.type = "L1"
  /\ co' = [co EXCEPT ![c].phase = IF co[c].seen > co[c].from THEN "stored" ELSE "ran"]
  /\ LET s == co[c].task.session
         batch == (co[c].from + 1)..Upto(c)
     IN  /\ extracted' = [extracted EXCEPT ![s] =
               [i \in 1..MaxRows |-> IF i \in batch THEN @[i] + 1 ELSE @[i]]]
         /\ \/ UNCHANGED unread
            \/ batch # {} /\ unread' = [unread EXCEPT ![s] = 1]
  /\ UNCHANGED <<deployment, rows, cursor, scenes, persona, st, timers, queue, pending, locks, req, history>>

\* Variant: a round that leaves a tail leaves the cursor too.
CursorAfterTail(c) == IF HasMore(c) THEN co[c].from ELSE Upto(c)
NextCursor(c) == Upto(c)

\* markL1ExtractionComplete, then the executor's drain of a backlog.
L1Commits(c) ==
  LET s == co[c].task.session
  IN  /\ co[c].phase = "stored"
      /\ cursor' = [cursor EXCEPT ![s] = NextCursor(c)]
      /\ queue' = IF HasFullBacklog(c) THEN Enqueued(queue, Task("L1", s, FALSE)) ELSE queue
      /\ timers' = IF HasMore(c) THEN timers \cup {<<s, "L1_idle">>} ELSE timers
      /\ co' = [co EXCEPT ![c].phase = "ran"]
      /\ UNCHANGED <<deployment, rows, extracted, unread, scenes, persona, st, pending, locks, req, history>>

L2Writes(c) ==
  /\ co[c].phase = "working" /\ co[c].task.type = "L2"
  /\ scenes' = IF co[c].from > 0 THEN scenes + 1 ELSE scenes
  /\ co' = [co EXCEPT ![c] = [@ EXCEPT !.phase = "ran", !.skipped = (co[c].from = 0)]]
  /\ UNCHANGED <<deployment, rows, cursor, extracted, unread, persona, st, timers, queue, pending, locks, req, history>>

\* The model failed, which SceneExtractor catches, or wrote no scene: the run counts
\* as skipped, is acknowledged, and arms nothing.  What it wrote before it failed
\* stays, and is looked at with the scenes of the next run.
L2ComesBackEmpty(c) ==
  /\ co[c].phase = "working" /\ co[c].task.type = "L2" /\ co[c].from > 0 /\ Incident
  /\ co' = [co EXCEPT ![c] = [@ EXCEPT !.phase = "ran", !.skipped = TRUE]]
  /\ excused' = excused \cup {co[c].task.session}
  /\ UNCHANGED <<deployment, data, st, timers, queue, pending, locks, req, expired, wasted>>

L3Writes(c) ==
  /\ co[c].phase = "working" /\ co[c].task.type = "L3"
  /\ persona' = co[c].from
  /\ co' = [co EXCEPT ![c].phase = "ran"]
  /\ UNCHANGED <<deployment, rows, cursor, extracted, unread, scenes, st, timers, queue, pending, locks, req, history>>

\* executeFlush calls handleSessionEnd, which queues another flush of what is counted.
FlushRuns(c) ==
  LET s == co[c].task.session
      again == ServesDefault /\ st[s].exists /\ st[s].count # 0
  IN  /\ co[c].phase = "running" /\ co[c].task.type = "flush"
      /\ co' = [co EXCEPT ![c].phase = "ran"]
      /\ queue' = IF again THEN Enqueued(queue, Task("flush", s, FALSE)) ELSE queue
      /\ timers' = IF again THEN timers \ {<<s, "L1_idle">>} ELSE timers
      /\ UNCHANGED <<deployment, data, st, pending, locks, req, history>>

\* What the bodies do not catch: the store, the profiles' sync, the checkpoint.  An
\* L2 run may have written its scenes by then.
BodyThrows(c) ==
  /\ co[c].phase \in {"working", "stored"} /\ budget.failures > 0
  /\ budget' = [budget EXCEPT !.failures = @ - 1]
  /\ co' = [co EXCEPT ![c].phase = "failed"]
  /\ wasted' = wasted + (IF co[c].phase = "stored" THEN 1 ELSE 0)
  /\ \/ UNCHANGED scenes
     \/ co[c].task.type = "L2" /\ co[c].from > 0 /\ scenes' = scenes + 1
  /\ UNCHANGED <<deployment, rows, cursor, extracted, unread, persona, st, timers, queue,
                 pending, locks, req, expired, excused>>

\* The body is over and the lock is no longer this worker's: nothing is
\* acknowledged, and only a shared backend will offer the task again, unless
\* somebody else acknowledged it.
LeavesUnacked(c) ==
  /\ co[c].phase \in {"ran", "failed"} /\ co[c].lost
  /\ excused' = IF Offered(c) THEN excused ELSE excused \cup {co[c].task.session}
  /\ co' = [co EXCEPT ![c] = Idle]
  /\ locks' = Released(c)
  /\ UNCHANGED <<deployment, data, st, timers, queue, pending, req, budget, expired, wasted>>

\* Variant: the L2 timer is advanced only for a counted task, not for a timer's.
TimersAfterTriggeredL1(t) ==
  IF t.byTimer THEN timers ELSE timers \cup {<<t.session, "L2_schedule">>}
TimersAfterL1(t) == timers \cup {<<t.session, "L2_schedule">>}
\* Variant: one L3 at a time is thought to be enough.
QueueAfterL2Deduped(t) ==
  IF \E d \in Coroutines : co[d].phase = "working" /\ co[d].task.type = "L3" THEN queue
  ELSE Enqueued(queue, [t EXCEPT !.type = "L3"])
\* The L3 task inherits the data of the L2 task, its retryCount too.
QueueAfterL2(t) == Enqueued(queue, [t EXCEPT !.type = "L3"])

\* ackTask, cascadeSchedule and the finally block.
CascadeFrom(t, skipped) ==
  LET s == t.session
  IN  CASE t.type \in {"L1", "flush"} ->
             /\ st' = [st EXCEPT ![s] = [@ EXCEPT !.exists = TRUE, !.count = 0]]
             /\ timers' = TimersAfterL1(t)
             /\ excused' = excused \ {s}
             /\ UNCHANGED <<queue, unread>>
        [] t.type = "L2" /\ ~skipped ->
             /\ queue' = QueueAfterL2(t)
             /\ st' = [st EXCEPT ![s] = [@ EXCEPT !.exists = TRUE]]
             /\ unread' = [unread EXCEPT ![s] = 0]
             /\ timers' = timers \cup {<<s, "L2_schedule">>}
             /\ excused' = excused \ {s}
        [] OTHER -> UNCHANGED <<queue, st, unread, timers, excused>>

CascadeSchedule(c) ==
  /\ co[c].phase = "ran" /\ ~co[c].lost
  /\ CascadeFrom(co[c].task, co[c].skipped)
  /\ pending' = Acked(c)
  /\ co' = [co EXCEPT ![c] = Idle]
  /\ locks' = Released(c)
  /\ UNCHANGED <<deployment, rows, cursor, extracted, scenes, persona, req, budget, expired, wasted>>

\* A failed task is acknowledged, slept on under its lock, and queued again.
BacksOff(c) ==
  /\ co[c].phase = "failed" /\ ~co[c].lost /\ co[c].task.retry < MaxRetries
  /\ pending' = Acked(c)
  /\ co' = [co EXCEPT ![c].phase = "backoff"]
  /\ UNCHANGED <<deployment, data, st, timers, queue, locks, req, history>>

ReEnqueue(c) ==
  /\ co[c].phase = "backoff"
  /\ queue' = Enqueued(queue, [co[c].task EXCEPT !.retry = @ + 1])
  /\ co' = [co EXCEPT ![c] = Idle]
  /\ locks' = Released(c)
  /\ UNCHANGED <<deployment, data, st, timers, pending, req, history>>

MoveToDeadLetter(c) ==
  LET s == co[c].task.session
  IN  /\ co[c].phase = "failed" /\ ~co[c].lost /\ co[c].task.retry >= MaxRetries
      /\ timers' = timers \ {<<s, "L1_idle">>, <<s, "L2_schedule">>}
      /\ excused' = excused \cup {s}
      /\ pending' = Acked(c)
      /\ co' = [co EXCEPT ![c] = Idle]
      /\ locks' = Released(c)
      /\ UNCHANGED <<deployment, data, st, queue, req, budget, expired, wasted>>

----------------------------------------------------------------------------
(* Time and crashes.                                                       *)

\* A stalled process lets its lock run out; a dead one's lock does so by itself.
LockExpires(k) ==
  /\ locks[k] # Free
  /\ \/ locks[k] = Dead /\ UNCHANGED <<budget, expired>>
     \/ locks[k] # Dead /\ Incident /\ expired' = TRUE
  /\ locks' = [locks EXCEPT ![k] = Free]
  /\ UNCHANGED <<deployment, data, st, timers, queue, pending, req, co, wasted, excused>>

\* renewLock compares owner ids, and all coroutines of a worker share one.
RenewFails(c) ==
  /\ co[c].phase \in {"running", "working", "stored", "ran"} /\ ~co[c].lost
  /\ locks[LockKey(co[c].task)] # Owner(c)
  /\ co' = [co EXCEPT ![c].lost = TRUE]
  /\ UNCHANGED <<deployment, data, st, timers, queue, pending, locks, req, history>>

\* A replica dies (or stop() releases its locks and the process exits).  What it
\* had not acknowledged is claimed later; a task that had been, but not cascaded
\* from or queued again, is in nobody's hands.
Crash(c) ==
  LET t == co[c].task
      k == LockKey(t)
  IN  /\ Shared /\ co[c].phase # "idle" /\ Incident
      /\ pending' \in {pending} \cup (IF co[c].phase = "ran" THEN {Acked(c)} ELSE {})
      /\ excused' = IF pending'[co[c].msg] # NoTask THEN excused ELSE excused \cup {t.session}
      /\ wasted' = wasted + (IF co[c].phase = "stored" THEN 1 ELSE 0)
      /\ locks' \in IF locks[k] = Owner(c) /\ co[c].phase # "waiting"
                    THEN {[locks EXCEPT ![k] = Dead], [locks EXCEPT ![k] = Free]} ELSE {locks}
      /\ co' = [co EXCEPT ![c] = Idle]
      /\ UNCHANGED <<deployment, data, st, timers, queue, req, expired>>

----------------------------------------------------------------------------
Body(c) ==
  \/ L1SkipsProcessed(c) \/ BodyReads(c) \/ L1Finds(c) \/ L1Commits(c)
  \/ L2Writes(c) \/ L3Writes(c) \/ FlushRuns(c)
Settles(c) ==
  LeavesUnacked(c) \/ CascadeSchedule(c) \/ BacksOff(c) \/ ReEnqueue(c) \/ MoveToDeadLetter(c)
CoroutineSteps(c) ==
  ConsumeTask(c) \/ ClaimStale(c) \/ AcquireAfterConflict(c) \/ Body(c) \/ Settles(c)
RequestSteps(r) == CaptureAtomic(r) \/ AdvanceWarmup(r)
Incidents(c) ==
  ClaimFromLiving(c) \/ DropAfterConflict(c) \/ QuotaRefuses(c) \/ L2ComesBackEmpty(c) \/ BodyThrows(c) \/ RenewFails(c) \/ Crash(c)

Next ==
  \/ \E r \in Clients, s \in Sessions : AddsAndReads(r, s)
  \/ \E r \in Clients : RequestSteps(r)
  \/ \E s \in Sessions : FlushSession(s)
  \/ \E tm \in Timers : LocalTimerFires(tm[1], tm[2]) \/ Scan(tm[1], tm[2])
  \/ \E c \in Coroutines : CoroutineSteps(c) \/ Incidents(c)
  \/ \E k \in DOMAIN locks : LockExpires(k)

\* The event loop runs every continuation, timers fire, and TTLs end.
Spec ==
  /\ Init /\ [][Next]_service
  /\ \A r \in Clients : WF_service(RequestSteps(r))
  /\ \A tm \in Timers : WF_service(LocalTimerFires(tm[1], tm[2]) \/ Scan(tm[1], tm[2]))
  /\ \A c \in Coroutines : WF_service(CoroutineSteps(c))
  /\ \A k \in Sessions \cup {Instance} : WF_service(locks[k] = Dead /\ LockExpires(k))

----------------------------------------------------------------------------
(* Properties.                                                             *)

TypeOK ==
  /\ deployment \in {"local", "shared", "pinned"} /\ expired \in BOOLEAN /\ excused \subseteq Sessions
  /\ rows \in [Sessions -> 0..MaxRows] /\ \A s \in Sessions : cursor[s] \in 0..rows[s]
  /\ unread \in [Sessions -> 0..1] /\ wasted \in Nat /\ scenes \in Nat /\ persona \in Nat
  /\ \A s \in Sessions : /\ st[s].count \in 0..MaxRows /\ st[s].warm \in 0..EveryN
                         /\ \A i \in 1..MaxRows : extracted[s][i] \in Nat
  /\ timers \subseteq Timers /\ pending \in [MessageIds -> Tasks \cup {NoTask}]
  /\ \A i \in 1..Len(queue) : queue[i] \in Tasks
  /\ \A k \in DOMAIN locks : locks[k] \in Coroutines \cup {Free, Dead, Worker}
  /\ \A c \in Coroutines : co[c].phase \in Holding \cup {"idle", "waiting"} /\ (co[c].phase = "idle" <=> co[c] = Idle)

\* While no lock ran out under its holder, a session's L1, L2 and flush tasks
\* exclude each other, and so do the L3 tasks of the instance.
LockExcludes ==
  ~expired => \A c, d \in Coroutines :
    (c # d /\ co[c].phase \in Holding /\ co[d].phase \in Holding)
      => LockKey(co[c].task) # LockKey(co[d].task)

\* A row is turned into memories once, and once more for every L1 run that
\* was lost between storing its memories and writing its cursor.
ExtractedOncePerLoss ==
  ~expired => \A s \in Sessions : \A i \in 1..MaxRows : extracted[s][i] <= 1 + wasted

InHand(s, types) ==
  \/ \E i \in 1..Len(queue) : queue[i].session = s /\ queue[i].type \in types
  \/ \E m \in MessageIds : pending[m] # NoTask /\ pending[m].session = s /\ pending[m].type \in types
  \/ \E c \in Coroutines : co[c].phase # "idle" /\ co[c].task.session = s /\ co[c].task.type \in types

\* Memories L2 has not read have a trigger: the session's L2 timer, or a task
\* that will run or arm it.  Since that timer was last armed, the worker may have
\* given the trigger up, and until a later L1 run arms it again nothing reads them:
\* the L2 run's model failed or wrote no scene (the run is acknowledged as skipped,
\* pipeline-worker.ts:515), a task was refused its quota, failed its last retry, waited
\* for a lock longer than the TTL, or was lost with its lock in a local deployment or
\* when another holder had acknowledged its message, or a worker died between
\* acknowledging a task and what follows it.
MemoriesHaveTrigger ==
  \A s \in Sessions \ excused :
    unread[s] > 0 => <<s, "L2_schedule">> \in timers \/ InHand(s, {"L1", "L2", "flush"})

\* Memories are passed by the L2 cursor in the end, and an L3 run looks at every
\* scene that was written, whatever L3 tasks were running when theirs was queued,
\* unless the worker gives a trigger up, as above or by a refused quota.  An expired
\* lock lets an older L3 run write last.
MemoriesReachPersona ==
  \A s \in Sessions : unread[s] > 0 ~> (unread[s] = 0 /\ persona = scenes) \/ excused # {} \/ expired
=============================================================================
