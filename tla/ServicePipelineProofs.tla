----------------------- MODULE ServicePipelineProofs -----------------------
(***************************************************************************)
(* Proofs about ServicePipeline, for any sessions, coroutines, requests,   *)
(* thresholds and bounds: type correctness, the exclusion the TTL locks    *)
(* give, how often a row is extracted, and the trigger that memories keep. *)
(***************************************************************************)
EXTENDS ServicePipeline, FiniteSetTheorems, SequenceTheorems, WellFoundedInduction, TLAPS

Owners == Coroutines \cup {Free, Dead, Worker}
Phases == Holding \cup {"idle", "waiting"}
States == [exists : BOOLEAN, count : Nat, warm : 0..EveryN]
Requests == [phase : {"idle"}]
              \cup [phase : {"read", "warming"}, session : Sessions, known : 0..EveryN, warm : 0..EveryN]
Jobs == [phase : Phases, task : Tasks \cup {NoTask}, msg : MessageIds \cup {NoMessage},
         lost : BOOLEAN, from : Nat, seen : Nat, skipped : BOOLEAN]

DataTypes ==
  /\ rows \in [Sessions -> Nat] /\ cursor \in [Sessions -> Nat]
  /\ extracted \in [Sessions -> [1..MaxRows -> Nat]]
  /\ unread \in [Sessions -> 0..1] /\ scenes \in Nat /\ persona \in Nat
StateTypes == st \in [Sessions -> States]
TaskTypes == timers \subseteq Timers /\ queue \in Seq(Tasks) /\ pending \in [MessageIds -> Tasks \cup {NoTask}]
LockTypes == locks \in [Sessions \cup {Instance} -> Owners]
RequestTypes == req \in [Clients -> Requests]
JobTypes == co \in [Coroutines -> Jobs]
HistoryTypes ==
  /\ budget \in [before : 0..Backlog, adds : 0..MaxAdds, flushes : Nat, failures : Nat,
               incidents : Nat]
  /\ expired \in BOOLEAN /\ wasted \in Nat /\ excused \subseteq Sessions

Types ==
  /\ deployment \in {"local", "shared", "pinned"} /\ DataTypes /\ StateTypes /\ TaskTypes
  /\ LockTypes /\ RequestTypes /\ JobTypes /\ HistoryTypes

(* what a coroutine's phase says about its task *)
Shape(j) ==
  /\ j.phase = "idle" <=> j = Idle
  /\ j.phase # "idle" => j.task \in Tasks
  /\ j.phase = "working" => j.task.type # "flush"
  /\ j.phase = "stored" => j.task.type = "L1"
  /\ j.phase = "backoff" => j.task.retry < MaxRetries
JobShape == \A c \in Coroutines : Shape(co[c])

-----------------------------------------------------------------------------
(* The helper operators *)

(* a non-empty set of natural numbers has a least element, and Min is it *)
LEMMA MinIsLeast ==
  ASSUME NEW S \in SUBSET Nat, S # {}
  PROVE  Min(S) \in S /\ \A x \in S : Min(S) <= x
<1>1. PICK x \in S : \A y \in S : ~ (<<y, x>> \in OpToRel(<, Nat))
  BY NatLessThanWellFounded, WFMin, Zenon
<1>2. \A y \in S : ~ (y < x)
  BY <1>1 DEF OpToRel
<1>3. \A y \in S : x <= y
  BY <1>2
<1> QED BY <1>3 DEF Min

(* inserting a task in the queue keeps what was there and adds the task *)
LEMMA EnqueuedElements ==
  ASSUME NEW q \in Seq(Tasks), NEW t \in Tasks
  PROVE  /\ Enqueued(q, t) \in Seq(Tasks)
         /\ \E i \in 1..Len(Enqueued(q, t)) : Enqueued(q, t)[i] = t
         /\ \A j \in 1..Len(q) : \E i \in 1..Len(Enqueued(q, t)) : Enqueued(q, t)[i] = q[j]
<1> DEFINE later == {i \in 1..Len(q) : Priority(q[i]) > Priority(t)}
           at == IF later = {} THEN Len(q) + 1 ELSE Min(later)
<1>1. at \in 1..(Len(q) + 1)
  <2>1. CASE later = {}
    BY <2>1
  <2>2. CASE later # {}
    <3>1. later \in SUBSET Nat
      OBVIOUS
    <3>2. Min(later) \in later
      BY <2>2, <3>1, MinIsLeast
    <3> QED BY <2>2, <3>2
  <2> QED BY <2>1, <2>2
<1> HIDE DEF at
<1>2. Enqueued(q, t) = SubSeq(q, 1, at - 1) \o <<t>> \o SubSeq(q, at, Len(q))
  BY DEF at, Enqueued, InsertAt
<1> DEFINE a == SubSeq(q, 1, at - 1)
           b == SubSeq(q, at, Len(q))
<1>3. /\ a \in Seq(Tasks) /\ Len(a) = at - 1 /\ \A i \in 1..(at - 1) : a[i] = q[i]
      /\ b \in Seq(Tasks) /\ Len(b) = Len(q) + 1 - at /\ \A i \in 1..(Len(q) + 1 - at) : b[i] = q[at + i - 1]
  <2>1. /\ a \in Seq(Tasks) /\ Len(a) = at - 1 /\ \A i \in 1..(at - 1) : a[i] = q[i]
    BY <1>1, SubSeqProperties
  <2>2. \A i \in at..Len(q) : q[i] \in Tasks
    BY <1>1
  <2>3. /\ b \in Seq(Tasks) /\ Len(b) = IF at <= Len(q) THEN Len(q) - at + 1 ELSE 0
        /\ \A i \in 1..(Len(q) - at + 1) : b[i] = q[at + i - 1]
    BY <1>1, <2>2, SubSeqProperties
  <2> QED BY <1>1, <2>1, <2>3
<1> HIDE DEF a, b
<1>4. /\ a \o <<t>> \o b \in Seq(Tasks) /\ Len(a \o <<t>> \o b) = Len(q) + 1
      /\ \A i \in 1..(at - 1) : (a \o <<t>> \o b)[i] = q[i]
      /\ (a \o <<t>> \o b)[at] = t
      /\ \A i \in (at + 1)..(Len(q) + 1) : (a \o <<t>> \o b)[i] = q[i - 1]
  <2> DEFINE h == a \o <<t>>
  <2>1. /\ h \in Seq(Tasks) /\ Len(h) = at /\ h[at] = t
        /\ \A i \in 1..(at - 1) : h[i] = q[i]
    BY <1>1, <1>3, ConcatProperties, SMTT(40)
  <2> HIDE DEF h
  <2>2. /\ h \o b \in Seq(Tasks) /\ Len(h \o b) = Len(q) + 1
        /\ \A i \in 1..at : (h \o b)[i] = h[i]
        /\ \A i \in (at + 1)..(Len(q) + 1) : (h \o b)[i] = b[i - at]
    BY <1>1, <1>3, <2>1
  <2>3. \A i \in (at + 1)..(Len(q) + 1) : b[i - at] = q[i - 1]
    BY <1>1, <1>3, SMTT(40)
  <2> QED BY <1>1, <2>1, <2>2, <2>3 DEF h
<1>5. Enqueued(q, t) = a \o <<t>> \o b
  BY <1>2 DEF a, b
<1>6. \A j \in 1..Len(q) : \E i \in 1..(Len(q) + 1) : Enqueued(q, t)[i] = q[j]
  <2> TAKE j \in 1..Len(q)
  <2>1. CASE j < at
    BY <1>1, <1>4, <1>5, <2>1
  <2>2. CASE ~(j < at)
    <3>1. j + 1 \in (at + 1)..(Len(q) + 1)
      BY <1>1, <2>2
    <3>2. Enqueued(q, t)[j + 1] = q[j]
      BY <1>4, <1>5, <3>1
    <3> QED BY <3>1, <3>2
  <2> QED BY <2>1, <2>2
<1> QED BY <1>1, <1>4, <1>5, <1>6
-----------------------------------------------------------------------------
(* Types *)

LEMMA IdleIsJob == Idle \in Jobs /\ NoTask \notin Tasks
BY DEF Idle, Job, Jobs, NoTask, NoMessage, Phases, Tasks

(* updating fields of a session's state *)
LEMMA StateUpdates ==
  ASSUME NEW x \in States
  PROVE  /\ [x EXCEPT !.exists = TRUE] \in States
         /\ [x EXCEPT !.exists = TRUE, !.count = 0] \in States
         /\ [x EXCEPT !.exists = TRUE, !.count = x.count + 1] \in States
<1>1. ASSUME NEW n \in Nat
      PROVE  [x EXCEPT !.exists = TRUE, !.count = n] \in States
  BY DEF States
<1>2. [x EXCEPT !.exists = TRUE] \in States
  BY DEF States
<1>3. x.count + 1 \in Nat
  BY DEF States
<1> QED BY <1>1, <1>2, <1>3

(* what is left alone keeps its type *)
LEMMA Frame ==
  /\ DataTypes /\ UNCHANGED data => DataTypes'
  /\ StateTypes /\ UNCHANGED st => StateTypes'
  /\ TaskTypes /\ UNCHANGED <<timers, queue, pending>> => TaskTypes'
  /\ LockTypes /\ UNCHANGED locks => LockTypes'
  /\ RequestTypes /\ UNCHANGED req => RequestTypes'
  /\ JobTypes /\ UNCHANGED co => JobTypes'
  /\ JobShape /\ UNCHANGED co => JobShape'
  /\ HistoryTypes /\ UNCHANGED history => HistoryTypes'
BY DEF DataTypes, data, StateTypes, TaskTypes, LockTypes, RequestTypes, JobTypes, JobShape,
       HistoryTypes, history

(* what holds initially *)
LEMMA InitTypes == Init => Types /\ JobShape
<1> SUFFICES ASSUME Init PROVE Types /\ JobShape
  OBVIOUS
<1>1. 0 \in 0..EveryN /\ MaxRows \in Nat
  BY ServiceAssumption DEF MaxRows
<1>5. HistoryTypes
  <2>1. PICK sc \in Scenarios : budget = sc[2]
    BY DEF Init
  <2>2. sc \in {"local", "shared", "pinned"} \X
          [before : 0..Backlog, adds : 0..MaxAdds, flushes : Nat, failures : Nat, incidents : Nat]
    BY <2>1, ServiceAssumption
  <2> QED BY <2>1, <2>2 DEF Init, HistoryTypes
<1>2. DataTypes
  <2>1. budget.before \in Nat
    BY <1>5, ServiceAssumption DEF HistoryTypes
  <2> QED BY <1>1, <2>1 DEF Init, DataTypes
<1>3. StateTypes /\ TaskTypes /\ LockTypes /\ RequestTypes
  BY <1>1 DEF Init, StateTypes, States, TaskTypes, LockTypes, Owners, RequestTypes, Requests
<1>4. JobTypes /\ JobShape
  BY IdleIsJob DEF Init, JobTypes, JobShape, Shape, Idle, Job
<1>6. deployment \in {"local", "shared", "pinned"}
  <2>1. PICK sc \in Scenarios : deployment = sc[1]
    BY DEF Init
  <2>2. sc[1] \in {"local", "shared", "pinned"}
    BY <2>1, ServiceAssumption
  <2> QED BY <2>1, <2>2
<1> QED BY <1>2, <1>3, <1>4, <1>5, <1>6 DEF Types

(* the steps of requests, session ends and timers *)
LEMMA RequestsKeepTypes ==
  ASSUME Types, JobShape,
         \/ \E r \in Clients, s \in Sessions : AddsAndReads(r, s)
         \/ \E r \in Clients : RequestSteps(r)
         \/ \E s \in Sessions : FlushSession(s)
         \/ \E tm \in Timers : LocalTimerFires(tm[1], tm[2]) \/ Scan(tm[1], tm[2])
  PROVE  Types' /\ JobShape'
<1>0. EveryN \in Nat \ {0} /\ MaxAdds \in Nat
  BY ServiceAssumption
<1>1. ASSUME NEW r \in Clients, NEW s \in Sessions, AddsAndReads(r, s)
      PROVE  Types' /\ JobShape'
  <2>1. RequestTypes'
    BY <1>0, <1>1 DEF AddsAndReads, Types, RequestTypes, StateTypes, Requests, States
  <2>2. HistoryTypes'
    BY <1>0, <1>1 DEF AddsAndReads, Types, HistoryTypes
  <2>3. DataTypes'
    BY <1>1 DEF AddsAndReads, Types, DataTypes
  <2> QED BY <1>1, <2>1, <2>2, <2>3, Frame DEF AddsAndReads, Types
<1>2. ASSUME NEW r \in Clients, CaptureAtomic(r)
      PROVE  Types' /\ JobShape'
  <2>1. req[r].session \in Sessions /\ req[r] \in Requests /\ req[r].phase = "read"
    BY <1>2 DEF CaptureAtomic, Types, RequestTypes, Requests
  <2> DEFINE s == req[r].session
  <2>9. /\ st \in [Sessions -> States] /\ st[s] \in States /\ queue \in Seq(Tasks)
        /\ timers \subseteq Timers /\ pending \in [MessageIds -> Tasks \cup {NoTask}] /\ req \in [Clients -> Requests]
    BY <2>1 DEF Types, StateTypes, TaskTypes, RequestTypes
  <2>2. StateTypes'
    <3>1. \/ st' = [st EXCEPT ![s] = [@ EXCEPT !.exists = TRUE, !.count = 0]]
          \/ st' = [st EXCEPT ![s] = [@ EXCEPT !.exists = TRUE, !.count = st[s].count + 1]]
      BY <1>2 DEF CaptureAtomic
    <3>2. /\ [st[s] EXCEPT !.exists = TRUE, !.count = 0] \in States
          /\ [st[s] EXCEPT !.exists = TRUE, !.count = st[s].count + 1] \in States
      BY <2>9, StateUpdates
    <3> QED BY <2>1, <2>9, <3>1, <3>2 DEF StateTypes
  <2>3. Task("L1", req[r].session, FALSE) \in Tasks
    BY <2>1, ServiceAssumption DEF Task, Tasks
  <2>4. queue' \in Seq(Tasks)
    <3>1. queue' \in {queue, Enqueued(queue, Task("L1", s, FALSE))}
      BY <1>2 DEF CaptureAtomic
    <3> QED BY <2>3, <2>9, <3>1, EnqueuedElements
  <2>5. timers' \subseteq Timers
    <3>1. timers' \in {timers \ {<<s, "L1_idle">>}, timers \cup {<<s, "L1_idle">>}}
      BY <1>2 DEF CaptureAtomic
    <3> QED BY <2>1, <2>9, <3>1 DEF Timers
  <2>6. RequestTypes'
    <3>1. req' \in {[req EXCEPT ![r] = [phase |-> "idle"]],
                    [req EXCEPT ![r] = [req[r] EXCEPT !.phase = "warming"]]}
      BY <1>2 DEF CaptureAtomic
    <3>2. [phase |-> "idle"] \in Requests
      BY DEF Requests
    <3>3. [req[r] EXCEPT !.phase = "warming"] \in Requests
      <4>1. req[r] \in [phase : {"read", "warming"}, session : Sessions, known : 0..EveryN, warm : 0..EveryN]
        BY <2>1 DEF Requests
      <4> QED BY <4>1 DEF Requests
    <3> QED BY <2>9, <3>1, <3>2, <3>3 DEF RequestTypes
  <2>7. TaskTypes'
    BY <1>2, <2>4, <2>5, <2>9 DEF CaptureAtomic, TaskTypes
  <2> QED BY <1>2, <2>2, <2>6, <2>7, Frame DEF CaptureAtomic, Types
<1>3. ASSUME NEW r \in Clients, AdvanceWarmup(r)
      PROVE  Types' /\ JobShape'
  <2>1. req[r].session \in Sessions /\ req[r].warm \in 0..EveryN
    BY <1>3 DEF AdvanceWarmup, Types, RequestTypes, Requests
  <2>2. NextWarm(req[r].warm) \in 0..EveryN
    BY <1>0, <2>1 DEF NextWarm
  <2>3. StateTypes'
    BY <1>3, <2>1, <2>2 DEF AdvanceWarmup, Types, StateTypes, States
  <2>4. RequestTypes'
    BY <1>3 DEF AdvanceWarmup, Types, RequestTypes, Requests
  <2> QED BY <1>3, <2>3, <2>4, Frame DEF AdvanceWarmup, Types
<1>4. ASSUME NEW s \in Sessions, FlushSession(s)
      PROVE  Types' /\ JobShape'
  <2>1. Task("flush", s, FALSE) \in Tasks
    BY ServiceAssumption DEF Task, Tasks
  <2>2. TaskTypes'
    BY <1>4, <2>1, EnqueuedElements DEF FlushSession, Types, TaskTypes
  <2>3. HistoryTypes'
    BY <1>0, <1>4 DEF FlushSession, Types, HistoryTypes
  <2> QED BY <1>4, <2>2, <2>3, Frame DEF FlushSession, Types
<1>5. ASSUME NEW tm \in Timers, LocalTimerFires(tm[1], tm[2]) \/ Scan(tm[1], tm[2])
      PROVE  Types' /\ JobShape'
  <2>1. TimerTask(tm[1], tm[2]) \in Tasks
    BY ServiceAssumption DEF TimerTask, Task, Tasks, Timers
  <2>2. TaskTypes'
    <3>1. queue \in Seq(Tasks) /\ timers \subseteq Timers /\ pending \in [MessageIds -> Tasks \cup {NoTask}]
      BY DEF Types, TaskTypes
    <3>2. /\ queue' = Enqueued(queue, TimerTask(tm[1], tm[2]))
          /\ timers' \subseteq timers /\ pending' = pending
      BY <1>5 DEF LocalTimerFires, Scan
    <3> QED BY <2>1, <3>1, <3>2, EnqueuedElements DEF TaskTypes
  <2> QED BY <1>5, <2>2, Frame DEF LocalTimerFires, Scan, Types
<1> QED BY <1>1, <1>2, <1>3, <1>4, <1>5 DEF RequestSteps

(* a coroutine that is given a well-shaped job leaves the others alone *)
LEMMA JobChanges ==
  ASSUME JobTypes, JobShape, NEW c \in Coroutines, NEW j \in Jobs, Shape(j),
         co' = [co EXCEPT ![c] = j]
  PROVE  JobTypes' /\ JobShape'
<1>1. JobTypes'
  BY DEF JobTypes
<1>2. \A d \in Coroutines : co'[d] = IF d = c THEN j ELSE co[d]
  BY DEF JobTypes
<1> QED BY <1>1, <1>2 DEF JobShape

(* a busy coroutine goes on to another phase *)
LEMMA PhaseChanges ==
  ASSUME NEW x \in Jobs, Shape(x), x.phase # "idle", NEW p \in Phases, p # "idle",
         p = "working" => x.task.type # "flush",
         p = "stored" => x.task.type = "L1",
         p = "backoff" => x.task.retry < MaxRetries
  PROVE  [x EXCEPT !.phase = p] \in Jobs /\ Shape([x EXCEPT !.phase = p])
BY DEF Jobs, Shape, Idle, Job

(* the idle coroutine, and one that has just been given a task *)
LEMMA FreshJobs ==
  /\ Idle \in Jobs /\ Shape(Idle)
  /\ \A t \in Tasks, m \in MessageIds \cup {NoMessage}, p \in {"running", "waiting"} :
       LET j == Job(p, t, m) IN j \in Jobs /\ Shape(j)
<1>1. Idle \in Jobs /\ Shape(Idle)
  BY DEF Jobs, Shape, Idle, Job, NoTask, NoMessage, Phases, Holding
<1>2. ASSUME NEW t \in Tasks, NEW m \in MessageIds \cup {NoMessage}, NEW p \in {"running", "waiting"}
      PROVE  LET j == Job(p, t, m) IN j \in Jobs /\ Shape(j)
  <2> DEFINE j == Job(p, t, m)
  <2>1. j \in Jobs
    BY DEF Job, Jobs, Phases, Holding
  <2>2. Shape(j)
    BY DEF Job, Shape, Idle
  <2> QED BY <2>1, <2>2
<1> QED BY <1>1, <1>2

(* what a lock key and an owner may be, and what a release leaves *)
LEMMA LockTyping ==
  ASSUME Types, NEW c \in Coroutines
  PROVE  /\ \A t \in Tasks : LockKey(t) \in Sessions \cup {Instance}
         /\ Owner(c) \in Owners
         /\ co[c].task \in Tasks => Released(c) \in [Sessions \cup {Instance} -> Owners]
<1>1. \A t \in Tasks : LockKey(t) \in Sessions \cup {Instance}
  BY DEF LockKey, Tasks
<1>2. Owner(c) \in Owners
  BY DEF Owner, Owners
<1>3. co[c].task \in Tasks => Released(c) \in [Sessions \cup {Instance} -> Owners]
  BY <1>1, <1>2 DEF Released, Types, LockTypes, Owners
<1> QED BY <1>1, <1>2, <1>3

(* starting a task *)
LEMMA TakesKeepsTypes ==
  ASSUME Types, JobShape, NEW c \in Coroutines, NEW t \in Tasks,
         NEW m \in MessageIds \cup {NoMessage}, Takes(c, t, m)
  PROVE  LockTypes' /\ JobTypes' /\ JobShape'
<1>1. LockTypes'
  BY LockTyping DEF Takes, Types, LockTypes
<1>2. PICK p \in {"running", "waiting"} : co' = [co EXCEPT ![c] = Job(p, t, m)]
  BY DEF Takes
<1> DEFINE j == Job(p, t, m)
<1>3. j \in Jobs /\ Shape(j)
  BY FreshJobs
<1>4. co' = [co EXCEPT ![c] = j]
  BY <1>2
<1> HIDE DEF j
<1>5. JobTypes' /\ JobShape'
  BY <1>3, <1>4, JobChanges DEF Types
<1> QED BY <1>1, <1>5

(* what is known of a coroutine before it steps *)
LEMMA Before ==
  ASSUME Types, JobShape, NEW c \in Coroutines
  PROVE  /\ co[c] \in Jobs /\ Shape(co[c])
         /\ co[c].phase # "idle" => co[c].task \in Tasks /\ co[c].task.session \in Sessions
BY DEF Types, JobTypes, JobShape, Shape, Tasks

(* the phase of a busy coroutine changes and nothing else of it *)
LEMMA PhaseStep ==
  ASSUME Types, JobShape, NEW c \in Coroutines, co[c].phase # "idle",
         NEW p \in Phases, p # "idle", p # "working",
         p = "stored" => co[c].task.type = "L1",
         p = "backoff" => co[c].task.retry < MaxRetries,
         co' = [co EXCEPT ![c].phase = p]
  PROVE  JobTypes' /\ JobShape'
<1> DEFINE j == [co[c] EXCEPT !.phase = p]
<1>1. j \in Jobs /\ Shape(j)
  BY Before, PhaseChanges
<1>2. co' = [co EXCEPT ![c] = j]
  OBVIOUS
<1> HIDE DEF j
<1> QED BY <1>1, <1>2, JobChanges DEF Types

(* a coroutine that is done is idle *)
LEMMA IdleStep ==
  ASSUME Types, JobShape, NEW c \in Coroutines, co' = [co EXCEPT ![c] = Idle]
  PROVE  JobTypes' /\ JobShape'
BY FreshJobs, JobChanges DEF Types

(* the rows of a batch are counted once more *)
LEMMA CountsGrow ==
  ASSUME NEW n, NEW counts \in [1..n -> Nat], NEW batch
  PROVE  [i \in 1..n |-> IF i \in batch THEN counts[i] + 1 ELSE counts[i]] \in [1..n -> Nat]
OBVIOUS

(* taking tasks and the bodies of the tasks *)
LEMMA BodiesKeepTypes ==
  ASSUME Types, JobShape, NEW c \in Coroutines,
         ConsumeTask(c) \/ ClaimStale(c) \/ AcquireAfterConflict(c) \/ Body(c)
  PROVE  Types' /\ JobShape'
<1>1. CASE ConsumeTask(c)
  <2>1. queue \in Seq(Tasks) /\ queue # <<>>
    BY <1>1 DEF ConsumeTask, Types, TaskTypes
  <2>2. Head(queue) \in Tasks /\ Tail(queue) \in Seq(Tasks)
    BY <2>1, HeadTailProperties
  <2>3. PICK m \in MessageIds \cup {NoMessage} :
          /\ Takes(c, Head(queue), m)
          /\ pending' = pending \/ pending' = [pending EXCEPT ![m] = Head(queue)]
    BY <1>1 DEF ConsumeTask, Fresh
  <2>4. TaskTypes'
    BY <1>1, <2>2, <2>3 DEF ConsumeTask, Types, TaskTypes
  <2>5. LockTypes' /\ JobTypes' /\ JobShape'
    BY <2>2, <2>3, TakesKeepsTypes
  <2> QED BY <1>1, <2>4, <2>5, Frame DEF ConsumeTask, Types
<1>2. CASE ClaimStale(c)
  <2>1. PICK m \in MessageIds : pending[m] # NoTask /\ Takes(c, pending[m], m)
    BY <1>2 DEF ClaimStale
  <2>2. pending[m] \in Tasks
    BY <2>1 DEF Types, TaskTypes
  <2>3. LockTypes' /\ JobTypes' /\ JobShape'
    BY <2>1, <2>2, TakesKeepsTypes
  <2> QED BY <1>2, <2>3, Frame DEF ClaimStale, Types
<1>3. CASE AcquireAfterConflict(c)
  <2>1. co[c].phase # "idle" /\ co' = [co EXCEPT ![c].phase = "running"]
    BY <1>3 DEF AcquireAfterConflict
  <2>2. JobTypes' /\ JobShape'
    BY <2>1, PhaseStep DEF Phases, Holding
  <2>3. LockTypes'
    BY <1>3, <2>1, Before, LockTyping DEF AcquireAfterConflict, Types, LockTypes
  <2> QED BY <1>3, <2>2, <2>3, Frame DEF AcquireAfterConflict, Types
<1>4. CASE L1SkipsProcessed(c)
  <2>1. JobTypes' /\ JobShape'
    BY <1>4, PhaseStep DEF L1SkipsProcessed, Phases, Holding
  <2> QED BY <1>4, <2>1, Frame DEF L1SkipsProcessed, Types
<1>5. CASE BodyReads(c)
  <2> DEFINE t == co[c].task
             from == CASE t.type = "L1" -> cursor[t.session]
                       [] t.type = "L2" -> unread[t.session]
                       [] t.type = "L3" -> scenes
             seen == IF t.type = "L1" THEN Smaller(rows[t.session], cursor[t.session] + 2 * BatchN) ELSE 0
             j == [co[c] EXCEPT !.phase = "working", !.from = from, !.seen = seen]
  <2>1. t \in Tasks /\ t.session \in Sessions /\ t.type # "flush" /\ co[c] \in Jobs
    BY <1>5, Before DEF BodyReads
  <2>2. t.type \in {"L1", "L2", "L3"}
    BY <2>1 DEF Tasks
  <2>3. from \in Nat
    <3>1. cursor[t.session] \in Nat /\ unread[t.session] \in 0..1 /\ scenes \in Nat
      BY <2>1 DEF Types, DataTypes
    <3>2. t.type = "L1" \/ t.type = "L2" \/ t.type = "L3"
      BY <2>2
    <3> QED BY <3>1, <3>2
  <2>4. seen \in Nat
    BY <2>1, ServiceAssumption DEF Types, DataTypes, Smaller
  <2>5. co' = [co EXCEPT ![c] = j]
    BY <1>5 DEF BodyReads
  <2> HIDE DEF from, seen
  <2>6. j \in Jobs /\ Shape(j)
    BY <2>1, <2>3, <2>4 DEF Jobs, Shape, Idle, Job, Phases, Holding
  <2> HIDE DEF j
  <2>7. JobTypes' /\ JobShape'
    BY <2>5, <2>6, JobChanges DEF Types
  <2> QED BY <1>5, <2>7, Frame DEF BodyReads, Types
<1>6. CASE L1Finds(c)
  <2>1. co[c].task.session \in Sessions
    BY <1>6, Before DEF L1Finds
  <2>2. DataTypes'
    <3> DEFINE s == co[c].task.session
               batch == (co[c].from + 1)..Upto(c)
               more == [i \in 1..MaxRows |-> IF i \in batch THEN extracted[s][i] + 1 ELSE extracted[s][i]]
    <3>1. extracted[s] \in [1..MaxRows -> Nat]
      BY <2>1 DEF Types, DataTypes
    <3>3. extracted' = [extracted EXCEPT ![s] = more]
      BY <1>6 DEF L1Finds
    <3>2. more \in [1..MaxRows -> Nat]
      <4> DEFINE counts == extracted[s]
      <4>1. counts \in [1..MaxRows -> Nat]
        BY <3>1
      <4>2. more = [i \in 1..MaxRows |-> IF i \in batch THEN counts[i] + 1 ELSE counts[i]]
        OBVIOUS
      <4> HIDE DEF batch, counts, more
      <4>3. [i \in 1..MaxRows |-> IF i \in batch THEN counts[i] + 1 ELSE counts[i]] \in [1..MaxRows -> Nat]
        BY <4>1, CountsGrow
      <4> QED BY <4>2, <4>3
    <3> HIDE DEF batch
    <3>4. unread' \in [Sessions -> 0..1]
      <4>1. unread \in [Sessions -> 0..1] /\ unread[s] \in 0..1
        BY <2>1 DEF Types, DataTypes
      <4>2. unread' = unread \/ unread' = [unread EXCEPT ![s] = 1]
        BY <1>6 DEF L1Finds
      <4> QED BY <4>1, <4>2
    <3> HIDE DEF more
    <3>5. extracted' \in [Sessions -> [1..MaxRows -> Nat]]
      BY <2>1, <3>2, <3>3 DEF Types, DataTypes
    <3> QED BY <1>6, <3>4, <3>5 DEF L1Finds, Types, DataTypes
  <2>3. PICK p \in {"stored", "ran"} : co' = [co EXCEPT ![c].phase = p]
    BY <1>6 DEF L1Finds
  <2>4. JobTypes' /\ JobShape'
    BY <1>6, <2>3, PhaseStep DEF L1Finds, Phases, Holding
  <2> QED BY <1>6, <2>2, <2>4, Frame DEF L1Finds, Types
<1>7. CASE L1Commits(c)
  <2>1. co[c].task.session \in Sessions /\ co[c] \in Jobs
    BY <1>7, Before DEF L1Commits
  <2>2. Upto(c) \in Nat
    BY <2>1, ServiceAssumption DEF Upto, Smaller, Jobs
  <2>3. DataTypes'
    BY <1>7, <2>1, <2>2 DEF L1Commits, NextCursor, Types, DataTypes
  <2>4. Task("L1", co[c].task.session, FALSE) \in Tasks
    BY <2>1, ServiceAssumption DEF Task, Tasks
  <2>5. TaskTypes'
    <3>1. queue \in Seq(Tasks) /\ timers \subseteq Timers /\ pending \in [MessageIds -> Tasks \cup {NoTask}]
      BY DEF Types, TaskTypes
    <3>2. /\ queue' \in {queue, Enqueued(queue, Task("L1", co[c].task.session, FALSE))}
          /\ timers' \subseteq timers \cup {<<co[c].task.session, "L1_idle">>}
          /\ pending' = pending
      BY <1>7 DEF L1Commits
    <3>3. <<co[c].task.session, "L1_idle">> \in Timers
      BY <2>1 DEF Timers
    <3> QED BY <2>4, <3>1, <3>2, <3>3, EnqueuedElements DEF TaskTypes
  <2>6. JobTypes' /\ JobShape'
    BY <1>7, PhaseStep DEF L1Commits, Phases, Holding
  <2> QED BY <1>7, <2>3, <2>5, <2>6, Frame DEF L1Commits, Types
<1>8. CASE L2Writes(c)
  <2>1. DataTypes'
    BY <1>8 DEF L2Writes, Types, DataTypes
  <2> DEFINE j == [co[c] EXCEPT !.phase = "ran", !.skipped = (co[c].from = 0)]
  <2>2. j \in Jobs /\ Shape(j)
    BY <1>8, Before DEF L2Writes, Jobs, Shape, Idle, Job, Phases, Holding
  <2>3. co' = [co EXCEPT ![c] = j]
    BY <1>8 DEF L2Writes
  <2> HIDE DEF j
  <2>4. JobTypes' /\ JobShape'
    BY <2>2, <2>3, JobChanges DEF Types
  <2> QED BY <1>8, <2>1, <2>4, Frame DEF L2Writes, Types
<1>9. CASE L3Writes(c)
  <2>1. DataTypes'
    BY <1>9, Before DEF L3Writes, Types, DataTypes, Jobs
  <2>2. JobTypes' /\ JobShape'
    BY <1>9, PhaseStep DEF L3Writes, Phases, Holding
  <2> QED BY <1>9, <2>1, <2>2, Frame DEF L3Writes, Types
<1>10. CASE FlushRuns(c)
  <2>1. co[c].task.session \in Sessions
    BY <1>10, Before DEF FlushRuns
  <2>2. Task("flush", co[c].task.session, FALSE) \in Tasks
    BY <2>1, ServiceAssumption DEF Task, Tasks
  <2>3. TaskTypes'
    BY <1>10, <2>2, EnqueuedElements DEF FlushRuns, Types, TaskTypes
  <2>4. JobTypes' /\ JobShape'
    BY <1>10, PhaseStep DEF FlushRuns, Phases, Holding
  <2> QED BY <1>10, <2>3, <2>4, Frame DEF FlushRuns, Types
<1> QED BY <1>1, <1>2, <1>3, <1>4, <1>5, <1>6, <1>7, <1>8, <1>9, <1>10 DEF Body

(* how a coroutine is done with a task *)
LEMMA SettlesKeepTypes ==
  ASSUME Types, JobShape, NEW c \in Coroutines, Settles(c)
  PROVE  Types' /\ JobShape'
<1>0. ASSUME co[c].phase # "idle", locks' = Released(c)
      PROVE  LockTypes'
  BY <1>0, Before, LockTyping DEF LockTypes
<1>9. Acked(c) \in [MessageIds -> Tasks \cup {NoTask}]
  BY DEF Acked, Types, TaskTypes
<1>1. CASE LeavesUnacked(c)
  <2>1. co[c].task.session \in Sessions
    BY <1>1, Before DEF LeavesUnacked
  <2>2. HistoryTypes'
    BY <1>1, <2>1 DEF LeavesUnacked, Types, HistoryTypes
  <2>3. LockTypes'
    BY <1>0, <1>1 DEF LeavesUnacked
  <2> QED BY <1>1, <2>2, <2>3, IdleStep, Frame DEF LeavesUnacked, Types
<1>2. CASE CascadeSchedule(c)
  <2> DEFINE t == co[c].task
             s == t.session
  <2>1. t \in Tasks /\ s \in Sessions
    BY <1>2, Before DEF CascadeSchedule
  <2>2. /\ st \in [Sessions -> States] /\ unread \in [Sessions -> 0..1]
        /\ queue \in Seq(Tasks) /\ timers \subseteq Timers /\ pending \in [MessageIds -> Tasks \cup {NoTask}]
    BY DEF Types, StateTypes, DataTypes, TaskTypes
  <2> DEFINE l3 == [t EXCEPT !.type = "L3"]
  <2>3. l3 \in Tasks
    BY <2>1 DEF Tasks
  <2>4. /\ st' \in {st, [st EXCEPT ![s] = [@ EXCEPT !.exists = TRUE]],
                    [st EXCEPT ![s] = [@ EXCEPT !.exists = TRUE, !.count = 0]]}
        /\ unread' \in {unread, [unread EXCEPT ![s] = 0]}
        /\ queue' \in {queue, Enqueued(queue, l3)}
        /\ timers' \subseteq timers \cup {<<s, "L2_schedule">>}
    BY <1>2 DEF CascadeSchedule, CascadeFrom, TimersAfterL1, QueueAfterL2
  <2>9. HistoryTypes'
    <3>1. excused' \subseteq excused
      BY <1>2 DEF CascadeSchedule, CascadeFrom
    <3> QED BY <1>2, <3>1 DEF CascadeSchedule, Types, HistoryTypes
  <2> HIDE DEF l3
  <2>5. StateTypes'
    <3>1. [st[s] EXCEPT !.exists = TRUE] \in States /\ [st[s] EXCEPT !.exists = TRUE, !.count = 0] \in States
      BY <2>1, <2>2, StateUpdates
    <3> QED BY <2>1, <2>2, <2>4, <3>1 DEF StateTypes
  <2>6. TaskTypes'
    <3>1. queue' \in Seq(Tasks)
      <4>1. queue' = queue \/ queue' = Enqueued(queue, l3)
        BY <2>4
      <4>2. Enqueued(queue, l3) \in Seq(Tasks)
        BY <2>2, <2>3, EnqueuedElements
      <4> QED BY <2>2, <4>1, <4>2
    <3>2. <<s, "L2_schedule">> \in Timers
      BY <2>1 DEF Timers
    <3> QED BY <1>2, <1>9, <2>2, <2>4, <3>1, <3>2 DEF CascadeSchedule, TaskTypes
  <2>7. DataTypes'
    <3>1. unread' \in [Sessions -> 0..1]
      BY <2>1, <2>2, <2>4
    <3> QED BY <1>2, <3>1 DEF CascadeSchedule, Types, DataTypes
  <2>8. LockTypes'
    BY <1>0, <1>2 DEF CascadeSchedule
  <2> QED BY <1>2, <2>5, <2>6, <2>7, <2>8, <2>9, IdleStep, Frame DEF CascadeSchedule, Types
<1>3. CASE BacksOff(c)
  <2>1. JobTypes' /\ JobShape'
    BY <1>3, PhaseStep DEF BacksOff, Phases, Holding
  <2>2. TaskTypes'
    BY <1>3, <1>9 DEF BacksOff, Types, TaskTypes
  <2> QED BY <1>3, <2>1, <2>2, Frame DEF BacksOff, Types
<1>4. CASE ReEnqueue(c)
  <2> DEFINE t == [co[c].task EXCEPT !.retry = @ + 1]
  <2>1. co[c].task \in Tasks /\ co[c].task.retry < MaxRetries
    BY <1>4, Before DEF ReEnqueue, Shape
  <2>2. t \in Tasks
    BY <2>1, ServiceAssumption DEF Tasks
  <2>3. queue' = Enqueued(queue, t)
    BY <1>4 DEF ReEnqueue
  <2> HIDE DEF t
  <2>4. TaskTypes'
    <3>1. queue' \in Seq(Tasks)
      BY <2>2, <2>3, EnqueuedElements DEF Types, TaskTypes
    <3> QED BY <1>4, <3>1 DEF ReEnqueue, Types, TaskTypes
  <2>5. LockTypes'
    BY <1>0, <1>4 DEF ReEnqueue
  <2> QED BY <1>4, <2>4, <2>5, IdleStep, Frame DEF ReEnqueue, Types
<1>5. CASE MoveToDeadLetter(c)
  <2>1. co[c].task.session \in Sessions
    BY <1>5, Before DEF MoveToDeadLetter
  <2>2. TaskTypes'
    BY <1>5, <1>9 DEF MoveToDeadLetter, Types, TaskTypes
  <2>3. HistoryTypes'
    BY <1>5, <2>1 DEF MoveToDeadLetter, Types, HistoryTypes
  <2>4. LockTypes'
    BY <1>0, <1>5 DEF MoveToDeadLetter
  <2> QED BY <1>5, <2>2, <2>3, <2>4, IdleStep, Frame DEF MoveToDeadLetter, Types
<1> QED BY <1>1, <1>2, <1>3, <1>4, <1>5 DEF Settles

(* what may go wrong *)
LEMMA IncidentsKeepTypes ==
  ASSUME Types, JobShape,
         \/ \E c \in Coroutines : Incidents(c)
         \/ \E k \in DOMAIN locks : LockExpires(k)
  PROVE  Types' /\ JobShape'
<1>0. ASSUME Incident
      PROVE  budget' \in [before : 0..Backlog, adds : 0..MaxAdds, flushes : Nat, failures : Nat,
               incidents : Nat]
  BY <1>0, ServiceAssumption DEF Incident, Types, HistoryTypes
<1>1. ASSUME NEW c \in Coroutines, DropAfterConflict(c)
      PROVE  Types' /\ JobShape'
  <2>1. co[c].task.session \in Sessions
    BY <1>1, Before DEF DropAfterConflict
  <2>2. HistoryTypes'
    BY <1>0, <1>1, <2>1 DEF DropAfterConflict, Types, HistoryTypes
  <2>3. TaskTypes'
    BY <1>1 DEF DropAfterConflict, Acked, Types, TaskTypes
  <2> QED BY <1>1, <2>2, <2>3, IdleStep, Frame DEF DropAfterConflict, Types
<1>2. ASSUME NEW c \in Coroutines, QuotaRefuses(c)
      PROVE  Types' /\ JobShape'
  <2>1. co[c].task.session \in Sessions
    BY <1>2, Before DEF QuotaRefuses
  <2>2. HistoryTypes'
    BY <1>0, <1>2, <2>1 DEF QuotaRefuses, Types, HistoryTypes
  <2>3. JobTypes' /\ JobShape'
    BY <1>2, PhaseStep DEF QuotaRefuses, Phases, Holding
  <2> QED BY <1>2, <2>2, <2>3, Frame DEF QuotaRefuses, Types
<1>3. ASSUME NEW c \in Coroutines, L2ComesBackEmpty(c)
      PROVE  Types' /\ JobShape'
  <2>1. co[c].task.session \in Sessions
    BY <1>3, Before DEF L2ComesBackEmpty
  <2>2. HistoryTypes'
    BY <1>0, <1>3, <2>1 DEF L2ComesBackEmpty, Types, HistoryTypes
  <2> DEFINE j == [co[c] EXCEPT !.phase = "ran", !.skipped = TRUE]
  <2>3. j \in Jobs /\ Shape(j)
    BY <1>3, Before DEF L2ComesBackEmpty, Jobs, Shape, Idle, Job, Phases, Holding
  <2>4. co' = [co EXCEPT ![c] = j]
    BY <1>3 DEF L2ComesBackEmpty
  <2> HIDE DEF j
  <2>5. JobTypes' /\ JobShape'
    BY <2>3, <2>4, JobChanges DEF Types
  <2> QED BY <1>3, <2>2, <2>5, Frame DEF L2ComesBackEmpty, Types
<1>4. ASSUME NEW c \in Coroutines, BodyThrows(c)
      PROVE  Types' /\ JobShape'
  <2>1. HistoryTypes'
    BY <1>4 DEF BodyThrows, Types, HistoryTypes
  <2>2. JobTypes' /\ JobShape'
    BY <1>4, PhaseStep DEF BodyThrows, Phases, Holding
  <2>3. DataTypes'
    BY <1>4 DEF BodyThrows, Types, DataTypes
  <2> QED BY <1>4, <2>1, <2>2, <2>3, Frame DEF BodyThrows, Types
<1>5. ASSUME NEW c \in Coroutines, RenewFails(c)
      PROVE  Types' /\ JobShape'
  <2> DEFINE j == [co[c] EXCEPT !.lost = TRUE]
  <2>1. j \in Jobs /\ Shape(j)
    BY <1>5, Before DEF RenewFails, Jobs, Shape, Idle, Job
  <2>2. co' = [co EXCEPT ![c] = j]
    BY <1>5 DEF RenewFails
  <2> HIDE DEF j
  <2>3. JobTypes' /\ JobShape'
    BY <2>1, <2>2, JobChanges DEF Types
  <2> QED BY <1>5, <2>3, Frame DEF RenewFails, Types
<1>6. ASSUME NEW c \in Coroutines, Crash(c)
      PROVE  Types' /\ JobShape'
  <2>1. co[c].task \in Tasks /\ co[c].task.session \in Sessions
    BY <1>6, Before DEF Crash
  <2>2. HistoryTypes'
    <3>1. wasted' \in Nat
      BY <1>6 DEF Crash, Types, HistoryTypes
    <3>2. excused' \subseteq Sessions
      BY <1>6, <2>1 DEF Crash, Types, HistoryTypes
    <3> QED BY <1>0, <1>6, <3>1, <3>2 DEF Crash, Types, HistoryTypes
  <2>3. TaskTypes'
    <3>1. pending' \in {pending, Acked(c)}
      BY <1>6 DEF Crash
    <3> QED BY <1>6, <3>1 DEF Crash, Acked, Types, TaskTypes
  <2>4. LockTypes'
    <3>1. locks' \in {locks, [locks EXCEPT ![LockKey(co[c].task)] = Dead], [locks EXCEPT ![LockKey(co[c].task)] = Free]}
      BY <1>6 DEF Crash
    <3> QED BY <2>1, <3>1, LockTyping DEF Types, LockTypes, Owners
  <2> QED BY <1>6, <2>2, <2>3, <2>4, IdleStep, Frame DEF Crash, Types
<1>7. ASSUME NEW k \in DOMAIN locks, LockExpires(k)
      PROVE  Types' /\ JobShape'
  <2>1. LockTypes'
    BY <1>7 DEF LockExpires, Types, LockTypes, Owners
  <2>2. HistoryTypes'
    BY <1>0, <1>7 DEF LockExpires, Types, HistoryTypes
  <2> QED BY <1>7, <2>1, <2>2, Frame DEF LockExpires, Types
<1>8. ASSUME NEW c \in Coroutines, ClaimFromLiving(c)
      PROVE  Types' /\ JobShape'
  <2>1. PICK m \in MessageIds : pending[m] # NoTask /\ Takes(c, pending[m], m)
    BY <1>8 DEF ClaimFromLiving
  <2>2. pending[m] \in Tasks
    BY <2>1 DEF Types, TaskTypes
  <2>3. LockTypes' /\ JobTypes' /\ JobShape'
    BY <2>1, <2>2, TakesKeepsTypes
  <2>4. HistoryTypes'
    BY <1>0, <1>8 DEF ClaimFromLiving, Types, HistoryTypes
  <2> QED BY <1>8, <2>3, <2>4, Frame DEF ClaimFromLiving, Types
<1> QED BY <1>1, <1>2, <1>3, <1>4, <1>5, <1>6, <1>7, <1>8 DEF Incidents

(* every step keeps the types *)
LEMMA NextTypes == Types /\ JobShape /\ [Next]_service => Types' /\ JobShape'
<1> SUFFICES ASSUME Types, JobShape, [Next]_service
             PROVE  Types' /\ JobShape'
  OBVIOUS
<1>1. CASE UNCHANGED service
  BY <1>1, Frame DEF service, data, history, Types
<1>2. CASE Next
  BY <1>2, RequestsKeepTypes, BodiesKeepTypes, SettlesKeepTypes, IncidentsKeepTypes
     DEF Next, CoroutineSteps
<1> QED BY <1>1, <1>2

-----------------------------------------------------------------------------
(* Exclusion *)

Holds(c) == co[c].phase \in Holding
Key(c) == LockKey(co[c].task)

(* while no lock ran out under its holder, whoever works on a task has the  *)
(* lock, and nobody else works under the same key: coroutines of one worker *)
(* share an owner id, so that the first half does not imply the second      *)
HoldersOwn == ~expired => \A c \in Coroutines : Holds(c) => locks[Key(c)] = Owner(c)
LockInv == HoldersOwn /\ LockExcludes

(* the five things a step does to one coroutine and to its lock *)
GoesOn(c) ==
  /\ Holds(c) /\ UNCHANGED locks
  /\ \E j \in Jobs : co' = [co EXCEPT ![c] = j] /\ j.task = co[c].task /\ j.phase \in Holding
Acquires(c) ==
  /\ ~Holds(c)
  /\ \E j \in Jobs : /\ co' = [co EXCEPT ![c] = j] /\ j.task \in Tasks
                      /\ locks[LockKey(j.task)] = Free
                      /\ locks' = [locks EXCEPT ![LockKey(j.task)] = Owner(c)]
Waits(c) ==
  /\ ~Holds(c) /\ UNCHANGED locks
  /\ \E j \in Jobs : co' = [co EXCEPT ![c] = j] /\ j.phase \notin Holding
Stops(c) ==
  /\ Holds(c) /\ co' = [co EXCEPT ![c] = Idle]
  /\ \/ UNCHANGED locks
     \/ /\ locks[Key(c)] = Owner(c)
        /\ \E o \in {Free, Dead} : locks' = [locks EXCEPT ![Key(c)] = o]
Outcome(c) == GoesOn(c) \/ Acquires(c) \/ Waits(c) \/ Stops(c)

LEMMA BodiesOutcome ==
  ASSUME Types, JobShape, NEW c \in Coroutines,
         ConsumeTask(c) \/ ClaimStale(c) \/ ClaimFromLiving(c) \/ AcquireAfterConflict(c) \/ Body(c)
  PROVE  Outcome(c) /\ UNCHANGED <<deployment, expired>>
<1>0. co[c] \in Jobs /\ co \in [Coroutines -> Jobs]
  BY DEF Types, JobTypes
<1>1. ASSUME NEW t \in Tasks, NEW m \in MessageIds \cup {NoMessage}, Takes(c, t, m), co[c].phase = "idle"
      PROVE  Outcome(c)
  <2>1. ~Holds(c)
    BY <1>1 DEF Holds, Holding
  <2>2. CASE Acquirable(c, LockKey(t))
    <3> DEFINE j == Job("running", t, m)
    <3>1. j \in Jobs /\ j.task = t
      BY FreshJobs DEF Idle, Job
    <3>2. co' = [co EXCEPT ![c] = j] /\ locks' = [locks EXCEPT ![LockKey(t)] = Owner(c)]
      BY <1>1, <2>2 DEF Takes
    <3> HIDE DEF j
    <3> QED BY <2>1, <2>2, <3>1, <3>2 DEF Outcome, Acquires, Acquirable
  <2>3. CASE ~Acquirable(c, LockKey(t))
    <3> DEFINE j == Job("waiting", t, m)
    <3>1. j \in Jobs /\ j.phase \notin Holding
      BY FreshJobs DEF Idle, Job, Holding
    <3>2. co' = [co EXCEPT ![c] = j] /\ UNCHANGED locks
      BY <1>1, <2>3 DEF Takes
    <3> HIDE DEF j
    <3> QED BY <2>1, <3>1, <3>2 DEF Outcome, Waits
  <2> QED BY <2>2, <2>3
<1>2. CASE ConsumeTask(c)
  <2>1. Head(queue) \in Tasks
    BY <1>2, HeadTailProperties DEF ConsumeTask, Types, TaskTypes
  <2>2. \E m \in MessageIds \cup {NoMessage} : Takes(c, Head(queue), m)
    BY <1>2 DEF ConsumeTask, Fresh
  <2>3. Outcome(c)
    BY <1>1, <1>2, <2>1, <2>2 DEF ConsumeTask
  <2> QED BY <1>2, <2>3 DEF ConsumeTask, history
<1>3. CASE ClaimStale(c) \/ ClaimFromLiving(c)
  <2>1. PICK m \in MessageIds : pending[m] # NoTask /\ Takes(c, pending[m], m)
    BY <1>3 DEF ClaimStale, ClaimFromLiving
  <2>2. pending[m] \in Tasks
    BY <2>1 DEF Types, TaskTypes
  <2>3. Outcome(c)
    BY <1>1, <1>3, <2>1, <2>2 DEF ClaimStale, ClaimFromLiving
  <2> QED BY <1>3, <2>3 DEF ClaimStale, ClaimFromLiving, history
<1>4. CASE AcquireAfterConflict(c)
  <2> DEFINE j == [co[c] EXCEPT !.phase = "running"]
  <2>1. j \in Jobs /\ j.task = co[c].task /\ j.task \in Tasks
    BY <1>0, <1>4, Before DEF AcquireAfterConflict, Jobs, Phases, Holding
  <2>2. co' = [co EXCEPT ![c] = j]
    BY <1>4 DEF AcquireAfterConflict
  <2> HIDE DEF j
  <2>3. Acquires(c)
    BY <1>4, <2>1, <2>2 DEF AcquireAfterConflict, Acquires, Acquirable, Holds, Holding
  <2> QED BY <1>4, <2>3 DEF AcquireAfterConflict, Outcome, history
<1>5. CASE Body(c)
  <2>1. Holds(c) /\ UNCHANGED <<locks, deployment, expired>>
    BY <1>5 DEF Body, L1SkipsProcessed, BodyReads, L1Finds, L1Commits, L2Writes, L3Writes, FlushRuns,
                Holds, Holding, history
  <2>2. \E j \in Jobs : co' = [co EXCEPT ![c] = j] /\ j.task = co[c].task /\ j.phase \in Holding
    <3> DEFINE j == co'[c]
    <3>1. co' = [co EXCEPT ![c] = j]
      BY <1>0, <1>5 DEF Body, L1SkipsProcessed, BodyReads, L1Finds, L1Commits, L2Writes, L3Writes, FlushRuns
    <3>2. j \in Jobs
      BY <1>5, BodiesKeepTypes DEF Types, JobTypes
    <3>3. j.task = co[c].task /\ j.phase \in Holding
      <4>1. CASE L1SkipsProcessed(c)
        BY <1>0, <4>1 DEF L1SkipsProcessed, Jobs, Holding
      <4>2. CASE BodyReads(c)
        BY <1>0, <4>2 DEF BodyReads, Jobs, Holding
      <4>3. CASE L1Finds(c)
        BY <1>0, <4>3 DEF L1Finds, Jobs, Holding
      <4>4. CASE L1Commits(c)
        BY <1>0, <4>4 DEF L1Commits, Jobs, Holding
      <4>5. CASE L2Writes(c)
        BY <1>0, <4>5 DEF L2Writes, Jobs, Holding
      <4>6. CASE L3Writes(c)
        BY <1>0, <4>6 DEF L3Writes, Jobs, Holding
      <4>7. CASE FlushRuns(c)
        BY <1>0, <4>7 DEF FlushRuns, Jobs, Holding
      <4> QED BY <1>5, <4>1, <4>2, <4>3, <4>4, <4>5, <4>6, <4>7 DEF Body
    <3> HIDE DEF j
    <3> QED BY <3>1, <3>2, <3>3
  <2> QED BY <2>1, <2>2 DEF Outcome, GoesOn
<1> QED BY <1>2, <1>3, <1>4, <1>5

(* a finally block leaves the lock to the next one, if it is still its own *)
LEMMA ReleaseStops ==
  ASSUME Types, NEW c \in Coroutines, Holds(c), co' = [co EXCEPT ![c] = Idle], locks' = Released(c)
  PROVE  Outcome(c)
BY DEF Outcome, Stops, Released, Key

LEMMA OthersOutcome ==
  ASSUME Types, JobShape, NEW c \in Coroutines, Settles(c) \/ Incidents(c)
  PROVE  Outcome(c) /\ UNCHANGED <<deployment, expired>>
<1>0. co[c] \in Jobs /\ co \in [Coroutines -> Jobs]
  BY DEF Types, JobTypes
<1>1. CASE LeavesUnacked(c) \/ CascadeSchedule(c) \/ ReEnqueue(c) \/ MoveToDeadLetter(c)
  <2>1. Holds(c) /\ co' = [co EXCEPT ![c] = Idle] /\ locks' = Released(c) /\ UNCHANGED <<deployment, expired>>
    BY <1>1 DEF LeavesUnacked, CascadeSchedule, ReEnqueue, MoveToDeadLetter, Holds, Holding, history
  <2> QED BY <2>1, ReleaseStops
<1>2. CASE BacksOff(c) \/ QuotaRefuses(c) \/ L2ComesBackEmpty(c) \/ BodyThrows(c) \/ RenewFails(c)
  <2>1. Holds(c) /\ UNCHANGED <<locks, deployment, expired>>
    BY <1>2 DEF BacksOff, QuotaRefuses, L2ComesBackEmpty, BodyThrows, RenewFails, Holds, Holding, history
  <2> DEFINE j == co'[c]
  <2>2. co' = [co EXCEPT ![c] = j]
    BY <1>0, <1>2 DEF BacksOff, QuotaRefuses, L2ComesBackEmpty, BodyThrows, RenewFails
  <2>3. j \in Jobs
    BY <1>2, SettlesKeepTypes, IncidentsKeepTypes DEF Settles, Incidents, Types, JobTypes
  <2>4. j.task = co[c].task /\ j.phase \in Holding
    <3>1. CASE BacksOff(c)
      BY <1>0, <3>1 DEF BacksOff, Jobs, Holding
    <3>2. CASE QuotaRefuses(c)
      BY <1>0, <3>2 DEF QuotaRefuses, Jobs, Holding
    <3>3. CASE L2ComesBackEmpty(c)
      BY <1>0, <3>3 DEF L2ComesBackEmpty, Jobs, Holding
    <3>4. CASE BodyThrows(c)
      BY <1>0, <3>4 DEF BodyThrows, Jobs, Holding
    <3>5. CASE RenewFails(c)
      BY <1>0, <3>5 DEF RenewFails, Jobs, Holding
    <3> QED BY <1>2, <3>1, <3>2, <3>3, <3>4, <3>5
  <2> HIDE DEF j
  <2> QED BY <2>1, <2>2, <2>3, <2>4 DEF Outcome, GoesOn
<1>3. CASE DropAfterConflict(c)
  <2>1. ~Holds(c) /\ Idle \in Jobs /\ Idle.phase \notin Holding
    BY <1>3, FreshJobs DEF DropAfterConflict, Holds, Holding, Idle, Job
  <2> QED BY <1>3, <2>1 DEF DropAfterConflict, Outcome, Waits
<1>4. CASE Crash(c)
  <2>1. CASE Holds(c)
    BY <1>4, <2>1 DEF Crash, Outcome, Stops, Key
  <2>2. CASE ~Holds(c)
    <3>1. co[c].phase = "waiting"
      BY <1>0, <1>4, <2>2 DEF Crash, Holds, Jobs, Phases
    <3>2. locks' = locks /\ Idle \in Jobs /\ Idle.phase \notin Holding
      BY <1>4, <3>1, FreshJobs DEF Crash, Idle, Job, Holding
    <3> QED BY <1>4, <2>2, <3>2 DEF Crash, Outcome, Waits
  <2> QED BY <2>1, <2>2
<1> QED BY <1>1, <1>2, <1>3, <1>4, BodiesOutcome DEF Settles, Incidents

(* whatever becomes of one coroutine, the locks exclude the others from what *)
(* the rest work on                                                          *)
LEMMA OutcomeKeepsLocks ==
  ASSUME Types, JobShape, LockInv, NEW c \in Coroutines, Outcome(c), UNCHANGED <<deployment, expired>>
  PROVE  LockInv'
<1> SUFFICES ASSUME ~expired PROVE LockInv'
  BY DEF LockInv, HoldersOwn, LockExcludes
<1>0. /\ co \in [Coroutines -> Jobs] /\ locks \in [Sessions \cup {Instance} -> Owners]
      /\ \A d \in Coroutines : Owner(d)' = Owner(d) /\ Owner(d) \notin {Free, Dead}
  BY ServiceAssumption DEF Types, JobTypes, LockTypes, Owner, Shared, Free, Dead, Worker
<1>1. /\ \A d \in Coroutines : Holds(d) => locks[Key(d)] = Owner(d)
      /\ \A d, e \in Coroutines : d # e /\ Holds(d) /\ Holds(e) => Key(d) # Key(e)
  BY DEF LockInv, HoldersOwn, LockExcludes, Holds, Key
<1>2. SUFFICES /\ \A d \in Coroutines : Holds(d)' => locks'[Key(d)'] = Owner(d)
               /\ \A d, e \in Coroutines : d # e /\ Holds(d)' /\ Holds(e)' => Key(d)' # Key(e)'
  BY <1>0 DEF LockInv, HoldersOwn, LockExcludes, Holds, Key
<1>3. \A d \in Coroutines : Holds(d) => Key(d) \in Sessions \cup {Instance}
  BY Before, LockTyping DEF Holds, Key, Holding
<1>4. ASSUME NEW j, co' = [co EXCEPT ![c] = j]
      PROVE  /\ Holds(c)' <=> j.phase \in Holding
             /\ Key(c)' = LockKey(j.task)
             /\ \A d \in Coroutines : d # c => (Holds(d)' <=> Holds(d)) /\ Key(d)' = Key(d)
  BY <1>0, <1>4 DEF Holds, Key
<1>5. CASE GoesOn(c)
  <2>1. PICK j \in Jobs : co' = [co EXCEPT ![c] = j] /\ j.task = co[c].task /\ j.phase \in Holding
    BY <1>5 DEF GoesOn
  <2>2. locks' = locks /\ Holds(c) /\ Key(c)' = Key(c)
    BY <1>4, <1>5, <2>1 DEF GoesOn, Key
  <2>3. \A d \in Coroutines : Holds(d)' => Holds(d) /\ Key(d)' = Key(d)
    BY <1>4, <2>1, <2>2
  <2> QED BY <1>1, <2>2, <2>3
<1>6. CASE Acquires(c)
  <2>1. PICK j \in Jobs : /\ co' = [co EXCEPT ![c] = j] /\ j.task \in Tasks
                          /\ locks[LockKey(j.task)] = Free
                          /\ locks' = [locks EXCEPT ![LockKey(j.task)] = Owner(c)]
    BY <1>6 DEF Acquires
  <2>2. LockKey(j.task) \in Sessions \cup {Instance}
    BY <2>1, LockTyping
  <2> DEFINE k == LockKey(j.task)
  <2>3. \A d \in Coroutines : d # c /\ Holds(d) => Key(d) # k
    BY <1>0, <1>1, <2>1
  <2>4. Key(c)' = k
    BY <1>4, <2>1
  <2>5. \A d \in Coroutines : d # c /\ Holds(d)' => Holds(d) /\ Key(d)' = Key(d)
    BY <1>4, <2>1
  <2>6. locks'[k] = Owner(c) /\ locks' = [locks EXCEPT ![k] = Owner(c)]
    BY <1>0, <2>1, <2>2
  <2> HIDE DEF k
  <2>7. \A d \in Coroutines : Holds(d)' => locks'[Key(d)'] = Owner(d)
    BY <1>0, <1>1, <1>3, <2>3, <2>4, <2>5, <2>6
  <2> QED BY <1>1, <2>3, <2>4, <2>5, <2>7
<1>7. CASE Waits(c)
  <2>1. PICK j \in Jobs : co' = [co EXCEPT ![c] = j] /\ j.phase \notin Holding
    BY <1>7 DEF Waits
  <2> QED BY <1>1, <1>4, <1>7, <2>1 DEF Waits
<1>8. CASE Stops(c)
  <2>1. co' = [co EXCEPT ![c] = Idle] /\ Idle.phase \notin Holding /\ Holds(c)
    BY <1>8 DEF Stops, Idle, Job, Holding
  <2>2. \A d \in Coroutines : d # c /\ Holds(d) => locks'[Key(d)] = locks[Key(d)]
    BY <1>0, <1>1, <1>8, <1>3, <2>1 DEF Stops
  <2>3. \A d \in Coroutines : Holds(d)' => d # c /\ Holds(d) /\ Key(d)' = Key(d)
    BY <1>4, <2>1
  <2> QED BY <1>1, <2>2, <2>3
<1> QED BY <1>5, <1>6, <1>7, <1>8 DEF Outcome

LEMMA NextLocks == Types /\ JobShape /\ LockInv /\ [Next]_service => LockInv'
<1> SUFFICES ASSUME Types, JobShape, LockInv, [Next]_service
             PROVE  LockInv'
  OBVIOUS
<1>1. ASSUME UNCHANGED <<deployment, locks, co, expired>>
      PROVE  LockInv'
  BY <1>1 DEF LockInv, HoldersOwn, LockExcludes, Holds, Key, Owner, Shared
<1>2. ASSUME NEW k \in DOMAIN locks, LockExpires(k)
      PROVE  LockInv'
  <2>1. CASE expired'
    BY <2>1 DEF LockInv, HoldersOwn, LockExcludes
  <2>2. CASE ~expired'
    <3>1. ~expired /\ locks[k] = Dead /\ locks' = [locks EXCEPT ![k] = Free] /\ UNCHANGED <<co, deployment>>
      BY <1>2, <2>2 DEF LockExpires
    <3>2. \A d \in Coroutines : Owner(d)' = Owner(d) /\ Owner(d) # Dead
      BY <3>1, ServiceAssumption DEF Owner, Shared, Dead, Worker
    <3>3. \A d \in Coroutines : Holds(d) => locks'[Key(d)] = Owner(d)
      BY <3>1, <3>2 DEF LockInv, HoldersOwn, Types, LockTypes
    <3> QED BY <2>2, <3>1, <3>2, <3>3 DEF LockInv, HoldersOwn, LockExcludes, Holds, Key
  <2> QED BY <2>1, <2>2
<1>3. ASSUME NEW r \in Clients, NEW s \in Sessions, AddsAndReads(r, s)
      PROVE  LockInv'
  BY <1>1, <1>3 DEF AddsAndReads
<1>4. ASSUME NEW r \in Clients, RequestSteps(r)
      PROVE  LockInv'
  BY <1>1, <1>4 DEF RequestSteps, CaptureAtomic, AdvanceWarmup, history
<1>5. ASSUME NEW s \in Sessions, FlushSession(s)
      PROVE  LockInv'
  BY <1>1, <1>5 DEF FlushSession
<1>6. ASSUME NEW tm \in Timers, LocalTimerFires(tm[1], tm[2]) \/ Scan(tm[1], tm[2])
      PROVE  LockInv'
  BY <1>1, <1>6 DEF LocalTimerFires, Scan, history
<1>7. ASSUME NEW c \in Coroutines, CoroutineSteps(c) \/ Incidents(c)
      PROVE  LockInv'
  BY <1>7, BodiesOutcome, OthersOutcome, OutcomeKeepsLocks DEF CoroutineSteps
<1>8. CASE UNCHANGED service
  BY <1>1, <1>8 DEF service
<1> QED BY <1>2, <1>3, <1>4, <1>5, <1>6, <1>7, <1>8 DEF Next
-----------------------------------------------------------------------------
(* Rows, cursors and counts *)

Extracting(c) == co[c].phase \in {"working", "stored"} /\ co[c].task.type = "L1"

(* the bound on additions bounds the rows, no cursor is ahead of them, and  *)
(* an L1 body has read a stretch of rows that exist                         *)
RowInv ==
  /\ \A s \in Sessions : cursor[s] <= rows[s] /\ rows[s] + budget.adds <= MaxRows
  /\ \A c \in Coroutines :
       Extracting(c) => /\ co[c].from <= co[c].seen /\ co[c].seen <= rows[co[c].task.session]
                        /\ co[c].phase = "stored" => co[c].seen > co[c].from

(* rows are added by requests only, and cursors moved by L1 commits only *)
LEMMA WhoMovesRows ==
  ASSUME Types, [Next]_service
  PROVE  /\ \/ rows' = rows /\ budget'.adds = budget.adds
            \/ \E r \in Clients, s \in Sessions : AddsAndReads(r, s)
         /\ \/ cursor' = cursor
            \/ \E c \in Coroutines : L1Commits(c)
<1>0. /\ Incident => budget'.adds = budget.adds
      /\ \A s \in Sessions : FlushSession(s) => budget'.adds = budget.adds
      /\ \A c \in Coroutines : BodyThrows(c) => budget'.adds = budget.adds
  BY DEF Incident, FlushSession, BodyThrows, Types, HistoryTypes
<1>1. CASE UNCHANGED service
  BY <1>1 DEF service
<1>2. ASSUME NEW r \in Clients, NEW s \in Sessions, AddsAndReads(r, s)
      PROVE  cursor' = cursor
  BY <1>2 DEF AddsAndReads
<1>3. ASSUME \/ \E r \in Clients : RequestSteps(r)
             \/ \E s \in Sessions : FlushSession(s)
             \/ \E tm \in Timers : LocalTimerFires(tm[1], tm[2]) \/ Scan(tm[1], tm[2])
             \/ \E k \in DOMAIN locks : LockExpires(k)
      PROVE  rows' = rows /\ budget'.adds = budget.adds /\ cursor' = cursor
  <2>1. rows' = rows /\ cursor' = cursor
    BY <1>3 DEF RequestSteps, CaptureAtomic, AdvanceWarmup, FlushSession, LocalTimerFires, Scan,
                LockExpires, data
  <2>2. CASE \E s \in Sessions : FlushSession(s)
    BY <1>0, <2>1, <2>2
  <2>3. CASE \E k \in DOMAIN locks : LockExpires(k)
    BY <1>0, <2>1, <2>3 DEF LockExpires
  <2> QED BY <1>3, <2>1, <2>2, <2>3 DEF RequestSteps, CaptureAtomic, AdvanceWarmup, LocalTimerFires, Scan, history
<1>4. ASSUME NEW c \in Coroutines, CoroutineSteps(c), ~L1Commits(c)
      PROVE  rows' = rows /\ budget' = budget /\ cursor' = cursor
  BY <1>4 DEF CoroutineSteps, ConsumeTask, ClaimStale, AcquireAfterConflict, Body, L1SkipsProcessed,
              BodyReads, L1Finds, L2Writes, L3Writes, FlushRuns, Settles, LeavesUnacked, CascadeSchedule,
              BacksOff, ReEnqueue, MoveToDeadLetter, data, history
<1>5. ASSUME NEW c \in Coroutines, L1Commits(c)
      PROVE  rows' = rows /\ budget' = budget
  BY <1>5 DEF L1Commits, history
<1>6. ASSUME NEW c \in Coroutines, Incidents(c)
      PROVE  rows' = rows /\ budget'.adds = budget.adds /\ cursor' = cursor
  <2>1. rows' = rows /\ cursor' = cursor
    BY <1>6 DEF Incidents, ClaimFromLiving, DropAfterConflict, QuotaRefuses, L2ComesBackEmpty, BodyThrows, RenewFails, Crash, data
  <2>2. budget'.adds = budget.adds
    BY <1>0, <1>6 DEF Incidents, ClaimFromLiving, DropAfterConflict, QuotaRefuses, L2ComesBackEmpty, RenewFails, Crash, history
  <2> QED BY <2>1, <2>2
<1> QED BY <1>1, <1>2, <1>3, <1>4, <1>5, <1>6 DEF Next

(* a step of a coroutine leaves the others alone *)
LEMMA OthersStay ==
  ASSUME Types, JobShape, NEW c \in Coroutines, CoroutineSteps(c) \/ Incidents(c)
  PROVE  \A d \in Coroutines : d # c => co'[d] = co[d]
<1>1. Outcome(c)
  BY BodiesOutcome, OthersOutcome DEF CoroutineSteps
<1>2. PICK j : co' = [co EXCEPT ![c] = j]
  BY <1>1 DEF Outcome, GoesOn, Acquires, Waits, Stops
<1> QED BY <1>2 DEF Types, JobTypes

(* a step changes the job of at most one coroutine, and that one takes it *)
LEMMA OneCoroutineSteps ==
  ASSUME Types, JobShape, [Next]_service
  PROVE  \/ co' = co
         \/ \E c \in Coroutines : /\ CoroutineSteps(c) \/ Incidents(c)
                                  /\ \A d \in Coroutines : d # c => co'[d] = co[d]
<1>1. ASSUME \/ \E r \in Clients, s \in Sessions : AddsAndReads(r, s)
             \/ \E r \in Clients : RequestSteps(r)
             \/ \E s \in Sessions : FlushSession(s)
             \/ \E tm \in Timers : LocalTimerFires(tm[1], tm[2]) \/ Scan(tm[1], tm[2])
             \/ \E k \in DOMAIN locks : LockExpires(k)
      PROVE  co' = co
  BY <1>1 DEF AddsAndReads, RequestSteps, CaptureAtomic, AdvanceWarmup, FlushSession, LocalTimerFires,
              Scan, LockExpires
<1> QED BY <1>1, OthersStay DEF Next, service

(* how an extraction starts and goes on *)
LEMMA ExtractionSteps ==
  ASSUME Types, JobShape, [Next]_service, NEW d \in Coroutines, Extracting(d)'
  PROVE  \/ BodyReads(d)
         \/ /\ Extracting(d) /\ co'[d].task = co[d].task
            /\ co'[d].from = co[d].from /\ co'[d].seen = co[d].seen
            /\ co'[d].phase = co[d].phase \/ (L1Finds(d) /\ co'[d].phase = "stored")
<1>0. co[d] \in Jobs /\ co \in [Coroutines -> Jobs]
  BY DEF Types, JobTypes
<1>1. CASE co'[d] = co[d]
  <2>1. Extracting(d)
    BY <1>1 DEF Extracting
  <2>2. /\ co'[d].task = co[d].task /\ co'[d].from = co[d].from
        /\ co'[d].seen = co[d].seen /\ co'[d].phase = co[d].phase
    BY <1>1
  <2> QED BY <2>1, <2>2
<1>2. CASE CoroutineSteps(d) \/ Incidents(d)
  <2>1. ~ConsumeTask(d) /\ ~ClaimStale(d) /\ ~ClaimFromLiving(d)
    BY <1>0 DEF ConsumeTask, ClaimStale, ClaimFromLiving, Takes, Extracting, Idle, Job
  <2>2. ~AcquireAfterConflict(d) /\ ~L1SkipsProcessed(d) /\ ~L1Commits(d) /\ ~L2Writes(d) /\ ~L3Writes(d) /\ ~FlushRuns(d)
    <3>1. ~AcquireAfterConflict(d) /\ ~L1SkipsProcessed(d)
      BY <1>0 DEF AcquireAfterConflict, L1SkipsProcessed, Extracting, Jobs
    <3>2. ~L1Commits(d)
      <4> SUFFICES ASSUME L1Commits(d) PROVE FALSE
        OBVIOUS
      <4>1. co' = [co EXCEPT ![d].phase = "ran"]
        BY DEF L1Commits
      <4>2. co'[d].phase = "ran"
        BY <1>0, <4>1 DEF Jobs
      <4> QED BY <4>2 DEF Extracting
    <3>3. ~L2Writes(d)
      BY <1>0 DEF L2Writes, Extracting, Jobs
    <3>4. ~L3Writes(d) /\ ~FlushRuns(d)
      BY <1>0 DEF L3Writes, FlushRuns, Extracting, Jobs
    <3> QED BY <3>1, <3>2, <3>3, <3>4
  <2>3. ~Settles(d)
    BY <1>0 DEF Settles, LeavesUnacked, CascadeSchedule, BacksOff, ReEnqueue, MoveToDeadLetter, Extracting, Jobs, Idle, Job
  <2>4. ~DropAfterConflict(d) /\ ~QuotaRefuses(d) /\ ~L2ComesBackEmpty(d) /\ ~BodyThrows(d) /\ ~Crash(d)
    <3>1. ~DropAfterConflict(d) /\ ~Crash(d)
      BY <1>0 DEF DropAfterConflict, Crash, Extracting, Idle, Job
    <3>2. ~QuotaRefuses(d) /\ ~BodyThrows(d)
      BY <1>0 DEF QuotaRefuses, BodyThrows, Extracting, Jobs
    <3>3. ~L2ComesBackEmpty(d)
      BY <1>0 DEF L2ComesBackEmpty, Extracting, Jobs
    <3> QED BY <3>1, <3>2, <3>3
  <2>5. CASE L1Finds(d)
    BY <1>0, <2>5 DEF L1Finds, Extracting, Jobs
  <2>6. CASE RenewFails(d)
    <3>1. co'[d] = [co[d] EXCEPT !.lost = TRUE]
      BY <1>0, <2>6 DEF RenewFails
    <3>2. /\ co'[d].task = co[d].task /\ co'[d].from = co[d].from
          /\ co'[d].seen = co[d].seen /\ co'[d].phase = co[d].phase
      BY <1>0, <3>1 DEF Jobs
    <3>3. Extracting(d)
      BY <3>2 DEF Extracting
    <3> QED BY <3>2, <3>3
  <2> QED BY <1>2, <2>1, <2>2, <2>3, <2>4, <2>5, <2>6 DEF CoroutineSteps, Body, Incidents
<1> QED BY <1>1, <1>2, OneCoroutineSteps

LEMMA NextRows == Types /\ JobShape /\ RowInv /\ [Next]_service => RowInv'
<1> SUFFICES ASSUME Types, JobShape, RowInv, [Next]_service
             PROVE  RowInv'
  OBVIOUS
<1>0. /\ rows \in [Sessions -> Nat] /\ cursor \in [Sessions -> Nat] /\ co \in [Coroutines -> Jobs]
      /\ budget.adds \in Nat /\ MaxRows \in Nat /\ BatchN \in Nat
      /\ rows' \in [Sessions -> Nat] /\ cursor' \in [Sessions -> Nat]
  <2>1. rows \in [Sessions -> Nat] /\ cursor \in [Sessions -> Nat] /\ co \in [Coroutines -> Jobs]
    BY DEF Types, DataTypes, JobTypes
  <2>2. MaxRows \in Nat /\ BatchN \in Nat /\ MaxAdds \in Nat
    BY ServiceAssumption DEF MaxRows
  <2>3. budget.adds \in Nat
    BY <2>2 DEF Types, HistoryTypes
  <2>4. rows' \in [Sessions -> Nat] /\ cursor' \in [Sessions -> Nat]
    BY NextTypes DEF Types, DataTypes
  <2> QED BY <2>1, <2>2, <2>3, <2>4
<1>1. \A s \in Sessions : rows'[s] >= rows[s] /\ rows'[s] + budget'.adds <= MaxRows
  <2>1. CASE rows' = rows /\ budget'.adds = budget.adds
    BY <1>0, <2>1 DEF RowInv
  <2>2. ASSUME NEW r \in Clients, NEW s \in Sessions, AddsAndReads(r, s)
        PROVE  \A z \in Sessions : rows'[z] >= rows[z] /\ rows'[z] + budget'.adds <= MaxRows
    <3>1. rows' = [rows EXCEPT ![s] = @ + 1] /\ budget'.adds = budget.adds - 1 /\ budget.adds > 0
      BY <2>2 DEF AddsAndReads, Types, HistoryTypes
    <3> QED BY <1>0, <3>1 DEF RowInv
  <2> QED BY <2>1, <2>2, WhoMovesRows
<1>2. \A s \in Sessions : cursor'[s] <= rows'[s]
  <2>1. ASSUME NEW c \in Coroutines, L1Commits(c)
        PROVE  \A s \in Sessions : cursor'[s] <= rows[s]
    <3>1. Extracting(c) /\ co[c].task.session \in Sessions /\ co[c] \in Jobs
      BY <2>1, Before DEF L1Commits, Extracting, Shape
    <3>2. Upto(c) \in Nat /\ Upto(c) <= rows[co[c].task.session]
      BY <1>0, <3>1 DEF RowInv, Upto, Smaller, Jobs
    <3>3. cursor' = [cursor EXCEPT ![co[c].task.session] = Upto(c)]
      BY <2>1 DEF L1Commits, NextCursor
    <3> QED BY <1>0, <3>1, <3>2, <3>3 DEF RowInv
  <2>2. \A s \in Sessions : cursor'[s] <= rows[s]
    BY <2>1, WhoMovesRows DEF RowInv
  <2> QED BY <1>0, <1>1, <2>2
<1>3. ASSUME NEW d \in Coroutines, Extracting(d)'
      PROVE  /\ co'[d].from <= co'[d].seen /\ co'[d].seen <= rows'[co'[d].task.session]
             /\ co'[d].phase = "stored" => co'[d].seen > co'[d].from
  <2>1. CASE BodyReads(d)
    <3> DEFINE s == co[d].task.session
    <3>1. co[d] \in Jobs /\ s \in Sessions /\ co'[d].task = co[d].task /\ co'[d].phase = "working" /\ rows' = rows
      BY <1>0, <2>1, Before DEF BodyReads, Jobs, data
    <3>2. co[d].task.type = "L1"
      BY <1>3, <3>1 DEF Extracting
    <3>3. co'[d].from = cursor[s] /\ co'[d].seen = Smaller(rows[s], cursor[s] + 2 * BatchN)
      BY <1>0, <2>1, <3>1, <3>2 DEF BodyReads, Jobs
    <3>4. rows[s] \in Nat /\ cursor[s] \in Nat /\ cursor[s] <= rows[s]
      BY <1>0, <3>1 DEF RowInv
    <3> QED BY <1>0, <3>1, <3>3, <3>4 DEF Smaller
  <2>2. CASE /\ Extracting(d) /\ co'[d].task = co[d].task
             /\ co'[d].from = co[d].from /\ co'[d].seen = co[d].seen
             /\ co'[d].phase = co[d].phase \/ (L1Finds(d) /\ co'[d].phase = "stored")
    <3>1. co[d] \in Jobs /\ co[d].task.session \in Sessions
      BY <2>2, Before DEF Extracting
    <3>2. co[d].from <= co[d].seen /\ co[d].seen <= rows[co[d].task.session]
      BY <2>2 DEF RowInv
    <3>3. rows'[co[d].task.session] \in Nat /\ rows[co[d].task.session] \in Nat
      BY <1>0, <3>1
    <3>4. co'[d].phase = "stored" => co[d].seen > co[d].from
      <4>1. CASE co'[d].phase = co[d].phase
        BY <2>2, <4>1 DEF RowInv
      <4>2. CASE L1Finds(d)
        <5>1. co'[d].phase = IF co[d].seen > co[d].from THEN "stored" ELSE "ran"
          BY <1>0, <4>2 DEF L1Finds, Jobs
        <5> QED BY <5>1
      <4> QED BY <2>2, <4>1, <4>2
    <3> QED BY <1>1, <2>2, <3>1, <3>2, <3>3, <3>4 DEF Jobs
  <2> QED BY <1>3, <2>1, <2>2, ExtractionSteps
<1> QED BY <1>1, <1>2, <1>3 DEF RowInv, Extracting

(* what is counted, and what is about to be, has a row *)
Readers(s) == {r \in Clients : req[r].phase = "read" /\ req[r].session = s}
CountInv == \A s \in Sessions : st[s].count + Cardinality(Readers(s)) <= rows[s]

(* the count of an updated session, and of the others *)
LEMMA CountsAfter ==
  ASSUME StateTypes, NEW s \in Sessions, NEW n \in Nat, NEW w,
         \/ st' = [st EXCEPT ![s] = [@ EXCEPT !.exists = TRUE, !.count = n]]
         \/ st' = [st EXCEPT ![s] = [@ EXCEPT !.warm = w, !.count = n]]
  PROVE  st'[s].count = n /\ \A z \in Sessions : z # s => st'[z] = st[z]
<1>1. st \in [Sessions -> States] /\ st[s] \in States
  BY DEF StateTypes
<1>2. /\ [st[s] EXCEPT !.exists = TRUE, !.count = n].count = n
      /\ [st[s] EXCEPT !.warm = w, !.count = n].count = n
  BY <1>1 DEF States
<1>3. \/ st'[s] = [st[s] EXCEPT !.exists = TRUE, !.count = n]
      \/ st'[s] = [st[s] EXCEPT !.warm = w, !.count = n]
  BY <1>1
<1>4. \A z \in Sessions : z # s => st'[z] = st[z]
  BY <1>1
<1> QED BY <1>2, <1>3, <1>4

(* coroutines, timers and session ends count nothing *)
LEMMA OthersCountNothing ==
  ASSUME Types, JobShape, [Next]_service,
         ~ \E r \in Clients, s \in Sessions : AddsAndReads(r, s),
         ~ \E r \in Clients : RequestSteps(r)
  PROVE  req' = req /\ \A s \in Sessions : st'[s].count \in Nat /\ st'[s].count <= st[s].count
<1>0. st \in [Sessions -> States] /\ \A s \in Sessions : st[s].count \in Nat
  BY DEF Types, StateTypes, States
<1>1. ASSUME NEW c \in Coroutines, CascadeSchedule(c)
      PROVE  req' = req /\ \A s \in Sessions : st'[s].count \in Nat /\ st'[s].count <= st[s].count
  <2> DEFINE z == co[c].task.session
  <2>1. /\ req' = req
        /\ st' \in {st, [st EXCEPT ![z] = [@ EXCEPT !.exists = TRUE]],
                    [st EXCEPT ![z] = [@ EXCEPT !.exists = TRUE, !.count = 0]]}
    BY <1>1 DEF CascadeSchedule, CascadeFrom
  <2>2. z \in Sessions
    BY <1>1, Before DEF CascadeSchedule
  <2>3. CASE st' = st
    BY <1>0, <2>1, <2>3
  <2>4. CASE st' = [st EXCEPT ![z] = [@ EXCEPT !.exists = TRUE]]
    <3>1. st'[z] = [st[z] EXCEPT !.exists = TRUE] /\ \A s \in Sessions : s # z => st'[s] = st[s]
      BY <1>0, <2>2, <2>4
    <3>2. [st[z] EXCEPT !.exists = TRUE].count = st[z].count
      BY <1>0, <2>2 DEF States
    <3>3. \A s \in Sessions : st'[s].count = st[s].count
      BY <3>1, <3>2
    <3> QED BY <1>0, <2>1, <3>3
  <2>5. CASE st' = [st EXCEPT ![z] = [@ EXCEPT !.exists = TRUE, !.count = 0]]
    <3>1. st'[z].count = 0 /\ \A s \in Sessions : s # z => st'[s] = st[s]
      BY <2>2, <2>5, CountsAfter DEF Types
    <3> QED BY <1>0, <2>1, <3>1
  <2> QED BY <2>1, <2>3, <2>4, <2>5
<1>2. ASSUME \/ \E s \in Sessions : FlushSession(s)
             \/ \E tm \in Timers : LocalTimerFires(tm[1], tm[2]) \/ Scan(tm[1], tm[2])
             \/ \E k \in DOMAIN locks : LockExpires(k)
             \/ UNCHANGED service
      PROVE  req' = req /\ st' = st
  BY <1>2 DEF FlushSession, LocalTimerFires, Scan, LockExpires, service
<1>3. ASSUME NEW c \in Coroutines, CoroutineSteps(c), ~CascadeSchedule(c)
      PROVE  req' = req /\ st' = st
  BY <1>3 DEF CoroutineSteps, ConsumeTask, ClaimStale, AcquireAfterConflict, Body, L1SkipsProcessed,
              BodyReads, L1Finds, L1Commits, L2Writes, L3Writes, FlushRuns, Settles, LeavesUnacked,
              BacksOff, ReEnqueue, MoveToDeadLetter
<1>4. ASSUME NEW c \in Coroutines, Incidents(c)
      PROVE  req' = req /\ st' = st
  BY <1>4 DEF Incidents, ClaimFromLiving, DropAfterConflict, QuotaRefuses, L2ComesBackEmpty, BodyThrows, RenewFails, Crash
<1>5. CASE req' = req /\ st' = st
  BY <1>0, <1>5
<1> QED BY <1>1, <1>2, <1>3, <1>4, <1>5 DEF Next

LEMMA NextCounts == Types /\ JobShape /\ CountInv /\ [Next]_service => CountInv'
<1> SUFFICES ASSUME Types, JobShape, CountInv, [Next]_service
             PROVE  CountInv'
  OBVIOUS
<1>0. /\ \A s \in Sessions : st[s].count \in Nat /\ rows[s] \in Nat
      /\ req \in [Clients -> Requests] /\ rows \in [Sessions -> Nat] /\ st \in [Sessions -> States]
  BY DEF Types, StateTypes, States, DataTypes, RequestTypes
<1>1. \A s \in Sessions : IsFiniteSet(Readers(s)) /\ Cardinality(Readers(s)) \in Nat
  BY ServiceAssumption, FS_Subset, FS_CardinalityType DEF Readers
<1>2. ASSUME NEW r \in Clients, NEW s \in Sessions, AddsAndReads(r, s)
      PROVE  CountInv'
  <2>1. /\ req' = [req EXCEPT ![r] = req'[r]] /\ req'[r].phase = "read" /\ req'[r].session = s
        /\ req[r].phase = "idle" /\ st' = st /\ rows' = [rows EXCEPT ![s] = @ + 1]
    BY <1>0, <1>2 DEF AddsAndReads
  <2>2. r \notin Readers(s) /\ Readers(s)' = Readers(s) \cup {r}
    BY <1>0, <2>1 DEF Readers
  <2>3. \A z \in Sessions : z # s => Readers(z)' = Readers(z)
    BY <1>0, <2>1 DEF Readers
  <2>4. Cardinality(Readers(s)') = Cardinality(Readers(s)) + 1
    BY <1>1, <2>2, FS_AddElement
  <2> QED BY <1>0, <1>1, <2>1, <2>3, <2>4 DEF CountInv
<1>3. ASSUME NEW r \in Clients, CaptureAtomic(r)
      PROVE  CountInv'
  <2>1. req[r].phase = "read" /\ req[r].session \in Sessions
    BY <1>0, <1>3 DEF CaptureAtomic, Requests
  <2>0. PICK s \in Sessions : s = req[r].session
    BY <2>1
  <2>2. /\ req' = [req EXCEPT ![r] = req'[r]] /\ req'[r].phase # "read"
        /\ rows' = rows
    <3>1. /\ req' \in {[req EXCEPT ![r] = [phase |-> "idle"]],
                      [req EXCEPT ![r] = [req[r] EXCEPT !.phase = "warming"]]}
          /\ rows' = rows
      BY <1>3 DEF CaptureAtomic, data
    <3>2. [req[r] EXCEPT !.phase = "warming"].phase = "warming"
      <4>1. req[r] \in [phase : {"read", "warming"}, session : Sessions, known : 0..EveryN, warm : 0..EveryN]
        BY <1>0, <2>1 DEF Requests
      <4> QED BY <4>1
    <3>3. PICK x : req' = [req EXCEPT ![r] = x] /\ x.phase # "read"
      BY <3>1, <3>2
    <3> QED BY <1>0, <3>1, <3>3
  <2>3. \A z \in Sessions : st'[z].count \in Nat /\ st'[z].count <= (IF z = s THEN st[z].count + 1 ELSE st[z].count)
    <3>1. PICK n \in {0, st[s].count + 1} : st' = [st EXCEPT ![s] = [@ EXCEPT !.exists = TRUE, !.count = n]]
      BY <1>3, <2>0 DEF CaptureAtomic
    <3>2. n \in Nat /\ n <= st[s].count + 1
      BY <1>0, <2>1
    <3>3. st'[s].count = n /\ \A z \in Sessions : z # s => st'[z] = st[z]
      BY <2>1, <3>1, <3>2, CountsAfter DEF Types
    <3> QED BY <1>0, <3>2, <3>3
  <2>4. r \in Readers(s) /\ Readers(s)' = Readers(s) \ {r}
    BY <1>0, <2>0, <2>1, <2>2 DEF Readers
  <2>5. \A z \in Sessions : z # s => Readers(z)' = Readers(z)
    BY <1>0, <2>0, <2>1, <2>2 DEF Readers
  <2>6. Cardinality(Readers(s)') = Cardinality(Readers(s)) - 1
    BY <1>1, <2>1, <2>4, FS_RemoveElement
  <2>7. st'[s].count + Cardinality(Readers(s)') <= rows'[s]
    <3>1. st'[s].count \in Nat /\ st'[s].count <= st[s].count + 1 /\ Cardinality(Readers(s)) \in Nat
      BY <1>1, <2>1, <2>3
    <3>2. st[s].count + Cardinality(Readers(s)) <= rows[s] /\ st[s].count \in Nat /\ rows[s] \in Nat
      BY <1>0, <2>1 DEF CountInv
    <3> QED BY <2>2, <2>6, <3>1, <3>2
  <2>8. \A z \in Sessions : z # s => st'[z].count + Cardinality(Readers(z)') <= rows'[z]
    BY <1>0, <1>1, <2>2, <2>3, <2>5 DEF CountInv
  <2>9. \A z \in Sessions : st'[z].count + Cardinality(Readers(z)') <= rows'[z]
    BY <2>7, <2>8
  <2> QED BY <2>9 DEF CountInv
<1>4. ASSUME NEW r \in Clients, AdvanceWarmup(r)
      PROVE  CountInv'
  <2> DEFINE s == req[r].session
  <2>1. /\ req' = [req EXCEPT ![r] = req'[r]] /\ req'[r].phase # "read" /\ req[r].phase # "read"
        /\ rows' = rows
    BY <1>0, <1>4 DEF AdvanceWarmup, data
  <2>2. s \in Sessions
    BY <1>0, <1>4 DEF AdvanceWarmup, Requests
  <2>3. \A z \in Sessions : st'[z].count \in Nat /\ st'[z].count <= st[z].count
    <3>1. CASE st' = st
      BY <1>0, <3>1
    <3>2. CASE st' = [st EXCEPT ![s] = [@ EXCEPT !.warm = NextWarm(req[r].warm), !.count = 0]]
      <4>1. st'[s].count = 0 /\ \A z \in Sessions : z # s => st'[z] = st[z]
        BY <2>2, <3>2, CountsAfter DEF Types
      <4> QED BY <1>0, <4>1
    <3> QED BY <1>4, <3>1, <3>2 DEF AdvanceWarmup
  <2>4. \A z \in Sessions : Readers(z)' = Readers(z)
    BY <1>0, <2>1 DEF Readers
  <2> QED BY <1>0, <1>1, <2>1, <2>3, <2>4 DEF CountInv
<1>5. CASE /\ ~ \E r \in Clients, s \in Sessions : AddsAndReads(r, s)
           /\ ~ \E r \in Clients : RequestSteps(r)
  <2>1. rows' = rows
    BY <1>5, WhoMovesRows
  <2>2. req' = req /\ \A s \in Sessions : st'[s].count \in Nat /\ st'[s].count <= st[s].count
    BY <1>5, OthersCountNothing
  <2>3. \A s \in Sessions : Readers(s)' = Readers(s)
    BY <2>2 DEF Readers
  <2> QED BY <1>0, <1>1, <2>1, <2>2, <2>3 DEF CountInv
<1> QED BY <1>2, <1>3, <1>4, <1>5 DEF RequestSteps

LEMMA InitRows == Init => RowInv /\ CountInv /\ LockInv
<1> SUFFICES ASSUME Init PROVE RowInv /\ CountInv /\ LockInv
  OBVIOUS
<1>1. RowInv
  <2>1. \A c \in Coroutines : ~Extracting(c)
    BY DEF Init, Extracting, Idle, Job
  <2>2. budget.adds \in 0..MaxAdds /\ budget.before \in 0..Backlog
    BY ServiceAssumption DEF Init
  <2> QED BY <2>1, <2>2, ServiceAssumption DEF Init, RowInv, MaxRows
<1>2. CountInv
  <2>1. \A s \in Sessions : Readers(s) = {}
    BY DEF Init, Readers
  <2>2. Cardinality({}) = 0
    BY FS_EmptySet
  <2>3. \A s \in Sessions : st[s].count = 0 /\ rows[s] \in Nat /\ Cardinality(Readers(s)) = 0
    <3>1. budget.before \in Nat
      BY InitTypes, ServiceAssumption DEF Types, HistoryTypes
    <3> QED BY <2>1, <2>2, <3>1 DEF Init
  <2> QED BY <2>3 DEF CountInv
<1>3. LockInv
  <2>1. \A c \in Coroutines : co[c].phase \notin Holding
    BY DEF Init, Holding, Idle, Job
  <2> QED BY <2>1 DEF LockInv, HoldersOwn, LockExcludes, Holds
<1> QED BY <1>1, <1>2, <1>3

-----------------------------------------------------------------------------
(* How often a row is extracted *)

(* While no lock ran out, an L1 body starts at the cursor, and a row was     *)
(* extracted once per lost run and once more if it is behind the cursor or   *)
(* about to be.                                                              *)
StartsAtCursor == ~expired => \A c \in Coroutines : Extracting(c) => co[c].from = cursor[co[c].task.session]
Counted(s, i) ==
  \/ i <= cursor[s]
  \/ \E c \in Coroutines : co[c].phase = "stored" /\ co[c].task.session = s /\ i <= Upto(c)
ExtractedOnceCounted ==
  ~expired => \A s \in Sessions : \A i \in 1..MaxRows :
    extracted[s][i] <= IF Counted(s, i) THEN wasted + 1 ELSE wasted

(* rows are extracted by L1Finds only, what is lost stays lost, and a lock   *)
(* that ran out is remembered                                                *)
LEMMA WhoExtracts ==
  ASSUME Types, [Next]_service
  PROVE  /\ extracted' = extracted \/ \E c \in Coroutines : L1Finds(c)
         /\ wasted' = wasted \/ wasted' = wasted + 1
         /\ ~expired' => ~expired
<1>1. ASSUME \/ \E r \in Clients, s \in Sessions : AddsAndReads(r, s)
             \/ \E r \in Clients : RequestSteps(r)
             \/ \E s \in Sessions : FlushSession(s)
             \/ \E tm \in Timers : LocalTimerFires(tm[1], tm[2]) \/ Scan(tm[1], tm[2])
             \/ \E k \in DOMAIN locks : LockExpires(k)
             \/ UNCHANGED service
      PROVE  extracted' = extracted /\ wasted' = wasted /\ (~expired' => ~expired)
  <2>1. extracted' = extracted
    BY <1>1 DEF AddsAndReads, RequestSteps, CaptureAtomic, AdvanceWarmup, FlushSession, LocalTimerFires,
                Scan, LockExpires, data, service
  <2>2. wasted' = wasted
    BY <1>1 DEF AddsAndReads, RequestSteps, CaptureAtomic, AdvanceWarmup, FlushSession, LocalTimerFires,
                Scan, LockExpires, history, service
  <2>3. CASE \E k \in DOMAIN locks : LockExpires(k)
    BY <2>1, <2>2, <2>3 DEF LockExpires
  <2>4. CASE ~ \E k \in DOMAIN locks : LockExpires(k)
    <3>1. expired' = expired
      BY <1>1, <2>4 DEF AddsAndReads, RequestSteps, CaptureAtomic, AdvanceWarmup, FlushSession,
                        LocalTimerFires, Scan, history, service
    <3> QED BY <2>1, <2>2, <3>1
  <2> QED BY <2>3, <2>4
<1>2. ASSUME NEW c \in Coroutines, CoroutineSteps(c)
      PROVE  wasted' = wasted /\ expired' = expired
  BY <1>2 DEF CoroutineSteps, ConsumeTask, ClaimStale, AcquireAfterConflict, Body, L1SkipsProcessed,
              BodyReads, L1Finds, L1Commits, L2Writes, L3Writes, FlushRuns, Settles, LeavesUnacked,
              CascadeSchedule, BacksOff, ReEnqueue, MoveToDeadLetter, history
<1>3. ASSUME NEW c \in Coroutines, CoroutineSteps(c), ~L1Finds(c)
      PROVE  extracted' = extracted
  BY <1>3 DEF CoroutineSteps, ConsumeTask, ClaimStale, AcquireAfterConflict, Body, L1SkipsProcessed,
              BodyReads, L1Commits, L2Writes, L3Writes, FlushRuns, Settles, LeavesUnacked,
              CascadeSchedule, BacksOff, ReEnqueue, MoveToDeadLetter, data
<1>4. ASSUME NEW c \in Coroutines, Incidents(c)
      PROVE  /\ extracted' = extracted /\ (~expired' => ~expired)
             /\ wasted' = wasted \/ wasted' = wasted + 1
  <2>1. wasted \in Nat
    BY DEF Types, HistoryTypes
  <2> QED BY <1>4, <2>1 DEF Incidents, ClaimFromLiving, DropAfterConflict, QuotaRefuses, L2ComesBackEmpty, BodyThrows, RenewFails,
                            Crash, data, history
<1> QED BY <1>1, <1>2, <1>3, <1>4 DEF Next

(* two extractions of one session at once would be two holders of one lock *)
LEMMA OneExtraction ==
  ASSUME LockInv, ~expired, NEW c \in Coroutines, NEW d \in Coroutines,
         Extracting(c), Extracting(d), co[c].task.session = co[d].task.session
  PROVE  c = d
BY DEF LockInv, LockExcludes, Extracting, Holding, LockKey

(* memories that were stored are behind the cursor in the end, or lost *)
LEMMA StoredStays ==
  ASSUME Types, JobShape, [Next]_service, NEW c \in Coroutines, co[c].phase = "stored"
  PROVE  \/ co'[c].phase = "stored" /\ co'[c].task = co[c].task /\ Upto(c)' = Upto(c)
         \/ L1Commits(c)
         \/ wasted' = wasted + 1
<1>0. co[c] \in Jobs /\ co \in [Coroutines -> Jobs]
  BY DEF Types, JobTypes
<1>1. CASE co'[c] = co[c]
  BY <1>1 DEF Upto
<1>2. CASE CoroutineSteps(c)
  <2>1. L1Commits(c)
    BY <1>2 DEF CoroutineSteps, ConsumeTask, ClaimStale, AcquireAfterConflict, Body, L1SkipsProcessed,
                BodyReads, L1Finds, L2Writes, L3Writes, FlushRuns, Settles, LeavesUnacked,
                CascadeSchedule, BacksOff, ReEnqueue, MoveToDeadLetter
  <2> QED BY <2>1
<1>3. CASE Incidents(c)
  <2>1. CASE RenewFails(c)
    BY <1>0, <2>1 DEF RenewFails, Upto, Jobs
  <2>2. CASE BodyThrows(c) \/ Crash(c)
    BY <2>2 DEF BodyThrows, Crash
  <2> QED BY <1>3, <2>1, <2>2 DEF Incidents, ClaimFromLiving, DropAfterConflict, QuotaRefuses, L2ComesBackEmpty
<1> QED BY <1>1, <1>2, <1>3, OneCoroutineSteps

(* a commit moves the cursor of its session over what it read *)
LEMMA CommitMoves ==
  ASSUME Types, JobShape, RowInv, StartsAtCursor, ~expired, NEW c \in Coroutines, L1Commits(c)
  PROVE  LET s == co[c].task.session
         IN  /\ s \in Sessions /\ Extracting(c) /\ co'[c].phase = "ran"
             /\ cursor' = [cursor EXCEPT ![s] = Upto(c)] /\ Upto(c) \in Nat /\ cursor[s] <= Upto(c)
<1>1. co[c].task.session \in Sessions /\ co[c] \in Jobs /\ Extracting(c) /\ co \in [Coroutines -> Jobs]
  BY Before DEF L1Commits, Shape, Extracting, Types, JobTypes
<1>2. Upto(c) \in Nat /\ cursor[co[c].task.session] <= Upto(c)
  BY <1>1, ServiceAssumption DEF Upto, Smaller, Jobs, RowInv, StartsAtCursor
<1>3. co'[c].phase = "ran"
  BY <1>1 DEF L1Commits
<1> QED BY <1>1, <1>2, <1>3 DEF L1Commits, NextCursor

ExtractInv == StartsAtCursor /\ ExtractedOnceCounted

LEMMA NextExtraction ==
  Types /\ JobShape /\ LockInv /\ RowInv /\ ExtractInv /\ [Next]_service => ExtractInv'
<1> SUFFICES ASSUME Types, JobShape, LockInv, RowInv, ExtractInv, [Next]_service, ~expired'
             PROVE  ExtractInv'
  BY DEF ExtractInv, StartsAtCursor, ExtractedOnceCounted
<1>0. ~expired
  BY WhoExtracts
<1>1. /\ cursor \in [Sessions -> Nat] /\ cursor' \in [Sessions -> Nat] /\ wasted \in Nat /\ wasted' \in Nat
      /\ extracted \in [Sessions -> [1..MaxRows -> Nat]] /\ co \in [Coroutines -> Jobs] /\ MaxRows \in Nat
  <2>1. MaxRows \in Nat
    BY ServiceAssumption DEF MaxRows
  <2>2. DataTypes /\ HistoryTypes /\ JobTypes /\ DataTypes' /\ HistoryTypes'
    BY NextTypes DEF Types
  <2> QED BY <2>1, <2>2 DEF DataTypes, HistoryTypes, JobTypes
<1>2. StartsAtCursor'
  <2> SUFFICES ASSUME NEW d \in Coroutines, Extracting(d)'
               PROVE  co'[d].from = cursor'[co'[d].task.session]
    BY DEF StartsAtCursor, Extracting
  <2>1. CASE BodyReads(d)
    <3>1. co'[d].task = co[d].task /\ cursor' = cursor
      BY <1>1, <2>1 DEF BodyReads, Jobs, data
    <3>2. co[d].task.type = "L1"
      BY <3>1 DEF Extracting
    <3> QED BY <1>1, <2>1, <3>1, <3>2 DEF BodyReads, Jobs
  <2>2. CASE Extracting(d) /\ co'[d].task = co[d].task /\ co'[d].from = co[d].from
    <3>1. co[d].from = cursor[co[d].task.session] /\ co[d].task.session \in Sessions
      BY <1>0, <2>2, Before DEF ExtractInv, StartsAtCursor, Extracting
    <3>2. ASSUME NEW c \in Coroutines, L1Commits(c)
          PROVE  cursor'[co[d].task.session] = cursor[co[d].task.session]
      <4>1. /\ Extracting(c) /\ co'[c].phase = "ran"
            /\ cursor' = [cursor EXCEPT ![co[c].task.session] = Upto(c)]
        BY <1>0, <3>2, CommitMoves DEF ExtractInv
      <4>2. c # d
        BY <4>1 DEF Extracting
      <4>3. co[c].task.session # co[d].task.session
        BY <1>0, <2>2, <4>1, <4>2, OneExtraction
      <4> QED BY <1>1, <3>1, <4>1, <4>3
    <3> QED BY <2>2, <3>1, <3>2, WhoMovesRows
  <2> QED BY <2>1, <2>2, ExtractionSteps
<1>3. ASSUME NEW s \in Sessions, NEW i \in 1..MaxRows, Counted(s, i)
      PROVE  Counted(s, i)' \/ wasted' = wasted + 1
  <2>1. cursor'[s] >= cursor[s]
    <3>1. ASSUME NEW c \in Coroutines, L1Commits(c)
          PROVE  cursor'[s] >= cursor[s]
      <4>1. LET z == co[c].task.session
            IN  cursor' = [cursor EXCEPT ![z] = Upto(c)] /\ Upto(c) \in Nat /\ cursor[z] <= Upto(c)
        BY <1>0, <3>1, CommitMoves DEF ExtractInv
      <4> QED BY <1>1, <4>1
    <3> QED BY <1>1, <3>1, WhoMovesRows
  <2>2. CASE i <= cursor[s]
    BY <1>1, <2>1, <2>2 DEF Counted
  <2>3. ASSUME NEW c \in Coroutines, co[c].phase = "stored", co[c].task.session = s, i <= Upto(c)
        PROVE  Counted(s, i)' \/ wasted' = wasted + 1
    <3>1. CASE co'[c].phase = "stored" /\ co'[c].task = co[c].task /\ Upto(c)' = Upto(c)
      BY <2>3, <3>1 DEF Counted
    <3>2. CASE L1Commits(c)
      <4>1. cursor' = [cursor EXCEPT ![s] = Upto(c)]
        BY <1>0, <2>3, <3>2, CommitMoves DEF ExtractInv
      <4> QED BY <1>1, <2>3, <4>1 DEF Counted
    <3> QED BY <2>3, <3>1, <3>2, StoredStays
  <2> QED BY <1>3, <2>2, <2>3 DEF Counted
<1>4. ASSUME NEW s \in Sessions, NEW i \in 1..MaxRows, extracted'[s][i] = extracted[s][i]
      PROVE  extracted'[s][i] <= IF Counted(s, i)' THEN wasted' + 1 ELSE wasted'
  <2>1. extracted[s][i] <= IF Counted(s, i) THEN wasted + 1 ELSE wasted
    BY <1>0 DEF ExtractInv, ExtractedOnceCounted
  <2>2. extracted[s][i] \in Nat /\ (wasted' = wasted \/ wasted' = wasted + 1)
    BY <1>1, WhoExtracts
  <2>3. Counted(s, i) => Counted(s, i)' \/ wasted' = wasted + 1
    BY <1>3
  <2> QED BY <1>1, <1>4, <2>1, <2>2, <2>3
<1>5. ASSUME NEW c \in Coroutines, L1Finds(c), NEW s \in Sessions, NEW i \in 1..MaxRows
      PROVE  extracted'[s][i] <= IF Counted(s, i)' THEN wasted' + 1 ELSE wasted'
  <2> DEFINE z == co[c].task.session
             batch == (co[c].from + 1)..Upto(c)
             more == [k \in 1..MaxRows |-> IF k \in batch THEN extracted[z][k] + 1 ELSE extracted[z][k]]
  <2>1. z \in Sessions /\ Extracting(c) /\ co[c] \in Jobs /\ extracted' = [extracted EXCEPT ![z] = more]
    BY <1>5, Before DEF L1Finds, Extracting
  <2>2. CASE s # z \/ i \notin batch
    <3>1. extracted'[s][i] = extracted[s][i]
      <4>1. CASE s # z
        BY <1>1, <2>1, <4>1
      <4>2. CASE s = z
        <5>1. extracted'[s] = more /\ i \notin batch
          BY <1>1, <2>1, <2>2, <4>2
        <5> HIDE DEF batch
        <5> QED BY <4>2, <5>1
      <4> QED BY <4>1, <4>2
    <3> QED BY <1>4, <3>1
  <2>3. CASE s = z /\ i \in batch
    <3>1. Upto(c) \in Nat /\ co[c].from \in Nat /\ co[c].seen \in Nat /\ Upto(c) <= co[c].seen
      BY <2>1, ServiceAssumption DEF Upto, Smaller, Jobs
    <3>2. i <= Upto(c) /\ co[c].from < i
      BY <2>3, <3>1
    <3>3. co'[c] = [co[c] EXCEPT !.phase = "stored"] /\ wasted' = wasted
      <4>1. /\ co' = [co EXCEPT ![c].phase = IF co[c].seen > co[c].from THEN "stored" ELSE "ran"]
            /\ wasted' = wasted
        BY <1>5 DEF L1Finds, history
      <4>2. co[c].seen > co[c].from
        BY <3>1, <3>2
      <4> QED BY <1>1, <4>1, <4>2
    <3>4. Counted(s, i)'
      <4>1. co'[c].phase = "stored" /\ co'[c].task = co[c].task /\ Upto(c)' = Upto(c)
        BY <2>1, <3>3 DEF Jobs, Upto
      <4> QED BY <2>3, <3>2, <4>1 DEF Counted
    <3>5. ~Counted(s, i)
      <4>1. ~(i <= cursor[s])
        BY <1>0, <1>1, <2>1, <2>3, <3>1, <3>2 DEF ExtractInv, StartsAtCursor
      <4>2. ASSUME NEW d \in Coroutines, co[d].phase = "stored", co[d].task.session = s
            PROVE  FALSE
        <5>1. Extracting(d)
          BY <4>2, Before DEF Shape, Extracting
        <5>2. c = d
          BY <1>0, <2>1, <2>3, <4>2, <5>1, OneExtraction
        <5> QED BY <1>5, <4>2, <5>2 DEF L1Finds
      <4> QED BY <4>1, <4>2 DEF Counted
    <3>6. extracted[s][i] <= wasted /\ extracted[s][i] \in Nat
      BY <1>0, <1>1, <3>5 DEF ExtractInv, ExtractedOnceCounted
    <3>7. extracted'[s][i] = extracted[s][i] + 1
      <4>1. extracted'[s] = more /\ i \in batch
        BY <1>1, <2>1, <2>3
      <4> HIDE DEF batch
      <4> QED BY <2>3, <4>1
    <3> QED BY <1>1, <3>3, <3>4, <3>6, <3>7
  <2> QED BY <2>2, <2>3
<1>6. \A s \in Sessions : \A i \in 1..MaxRows :
        extracted'[s][i] <= IF Counted(s, i)' THEN wasted' + 1 ELSE wasted'
  BY <1>4, <1>5, WhoExtracts
<1>7. ExtractedOnceCounted'
  BY <1>6 DEF ExtractedOnceCounted, Counted
<1> QED BY <1>2, <1>7 DEF ExtractInv

-----------------------------------------------------------------------------
(* Messages *)

(* A busy coroutine of a remote backend works for a message, and what is      *)
(* unacknowledged under that id is its task; a message that was claimed from  *)
(* a living holder is in several hands.                                       *)
MsgInv ==
  /\ Shared => \A c \in Coroutines : co[c].phase # "idle" => co[c].msg \in MessageIds
  /\ \A c \in Coroutines : co[c].msg # NoMessage => pending[co[c].msg] \in {NoTask, co[c].task}
  /\ \A c, d \in Coroutines :
       co[c].msg # NoMessage /\ co[d].msg = co[c].msg => co[d].task = co[c].task

(* what a step of one coroutine does to its message: it is given one, keeps   *)
(* it, or is done with it                                                     *)
Given(c) ==
  \E t \in Tasks, m \in MessageIds \cup {NoMessage} :
    /\ co[c].phase = "idle" /\ co'[c].msg = m /\ co'[c].task = t /\ co'[c].phase \in {"running", "waiting"}
    /\ \/ ~Shared /\ m = NoMessage /\ pending' = pending
       \/ m \in MessageIds /\ pending[m] = t /\ pending' = pending
       \/ m \in Fresh /\ pending' = [pending EXCEPT ![m] = t]
Keeps(c) ==
  /\ co[c].phase # "idle" /\ co'[c].phase # "idle"
  /\ co'[c].msg = co[c].msg /\ co'[c].task = co[c].task /\ pending' \in {pending, Acked(c)}
Ends(c) == co[c].phase # "idle" /\ co'[c] = Idle /\ pending' \in {pending, Acked(c)}

LEMMA GivenSteps ==
  ASSUME Types, JobShape, NEW c \in Coroutines, ConsumeTask(c) \/ ClaimStale(c) \/ ClaimFromLiving(c)
  PROVE  Given(c)
<1>0. co \in [Coroutines -> Jobs] /\ co[c].phase = "idle"
  BY DEF Types, JobTypes, ConsumeTask, ClaimStale, ClaimFromLiving
<1>1. ASSUME NEW t, NEW m, Takes(c, t, m)
      PROVE  co'[c].msg = m /\ co'[c].task = t /\ co'[c].phase \in {"running", "waiting"}
  BY <1>0, <1>1 DEF Takes, Job
<1>2. CASE ConsumeTask(c)
  <2>1. Head(queue) \in Tasks
    BY <1>2, HeadTailProperties DEF ConsumeTask, Types, TaskTypes
  <2>2. CASE ~Shared /\ Takes(c, Head(queue), NoMessage) /\ UNCHANGED pending
    BY <1>0, <1>1, <2>1, <2>2 DEF Given
  <2>3. ASSUME NEW m \in Fresh, pending' = [pending EXCEPT ![m] = Head(queue)], Takes(c, Head(queue), m)
        PROVE  Given(c)
    <3>1. m \in MessageIds
      BY DEF Fresh
    <3>2. co'[c].msg = m /\ co'[c].task = Head(queue) /\ co'[c].phase \in {"running", "waiting"}
      BY <1>1, <2>3
    <3> QED BY <1>0, <2>1, <2>3, <3>1, <3>2 DEF Given
  <2> QED BY <1>2, <2>2, <2>3 DEF ConsumeTask
<1>3. CASE ClaimStale(c) \/ ClaimFromLiving(c)
  <2>1. PICK m \in MessageIds : pending[m] # NoTask /\ Takes(c, pending[m], m)
    BY <1>3 DEF ClaimStale, ClaimFromLiving
  <2>2. pending[m] \in Tasks /\ pending' = pending
    BY <1>3, <2>1 DEF ClaimStale, ClaimFromLiving, Types, TaskTypes
  <2> QED BY <1>0, <1>1, <2>1, <2>2 DEF Given
<1> QED BY <1>2, <1>3

LEMMA KeepsSteps ==
  ASSUME Types, JobShape, NEW c \in Coroutines,
         \/ AcquireAfterConflict(c) \/ Body(c) \/ BacksOff(c)
         \/ QuotaRefuses(c) \/ L2ComesBackEmpty(c) \/ BodyThrows(c) \/ RenewFails(c)
  PROVE  Keeps(c)
<1>0. co \in [Coroutines -> Jobs] /\ co[c] \in Jobs
  BY DEF Types, JobTypes
<1>1. CASE AcquireAfterConflict(c)
  BY <1>0, <1>1 DEF AcquireAfterConflict, Keeps, Jobs
<1>2. CASE L1SkipsProcessed(c)
  BY <1>0, <1>2 DEF L1SkipsProcessed, Keeps, Jobs
<1>3. CASE BodyReads(c)
  BY <1>0, <1>3 DEF BodyReads, Keeps, Jobs
<1>4. CASE L1Finds(c)
  BY <1>0, <1>4 DEF L1Finds, Keeps, Jobs
<1>5. CASE L1Commits(c)
  BY <1>0, <1>5 DEF L1Commits, Keeps, Jobs
<1>6. CASE L2Writes(c)
  BY <1>0, <1>6 DEF L2Writes, Keeps, Jobs
<1>7. CASE L3Writes(c)
  BY <1>0, <1>7 DEF L3Writes, Keeps, Jobs
<1>8. CASE FlushRuns(c)
  BY <1>0, <1>8 DEF FlushRuns, Keeps, Jobs
<1>9. CASE BacksOff(c)
  BY <1>0, <1>9 DEF BacksOff, Keeps, Jobs
<1>10. CASE QuotaRefuses(c)
  BY <1>0, <1>10 DEF QuotaRefuses, Keeps, Jobs
<1>11. CASE L2ComesBackEmpty(c)
  BY <1>0, <1>11 DEF L2ComesBackEmpty, Keeps, Jobs
<1>12. CASE BodyThrows(c)
  BY <1>0, <1>12 DEF BodyThrows, Keeps, Jobs
<1>13. CASE RenewFails(c)
  BY <1>0, <1>13 DEF RenewFails, Keeps, Jobs
<1> QED BY <1>1, <1>2, <1>3, <1>4, <1>5, <1>6, <1>7, <1>8, <1>9, <1>10, <1>11, <1>12, <1>13 DEF Body

LEMMA EndsSteps ==
  ASSUME Types, JobShape, NEW c \in Coroutines,
         \/ LeavesUnacked(c) \/ CascadeSchedule(c) \/ ReEnqueue(c) \/ MoveToDeadLetter(c)
         \/ DropAfterConflict(c) \/ Crash(c)
  PROVE  Ends(c)
<1>0. co \in [Coroutines -> Jobs]
  BY DEF Types, JobTypes
<1>1. CASE LeavesUnacked(c) \/ CascadeSchedule(c) \/ ReEnqueue(c) \/ MoveToDeadLetter(c)
  BY <1>0, <1>1 DEF LeavesUnacked, CascadeSchedule, ReEnqueue, MoveToDeadLetter, Ends
<1>2. CASE DropAfterConflict(c) \/ Crash(c)
  BY <1>0, <1>2 DEF DropAfterConflict, Crash, Ends
<1> QED BY <1>1, <1>2

LEMMA MessageSteps ==
  ASSUME Types, JobShape, NEW c \in Coroutines, CoroutineSteps(c) \/ Incidents(c)
  PROVE  Given(c) \/ Keeps(c) \/ Ends(c)
BY GivenSteps, KeepsSteps, EndsSteps DEF CoroutineSteps, Settles, Incidents

(* the other steps neither take nor acknowledge a message *)
LEMMA OthersKeepMessages ==
  ASSUME \/ \E r \in Clients, z \in Sessions : AddsAndReads(r, z)
         \/ \E r \in Clients : RequestSteps(r)
         \/ \E z \in Sessions : FlushSession(z)
         \/ \E tm \in Timers : LocalTimerFires(tm[1], tm[2]) \/ Scan(tm[1], tm[2])
         \/ \E k \in DOMAIN locks : LockExpires(k)
         \/ UNCHANGED service
  PROVE  co' = co /\ pending' = pending /\ deployment' = deployment
BY DEF AddsAndReads, RequestSteps, CaptureAtomic, AdvanceWarmup, FlushSession, LocalTimerFires, Scan,
       LockExpires, service

LEMMA NextMessages == Types /\ JobShape /\ MsgInv /\ [Next]_service => MsgInv'
<1> SUFFICES ASSUME Types, JobShape, MsgInv, [Next]_service
             PROVE  MsgInv'
  OBVIOUS
<1>0. /\ NoMessage \notin MessageIds /\ Idle.msg = NoMessage /\ Idle.phase = "idle"
      /\ pending \in [MessageIds -> Tasks \cup {NoTask}]
      /\ \A c \in Coroutines : co[c].msg \in MessageIds \cup {NoMessage}
  BY ServiceAssumption DEF NoMessage, Idle, Job, Types, TaskTypes, JobTypes, Jobs
<1>1. ASSUME co' = co, pending' = pending, deployment' = deployment
      PROVE  MsgInv'
  BY <1>1 DEF MsgInv, Shared
<1>2. ASSUME NEW c \in Coroutines, CoroutineSteps(c) \/ Incidents(c)
      PROVE  MsgInv'
  <2>1. deployment' = deployment /\ \A d \in Coroutines : d # c => co'[d] = co[d]
    BY <1>2, BodiesOutcome, OthersOutcome, OthersStay DEF CoroutineSteps
  <2>2. CASE Keeps(c) \/ Ends(c)
    <3>1. \A d \in Coroutines :
            \/ /\ co'[d].msg = co[d].msg /\ co'[d].task = co[d].task
               /\ co'[d].phase # "idle" => co[d].phase # "idle"
            \/ co'[d].msg = NoMessage /\ co'[d].phase = "idle"
      BY <1>0, <2>1, <2>2 DEF Keeps, Ends
    <3>2. \A m \in MessageIds : pending'[m] \in {pending[m], NoTask}
      BY <1>0, <2>2 DEF Keeps, Ends, Acked
    <3>3. \A d \in Coroutines : co'[d].msg # NoMessage => co[d].msg \in MessageIds /\ co'[d].msg = co[d].msg
      BY <1>0, <3>1
    <3>4. Shared' => \A d \in Coroutines : co'[d].phase # "idle" => co'[d].msg \in MessageIds
      BY <2>1, <3>1 DEF MsgInv, Shared
    <3>5. \A d \in Coroutines : co'[d].msg # NoMessage => pending'[co'[d].msg] \in {NoTask, co'[d].task}
      BY <3>1, <3>2, <3>3 DEF MsgInv
    <3>6. \A d, e \in Coroutines : co'[d].msg # NoMessage /\ co'[e].msg = co'[d].msg => co'[e].task = co'[d].task
      BY <3>1, <3>3 DEF MsgInv
    <3> QED BY <3>4, <3>5, <3>6 DEF MsgInv
  <2>3. CASE Given(c)
    <3>1. PICK t \in Tasks, m \in MessageIds \cup {NoMessage} :
            /\ co'[c].msg = m /\ co'[c].task = t
            /\ \/ ~Shared /\ m = NoMessage /\ pending' = pending
               \/ m \in MessageIds /\ pending[m] = t /\ pending' = pending
               \/ m \in Fresh /\ pending' = [pending EXCEPT ![m] = t]
      BY <2>3 DEF Given
    <3>2. Shared' => \A d \in Coroutines : co'[d].phase # "idle" => co'[d].msg \in MessageIds
      BY <2>1, <3>1 DEF MsgInv, Shared, Fresh
    <3>3. CASE m = NoMessage
      <4>1. pending' = pending
        BY <1>0, <3>1, <3>3 DEF Fresh
      <4> QED BY <2>1, <3>1, <3>2, <3>3, <4>1 DEF MsgInv
    <3>4. CASE m \in MessageIds /\ pending[m] = t /\ pending' = pending
      <4>1. t # NoTask
        BY IdleIsJob
      <4>2. \A d \in Coroutines : co'[d].msg = m => co'[d].task = t
        BY <1>0, <2>1, <3>1, <3>4, <4>1 DEF MsgInv
      <4>3. \A d \in Coroutines : co'[d].msg # NoMessage => pending'[co'[d].msg] \in {NoTask, co'[d].task}
        BY <2>1, <3>1, <3>4 DEF MsgInv
      <4>4. \A d, e \in Coroutines : co'[d].msg # NoMessage /\ co'[e].msg = co'[d].msg => co'[e].task = co'[d].task
        BY <2>1, <3>1, <4>2 DEF MsgInv
      <4> QED BY <3>2, <4>3, <4>4 DEF MsgInv
    <3>5. CASE m \in Fresh /\ pending' = [pending EXCEPT ![m] = t]
      <4>1. m \in MessageIds /\ \A d \in Coroutines : co[d].msg # m
        BY <3>5 DEF Fresh, Held
      <4>2. \A d \in Coroutines : co'[d].msg # NoMessage => pending'[co'[d].msg] \in {NoTask, co'[d].task}
        BY <1>0, <2>1, <3>1, <3>5, <4>1 DEF MsgInv
      <4>3. \A d, e \in Coroutines : co'[d].msg # NoMessage /\ co'[e].msg = co'[d].msg => co'[e].task = co'[d].task
        BY <2>1, <3>1, <4>1 DEF MsgInv
      <4> QED BY <3>2, <4>2, <4>3 DEF MsgInv
    <3> QED BY <3>1, <3>3, <3>4, <3>5
  <2> QED BY <1>2, <2>2, <2>3, MessageSteps
<1> QED BY <1>1, <1>2, OthersKeepMessages DEF Next

-----------------------------------------------------------------------------
(* The trigger of unread memories *)

Wakes(t, s) == t.session = s /\ t.type \in {"L1", "L2", "flush"}

(* An L2 task that read before there was anything to read arms no timer: it   *)
(* is no trigger for memories that came after its read, and neither is the    *)
(* message it will acknowledge.                                               *)
Doomed(c) ==
  /\ co[c].task.type = "L2"
  /\ \/ co[c].phase = "working" /\ co[c].from = 0
     \/ co[c].phase = "ran" /\ co[c].skipped
Spoiled(m, s) ==
  m # NoMessage /\ \E d \in Coroutines : co[d].msg = m /\ Doomed(d) /\ co[d].task.session = s
Carries(c, s) ==
  co[c].phase # "idle" /\ ~Doomed(c) /\ Wakes(co[c].task, s) /\ ~Spoiled(co[c].msg, s)
Offers(m, s) == pending[m] # NoTask /\ Wakes(pending[m], s) /\ ~Spoiled(m, s)
Triggered(s) ==
  \/ <<s, "L2_schedule">> \in timers
  \/ \E i \in 1..Len(queue) : Wakes(queue[i], s)
  \/ \E m \in MessageIds : Offers(m, s)
  \/ \E c \in Coroutines : Carries(c, s)
TriggerInv == \A s \in Sessions \ excused : unread[s] > 0 => Triggered(s)

QueueKept == \A i \in 1..Len(queue) : \E k \in 1..Len(queue') : queue'[k] = queue[i]

(* adding a task keeps the queue *)
LEMMA EnqueuedKeeps ==
  ASSUME Types, NEW t \in Tasks, queue' = Enqueued(queue, t) \/ queue' = queue
  PROVE  QueueKept
<1>1. queue \in Seq(Tasks)
  BY DEF Types, TaskTypes
<1>2. CASE queue' = queue
  BY <1>2 DEF QueueKept
<1>3. CASE queue' = Enqueued(queue, t)
  <2>1. \A i \in 1..Len(queue) : \E k \in 1..Len(Enqueued(queue, t)) : Enqueued(queue, t)[k] = queue[i]
    BY <1>1, EnqueuedElements
  <2> QED BY <1>3, <2>1 DEF QueueKept
<1> QED BY <1>2, <1>3

LEMMA EnqueuedWakes ==
  ASSUME Types, NEW t \in Tasks, queue' = Enqueued(queue, t), NEW s, Wakes(t, s)
  PROVE  Triggered(s)'
<1>1. PICK i \in 1..Len(queue') : queue'[i] = t
  BY EnqueuedElements DEF Types, TaskTypes
<1>2. Wakes(queue'[i], s)
  BY <1>1
<1> QED BY <1>2 DEF Triggered, Wakes

(* while memories are unread, no task of the session becomes doomed *)
LEMMA StaysDoomed ==
  ASSUME Types, JobShape, NEW s \in Sessions, unread[s] > 0, s \notin excused',
         NEW d \in Coroutines, CoroutineSteps(d) \/ Incidents(d),
         Doomed(d)', co'[d].task.session = s
  PROVE  Doomed(d) /\ Keeps(d)
<1>0. co \in [Coroutines -> Jobs] /\ co[d] \in Jobs /\ unread[s] \in 0..1 /\ co'[d].task.type = "L2"
  BY DEF Types, JobTypes, DataTypes, Doomed
<1>1. ~Given(d) /\ ~Ends(d)
  BY DEF Given, Ends, Doomed, Idle, Job, NoTask
<1>2. Keeps(d)
  BY <1>1, MessageSteps
<1>3. co[d].task.type = "L2" /\ co[d].task.session = s
  BY <1>0, <1>2 DEF Keeps
<1>4. ~ConsumeTask(d) /\ ~ClaimStale(d) /\ ~ClaimFromLiving(d)
  BY <1>1, GivenSteps
<1>5. ~LeavesUnacked(d) /\ ~CascadeSchedule(d) /\ ~ReEnqueue(d) /\ ~MoveToDeadLetter(d)
      /\ ~DropAfterConflict(d) /\ ~Crash(d)
  BY <1>1, EndsSteps
<1>6. ~L1SkipsProcessed(d) /\ ~L1Finds(d) /\ ~L3Writes(d) /\ ~FlushRuns(d)
  BY <1>3 DEF L1SkipsProcessed, L1Finds, L3Writes, FlushRuns
<1>7. ~L1Commits(d)
  BY <1>3, Before DEF L1Commits, Shape
<1>8. ~QuotaRefuses(d) /\ ~L2ComesBackEmpty(d)
  BY <1>3 DEF QuotaRefuses, L2ComesBackEmpty
<1>9. ~AcquireAfterConflict(d)
  BY <1>0 DEF AcquireAfterConflict, Doomed, Jobs
<1>10. ~BacksOff(d) /\ ~BodyThrows(d)
  BY <1>0 DEF BacksOff, BodyThrows, Doomed, Jobs
<1>11. ~BodyReads(d)
  <2> SUFFICES ASSUME BodyReads(d) PROVE FALSE
    OBVIOUS
  <2>1. co'[d].phase = "working" /\ co'[d].from = unread[s]
    BY <1>0, <1>3 DEF BodyReads, Jobs
  <2> QED BY <1>0, <2>1 DEF Doomed
<1>12. CASE L2Writes(d)
  <2>1. co'[d].phase = "ran" /\ co'[d].skipped = (co[d].from = 0) /\ co[d].phase = "working"
    BY <1>0, <1>12 DEF L2Writes, Jobs
  <2> QED BY <1>2, <1>3, <2>1 DEF Doomed
<1>13. CASE RenewFails(d)
  <2>1. co'[d].phase = co[d].phase /\ co'[d].from = co[d].from /\ co'[d].skipped = co[d].skipped
    BY <1>0, <1>13 DEF RenewFails, Jobs
  <2> QED BY <1>2, <1>3, <2>1 DEF Doomed
<1> QED BY <1>4, <1>5, <1>6, <1>7, <1>8, <1>9, <1>10, <1>11, <1>12, <1>13
        DEF CoroutineSteps, Body, Settles, Incidents

NothingSpoils(s) == \A m : Spoiled(m, s)' => Spoiled(m, s)

LEMMA NothingSpoilt ==
  ASSUME Types, JobShape, NEW s \in Sessions, unread[s] > 0, s \notin excused',
         NEW c \in Coroutines, CoroutineSteps(c) \/ Incidents(c)
  PROVE  NothingSpoils(s)
<1> SUFFICES ASSUME NEW m, m # NoMessage,
                    NEW d \in Coroutines, co'[d].msg = m, Doomed(d)', co'[d].task.session = s
             PROVE  Spoiled(m, s)
  BY DEF NothingSpoils, Spoiled
<1>1. CASE d = c
  <2>1. Doomed(d) /\ Keeps(d)
    BY <1>1, StaysDoomed
  <2> QED BY <2>1 DEF Spoiled, Keeps
<1>2. CASE d # c
  <2>1. co'[d] = co[d]
    BY <1>2, OthersStay
  <2> QED BY <2>1 DEF Spoiled, Doomed
<1> QED BY <1>1, <1>2

(* the triggers one by one, for a step that one coroutine at most takes *)
LEMMA TriggerKept ==
  ASSUME NEW s, NEW c, Triggered(s), NothingSpoils(s),
         <<s, "L2_schedule">> \in timers => Triggered(s)',
         \A i \in 1..Len(queue) : Wakes(queue[i], s) => Triggered(s)',
         \A m \in MessageIds : Offers(m, s) => Triggered(s)',
         \A d \in Coroutines : d # c => co'[d] = co[d],
         c \in Coroutines /\ Carries(c, s) => Triggered(s)'
  PROVE  Triggered(s)'
<1>1. ASSUME NEW d \in Coroutines, Carries(d, s), d # c
      PROVE  Triggered(s)'
  <2>1. co'[d] = co[d] /\ ~Spoiled(co[d].msg, s)'
    BY <1>1 DEF NothingSpoils, Carries
  <2>2. Carries(d, s)'
    BY <1>1, <2>1 DEF Carries, Doomed, Wakes, Spoiled
  <2> QED BY <2>2 DEF Triggered
<1> QED BY <1>1 DEF Triggered

(* triggers outside the coroutines that stay where they are *)
LEMMA PlacesKept ==
  ASSUME NEW s, NothingSpoils(s)
  PROVE  /\ QueueKept => \A i \in 1..Len(queue) : Wakes(queue[i], s) => Triggered(s)'
         /\ \A m \in MessageIds : pending'[m] = pending[m] /\ Offers(m, s) => Triggered(s)'
         /\ <<s, "L2_schedule">> \in timers' => Triggered(s)'
<1>1. ASSUME QueueKept, NEW i \in 1..Len(queue), Wakes(queue[i], s)
      PROVE  Triggered(s)'
  <2>1. PICK k \in 1..Len(queue') : queue'[k] = queue[i]
    BY <1>1 DEF QueueKept
  <2>2. Wakes(queue'[k], s)
    BY <1>1, <2>1
  <2> QED BY <2>2 DEF Triggered, Wakes
<1>2. ASSUME NEW m \in MessageIds, pending'[m] = pending[m], Offers(m, s)
      PROVE  Triggered(s)'
  <2>1. ~Spoiled(m, s)'
    BY <1>2 DEF NothingSpoils, Offers
  <2>2. Offers(m, s)'
    BY <1>2, <2>1 DEF Offers, Wakes
  <2> QED BY <2>2 DEF Triggered
<1>3. <<s, "L2_schedule">> \in timers' => Triggered(s)'
  BY DEF Triggered
<1> QED BY <1>1, <1>2, <1>3

(* what a busy coroutine's message offers is what the coroutine carries *)
LEMMA OfferedIsCarried ==
  ASSUME MsgInv, NEW c \in Coroutines, co[c].phase # "idle", NEW s,
         co[c].msg \in MessageIds, Offers(co[c].msg, s)
  PROVE  Carries(c, s)
<1>1. co[c].msg # NoMessage
  BY ServiceAssumption DEF NoMessage
<1>2. pending[co[c].msg] = co[c].task
  BY <1>1 DEF MsgInv, Offers
<1>3. co[c].task.session = s
  BY <1>2 DEF Offers, Wakes
<1>4. ~Doomed(c)
  BY <1>1, <1>3 DEF Offers, Spoiled
<1> QED BY <1>2, <1>4 DEF Offers, Carries

(* requests, session ends, timers and TTLs take no trigger away *)
LEMMA RequestsKeepTrigger ==
  ASSUME Types, JobShape, NEW s \in Sessions, Triggered(s),
         \/ \E r \in Clients, z \in Sessions : AddsAndReads(r, z)
         \/ \E r \in Clients : RequestSteps(r)
         \/ \E z \in Sessions : FlushSession(z)
         \/ \E tm \in Timers : LocalTimerFires(tm[1], tm[2]) \/ Scan(tm[1], tm[2])
         \/ \E k \in DOMAIN locks : LockExpires(k)
         \/ UNCHANGED service
  PROVE  Triggered(s)'
<1>0. co' = co /\ pending' = pending
  BY OthersKeepMessages
<1>9. NothingSpoils(s)
  BY <1>0 DEF NothingSpoils, Spoiled, Doomed
<1>1. ASSUME QueueKept, <<s, "L2_schedule">> \in timers => Triggered(s)'
      PROVE  Triggered(s)'
  <2>1. \A d \in Coroutines : Carries(d, s) => Carries(d, s)'
    BY <1>0 DEF Carries, Doomed, Wakes, Spoiled
  <2>2. \A i \in 1..Len(queue) : Wakes(queue[i], s) => Triggered(s)'
    BY <1>1, <1>9, PlacesKept
  <2>3. \A m \in MessageIds : Offers(m, s) => Triggered(s)'
    BY <1>0, <1>9, PlacesKept
  <2>4. \A d \in Coroutines : Carries(d, s) => Triggered(s)'
    BY <2>1 DEF Triggered
  <2> QED BY <1>1, <2>2, <2>3, <2>4 DEF Triggered
<1>2. ASSUME UNCHANGED <<queue, timers>>
      PROVE  Triggered(s)'
  BY <1>1, <1>2, <1>9, PlacesKept DEF QueueKept
<1>3. ASSUME NEW r \in Clients, CaptureAtomic(r)
      PROVE  Triggered(s)'
  <2>1. req[r].session \in Sessions
    BY <1>3 DEF CaptureAtomic, Types, RequestTypes, Requests
  <2>2. Task("L1", req[r].session, FALSE) \in Tasks
    BY <2>1, ServiceAssumption DEF Task, Tasks
  <2>3. queue' \in {queue, Enqueued(queue, Task("L1", req[r].session, FALSE))}
    BY <1>3 DEF CaptureAtomic
  <2>4. <<s, "L2_schedule">> \in timers => <<s, "L2_schedule">> \in timers'
    BY <1>3 DEF CaptureAtomic
  <2>5. QueueKept
    BY <2>2, <2>3, EnqueuedKeeps
  <2> QED BY <1>1, <1>9, <2>4, <2>5, PlacesKept
<1>4. ASSUME NEW z \in Sessions, FlushSession(z)
      PROVE  Triggered(s)'
  <2>1. Task("flush", z, FALSE) \in Tasks
    BY ServiceAssumption DEF Task, Tasks
  <2>2. QueueKept
    BY <1>4, <2>1, EnqueuedKeeps DEF FlushSession
  <2>3. <<s, "L2_schedule">> \in timers => <<s, "L2_schedule">> \in timers'
    BY <1>4 DEF FlushSession
  <2> QED BY <1>1, <1>9, <2>2, <2>3, PlacesKept
<1>5. ASSUME NEW tm \in Timers, LocalTimerFires(tm[1], tm[2]) \/ Scan(tm[1], tm[2])
      PROVE  Triggered(s)'
  <2>1. TimerTask(tm[1], tm[2]) \in Tasks
    BY ServiceAssumption DEF TimerTask, Task, Tasks, Timers
  <2>2. queue' = Enqueued(queue, TimerTask(tm[1], tm[2])) /\ timers' = timers \ {<<tm[1], tm[2]>>}
    BY <1>5 DEF LocalTimerFires, Scan
  <2>3. QueueKept
    BY <2>1, <2>2, EnqueuedKeeps
  <2>4. CASE <<s, "L2_schedule">> = <<tm[1], tm[2]>>
    <3>1. Wakes(TimerTask(tm[1], tm[2]), s)
      BY <2>4 DEF Wakes, TimerTask, Task
    <3> QED BY <2>1, <2>2, <3>1, EnqueuedWakes
  <2>5. CASE <<s, "L2_schedule">> # <<tm[1], tm[2]>>
    BY <1>1, <1>9, <2>2, <2>3, <2>5, PlacesKept
  <2> QED BY <2>4, <2>5
<1>6. ASSUME \/ \E r \in Clients, z \in Sessions : AddsAndReads(r, z)
             \/ \E r \in Clients : AdvanceWarmup(r)
             \/ \E k \in DOMAIN locks : LockExpires(k)
             \/ UNCHANGED service
      PROVE  Triggered(s)'
  BY <1>2, <1>6 DEF AddsAndReads, AdvanceWarmup, LockExpires, service
<1> QED BY <1>3, <1>4, <1>5, <1>6 DEF RequestSteps

(* nor does taking a task: the coroutine carries it *)
LEMMA TakesKeepsTrigger ==
  ASSUME Types, JobShape, NEW c \in Coroutines, NEW s \in Sessions, Triggered(s), NothingSpoils(s),
         \A d \in Coroutines : d # c => co'[d] = co[d],
         ConsumeTask(c) \/ ClaimStale(c) \/ ClaimFromLiving(c)
  PROVE  Triggered(s)'
<1>0. co[c].phase = "idle" /\ timers' = timers
  BY DEF ConsumeTask, ClaimStale, ClaimFromLiving
<1>1. ASSUME NEW t \in Tasks, NEW m, Takes(c, t, m), ~Spoiled(m, s)
      PROVE  Wakes(t, s) => Triggered(s)'
  <2>1. co'[c].phase \in {"running", "waiting"} /\ co'[c].task = t /\ co'[c].msg = m
    BY <1>1 DEF Takes, Job, Types, JobTypes
  <2>2. ~Spoiled(m, s)'
    BY <1>1 DEF NothingSpoils
  <2> SUFFICES ASSUME Wakes(t, s) PROVE Carries(c, s)'
    BY DEF Triggered
  <2> QED BY <2>1, <2>2 DEF Carries, Doomed, Wakes, Spoiled
<1>2. ~Carries(c, s)
  BY <1>0 DEF Carries
<1>3. CASE ConsumeTask(c)
  <2>1. queue \in Seq(Tasks) /\ queue # <<>> /\ queue' = Tail(queue) /\ pending \in [MessageIds -> Tasks \cup {NoTask}]
    BY <1>3 DEF ConsumeTask, Types, TaskTypes
  <2>2. /\ Head(queue) \in Tasks /\ Head(queue) = queue[1]
        /\ Len(queue') = Len(queue) - 1 /\ \A k \in 1..Len(queue') : queue'[k] = queue[k + 1]
    BY <2>1, HeadTailProperties
  <2>3. PICK m : Takes(c, Head(queue), m) /\ (m = NoMessage \/ m \in Fresh)
    BY <1>3 DEF ConsumeTask
  <2>4. ~Spoiled(m, s)
    BY <2>3 DEF Spoiled, Fresh, Held
  <2>5. ASSUME NEW i \in 1..Len(queue), Wakes(queue[i], s)
        PROVE  Triggered(s)'
    <3>1. CASE i = 1
      BY <1>1, <2>2, <2>3, <2>4, <2>5, <3>1
    <3>2. CASE i # 1
      <4>1. i - 1 \in 1..Len(queue') /\ queue'[i - 1] = queue[i]
        BY <2>1, <2>2, <3>2
      <4> QED BY <2>5, <4>1 DEF Triggered, Wakes
    <3> QED BY <3>1, <3>2
  <2>6. \A n \in MessageIds : Offers(n, s) => pending'[n] = pending[n]
    BY <1>3, <2>1 DEF ConsumeTask, Fresh, Offers
  <2>7. \A n \in MessageIds : Offers(n, s) => Triggered(s)'
    BY <2>6, PlacesKept
  <2> QED BY <1>0, <1>2, <2>5, <2>7, TriggerKept, PlacesKept
<1>4. CASE ClaimStale(c) \/ ClaimFromLiving(c)
  <2>1. queue' = queue /\ pending' = pending
    BY <1>4 DEF ClaimStale, ClaimFromLiving
  <2>2. \A i \in 1..Len(queue) : Wakes(queue[i], s) => Triggered(s)'
    BY <2>1, PlacesKept DEF QueueKept
  <2>3. \A n \in MessageIds : Offers(n, s) => Triggered(s)'
    BY <2>1, PlacesKept
  <2> QED BY <1>0, <1>2, <2>2, <2>3, TriggerKept, PlacesKept
<1> QED BY <1>3, <1>4

(* a busy coroutine leaves a trigger where it carried one, acknowledging its  *)
(* message or not, and the other triggers are in place                        *)
LEMMA LeavesTrigger ==
  ASSUME Types, JobShape, MsgInv, NEW c \in Coroutines, NEW s \in Sessions, Triggered(s),
         NothingSpoils(s), \A d \in Coroutines : d # c => co'[d] = co[d],
         QueueKept, Keeps(c) \/ Ends(c),
         <<s, "L2_schedule">> \in timers => <<s, "L2_schedule">> \in timers' \/ Triggered(s)',
         Carries(c, s) => Triggered(s)'
  PROVE  Triggered(s)'
<1>0. co[c].phase # "idle" /\ pending' \in {pending, Acked(c)}
  BY DEF Keeps, Ends
<1>1. \A i \in 1..Len(queue) : Wakes(queue[i], s) => Triggered(s)'
  BY PlacesKept
<1>2. ASSUME NEW m \in MessageIds, Offers(m, s)
      PROVE  Triggered(s)'
  <2>1. CASE m = co[c].msg
    BY <1>0, <1>2, <2>1, OfferedIsCarried
  <2>2. CASE m # co[c].msg
    <3>1. pending'[m] = pending[m]
      BY <1>0, <2>2 DEF Acked
    <3> QED BY <1>2, <3>1, PlacesKept
  <2> QED BY <2>1, <2>2
<1>3. <<s, "L2_schedule">> \in timers => Triggered(s)'
  BY PlacesKept
<1> QED BY <1>1, <1>2, <1>3, TriggerKept

(* the bodies of the tasks keep a trigger *)
LEMMA BodiesKeepTrigger ==
  ASSUME Types, JobShape, MsgInv, NEW c \in Coroutines, NEW s \in Sessions, Triggered(s), unread[s] > 0,
         s \notin excused', NothingSpoils(s),
         \A d \in Coroutines : d # c => co'[d] = co[d],
         \/ AcquireAfterConflict(c) \/ Body(c) \/ BacksOff(c) \/ BodyThrows(c) \/ RenewFails(c)
         \/ QuotaRefuses(c) \/ L2ComesBackEmpty(c)
  PROVE  Triggered(s)'
<1>0. queue \in Seq(Tasks) /\ Keeps(c)
  BY KeepsSteps DEF Types, TaskTypes
<1>1. CoroutineSteps(c) \/ Incidents(c)
  BY DEF CoroutineSteps, Settles, Incidents
<1>2. ASSUME Carries(c, s)
      PROVE  Triggered(s)'
  <2>1. co'[c].phase # "idle" /\ Wakes(co'[c].task, s)
    BY <1>0, <1>2 DEF Keeps, Carries
  <2>2. ~Doomed(c)'
    BY <1>1, <1>2, <2>1, StaysDoomed DEF Carries, Wakes
  <2>3. ~Spoiled(co[c].msg, s)' /\ co'[c].msg = co[c].msg
    BY <1>0, <1>2 DEF Carries, NothingSpoils, Keeps
  <2>4. Carries(c, s)'
    BY <2>1, <2>2, <2>3 DEF Carries, Wakes, Spoiled
  <2> QED BY <2>4 DEF Triggered
<1>4. CASE L1Commits(c)
  <2>1. co[c].task.session \in Sessions
    BY <1>4, Before DEF L1Commits
  <2>2. Task("L1", co[c].task.session, FALSE) \in Tasks
    BY <2>1, ServiceAssumption DEF Task, Tasks
  <2>3. /\ queue' \in {queue, Enqueued(queue, Task("L1", co[c].task.session, FALSE))}
        /\ timers \subseteq timers'
    BY <1>4 DEF L1Commits
  <2>4. QueueKept
    BY <2>2, <2>3, EnqueuedKeeps
  <2> QED BY <1>0, <1>2, <2>3, <2>4, LeavesTrigger
<1>5. CASE FlushRuns(c)
  <2>1. co[c].task.session \in Sessions
    BY <1>5, Before DEF FlushRuns
  <2>2. Task("flush", co[c].task.session, FALSE) \in Tasks
    BY <2>1, ServiceAssumption DEF Task, Tasks
  <2>3. /\ queue' \in {queue, Enqueued(queue, Task("flush", co[c].task.session, FALSE))}
        /\ timers' \in {timers, timers \ {<<co[c].task.session, "L1_idle">>}}
    BY <1>5 DEF FlushRuns
  <2>4. QueueKept
    BY <2>2, <2>3, EnqueuedKeeps
  <2>5. <<s, "L2_schedule">> \in timers => <<s, "L2_schedule">> \in timers'
    BY <2>3
  <2> QED BY <1>0, <1>2, <2>4, <2>5, LeavesTrigger
<1>6. CASE UNCHANGED <<queue, timers>>
  BY <1>0, <1>2, <1>6, LeavesTrigger DEF QueueKept
<1> QED BY <1>4, <1>5, <1>6
        DEF AcquireAfterConflict, Body, L1SkipsProcessed, BodyReads, L1Finds, L2Writes, L3Writes,
            BacksOff, BodyThrows, RenewFails, QuotaRefuses, L2ComesBackEmpty

(* a message that is left unacknowledged offers what was carried for it *)
LEMMA LeftIsOffered ==
  ASSUME MsgInv, NEW c \in Coroutines, NEW s, NothingSpoils(s), Carries(c, s),
         co[c].msg \in MessageIds, pending'[co[c].msg] = pending[co[c].msg],
         pending[co[c].msg] # NoTask
  PROVE  Triggered(s)'
<1>1. co[c].msg # NoMessage
  BY ServiceAssumption DEF NoMessage
<1>2. pending[co[c].msg] = co[c].task
  BY <1>1 DEF MsgInv
<1>3. Offers(co[c].msg, s)
  BY <1>2 DEF Offers, Carries
<1> QED BY <1>3, PlacesKept

(* a coroutine that is done leaves a trigger, unless L2 has read the memories *)
(* or the session is excused                                                  *)
LEMMA EndsKeepTrigger ==
  ASSUME Types, JobShape, MsgInv, NEW c \in Coroutines, NEW s \in Sessions, Triggered(s),
         unread'[s] > 0, s \notin excused', NothingSpoils(s),
         \A d \in Coroutines : d # c => co'[d] = co[d],
         \/ LeavesUnacked(c) \/ CascadeSchedule(c) \/ ReEnqueue(c) \/ MoveToDeadLetter(c)
         \/ DropAfterConflict(c) \/ Crash(c)
  PROVE  Triggered(s)'
<1>0. /\ co[c].task \in Tasks /\ co[c].task.session \in Sessions
      /\ queue \in Seq(Tasks) /\ unread \in [Sessions -> 0..1] /\ Ends(c)
  BY Before, EndsSteps DEF LeavesUnacked, CascadeSchedule, ReEnqueue, MoveToDeadLetter,
                DropAfterConflict, Crash, Types, TaskTypes, DataTypes
<1>1. CASE LeavesUnacked(c)
  <2>1. queue' = queue /\ timers' = timers /\ pending' = pending
    BY <1>1 DEF LeavesUnacked
  <2>2. ASSUME Carries(c, s) PROVE Triggered(s)'
    <3>1. co[c].phase # "idle" /\ co[c].task.session = s
      BY <2>2 DEF Carries, Wakes
    <3>2. Shared /\ pending[co[c].msg] # NoTask
      BY <1>1, <3>1 DEF LeavesUnacked, Offered
    <3>3. co[c].msg \in MessageIds
      BY <3>1, <3>2 DEF MsgInv
    <3> QED BY <2>1, <2>2, <3>2, <3>3, LeftIsOffered
  <2> QED BY <1>0, <2>1, <2>2, LeavesTrigger DEF QueueKept
<1>2. CASE CascadeSchedule(c)
  <2> DEFINE t == co[c].task
             l3 == [t EXCEPT !.type = "L3"]
  <2>1. l3 \in Tasks
    BY <1>0 DEF Tasks
  <2>2. timers \subseteq timers' /\ queue' \in {queue, Enqueued(queue, l3)}
    BY <1>2 DEF CascadeSchedule, CascadeFrom, TimersAfterL1, QueueAfterL2
  <2> HIDE DEF l3
  <2>3. QueueKept
    BY <2>1, <2>2, EnqueuedKeeps
  <2>4. Carries(c, s) => Triggered(s)'
    <3> SUFFICES ASSUME Carries(c, s) PROVE Triggered(s)'
      OBVIOUS
    <3>1. t.session = s /\ t.type \in {"L1", "L2", "flush"} /\ co[c].phase = "ran"
      BY <1>2 DEF Carries, Wakes, CascadeSchedule
    <3>2. t.type = "L2" => ~co[c].skipped
      BY <3>1 DEF Carries, Doomed
    <3>3. CascadeFrom(t, co[c].skipped)
      BY <1>2 DEF CascadeSchedule
    <3>4. CASE t.type \in {"L1", "flush"}
      BY <3>1, <3>3, <3>4 DEF CascadeFrom, TimersAfterL1, Triggered
    <3>5. CASE t.type = "L2"
      <4>1. unread' = [unread EXCEPT ![s] = 0]
        BY <3>1, <3>2, <3>3, <3>5 DEF CascadeFrom
      <4> QED BY <1>0, <4>1
    <3> QED BY <3>1, <3>4, <3>5
  <2> QED BY <1>0, <2>2, <2>3, <2>4, LeavesTrigger
<1>3. CASE ReEnqueue(c)
  <2> DEFINE t == [co[c].task EXCEPT !.retry = @ + 1]
  <2>1. co[c].task.retry < MaxRetries
    BY <1>3, Before DEF ReEnqueue, Shape
  <2>2. t \in Tasks /\ t.session = co[c].task.session /\ t.type = co[c].task.type
    <3>1. co[c].task.retry + 1 \in 0..MaxRetries
      BY <1>0, <2>1, ServiceAssumption DEF Tasks
    <3> QED BY <1>0, <3>1 DEF Tasks
  <2>3. queue' = Enqueued(queue, t) /\ timers' = timers
    BY <1>3 DEF ReEnqueue
  <2> HIDE DEF t
  <2>4. QueueKept
    BY <2>2, <2>3, EnqueuedKeeps
  <2>5. Carries(c, s) => Triggered(s)'
    BY <2>2, <2>3, EnqueuedWakes DEF Carries, Wakes
  <2> QED BY <1>0, <2>3, <2>4, <2>5, LeavesTrigger
<1>4. CASE Crash(c)
  <2>1. queue' = queue /\ timers' = timers /\ Shared /\ co[c].phase # "idle"
    BY <1>4 DEF Crash
  <2>2. ASSUME Carries(c, s) PROVE Triggered(s)'
    <3>1. co[c].msg \in MessageIds /\ co[c].task.session = s
      BY <2>1, <2>2 DEF MsgInv, Carries, Wakes
    <3>2. pending'[co[c].msg] # NoTask
      BY <1>4, <3>1 DEF Crash
    <3>3. pending' = pending
      BY <1>0, <3>1, <3>2 DEF Ends, Acked
    <3> QED BY <2>2, <3>1, <3>2, <3>3, LeftIsOffered
  <2> QED BY <1>0, <2>1, <2>2, LeavesTrigger DEF QueueKept
<1>5. CASE MoveToDeadLetter(c) \/ DropAfterConflict(c)
  <2>1. co[c].task.session # s
    BY <1>5 DEF MoveToDeadLetter, DropAfterConflict
  <2>2. queue' = queue /\ (<<s, "L2_schedule">> \in timers => <<s, "L2_schedule">> \in timers')
    BY <1>5, <2>1 DEF MoveToDeadLetter, DropAfterConflict
  <2> QED BY <1>0, <2>1, <2>2, LeavesTrigger DEF QueueKept, Carries, Wakes
<1> QED BY <1>1, <1>2, <1>3, <1>4, <1>5

(* memories become unread when a coroutine stores them, which carries an L1 *)
LEMMA WhoWrites ==
  ASSUME Types, JobShape, MsgInv, [Next]_service, NEW s \in Sessions, unread'[s] > 0
  PROVE  unread[s] > 0 \/ Triggered(s)'
<1>0. unread \in [Sessions -> 0..1] /\ co \in [Coroutines -> Jobs]
  BY DEF Types, DataTypes, JobTypes
<1>1. ASSUME NEW c \in Coroutines, L1Finds(c)
      PROVE  unread[s] > 0 \/ Triggered(s)'
  <2>1. co'[c].task = co[c].task /\ co'[c].phase # "idle" /\ co[c].task.type = "L1"
    BY <1>0, <1>1 DEF L1Finds, Jobs
  <2>2. CASE co[c].task.session = s
    <3>1. ~Spoiled(co[c].msg, s)' /\ co'[c].msg = co[c].msg
      <4>1. co'[c].msg = co[c].msg /\ MsgInv'
        BY <1>1, KeepsSteps, NextMessages DEF Body, Keeps
      <4>2. ASSUME NEW d \in Coroutines, co'[d].msg = co[c].msg, co[c].msg # NoMessage, Doomed(d)'
            PROVE  FALSE
        <5>1. co'[d].task = co'[c].task
          BY <4>1, <4>2 DEF MsgInv
        <5> QED BY <2>1, <4>2, <5>1 DEF Doomed
      <4> QED BY <4>1, <4>2 DEF Spoiled
    <3>2. Carries(c, s)'
      BY <2>1, <2>2, <3>1 DEF Carries, Doomed, Wakes, Spoiled
    <3> QED BY <3>2 DEF Triggered
  <2>3. CASE co[c].task.session # s
    <3>1. unread'[s] = unread[s]
      BY <1>0, <1>1, <2>3 DEF L1Finds
    <3> QED BY <3>1
  <2> QED BY <2>2, <2>3
<1>2. ASSUME NEW c \in Coroutines, CascadeSchedule(c)
      PROVE  unread[s] > 0
  <2>1. unread' = unread \/ unread' = [unread EXCEPT ![co[c].task.session] = 0]
    BY <1>2 DEF CascadeSchedule, CascadeFrom
  <2> QED BY <1>0, <2>1
<1>3. ASSUME \/ \E r \in Clients, z \in Sessions : AddsAndReads(r, z)
             \/ \E r \in Clients : RequestSteps(r)
             \/ \E z \in Sessions : FlushSession(z)
             \/ \E tm \in Timers : LocalTimerFires(tm[1], tm[2]) \/ Scan(tm[1], tm[2])
             \/ \E k \in DOMAIN locks : LockExpires(k)
             \/ UNCHANGED service
      PROVE  unread' = unread
  BY <1>3 DEF AddsAndReads, RequestSteps, CaptureAtomic, AdvanceWarmup, FlushSession, LocalTimerFires,
              Scan, LockExpires, data, service
<1>4. ASSUME NEW c \in Coroutines, CoroutineSteps(c), ~L1Finds(c), ~CascadeSchedule(c)
      PROVE  unread' = unread
  BY <1>4 DEF CoroutineSteps, ConsumeTask, ClaimStale, AcquireAfterConflict, Body, L1SkipsProcessed,
              BodyReads, L1Commits, L2Writes, L3Writes, FlushRuns, Settles, LeavesUnacked,
              BacksOff, ReEnqueue, MoveToDeadLetter, data
<1>5. ASSUME NEW c \in Coroutines, Incidents(c)
      PROVE  unread' = unread
  BY <1>5 DEF Incidents, ClaimFromLiving, DropAfterConflict, QuotaRefuses, L2ComesBackEmpty, BodyThrows, RenewFails, Crash, data
<1> QED BY <1>1, <1>2, <1>3, <1>4, <1>5 DEF Next

(* an excuse ends when the timer is armed again *)
LEMMA Excusals ==
  ASSUME [Next]_service, NEW s \in excused, s \notin excused'
  PROVE  <<s, "L2_schedule">> \in timers'
<1>1. ASSUME \/ \E r \in Clients, z \in Sessions : AddsAndReads(r, z)
             \/ \E r \in Clients : RequestSteps(r)
             \/ \E z \in Sessions : FlushSession(z)
             \/ \E tm \in Timers : LocalTimerFires(tm[1], tm[2]) \/ Scan(tm[1], tm[2])
             \/ \E k \in DOMAIN locks : LockExpires(k)
             \/ UNCHANGED service
      PROVE  excused \subseteq excused'
  BY <1>1 DEF AddsAndReads, RequestSteps, CaptureAtomic, AdvanceWarmup, FlushSession, LocalTimerFires,
              Scan, LockExpires, history, service
<1>2. ASSUME NEW c \in Coroutines, CoroutineSteps(c), ~CascadeSchedule(c)
      PROVE  excused \subseteq excused'
  BY <1>2 DEF CoroutineSteps, ConsumeTask, ClaimStale, AcquireAfterConflict, Body, L1SkipsProcessed,
              BodyReads, L1Finds, L1Commits, L2Writes, L3Writes, FlushRuns, Settles, LeavesUnacked,
              BacksOff, ReEnqueue, MoveToDeadLetter, history
<1>3. ASSUME NEW c \in Coroutines, Incidents(c)
      PROVE  excused \subseteq excused'
  BY <1>3 DEF Incidents, ClaimFromLiving, DropAfterConflict, QuotaRefuses, L2ComesBackEmpty, BodyThrows,
              RenewFails, Crash, history
<1>4. ASSUME NEW c \in Coroutines, CascadeSchedule(c)
      PROVE  <<s, "L2_schedule">> \in timers'
  <2>1. CascadeFrom(co[c].task, co[c].skipped)
    BY <1>4 DEF CascadeSchedule
  <2> QED BY <2>1 DEF CascadeFrom, TimersAfterL1
<1> QED BY <1>1, <1>2, <1>3, <1>4 DEF Next

LEMMA NextTriggers == Types /\ JobShape /\ MsgInv /\ TriggerInv /\ [Next]_service => TriggerInv'
<1> SUFFICES ASSUME Types, JobShape, MsgInv, TriggerInv, [Next]_service,
                    NEW s \in Sessions, s \notin excused', unread'[s] > 0
             PROVE  Triggered(s)'
  BY DEF TriggerInv, Triggered, Carries, Offers, Spoiled, Doomed, Wakes
<1>1. CASE unread[s] > 0 /\ s \notin excused
  <2>1. Triggered(s)
    BY <1>1 DEF TriggerInv
  <2>2. ASSUME NEW c \in Coroutines, CoroutineSteps(c) \/ Incidents(c)
        PROVE  Triggered(s)'
    <3>1. NothingSpoils(s) /\ \A d \in Coroutines : d # c => co'[d] = co[d]
      BY <1>1, <2>2, NothingSpoilt, OthersStay
    <3> QED BY <1>1, <2>1, <2>2, <3>1, TakesKeepsTrigger, BodiesKeepTrigger, EndsKeepTrigger
         DEF CoroutineSteps, Settles, Incidents
  <2> QED BY <2>1, <2>2, RequestsKeepTrigger DEF Next
<1>2. CASE s \in excused
  BY <1>2, Excusals DEF Triggered
<1>3. CASE ~(unread[s] > 0)
  BY <1>3, WhoWrites
<1> QED BY <1>1, <1>2, <1>3

-----------------------------------------------------------------------------
(* Theorems *)

(* Every variable keeps its type, no cursor is ahead of the stored rows and  *)
(* no counter exceeds them, whatever the coroutines, requests, timers,       *)
(* failures and crashes do (ServicePipeline.TypeOK).                         *)
THEOREM TypeCorrect == Spec => []TypeOK
<1> DEFINE IInv == Types /\ JobShape /\ RowInv /\ CountInv
<1>1. Init => IInv
  BY InitTypes, InitRows
<1>2. IInv /\ [Next]_service => IInv'
  BY NextTypes, NextRows, NextCounts
<1>3. IInv => TypeOK
  <2> SUFFICES ASSUME IInv PROVE TypeOK
    OBVIOUS
  <2>1. MaxRows \in Nat /\ budget.adds \in Nat
    BY ServiceAssumption DEF MaxRows, Types, HistoryTypes
  <2>2. /\ rows \in [Sessions -> 0..MaxRows] /\ \A s \in Sessions : cursor[s] \in 0..rows[s]
        /\ unread \in [Sessions -> 0..1] /\ scenes \in Nat /\ persona \in Nat
        /\ \A s \in Sessions : \A i \in 1..MaxRows : extracted[s][i] \in Nat
    BY <2>1 DEF Types, DataTypes, RowInv
  <2>3. \A s \in Sessions : st[s].count \in 0..MaxRows /\ st[s].warm \in 0..EveryN
    <3> TAKE s \in Sessions
    <3>1. st[s] \in States /\ rows[s] \in 0..MaxRows
      BY <2>2 DEF Types, StateTypes
    <3>2. Cardinality(Readers(s)) \in Nat
      BY ServiceAssumption, FS_Subset, FS_CardinalityType DEF Readers
    <3>3. st[s].count \in Nat /\ st[s].count + Cardinality(Readers(s)) <= rows[s]
      BY <3>1 DEF States, CountInv
    <3> QED BY <2>1, <3>1, <3>2, <3>3 DEF States
  <2>4. timers \subseteq Timers /\ pending \in [MessageIds -> Tasks \cup {NoTask}] /\ \A i \in 1..Len(queue) : queue[i] \in Tasks
    BY DEF Types, TaskTypes
  <2>5. \A k \in DOMAIN locks : locks[k] \in Coroutines \cup {Free, Dead, Worker}
    BY DEF Types, LockTypes, Owners
  <2>6. \A c \in Coroutines : co[c].phase \in Holding \cup {"idle", "waiting"} /\ (co[c].phase = "idle" <=> co[c] = Idle)
    BY DEF Types, JobTypes, Jobs, Phases, JobShape, Shape
  <2> QED BY <2>2, <2>3, <2>4, <2>5, <2>6 DEF TypeOK, Types, HistoryTypes
<1> HIDE DEF IInv
<1> QED BY <1>1, <1>2, <1>3, PTL DEF Spec

(* As long as no lock runs out under its holder, two coroutines never work   *)
(* under one lock key at once, although all coroutines of a worker write the *)
(* same owner id under it (ServicePipeline.LockExcludes).                    *)
THEOREM TasksExclude == Spec => []LockExcludes
<1>1. Init => Types /\ JobShape /\ LockInv
  BY InitTypes, InitRows
<1>2. Types /\ JobShape /\ LockInv /\ [Next]_service => Types' /\ JobShape' /\ LockInv'
  BY NextTypes, NextLocks
<1>3. LockInv => LockExcludes
  BY DEF LockInv
<1> QED BY <1>1, <1>2, <1>3, PTL DEF Spec

(* As long as no lock runs out under its holder, no row is turned into       *)
(* memories more often than once, and once more for each L1 run that was     *)
(* lost between storing them and moving the cursor                           *)
(* (ServicePipeline.ExtractedOncePerLoss).                                   *)
THEOREM ExtractionBounded == Spec => []ExtractedOncePerLoss
<1> DEFINE IInv == Types /\ JobShape /\ LockInv /\ RowInv /\ ExtractInv
<1>1. Init => IInv
  <2> SUFFICES ASSUME Init PROVE ExtractInv
    BY InitTypes, InitRows
  <2>1. \A c \in Coroutines : ~Extracting(c)
    BY DEF Init, Extracting, Idle, Job
  <2>2. \A s \in Sessions : \A i \in 1..MaxRows : extracted[s][i] = 0
    BY DEF Init
  <2> QED BY <2>1, <2>2 DEF Init, ExtractInv, StartsAtCursor, ExtractedOnceCounted
<1>2. IInv /\ [Next]_service => IInv'
  BY NextTypes, NextLocks, NextRows, NextExtraction
<1>3. IInv => ExtractedOncePerLoss
  <2> SUFFICES ASSUME IInv, ~expired, NEW s \in Sessions, NEW i \in 1..MaxRows
               PROVE  extracted[s][i] <= 1 + wasted
    BY DEF ExtractedOncePerLoss
  <2>1. extracted[s][i] \in Nat /\ wasted \in Nat
    BY DEF Types, DataTypes, HistoryTypes
  <2>2. extracted[s][i] <= IF Counted(s, i) THEN wasted + 1 ELSE wasted
    BY DEF ExtractInv, ExtractedOnceCounted
  <2> QED BY <2>1, <2>2
<1> HIDE DEF IInv
<1> QED BY <1>1, <1>2, <1>3, PTL DEF Spec

(* Memories that no L2 run has read have a trigger - the session's L2 timer,  *)
(* or a task queued, left unacknowledged or in a coroutine's hands - unless,   *)
(* since that timer was last armed, the L2 run's model failed or wrote no      *)
(* scene, the quota refused a task of the session, a task failed its last      *)
(* retry, met a lock for longer than the TTL, or was lost with its lock while  *)
(* no backend would offer it again, or a worker died between acknowledging a   *)
(* task and what follows it (ServicePipeline.MemoriesHaveTrigger).             *)
THEOREM MemoriesTriggered == Spec => []MemoriesHaveTrigger
<1>1. Init => Types /\ JobShape /\ MsgInv /\ TriggerInv
  <2> SUFFICES ASSUME Init PROVE MsgInv /\ TriggerInv
    BY InitTypes
  <2>1. \A c \in Coroutines : co[c].phase = "idle" /\ co[c].msg = NoMessage
    BY DEF Init, Idle, Job
  <2> QED BY <2>1 DEF Init, MsgInv, TriggerInv
<1>2. Types /\ JobShape /\ MsgInv /\ TriggerInv /\ [Next]_service
        => Types' /\ JobShape' /\ MsgInv' /\ TriggerInv'
  BY NextTypes, NextMessages, NextTriggers
<1>3. TriggerInv => MemoriesHaveTrigger
  BY DEF TriggerInv, Triggered, Carries, Offers, Wakes, MemoriesHaveTrigger, InHand
<1> QED BY <1>1, <1>2, <1>3, PTL DEF Spec

=============================================================================
