---------------------------- MODULE OffloadServer ----------------------------
(* The offload server for one session: clients report tool pairs and          *)
(* prompts, and workers run three kinds of tasks.  L1 claims the pending file *)
(* and appends an entry for each pair; L1.5 judges which task a prompt begins *)
(* and fills in the boundary its ingestion left "_pending"; L2 maps the       *)
(* entries of one task to nodes of its MMD file.  Entries, nodes and state    *)
(* are files that L1, L1.5 and L2 read and write without a common lock; what  *)
(* brings L2 to an entry is a timer that the others set.                      *)
(*                                                                            *)
(* A step is what runs between two awaits, except that two reads of files     *)
(* nobody else writes in between are one.  Pairs carry the client's time: it  *)
(* is given by the last boundary before it.  Appends are atomic, as on both   *)
(* storage backends, and ingestions are one at a time under the append lock.  *)
(* Each coroutine may be in a worker of its own: one dies without the others, *)
(* and the shared queue delivers again what a worker did not acknowledge.     *)
EXTENDS Naturals, FiniteSets, Sequences

CONSTANTS
  Pairs,                 \* tool calls by their ids
  Tasks,                 \* the MMD files judgments may name
  NoTask,
  Coroutines,            \* of the pipeline workers
  namedLocks,            \* the timers' tasks name their MMD, so that each has its lock
  forceTriggerThreshold,
  l2NullThreshold,
  maxRetries,
  MaxEvents              \* bound: pairs and prompts of the client, and faults

\* what the constants must be; no MMD file has the name of the L1 timer or of a mark
ServerAssumption ==
  /\ {NoTask, "L1", "_pending"} \cap Tasks = {}
  /\ {forceTriggerThreshold, l2NullThreshold} \subseteq Nat \ {0}
  /\ maxRetries \in Nat /\ MaxEvents \in Nat /\ namedLocks \in BOOLEAN

VARIABLES
  pending,               \* lines of pending.jsonl
  appended,              \* an ingestion has appended and not counted yet
  stamp,                 \* the boundary a pair's time falls under, by the client's clock
  boundaries, active,    \* state.json
  stateLock,             \* who holds offload-state
  entries,               \* entries.jsonl
  nodes,                 \* pairs in node-mapping.jsonl
  timers,                \* L1 and, for each MMD, L2
  queue,                 \* tasks: [type, of, try]
  run,                   \* what each coroutine is doing
  left, clobbered,       \* ghosts: pairs in processing files nobody has; pairs deleted by a rename
  stranded,              \* ghost: MMDs that lost what would bring L2 to them, and got no timer since
  faults                 \* workers that died, tasks claimed from one that lives, timers lost

files == <<pending, stamp, entries, nodes>>
state == <<boundaries, active, stateLock>>
work == <<timers, queue>>
ghosts == <<left, clobbered, stranded, faults>>
vars == <<files, appended, state, work, run, ghosts>>

Pending == "_pending"
Ingestion == "ingestion"
Task(type, of) == [type |-> type, of |-> of, try |-> 0]
Idle == [phase |-> "idle", task |-> Task("none", 0), seen |-> {}, bounds |-> <<>>]

Init ==
  /\ pending = {} /\ appended = FALSE /\ entries = {} /\ nodes = {}
  /\ stamp = [p \in Pairs |-> 0]
  /\ boundaries = <<>> /\ active = NoTask /\ stateLock = "free"
  /\ timers = {} /\ queue = {}
  /\ run = [c \in Coroutines |-> Idle]
  /\ left = {} /\ clobbered = {} /\ stranded = {} /\ faults = 0

-----------------------------------------------------------------------------
(* ingest-handler.ts *)

Reported == pending \cup entries \cup left \cup clobbered \cup UNION {run[c].seen : c \in Coroutines}

Events == Cardinality(Reported) + Len(boundaries) + faults

\* the client's clock may be behind the boundaries the server has drawn
IngestPair(p) ==
  /\ p \notin Reported /\ ~appended
  /\ Events < MaxEvents
  /\ pending' = pending \cup {p}
  /\ stamp' \in {[stamp EXCEPT ![p] = k] : k \in 0..Len(boundaries)}
  /\ appended' = TRUE
  /\ UNCHANGED <<entries, nodes, state, work, run, ghosts>>

IngestCounts ==
  /\ appended /\ appended' = FALSE
  /\ IF Cardinality(pending) >= forceTriggerThreshold
     THEN queue' = queue \cup {Task("offload-l1", 0)} /\ UNCHANGED timers
     ELSE timers' = timers \cup {"L1"} /\ UNCHANGED queue
  /\ UNCHANGED <<files, state, run, ghosts>>

IngestPrompt ==
  /\ Events < MaxEvents
  /\ stateLock = "free" /\ stateLock' = Ingestion
  /\ boundaries' = Append(boundaries, Pending)
  /\ UNCHANGED <<files, appended, active, work, run, ghosts>>

PromptQueued ==
  /\ stateLock = Ingestion /\ stateLock' = "free"
  /\ queue' = queue \cup {Task("offload-l15", Len(boundaries))}
  /\ UNCHANGED <<files, appended, boundaries, active, timers, run, ghosts>>

-----------------------------------------------------------------------------
(* Timers and workers *)

Fault == Events < MaxEvents /\ faults' = faults + 1

\* the scanner takes a timer before it queues its task, and may fail or die in between
TimerFires(t) ==
  /\ t \in timers
  /\ timers' = timers \ {t}
  /\ \/ /\ queue' = queue \cup {IF t = "L1" THEN Task("offload-l1", 0) ELSE Task("offload-l2", t)}
        /\ UNCHANGED <<stranded, faults>>
     \/ Fault /\ stranded' = stranded \cup ({t} \cap Tasks) /\ UNCHANGED queue
  /\ UNCHANGED <<files, appended, state, run, left, clobbered>>

\* Only L2 takes a lock, until its retry is queued.  The scanner's tasks do not name
\* their MMD: all of an instance share one.
IsL2(t) == t.type = "offload-l2"
LockKey(t) == IF namedLocks THEN t.of ELSE "default"
Locked(t) == IsL2(t) /\ \E c \in Coroutines : IsL2(run[c].task) /\ LockKey(run[c].task) = LockKey(t)

Begins(c, t) ==
  /\ run[c] = Idle /\ t \in queue /\ ~Locked(t)
  /\ queue' = queue \ {t}
  /\ run' = [run EXCEPT ![c] = [Idle EXCEPT !.phase = t.type, !.task = t]]
  /\ UNCHANGED <<files, appended, state, timers, ghosts>>

\* "skip immediately on lock conflict", with a task of this session or of another
\* one of the instance, whose MMDs may have the same names
SkipsOnConflict(c, t) ==
  /\ run[c] = Idle /\ t \in queue /\ IsL2(t)
  /\ queue' = queue \ {t}
  /\ stranded' = stranded \cup {t.of}
  /\ UNCHANGED <<files, appended, state, timers, run, left, clobbered, faults>>

At(c, phase) == run[c].phase = phase
Moves(c, r) == run' = [run EXCEPT ![c] = r]
Ends(c) == Moves(c, Idle)

\* A task that threw is acknowledged and sleeps, in memory and with its lock, before
\* it is queued again under a new id; after the last retry it is dead-lettered.
Throws(c) == Moves(c, IF run[c].task.try < maxRetries THEN [Idle EXCEPT !.phase = "sleeping", !.task = run[c].task]
                                                      ELSE Idle)
GivenUp(c) == IF IsL2(run[c].task) /\ run[c].task.try >= maxRetries THEN {run[c].task.of} ELSE {}

\* A run ends in an exception, or dies with its worker and is delivered again; no
\* retry will set the timers of the MMDs that it leaves.
BreaksOff(c, leaves) ==
  \/ Throws(c) /\ stranded' = stranded \cup leaves \cup GivenUp(c) /\ UNCHANGED <<queue, faults>>
  \/ Fault /\ Ends(c) /\ stranded' = stranded \cup leaves /\ queue' = queue \cup {run[c].task}

Requeues(c) ==
  /\ At(c, "sleeping")
  /\ queue' = queue \cup {[run[c].task EXCEPT !.try = @ + 1]}
  /\ Moves(c, IF IsL2(run[c].task) THEN [run[c] EXCEPT !.phase = "requeued"] ELSE Idle)
  /\ UNCHANGED <<files, appended, state, timers, ghosts>>

DiesAsleep(c) ==
  /\ At(c, "sleeping") /\ Fault /\ Ends(c)
  /\ stranded' = stranded \cup {t \in Tasks : IsL2(run[c].task) /\ run[c].task.of = t}
  /\ UNCHANGED <<files, appended, state, work, left, clobbered>>

Releases(c) == At(c, "requeued") /\ Ends(c) /\ UNCHANGED <<files, appended, state, work, ghosts>>

\* Another worker claims a task that is not acknowledged for long, though it still runs.
ClaimStale(c) ==
  /\ run[c].phase \notin {"idle", "sleeping", "requeued"}
  /\ Fault /\ queue' = queue \cup {run[c].task}
  /\ UNCHANGED <<files, appended, state, timers, run, left, clobbered, stranded>>

-----------------------------------------------------------------------------
(* L1 *)

\* rename is a get, a put and a delete
ClaimReads(c) ==
  /\ At(c, "offload-l1")
  /\ IF pending = {} THEN Ends(c)
     ELSE Moves(c, [run[c] EXCEPT !.phase = "claim", !.seen = pending])
  /\ UNCHANGED <<files, appended, state, work, ghosts>>

ClaimDeletes(c) ==
  /\ At(c, "claim")
  /\ clobbered' = clobbered \cup (pending \ run[c].seen)
  /\ pending' = {}
  /\ Moves(c, IF run[c].seen \subseteq entries THEN Idle
              ELSE [run[c] EXCEPT !.phase = "summarise", !.seen = @ \ entries])
  /\ UNCHANGED <<stamp, appended, entries, nodes, state, work, left, stranded, faults>>

\* the model's answer; pairs it left out get an entry too
L1Summarises(c) ==
  /\ At(c, "summarise")
  /\ entries' = entries \cup run[c].seen
  /\ Moves(c, [run[c] EXCEPT !.phase = "check", !.seen = {}])
  /\ UNCHANGED <<pending, appended, stamp, nodes, state, work, ghosts>>

\* the claim's rename failed, which is caught, or its worker died
ClaimFails(c) ==
  /\ At(c, "claim") /\ Ends(c)
  /\ UNCHANGED <<queue, faults>> \/ (Fault /\ queue' = queue \cup {run[c].task})
  /\ UNCHANGED <<files, appended, state, timers, left, clobbered, stranded>>

L1Fails(c) ==
  /\ At(c, "offload-l1") \/ At(c, "summarise")
  /\ left' = left \cup run[c].seen
  /\ BreaksOff(c, {})
  /\ UNCHANGED <<files, appended, state, timers, clobbered>>

\* findBoundaryByTimestamp
TargetIn(bs, p) ==
  LET k == IF stamp[p] < Len(bs) THEN stamp[p] ELSE Len(bs) IN IF k = 0 THEN NoTask ELSE bs[k]
NullsOf(bs, t) == {p \in entries \ nodes : TargetIn(bs, p) = t}

\* a mutant: the timer waits until the threshold is reached
FullMmds(bs) == {t \in Tasks : Cardinality(NullsOf(bs, t)) >= l2NullThreshold}

\* a mutant: entries outside a long task get a timer too
AnyMmds(bs) == {t \in Tasks \cup {NoTask} : NullsOf(bs, t) # {}}

\* MMDs whose L2 timer is set; how soon it fires depends on the threshold
DueMmds(bs) == {t \in Tasks : NullsOf(bs, t) # {}}

SetsTimers(due) == timers' = timers \cup due /\ stranded' = stranded \ due

L1ReadsState(c) ==
  /\ At(c, "check")
  /\ Moves(c, [run[c] EXCEPT !.phase = "timers", !.bounds = boundaries])
  /\ UNCHANGED <<files, appended, state, work, ghosts>>

L1SetsTimers(c) ==
  /\ At(c, "timers")
  /\ SetsTimers(DueMmds(run[c].bounds))
  /\ Ends(c)
  /\ UNCHANGED <<files, appended, state, queue, left, clobbered, faults>>

-----------------------------------------------------------------------------
(* L1.5 *)

\* no answer at all is thrown; one that does not parse, and ten attempts to get
\* the lock, are given up; its files may fail it before the boundary is written. The
\* lock of a worker that died expires.
L15Fails(c) ==
  /\ \/ (At(c, "offload-l15") \/ At(c, "judged")) /\ BreaksOff(c, {})
     \/ At(c, "offload-l15") /\ Ends(c) /\ UNCHANGED <<queue, stranded, faults>>
  /\ stateLock' = IF stateLock = c THEN "free" ELSE stateLock
  /\ UNCHANGED <<files, appended, boundaries, active, timers, left, clobbered>>

L15Locks(c) ==
  /\ At(c, "offload-l15")
  /\ stateLock = "free" /\ stateLock' = c
  /\ Moves(c, [run[c] EXCEPT !.phase = "judged"])
  /\ UNCHANGED <<files, appended, boundaries, active, work, ghosts>>

\* handleTaskTransition: the task goes on, another one begins, or none
AfterTransition == {active, NoTask} \cup Tasks

L15Writes(c) ==
  /\ At(c, "judged")
  /\ IF boundaries[run[c].task.of] = Pending
     THEN /\ active' \in AfterTransition
          /\ boundaries' = [boundaries EXCEPT ![run[c].task.of] = active']
          /\ Moves(c, [run[c] EXCEPT !.phase = "backfilled"]) /\ UNCHANGED stateLock
     ELSE Ends(c) /\ stateLock' = "free" /\ UNCHANGED <<boundaries, active>>
  /\ UNCHANGED <<files, appended, work, ghosts>>

L15SetsTimers(c) ==
  /\ At(c, "backfilled")
  /\ SetsTimers(DueMmds(boundaries))
  /\ stateLock' = "free"
  /\ Ends(c)
  /\ UNCHANGED <<files, appended, boundaries, active, queue, left, clobbered, faults>>

\* L1 after its append and L1.5 after its boundary: reading the files or setting a timer
\* fails.  The retry finds nothing pending, or the boundary filled in, and sets none.
TimersFail(c) ==
  /\ run[c].phase \in {"check", "timers", "backfilled"}
  /\ LET due == DueMmds(IF At(c, "timers") THEN run[c].bounds ELSE boundaries) IN
       \E set \in SUBSET due :
         /\ At(c, "check") => set = {}
         /\ timers' = timers \cup set
         /\ BreaksOff(c, due \ set)
  /\ stateLock' = IF stateLock = c THEN "free" ELSE stateLock
  /\ UNCHANGED <<files, appended, boundaries, active, left, clobbered>>

-----------------------------------------------------------------------------
(* L2 *)

L2ReadsState(c) ==
  /\ At(c, "offload-l2")
  /\ Moves(c, [run[c] EXCEPT !.phase = "l2 reads", !.bounds = boundaries])
  /\ UNCHANGED <<files, appended, state, work, ghosts>>

Relevant(c) == NullsOf(run[c].bounds, run[c].task.of)

L2ReadsEntries(c) ==
  /\ At(c, "l2 reads")
  /\ IF Relevant(c) = {} THEN Ends(c)
     ELSE Moves(c, [run[c] EXCEPT !.phase = "l2 asks", !.seen = Relevant(c)])
  /\ UNCHANGED <<files, appended, state, work, ghosts>>

L2Fails(c) ==
  /\ run[c].phase \in {"offload-l2", "l2 reads", "l2 asks", "l2 mapped"}
  /\ BreaksOff(c, {})
  /\ UNCHANGED <<files, appended, state, timers, left, clobbered>>

\* Entries older than ten minutes get an orphan node without asking.  A mapping
\* may leave entries out, an answer that does not parse leaves out all.
L2Maps(c) ==
  /\ At(c, "l2 asks")
  /\ \E mapped \in SUBSET run[c].seen : nodes' = nodes \cup mapped
  /\ Moves(c, [run[c] EXCEPT !.phase = "l2 mapped"])
  /\ UNCHANGED <<pending, stamp, entries, appended, state, work, ghosts>>

Remaining(c) == run[c].seen \ nodes

L2Ends(c) ==
  /\ At(c, "l2 mapped")
  /\ SetsTimers(IF Remaining(c) # {} THEN {run[c].task.of} ELSE {})
  /\ Ends(c)
  /\ UNCHANGED <<files, appended, state, queue, left, clobbered, faults>>

-----------------------------------------------------------------------------
Next ==
  \/ \E p \in Pairs : IngestPair(p)
  \/ IngestCounts \/ IngestPrompt \/ PromptQueued
  \/ \E t \in timers : TimerFires(t)
  \/ \E c \in Coroutines :
       \/ \E t \in queue : Begins(c, t) \/ SkipsOnConflict(c, t)
       \/ Requeues(c) \/ DiesAsleep(c) \/ Releases(c) \/ ClaimStale(c)
       \/ ClaimReads(c) \/ ClaimDeletes(c) \/ ClaimFails(c) \/ L1Summarises(c) \/ L1Fails(c)
       \/ L1ReadsState(c) \/ L1SetsTimers(c)
       \/ L15Fails(c) \/ L15Locks(c) \/ L15Writes(c) \/ L15SetsTimers(c) \/ TimersFail(c)
       \/ L2ReadsState(c) \/ L2ReadsEntries(c) \/ L2Fails(c) \/ L2Maps(c) \/ L2Ends(c)

Spec == Init /\ [][Next]_vars

-----------------------------------------------------------------------------
TypeOK ==
  /\ pending \subseteq Pairs /\ nodes \subseteq entries /\ entries \subseteq Pairs
  /\ \A k \in 1..Len(boundaries) : boundaries[k] \in Tasks \cup {NoTask, Pending}
  /\ active \in Tasks \cup {NoTask}
  /\ stateLock \in {"free", Ingestion} \cup Coroutines
  /\ timers \subseteq {"L1"} \cup Tasks
  /\ left \subseteq Pairs /\ clobbered \subseteq Pairs /\ stranded \subseteq Tasks

\* a run that will still set the timer of the entry, or map it
Serves(c, p, t) ==
  \/ run[c].phase \in {"check", "backfilled"}
  \/ run[c].phase = "timers" /\ TargetIn(run[c].bounds, p) = t
  \/ IsL2(run[c].task) /\ run[c].task.of = t
     /\ \/ run[c].phase \in {"offload-l2", "sleeping"}
        \/ run[c].phase = "l2 reads" /\ TargetIn(run[c].bounds, p) = t
        \/ p \in run[c].seen

\* No lost wakeup between L1, which appends an entry and then reads the
\* boundaries, and L1.5, which writes a boundary and then reads the entries: an
\* entry of a task that has no node has a timer, a queued task or a run that
\* serves it.  An MMD is exempt after it lost its trigger, until the next time that
\* its timer is set: a task of it was skipped for a lock, given up, or lost in its
\* sleep; the scanner took its timer and queued nothing; an L1 or L1.5 broke off
\* between what it had written and the timers, which no retry makes up for.
EntriesReachL2 ==
  \A p \in entries \ nodes : LET t == TargetIn(boundaries, p) IN
    t \in Tasks \ stranded =>
      \/ t \in timers
      \/ \E q \in queue : IsL2(q) /\ q.of = t
      \/ \E c \in Coroutines : Serves(c, p, t)

\* The claim takes no pair out of the pending file that it did not read.  (That no two
\* claims read the same pair does not hold either, and is not stated here.)
ClaimKeepsPairs == clobbered = {}
=============================================================================
