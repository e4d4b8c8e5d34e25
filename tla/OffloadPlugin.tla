---------------------------- MODULE OffloadPlugin ----------------------------
(* The context-offload plugin for one session: tool calls are reported to    *)
(* it, L1 flushes summarise them into entries of a JSONL file, an L1.5       *)
(* judgment at every prompt draws the boundary between two tasks, and L2     *)
(* puts the entries of a long task into that task's MMD file.                *)
(*                                                                           *)
(* A step is what runs between two awaits.  The backend may answer, fail or  *)
(* leave entries out; how old an entry or a run is, is any value.  An L2     *)
(* batch is not split at L2_BATCH_SIZE; heartbeats and approvals never enter *)
(* the pipeline.                                                             *)
EXTENDS Naturals, FiniteSets, Sequences, SequencesExt, Subsequences

CONSTANTS
  Pairs,                \* tool calls, by their ids
  Tasks,                \* the MMD files L1.5 may name
  NoTask,               \* no active MMD
  L1_BATCH_SIZE,
  MAX_L1_CHUNK_RETRIES,
  ForceThreshold,       \* forceTriggerThreshold
  NullThreshold,        \* l2NullThreshold
  MaxPrompts            \* bound: prompts of the user

\* what the constants must be
PluginAssumption ==
  /\ NoTask \notin Tasks
  /\ {L1_BATCH_SIZE, MAX_L1_CHUNK_RETRIES, ForceThreshold, NullThreshold} \subseteq Nat \ {0}
  /\ MaxPrompts \in Nat /\ IsFiniteSet(Pairs)

VARIABLES
  reported,         \* tool calls the host has reported
  pending,          \* pendingToolPairs
  flushes,          \* flushL1 calls in the order of the L1 lock; the head holds it
  fails,            \* _l1ChunkFailCounts
  entries,          \* the JSONL file: [id, node]
  entryCounter,
  boundaries,       \* l15Boundaries: [start, task], NoTask for a short task
  active,           \* activeMmdFile
  settled,          \* l15Settled
  judges,           \* judgeL15 calls under way
  prompts,
  l2,               \* the run of each L2 caller, and of L3's marks, which all rewrite the file
  l2Running,
  poll,             \* whether _l2PollHandle is set
  omitted, lost     \* ghosts: pairs that were left out or dropped; entries a rewrite overwrote

l1Vars == <<reported, pending, flushes, fails, omitted>>
judgeVars == <<boundaries, active, settled, judges, prompts>>
l2Vars == <<l2, l2Running, poll>>
vars == <<l1Vars, entries, entryCounter, judgeVars, l2Vars, lost>>

Null == "null"
Wait == "wait"
Callers == {"trigger", "switch", "status"}
NoRun == [phase |-> "idle", batches |-> {}, batch |-> <<>>, seen |-> <<>>]

Ids(es) == {es[i].id : i \in 1..Len(es)}
Nulls == {i \in 1..Len(entries) : entries[i].node = Null}

Init ==
  /\ reported = {} /\ pending = <<>> /\ flushes = <<>> /\ omitted = {}
  /\ fails = [p \in Pairs |-> 0]
  /\ entries = <<>> /\ entryCounter = 0 /\ lost = {}
  /\ boundaries = <<>> /\ active = NoTask /\ settled = FALSE
  /\ judges = {} /\ prompts = 0
  /\ l2 = [c \in Callers |-> NoRun] /\ l2Running = FALSE /\ poll = FALSE

-----------------------------------------------------------------------------
(* L1 *)

Flush(by, max) == [by |-> by, max |-> max, chunks |-> <<>>, taken |-> FALSE, uncounted |-> 0]

AddToolPair(p) == Append(pending, p)

AfterToolCall(p) ==
  /\ p \notin reported
  /\ reported' = reported \cup {p}
  /\ pending' = AddToolPair(p)
  /\ flushes' = IF Len(pending') >= ForceThreshold
                THEN Append(flushes, Flush(0, Cardinality(Pairs))) ELSE flushes
  /\ UNCHANGED <<fails, omitted, entries, entryCounter, judgeVars, l2Vars, lost>>

\* before_prompt_build and afterTurn; as a bound, only when no other hook's flush waits
TurnHook ==
  /\ pending # <<>> /\ \A k \in 1..Len(flushes) : flushes[k].by # 0
  /\ flushes' = Append(flushes, Flush(0, Cardinality(Pairs)))
  /\ UNCHANGED <<reported, pending, fails, omitted, entries, entryCounter, judgeVars, l2Vars, lost>>

Chunk(s, k) == SubSeq(s, (k - 1) * L1_BATCH_SIZE + 1,
                      IF k * L1_BATCH_SIZE < Len(s) THEN k * L1_BATCH_SIZE ELSE Len(s))
Chunks(s) == [k \in 1..(Len(s) + L1_BATCH_SIZE - 1) \div L1_BATCH_SIZE |-> Chunk(s, k)]

Holder == flushes[1]
SetHolder(h) == flushes' = [flushes EXCEPT ![1] = h]

TakePending ==
  /\ flushes # <<>> /\ ~Holder.taken
  /\ LET n == IF Holder.max < Len(pending) THEN Holder.max ELSE Len(pending) IN
       /\ SetHolder([Holder EXCEPT !.taken = TRUE, !.chunks = Chunks(SubSeq(pending, 1, n))])
       /\ pending' = SubSeq(pending, n + 1, Len(pending))
  /\ UNCHANGED <<reported, fails, omitted, entries, entryCounter, judgeVars, l2Vars, lost>>

Summarising == flushes # <<>> /\ Holder.chunks # <<>> /\ Holder.uncounted = 0
FirstChunk == Holder.chunks[1]
Key == FirstChunk[1]

AppendOffloadEntries(ids) ==
  LET new == Kept(ids, {i \in DOMAIN ids : ids[i] \notin Ids(entries)})
  IN entries' = entries \o [i \in DOMAIN new |-> [id |-> new[i], node |-> Null]]

Appended(ids) ==
  /\ AppendOffloadEntries(ids)
  /\ SetHolder([Holder EXCEPT !.uncounted = Len(ids), !.chunks = Tail(@)])

L1Answers ==
  /\ Summarising
  /\ \E some \in SUBSET ToSet(FirstChunk) :
       LET ids == Kept(FirstChunk, {i \in DOMAIN FirstChunk : FirstChunk[i] \in some}) IN
         /\ Appended(ids)
         /\ omitted' = omitted \cup (ToSet(FirstChunk) \ some)
  /\ fails' = [fails EXCEPT ![Key] = 0]
  /\ UNCHANGED <<reported, pending, entryCounter, judgeVars, l2Vars, lost>>

\* a mutant: a failed chunk is left to its retry counter
RequeuedNothing == pending

\* the chunk goes back behind the pairs that came in meanwhile
Requeued == pending \o FirstChunk

L1Fails ==
  /\ Summarising /\ fails[Key] + 1 < MAX_L1_CHUNK_RETRIES
  /\ fails' = [fails EXCEPT ![Key] = @ + 1]
  /\ pending' = Requeued
  /\ SetHolder([Holder EXCEPT !.chunks = Tail(@)])
  /\ UNCHANGED <<reported, omitted, entries, entryCounter, judgeVars, l2Vars, lost>>

\* after the last retry the chunk gets degraded entries
L1GivesUp ==
  /\ Summarising /\ fails[Key] + 1 >= MAX_L1_CHUNK_RETRIES
  /\ fails' = [fails EXCEPT ![Key] = 0]
  /\ Appended(FirstChunk)
  /\ UNCHANGED <<reported, pending, omitted, entryCounter, judgeVars, l2Vars, lost>>

Asking(j) == [j EXCEPT !.phase = "ask", !.start = entryCounter, !.prev = active]
Releases(h) == judges' = {IF j.n = h.by THEN Asking(j) ELSE j : j \in judges}
InChunks(h) == UNION {ToSet(h.chunks[k]) : k \in 1..Len(h.chunks)}

\* The degraded entries cannot be appended: the exception ends the flush and the pairs
\* that it still has are dropped.  A judgment goes on, a hook does not notify L2.
FallbackFails ==
  /\ Summarising /\ fails[Key] + 1 >= MAX_L1_CHUNK_RETRIES
  /\ fails' = [fails EXCEPT ![Key] = 0]
  /\ omitted' = omitted \cup InChunks(Holder)
  /\ flushes' = Tail(flushes)
  /\ Releases(Holder)
  /\ UNCHANGED <<reported, pending, entries, entryCounter, boundaries, active, settled, prompts, l2Vars, lost>>

L1Counts ==
  /\ flushes # <<>> /\ Holder.uncounted > 0
  /\ entryCounter' = entryCounter + Holder.uncounted
  /\ SetHolder([Holder EXCEPT !.uncounted = 0])
  /\ UNCHANGED <<reported, pending, fails, omitted, entries, judgeVars, l2Vars, lost>>

\* The lock goes to the next flush.  A hook's flush notifies L2 of null
\* entries, a judgment's lets the judgment go on: entries from here on belong
\* to the new prompt.
FlushEnds ==
  /\ flushes # <<>> /\ Holder.taken /\ Holder.chunks = <<>> /\ Holder.uncounted = 0
  /\ flushes' = Tail(flushes)
  /\ Releases(Holder)
  /\ poll' = (poll \/ (Holder.by = 0 /\ Nulls # {}))
  /\ UNCHANGED <<reported, pending, fails, omitted, entries, entryCounter, boundaries, active,
                 settled, prompts, l2, l2Running, lost>>

-----------------------------------------------------------------------------
(* L1.5 *)

PushBoundary(start, task) ==
  LET b == [start |-> start, task |-> task] IN
    boundaries' = IF boundaries # <<>> /\ Last(boundaries).start = start
                  THEN Append(Front(boundaries), b) ELSE Append(boundaries, b)

\* the last boundary before the first one that begins behind the entry
TaskOf(i) ==
  LET k == SelectInSeq(boundaries, LAMBDA b : b.start > i) - 1
      n == IF k >= 0 THEN k ELSE Len(boundaries)
  IN IF n = 0 THEN NoTask ELSE boundaries[n].task

JudgeL15 ==
  /\ prompts < MaxPrompts
  /\ prompts' = prompts + 1
  /\ settled' = FALSE
  /\ LET j == [n |-> prompts + 1, phase |-> "flush", tries |-> 0, start |-> 0, prev |-> NoTask] IN
       IF pending # <<>>
       THEN /\ judges' = judges \cup {j}
            /\ flushes' = Append(flushes, Flush(j.n, Len(pending)))
       ELSE judges' = judges \cup {Asking(j)} /\ UNCHANGED flushes
  /\ UNCHANGED <<reported, pending, fails, omitted, entries, entryCounter, boundaries, active,
                 l2Vars, lost>>

\* the task the judgment leaves active; the entries before the line that have
\* no node yet are flushed to the task it replaced
JudgmentMade(j, t) ==
  /\ j.phase = "ask"
  /\ judges' = judges \ {j}
  /\ active' = t
  /\ PushBoundary(j.start, t)
  /\ settled' = TRUE
  /\ l2' = IF j.prev # NoTask /\ t # j.prev /\ l2["switch"].phase = "idle"
           THEN [l2 EXCEPT !["switch"] = [NoRun EXCEPT !.phase = "residual", !.batch = <<j.prev, j.start>>]]
           ELSE l2
  /\ UNCHANGED <<l1Vars, entries, entryCounter, prompts, l2Running, poll, lost>>

JudgmentFails(j) ==
  /\ j.phase = "ask"
  /\ IF j.tries = 0
     THEN /\ judges' = (judges \ {j}) \cup {[j EXCEPT !.phase = "retry", !.tries = 1]}
          /\ UNCHANGED <<active, boundaries, settled>>
     ELSE /\ judges' = judges \ {j}
          /\ active' = NoTask /\ PushBoundary(j.start, NoTask) /\ settled' = TRUE
  /\ UNCHANGED <<l1Vars, entries, entryCounter, prompts, l2Vars, lost>>

RetryFires(j) ==
  /\ j.phase = "retry"
  /\ judges' = (judges \ {j}) \cup (IF settled THEN {} ELSE {[j EXCEPT !.phase = "ask", !.prev = active]})
  /\ UNCHANGED <<l1Vars, entries, entryCounter, boundaries, active, settled, prompts, l2Vars, lost>>

-----------------------------------------------------------------------------
(* L2 *)

\* null entries, and waiting ones when they are old enough, of long tasks
Eligible(old) ==
  {i \in 1..Len(entries) : entries[i].node \in {Null} \cup (IF old THEN {Wait} ELSE {})
                           /\ TaskOf(i - 1) # NoTask}
EntriesByMmd(is) ==
  {<<t, {entries[i].id : i \in {k \in is : TaskOf(k - 1) = t}}>> : t \in {TaskOf(k - 1) : k \in is}}

SetRun(c, r) == l2' = [l2 EXCEPT ![c] = r]
StartRun == SetRun("trigger", [NoRun EXCEPT !.phase = "check"]) /\ l2Running' = TRUE

\* A tick waits for the judgment, for a minute at most.  It starts a run on
\* enough null entries or after the timeout, and otherwise ticks again.
PollTick ==
  /\ poll
  /\ settled' = TRUE
  /\ \/ Nulls # {} /\ UNCHANGED <<l2, l2Running, poll>>
     \/ Nulls # {} /\ ~l2Running /\ StartRun /\ poll' = FALSE
     \/ Nulls = {} /\ poll' = FALSE /\ UNCHANGED <<l2, l2Running>>
  /\ UNCHANGED <<l1Vars, entries, entryCounter, boundaries, active, judges, prompts, lost>>

CheckL2Trigger ==
  /\ l2["trigger"].phase = "check"
  /\ \E old, timedOut \in BOOLEAN :
       LET is == Eligible(old)
           start == is # {} /\ (timedOut \/ Cardinality(is \cap Nulls) >= NullThreshold)
       IN SetRun("trigger", [NoRun EXCEPT !.phase = IF start THEN "next" ELSE "done",
                                          !.batches = IF start THEN EntriesByMmd(is) ELSE {}])
  /\ UNCHANGED <<l1Vars, entries, entryCounter, judgeVars, l2Running, poll, lost>>

Residual ==
  /\ l2["switch"].phase = "residual"
  /\ LET b == l2["switch"].batch
         ids == {entries[i].id : i \in {k \in 1..Len(entries) : k <= b[2] /\ entries[k].node \in {Null, Wait}}}
     IN SetRun("switch", [NoRun EXCEPT !.phase = "next", !.batches = IF ids = {} THEN {} ELSE {<<b[1], ids>>}])
  /\ UNCHANGED <<l1Vars, entries, entryCounter, judgeVars, l2Running, poll, lost>>

\* The file is read, changed and written whole, without a lock.
MarkedWaiting(es, ids) ==
  [i \in 1..Len(es) |-> IF es[i].id \in ids /\ es[i].node = Null THEN [es[i] EXCEPT !.node = Wait] ELSE es[i]]
Backfilled(es, ids, t) ==
  [i \in 1..Len(es) |-> IF es[i].id \in ids /\ es[i].node = Wait THEN [es[i] EXCEPT !.node = t] ELSE es[i]]
Rewritten(es) ==
  /\ entries' = es
  /\ lost' = (lost \cup Ids(entries)) \ Ids(es)

BatchRead(c) ==
  /\ l2[c].phase = "next" /\ l2[c].batches # {}
  /\ \E b \in l2[c].batches :
       SetRun(c, [phase |-> "mark", batches |-> l2[c].batches \ {b}, batch |-> b, seen |-> entries])
  /\ UNCHANGED <<l1Vars, entries, entryCounter, judgeVars, l2Running, poll, lost>>

BatchMarked(c) ==
  LET r == l2[c]
      es == MarkedWaiting(r.seen, r.batch[2])
  IN /\ r.phase = "mark"
     /\ IF es # r.seen THEN Rewritten(es) ELSE UNCHANGED <<entries, lost>>
     /\ SetRun(c, [r EXCEPT !.phase = "ask", !.seen = <<>>])
     /\ UNCHANGED <<l1Vars, entryCounter, judgeVars, l2Running, poll>>

\* without a mapping and without a node in the MMD the entries stay waiting
L2Answers(c) ==
  /\ l2[c].phase = "ask"
  /\ SetRun(c, [l2[c] EXCEPT !.phase = "backfill", !.seen = entries])
  /\ UNCHANGED <<l1Vars, entries, entryCounter, judgeVars, l2Running, poll, lost>>

L2FailsOrMapsNothing(c) ==
  /\ l2[c].phase = "ask"
  /\ SetRun(c, [l2[c] EXCEPT !.phase = "next", !.batch = <<>>])
  /\ UNCHANGED <<l1Vars, entries, entryCounter, judgeVars, l2Running, poll, lost>>

BackfillNodeIds(c) ==
  LET r == l2[c]
      es == Backfilled(r.seen, r.batch[2], r.batch[1])
  IN /\ r.phase = "backfill"
     /\ IF es # r.seen THEN Rewritten(es) ELSE UNCHANGED <<entries, lost>>
     /\ SetRun(c, [r EXCEPT !.phase = "next", !.batch = <<>>, !.seen = <<>>])
     /\ UNCHANGED <<l1Vars, entryCounter, judgeVars, l2Running, poll>>

SwitchEnds ==
  /\ l2["switch"].phase = "next" /\ l2["switch"].batches = {}
  /\ SetRun("switch", NoRun)
  /\ UNCHANGED <<l1Vars, entries, entryCounter, judgeVars, l2Running, poll, lost>>

RunOver ==
  l2["trigger"].phase = "done" \/ (l2["trigger"].phase = "next" /\ l2["trigger"].batches = {})

\* tryTriggerL2's finally block: post_completion starts the next run at once
PostCompletion ==
  /\ RunOver /\ Cardinality(Nulls) >= NullThreshold
  /\ StartRun /\ poll' = FALSE
  /\ UNCHANGED <<l1Vars, entries, entryCounter, judgeVars, lost>>

RunEnds ==
  /\ RunOver /\ Cardinality(Nulls) < NullThreshold
  /\ SetRun("trigger", NoRun) /\ l2Running' = FALSE
  /\ poll' = (Nulls # {})
  /\ UNCHANGED <<l1Vars, entries, entryCounter, judgeVars, lost>>

\* Each cut of a conversation marks the entries of the results it took out; one cut
\* at a time is modelled, and not the mark itself.
MarkOffloadStatus ==
  /\ l2["status"].phase = "idle" /\ entries # <<>>
  /\ SetRun("status", [NoRun EXCEPT !.phase = "status", !.seen = entries])
  /\ UNCHANGED <<l1Vars, entries, entryCounter, judgeVars, l2Running, poll, lost>>

StatusMarked ==
  /\ l2["status"].phase = "status"
  /\ Rewritten(l2["status"].seen)
  /\ SetRun("status", NoRun)
  /\ UNCHANGED <<l1Vars, entryCounter, judgeVars, l2Running, poll>>

L2Step ==
  \/ CheckL2Trigger \/ Residual \/ SwitchEnds \/ PostCompletion \/ RunEnds
  \/ \E c \in Callers : BatchRead(c) \/ BatchMarked(c) \/ L2Answers(c) \/ L2FailsOrMapsNothing(c) \/ BackfillNodeIds(c)

Next ==
  \/ \E p \in Pairs : AfterToolCall(p)
  \/ TurnHook \/ TakePending \/ L1Answers \/ L1Fails \/ L1GivesUp \/ FallbackFails \/ L1Counts \/ FlushEnds
  \/ JudgeL15
  \/ \E j \in judges : JudgmentFails(j) \/ RetryFires(j) \/ \E t \in Tasks \cup {NoTask} : JudgmentMade(j, t)
  \/ PollTick
  \/ L2Step \/ MarkOffloadStatus \/ StatusMarked

Spec == Init /\ [][Next]_vars
FairSpec == Spec /\ WF_vars(L2Step)

-----------------------------------------------------------------------------
TypeOK ==
  /\ reported \subseteq Pairs /\ omitted \subseteq Pairs /\ lost \subseteq Pairs
  /\ pending \in Seq(Pairs)
  /\ fails \in [Pairs -> 0..MAX_L1_CHUNK_RETRIES - 1]
  /\ \A i \in 1..Len(entries) : entries[i].id \in Pairs /\ entries[i].node \in {Null, Wait} \cup Tasks
  /\ entryCounter \in Nat
  /\ active \in Tasks \cup {NoTask}
  /\ settled \in BOOLEAN /\ poll \in BOOLEAN
  /\ l2Running = (l2["trigger"].phase # "idle")

InFlush == UNION {InChunks(flushes[k]) : k \in 1..Len(flushes)}

\* A reported tool call is pending, with a flush, or has its entry, through
\* failures of the backend and flushes of three hooks at once, but for three ways
\* to lose it that the ghosts record: the backend's answer leaves it out, its
\* degraded entry cannot be appended to the file, or a rewrite of the file, which
\* L2 and L3 read, change and write without a lock, runs over its entry.
PairsKept ==
  reported \subseteq ToSet(pending) \cup InFlush \cup Ids(entries) \cup omitted \cup lost

\* What the comment on a failed judgment promises: null entries of a short task
\* do not keep L2 going.
ShortTasksRest == <>[][~PostCompletion]_vars
=============================================================================
