----------------------------- MODULE Checkpoint -----------------------------
(***************************************************************************)
(* CheckpointManager (src/src/utils/checkpoint.ts): one JSON file that     *)
(* captures, L1 runs and the pipeline manager change under a lock that is  *)
(* a chain of promises.  A locked operation is a read of the file, the     *)
(* body the caller passed, and a write of the whole file, with an await    *)
(* between each: the steps of waiting operations and of everything else in *)
(* the process come in between.  Reads for a decision take no lock.        *)
(*                                                                         *)
(* The callers are the capture hook (auto-capture.ts, l0-recorder.ts), the *)
(* L1 runner and the persister of pipeline-factory.ts.  Reads and writes   *)
(* of the file may fail, and the process may crash and restart.            *)
(***************************************************************************)
EXTENDS CheckpointFile, Sequences, SequencesExt

CONSTANTS
    MaxChain,         \* bound: operations running or waiting at once
    MaxRedeliveries,  \* bound: agent_end events delivered a second time
    MaxFaults,        \* bound: failed reads and writes of the file
    MaxCrashes        \* bound: crashes of the process

ASSUME FaultBoundsAssumption ==
    /\ MaxChain \in Nat
    /\ MaxRedeliveries \in Nat
    /\ MaxFaults \in Nat
    /\ MaxCrashes \in Nat

VARIABLES
    file,         \* the checkpoint on disk
    chain,        \* operations in the order they called withFileLock
    taken,        \* how often a message was handed to L0
    memories,     \* memories the L1 runs stored
    log,          \* the conversations, as the host keeps them
    clock,        \* time of the last message
    turn,         \* sessions with a turn between prompt build and agent_end
    cut,          \* newest message at the last prompt build (0: not cached)
    boot,         \* pluginStartTimestamp
    mgr,          \* session states the pipeline manager has in memory
    saves,        \* number of the manager's last save
    l1,           \* the L1 run under way
    redelivered, faults, crashes

fileVars == <<file, chain>>
l0Vars == <<taken, log, clock, turn, cut, boot, redelivered>>
l1Vars == <<memories, l1>>
mgrVars == <<mgr, saves>>
vars == <<fileVars, l0Vars, l1Vars, mgrVars, faults, crashes>>

Entry == [op : Op, step : {"waiting", "loaded", "applied"}, cp : Checkpoint]
L1Run == [phase : {"idle", "extracting", "marking"},
          session : Sessions, cursor : Cursor]

TypeOK ==
    /\ file \in Checkpoint
    /\ chain \in Seq(Entry)
    /\ taken \in [Sessions -> [Time -> Nat]]
    /\ memories \in Nat
    /\ log \in [Sessions -> SUBSET Time]
    /\ clock \in Cursor
    /\ turn \in SUBSET Sessions
    /\ cut \in [Sessions -> Cursor]
    /\ boot \in Cursor
    /\ mgr \in [Sessions -> Save]
    /\ saves \in Save
    /\ l1 \in L1Run
    /\ redelivered \in 0 .. MaxRedeliveries
    /\ faults \in 0 .. MaxFaults
    /\ crashes \in 0 .. MaxCrashes

IdleL1 == [phase |-> "idle", session |-> CHOOSE s \in Sessions : TRUE, cursor |-> 0]

Init ==
    /\ file = DEFAULT_CHECKPOINT
    /\ chain = <<>>
    /\ taken = [s \in Sessions |-> [m \in Time |-> 0]]
    /\ memories = 0
    /\ log = [s \in Sessions |-> {}]
    /\ clock = 0
    /\ turn = {}
    /\ cut = [s \in Sessions |-> 0]
    /\ boot = 0
    /\ mgr = [s \in Sessions |-> 0]
    /\ saves = 0
    /\ l1 = IdleL1
    /\ redelivered = 0
    /\ faults = 0
    /\ crashes = 0

-----------------------------------------------------------------------------
(* The lock.  An operation waits for the gate of the one that called before
   it, so only the oldest may run; release() opens the next gate whether the
   body returned or threw. *)

\* mutant: the file is read when the operation is called, before its turn
LoadsWhenCalled(op) ==
    /\ Len(chain) < MaxChain
    /\ chain' = Append(chain, [op |-> op, step |-> "loaded", cp |-> file])

WithFileLock(op) ==
    /\ Len(chain) < MaxChain
    /\ chain' = Append(chain, [op |-> op, step |-> "waiting",
                               cp |-> DEFAULT_CHECKPOINT])

\* mutant: the second in line does not wait
SkipsGate(i) == i <= 2

\* mutant: the gate of an operation that throws stays shut
ShutByFailure(i) == i = 1 /\ faults = 0

MayRun(i) == i = 1

Release(i) == chain' = RemoveAt(chain, i)

Fault ==
    /\ faults < MaxFaults
    /\ faults' = faults + 1

\* readRaw: a file that cannot be read or parsed is an empty checkpoint.
Read(i) ==
    /\ chain[i].step = "waiting"
    /\ MayRun(i)
    /\ \/ /\ chain' = [chain EXCEPT ![i].step = "loaded", ![i].cp = file]
          /\ UNCHANGED faults
       \/ /\ chain' = [chain EXCEPT ![i].step = "loaded",
                                    ![i].cp = DEFAULT_CHECKPOINT]
          /\ Fault
    /\ UNCHANGED <<file, l0Vars, l1Vars, mgrVars, crashes>>

\* The body of the operation: a capture hands its new messages to L0, and a
\* failure to append them to the L0 file is swallowed (l0-recorder.ts:297).
Run(i) ==
    LET e == chain[i]
    IN  /\ e.step = "loaded"
        /\ chain' = [chain EXCEPT ![i].step = "applied",
                                  ![i].cp = Apply(e.op, e.cp)]
        /\ IF e.op.kind = "captureAtomically"
           THEN taken' = [taken EXCEPT ![e.op.session] = [m \in Time |->
                    IF m \in RecordConversation(e.op, e.cp) THEN @[m] + 1 ELSE @[m]]]
           ELSE UNCHANGED taken
        /\ UNCHANGED <<file, log, clock, turn, cut, boot, redelivered,
                       l1Vars, mgrVars, faults, crashes>>

\* The L1 run that awaited the operation ends, with success or with an error.
L1Returns(op) ==
    IF op.kind = "markL1ExtractionComplete" THEN l1' = IdleL1 ELSE UNCHANGED l1

\* writeRaw replaces the file by rename, or fails and leaves it alone.
Write(i) ==
    /\ chain[i].step = "applied"
    /\ file' = chain[i].cp
    /\ Release(i)
    /\ L1Returns(chain[i].op)
    /\ UNCHANGED <<l0Vars, memories, mgrVars, faults, crashes>>

WriteFails(i) ==
    /\ chain[i].step = "applied"
    /\ Fault
    /\ Release(i)
    /\ L1Returns(chain[i].op)
    /\ UNCHANGED <<file, l0Vars, memories, mgrVars, crashes>>

-----------------------------------------------------------------------------
(* Conversations and captures *)

\* before_prompt_build caches how long the history is, then the host appends
\* the user's message.
BuildPrompt(s) ==
    /\ s \notin turn
    /\ clock < MaxMessages
    /\ clock' = clock + 1
    /\ cut' = [cut EXCEPT ![s] = IF log[s] = {} THEN 0 ELSE Newest(log[s])]
    /\ log' = [log EXCEPT ![s] = @ \cup {clock'}]
    /\ turn' = turn \cup {s}
    /\ UNCHANGED <<fileVars, taken, boot, redelivered, l1Vars, mgrVars,
                   faults, crashes>>

\* The whole history, or what follows the cached length: the cache may have
\* been swept.
Windows(s) == {log[s], {m \in log[s] : m > cut[s]}}

CallCapture(s) ==
    \E w \in Windows(s) :
        WithFileLock([kind |-> "captureAtomically", session |-> s,
                      window |-> w, floor |-> boot])

AgentEnd(s) ==
    /\ s \in turn
    /\ CallCapture(s)
    /\ turn' = turn \ {s}
    /\ UNCHANGED <<file, taken, log, clock, cut, boot, redelivered, l1Vars,
                   mgrVars, faults, crashes>>

\* A second agent_end for a turn that has already been handed over.
Redeliver(s) ==
    /\ s \notin turn
    /\ log[s] # {}
    /\ redelivered < MaxRedeliveries
    /\ redelivered' = redelivered + 1
    /\ CallCapture(s)
    /\ UNCHANGED <<file, taken, log, clock, turn, cut, boot, l1Vars, mgrVars,
                   faults, crashes>>

-----------------------------------------------------------------------------
(* The L1 runner: the manager's queue runs one at a time *)

\* The cursor is read without the lock.
StartL1(s) ==
    /\ l1.phase = "idle"
    /\ \/ /\ l1' = [phase |-> "extracting", session |-> s, cursor |-> file.l1[s]]
          /\ UNCHANGED faults
       \/ /\ l1' = [phase |-> "extracting", session |-> s, cursor |-> 0]
          /\ Fault
    /\ UNCHANGED <<fileVars, l0Vars, memories, mgrVars, crashes>>

\* The messages after the cursor are extracted up to some message, the new
\* cursor.
FinishL1(cursor, stored) ==
    /\ l1.phase = "extracting"
    /\ cursor > l1.cursor
    /\ taken[l1.session][cursor] > 0
    /\ WithFileLock([kind |-> "markL1ExtractionComplete",
                     session |-> l1.session, cursor |-> cursor,
                     stored |-> stored])
    /\ l1' = [l1 EXCEPT !.phase = "marking"]
    /\ memories' = memories + stored
    /\ UNCHANGED <<file, l0Vars, mgrVars, faults, crashes>>

\* No new message, or the extraction threw.
AbandonL1 ==
    /\ l1.phase = "extracting"
    /\ l1' = IdleL1
    /\ UNCHANGED <<fileVars, l0Vars, memories, mgrVars, faults, crashes>>

-----------------------------------------------------------------------------
(* The pipeline manager and the process *)

\* persistStates copies all the sessions in memory before it calls.
PersistStates(s) ==
    /\ saves < MaxSaves
    /\ saves' = saves + 1
    /\ mgr' = [mgr EXCEPT ![s] = saves']
    /\ WithFileLock([kind |-> "mergePipelineStates", states |-> mgr'])
    /\ UNCHANGED <<file, l0Vars, l1Vars, faults, crashes>>

\* A crash and the restart: start() restores the saved pipeline states, or
\* none when the file cannot be read.
Crash ==
    /\ crashes < MaxCrashes
    /\ crashes' = crashes + 1
    /\ chain' = <<>>
    /\ turn' = {}
    /\ cut' = [s \in Sessions |-> 0]
    /\ boot' = clock
    /\ l1' = IdleL1
    /\ \/ /\ mgr' = file.pipeline
          /\ UNCHANGED faults
       \/ /\ mgr' = DEFAULT_CHECKPOINT.pipeline
          /\ Fault
    /\ UNCHANGED <<file, taken, memories, log, clock, redelivered, saves>>

-----------------------------------------------------------------------------
LockStep == \E i \in DOMAIN chain : Read(i) \/ Run(i) \/ Write(i) \/ WriteFails(i)

Next ==
    \/ LockStep
    \/ \E s \in Sessions : \/ BuildPrompt(s)
                           \/ AgentEnd(s)
                           \/ Redeliver(s)
                           \/ StartL1(s)
                           \/ PersistStates(s)
    \/ \E c \in Time, n \in {0, 1} : FinishL1(c, n)
    \/ AbandonL1
    \/ Crash

Spec == Init /\ [][Next]_vars

-----------------------------------------------------------------------------
(* Properties *)

\* The checkpoint as the operation that runs sees it.
Latest == IF chain # <<>> /\ chain[1].step = "applied" THEN chain[1].cp ELSE file

Healthy == faults = 0 /\ crashes = 0

Pending(kind) == {i \in DOMAIN chain : chain[i].op.kind = kind}

\* Concurrent and repeated agent_end events never hand a message to L0 twice
\* while the file can be read and written: what captureAtomically is for.
TakenOnce ==
    Healthy => \A s \in Sessions, m \in Time : taken[s][m] <= 1

\* Each failed read or write and each crash costs at most one more delivery of
\* a message: captures are at-least-once with bounded repetition.
RetakenOnlyPerFault ==
    \A s \in Sessions, m \in Time : taken[s][m] <= 1 + faults + crashes

\* The cursor of a session never passes a message worth recording that no
\* capture has handed over, whatever other sessions do and whichever reads and
\* writes of the file fail, as long as the process lives.
NothingSkipped ==
    crashes = 0 =>
        \A s \in Sessions : \A m \in log[s] \ Noise :
            m <= Latest.captured[s] => taken[s][m] > 0

\* No update is lost while the file can be read and written.  The counters:
\* total_processed counts the messages handed over, each of them once then,
\* and total_memories_extracted the memories stored, but for the L1 result
\* that is still waiting for the lock.  The pipeline states: with no save
\* waiting, the file holds what the manager has in memory, so saves made while
\* others wait reach the file in the order they were made.
Delivered == {d \in Sessions \X Time : taken[d[1]][d[2]] > 0}
CountersExact ==
    /\ Latest.processed = Cardinality(Delivered)
    /\ memories - Latest.extracted \in
          {0} \cup {chain[i].op.stored : i \in
                      {j \in Pending("markL1ExtractionComplete") :
                          chain[j].step # "applied"}}
SavedStatesCurrent ==
    Pending("mergePipelineStates") = {} => file.pipeline = mgr

NoUpdateLost == Healthy => CountersExact /\ SavedStatesCurrent

\* A locked call always returns, also when operations before it fail: the L1
\* run that waits for it is never stuck.
L1MarkReturns == l1.phase = "marking" ~> l1.phase # "marking"

\* The lock makes the operations atomic: the file goes through the states of
\* AtomicCheckpoint, whichever reads and writes fail and also when the process
\* crashes with operations running.
Atomic == INSTANCE AtomicCheckpoint
            WITH file <- file, failures <- faults, Op <- Op, Apply <- Apply,
                 DEFAULT_CHECKPOINT <- DEFAULT_CHECKPOINT
AtomicFile == Atomic!Spec
=============================================================================
