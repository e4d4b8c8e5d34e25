# A verification project for the agent memory

TLA+ modules, TLC configurations and TLAPS proofs for TencentDB Agent Memory
(`src/`): a memory plugin and gateway that records conversations (L0), extracts
memories from them (L1), groups memories into scenes (L2) and writes a persona
(L3), and that offloads tool results from a conversation's context. The models
are about what is pending, who will trigger it, and what a failure, a shutdown,
a crash or another process leaves behind: the scheduling of the pipeline in the
plugin and in the gateway, the checkpoint, the rows and memories with their
databases, scenes and persona with their shared profiles, and the offload with
its plugin, server and compaction, and the Hermes provider that launches and watches
the gateway process. Language models are calls that return
anything their caller accepts, return nothing, or throw.

## The system

| Component | State it keeps | Operations | Interacts with | Hard behaviour |
|---|---|---|---|---|
| `MemoryPipelineManager` (`utils/pipeline-manager.ts`, with `SerialQueue`, `ManagedTimer`) | session states and counts, message buffers, timers and `l1Queued`/`l2Queued` flags per session, three serial queues, L3 running/pending, destroyed | `start`, `notifyConversation`, idle and L2 timers, `runL1/2/3`, `flushSession`, GC, `destroy` | capture calls it; it calls the runners and the persister | every `await` interleaves with everything else; retries; shutdown raced by a timeout |
| Checkpoint (`utils/checkpoint.ts`) | one JSON file: L0/L1 cursors per session (runner states), pipeline states, counters | `captureAtomically`, `markL1ExtractionComplete`, `mergePipelineStates`, counters, unlocked `read` | runners, capture, the manager's persister | per-file promise chain as a lock; read-then-write outside it; crash between steps |
| Runners (`utils/pipeline-factory.ts`) | the cursors they read and write | L1: query 2N rows and process N; L2: records after a cursor; L3: trigger and generate | stores, checkpoint | rows arriving behind the cursor |
| L0 capture (`core/hooks/auto-capture.ts`, `core/conversation/l0-recorder.ts`) | none of its own | record, upsert rows, notify | checkpoint, store, manager | upserts outside the lock |
| L1 extraction, deduplication, writer (`core/record/*`) | JSONL files, memory rows | extract, judge, delete and insert | store | delete before insert; stale candidates |
| Scenes and persona (`core/scene/*`, `core/persona/*`) | scene files, index, `persona.md`, backups | extract, index, navigate, trigger, generate | checkpoint | L2 and L3 on the same files |
| Profile sync (`core/profile/*`) | baseline versions | pull, push | TCVDB, v2 API | several hosts |
| Stores (`core/store/*`) | rows, vectors, keyword index; profiles | upsert, update, delete, expire, search, rebuild | runners, gateway | tables that must agree, changes of model |
| State backend (`core/state/*`) and `StatefulPipelineManager` | timers, task queues, locks with a TTL and session states per instance | `captureAtomic`, enqueue/ack, acquire/renew/release, due timers | several gateway processes | expiring locks, lost or repeated tasks |
| Pipeline worker, timer scanner (`services/*`) | running tasks, held locks, dead letters | consume, retry, cascade L1 -> L2 -> L3, turn timers into tasks | state backend, gateway executors | a task outliving its lock |
| Context offload, plugin (`offload/*`) | pending tool pairs, entries, boundaries, MMD files | report, flush (L1), judge (L1.5), map (L2) | host hooks, backend | three hooks flush at once; L2 while entries are appended |
| Context offload, server (`offload_server/*`) | pending, entries, nodes and state files in object storage | ingest, L1, L1.5, L2 tasks; compaction | gateway, worker | files without a common lock; conversations that must stay well formed |
| Hermes provider and supervisor (`hermes-plugin/memory/memory_tencentdb/`) | the Gateway process and its handle, launch lock, client, breaker, recovery lock, sync threads | initialize, background start, watchdog, requests, captures, recovery, shutdown | gateway process, host thread | several threads find the Gateway down at once; shutdown races them; hangs and slow starts |
| `TdaiCore`, store pool, quota, recall, seed runtime, adapters, SDKs, CLI, scripts, metrics | lifecycles, caches, processes | - | all of the above | start and stop, refcounts |

`PROJECT.json` lists all of them under `components`, with what is left out and
why, and under `hazards` the lines where this code is hard to test.

What makes the components correct, in one line each. *Manager*: no conversation
without a trigger, no session run twice at once, no message lost or reordered,
shutdown returns. *Checkpoint*: no cursor moves backwards, no update is lost, a
crash repeats work but never skips it. *Runners and extraction*: every row is
processed, every memory reaches L2, no fact is lost by merging. *Scenes and
persona*: what is not in the persona will be offered to it. *Profiles*: nobody
replaces what he has not seen. *Stores*: a search answers with what there is.
*Backend and worker*: one holder of a task lock, every accepted task completed,
retried or given up. *Offload*: no tool pair lost, every entry of a task mapped,
calls and results stay together. *Hermes*: one Gateway, and it comes back.

## Modules

| Module | What it is | Checked in |
|---|---|---|
| `MemoryPipeline` | `MemoryPipelineManager` with its queues and timers | `MCMemoryPipeline` |
| `MemoryPipelineProofs` | type correctness, exactness of the queue flags, and the manager's other safety invariants on top of these, proved for every instance | |
| `CheckpointFile` | the contents of the checkpoint and what each locked operation does to them | through `Checkpoint` |
| `AtomicCheckpoint` | the abstract file: one operation at a time, or one counted failure | as a property of `Checkpoint` |
| `Checkpoint` | `CheckpointManager`'s lock and I/O with the callers that race on it; implements `AtomicCheckpoint` | `MCCheckpoint` |
| `CheckpointProofs` | types, the refinement, bounded redelivery, no message skipped, no update lost, proved for every instance | |
| `ServicePipeline` | the gateway's pipeline: `StatefulPipelineManager`, state backend, scanner, `PipelineWorker`, executors | `MCServicePipeline` |
| `ServicePipelineProofs` | its types, locks, extraction and triggers, proved for every instance | |
| `Records` | captured rows, L1 extraction and deduplication, the cursors of L1 and L2 | `MCRecords` |
| `SqliteStore` | the SQLite tables of messages and memories | `MCRecords` |
| `RecordsProofs` | cursors that skip nothing, deduplication that loses nothing, true searches, proved for every instance | |
| `Persona` | scene files, index, persona and the counters of the checkpoint | `MCProfiles` |
| `ProfileSync` | scenes and persona as versioned profiles of several hosts | `MCProfiles` |
| `ProfilesProofs` | true counters, a persona that knows its scenes, pushes that have seen what they replace, proved for every instance | |
| `Compaction` | compaction of a conversation by the offload server | `MCOffload` |
| `ContextEngine` | the compaction of a conversation by the plugin itself (L3) | `MCOffload` |
| `OffloadPlugin` | the offload plugin: L1, L1.5 and L2 of one session | `MCOffload` |
| `OffloadServer` | the same on the server, over files, timers and tasks | `MCOffload` |
| `Subsequences` | what a filter leaves of a sequence, as a recursive function | through the four above |
| `OffloadProofs` | no tool call lost by the plugin, no entry stranded on the server, calls paired and decisions kept by the server's compaction, proved for every instance | |
| `ContextEngineProofs` | the user's last message kept, calls and results kept together by the plugin, and all types of `MCOffload`, proved for every instance | |
| `GatewaySupervisor` | supervisors, their launch lock and the Gateway processes of one address | through `HermesProvider` |
| `HermesProvider` | the provider's threads over one supervisor | `MCHermes` |
| `HermesProofs` | one Gateway at a time, proved for any number of supervisors and for the provider; the provider's types and its quiet release | |
| `MCRecords`, `MCProfiles`, `MCOffload` | two or three components with instances for TLC | |

The last three modules instantiate components that share no variable (`Records`
sees of the database only which rows there are; the compaction sees of plugin and
server only which calls have entries). Their initial state chooses one component
(`focus`) and the variables of the others are `"off"`: one exploration, the
states of each.

### MemoryPipeline

The manager runs on one event loop, so an action is the code between two
`await`s, or the whole body of a timer callback. What the code does *after* an
await is an action of its own, guarded by the state the await is recorded in:

| Code | Actions | State while it is suspended |
|---|---|---|
| `start`, `recoverPendingSessions` | `Init` | |
| `notifyConversation` | `Notify`, then `NotifyBelowThreshold` (idle timer, GC) or `NotifyAtThreshold` | `notifying[s]`: the threshold computed before the await |
| `onL1IdleTimeout` | `L1IdleFires` | |
| `runL1` | start inside `DrainL1`; `L1RunnerReturns`, `L1Persisted`, or `L1RunnerThrows` | `l1Run.phase` |
| `onL2TimerFired`, `enqueueL2` | `L2TimerFires` | |
| `runL2` | start inside `DrainL2`; `L2RunnerReturns`, `L2Persisted`; `L2RunnerSkips`, `L2SkipPersisted`; `L2RunnerThrows` | `l2Run.phase` |
| `triggerL3`, `enqueueL3` | inside `L2Persisted`; `L3Returns` | `l3Running` |
| `flushSession` | `FlushSession` | `flushWaiters` |
| `destroy`, `_doFlush` | `Destroy`, `FlushL2Timers`, `FlushReturns`, `DestroyTimesOut` | `flush`, `flushWaits`, `teardown` |
| passing time | `GrowsCold` | `activity` |

`SerialQueue.drain` takes the next task and runs its first stretch in the same
turn, so a task leaves the queue, takes the session's buffer and starts its
runner in one step (`DrainL1`, `DrainL2`); the `.finally` that clears the flag
runs in the turn in which the task ends. A message is its capture number.
`rounds`, `captured`, `delivered` and `l3Stale` are history: no guard reads
them, except `rounds` for its bound.

What is abstracted. A timer is pending or not and may fire at any later moment;
of an L2 timer only its source is kept, and where `tryAdvanceTo` compares two
due times both outcomes are allowed. `activity` stands for the age of
`last_active_time`: active, cold (past the active window) or stale (past the GC
multiple of it). Three facts about durations are assumed, all orders of
magnitude apart in the default configuration (seconds against a 24-hour window):
writing the checkpoint takes less than the active window and less than a timer
armed during it, and no timer is set three windows ahead. `l2DelayAfterL1Seconds = 0`
with a slow disk would break the second. Sessions rejected by the filter leave no
trace and are left out; the runners are installed before `start()`, as
`TdaiCore.wirePipelineRunners` does.

### Checkpoint

`withFileLock` is a chain of promises: every caller appends a gate and awaits the
one before it. `chain` is that chain, oldest first, and each entry an operation
on its way through `mutate()`: waiting, then the file is read, then the caller's
body has run, then the file is written and the gate opened. Between two of these
the event loop runs anything else.

| Code | Actions |
|---|---|
| `withFileLock` | `WithFileLock` (called), `MayRun` (the gate awaited), `Release` (`finally`) |
| `mutate`: `readRaw`, body, `writeRaw` | `Read`, `Run`, `Write` or `WriteFails` |
| `before_prompt_build`, `agent_end` and the capture it starts | `BuildPrompt`, `AgentEnd`, `Redeliver` (the event delivered twice) |
| L1 runner: unlocked `read()`, extraction, `markL1ExtractionComplete` | `StartL1`, `FinishL1`, `AbandonL1` |
| `persistStates` and the persister's `mergePipelineStates` | `PersistStates` |
| process crash, `start()` with the saved states | `Crash` |

`CheckpointFile!Apply` is what the body of each operation does: `captureAtomically`
with the filters of `recordConversation` inside, `markL1ExtractionComplete` and
`mergePipelineStates`. A message is the time it was said, a saved pipeline state
the number of its save. A capture is given the whole history or the part after
the cached position (`Windows`): the cache may have been swept.
`shouldCaptureL0` is the set `Noise`. `taken`, `memories` and `log` are the L0
file, the stored memories and the host's history, which the checkpoint must stay
in step with; `taken` and `memories` are only counted.

A failed read is what `readRaw` makes of it, the default checkpoint; a write
replaces the file by rename or fails. Appending to the L0 file is taken to
succeed, as the recorder swallows its failure. Messages carry strictly increasing
times, as the recorder's comment assumes of turns. The checkpoint's statistics
that move with the ones modelled, the persona and scene counters and the
unlocked `write()` are left to the module `Persona`.

### ServicePipeline

One instance of the gateway in three deployments: `"local"` (one process over
`LocalStateBackend`), `"shared"` (replicas over a remote backend, which hands out
unacknowledged tasks again, with the default instance `__unset__`) and `"pinned"`
(the same with a configured instance). An action is what runs between two awaits
that let somebody else see a difference.

| Code | Actions |
|---|---|
| capture request, `captureAtomic`, threshold, `advanceWarmupInBackend` | `AddsAndReads`, `CaptureAtomic`, `AdvanceWarmup` |
| `handleSessionEnd` -> `flushSession` | `FlushSession` |
| local `setTimeout`, `TimerScanner.scan` | `LocalTimerFires`, `Scan` |
| `consumeLoop`, `processTask`: locks, waiting, pending recovery (also of tasks whose holder still runs them) | `ConsumeTask`, `ClaimStale`, `ClaimFromLiving`, `AcquireAfterConflict`, `DropAfterConflict` |
| `executeL1`, `createL1Runner` | `L1SkipsProcessed`, `BodyReads`, `L1Finds`, `L1Commits` |
| `executeL2`, `executeL3`, `executeFlush`; an L2 whose model failed or wrote nothing | `L2Writes`, `L3Writes`, `FlushRuns`; `L2ComesBackEmpty` |
| a task that throws; retry, dead letter | `BodyThrows`, `LeavesUnacked`, `BacksOff`, `ReEnqueue`, `MoveToDeadLetter` |
| `cascadeSchedule` | `CascadeSchedule` |
| TTLs, renewal, stop, quota | `LockExpires`, `RenewFails`, `Crash`, `QuotaRefuses` |

`unread`, `scenes` and `persona` count memories L2 has not read, scenes written
and the scenes the persona has seen. `expired` says that a lock ran out under its
holder, `wasted` counts extractions whose mark failed.

`excused` holds the sessions whose trigger the worker gave up, until an L1 or L2 run
arms their L2 timer again. `MemoriesHaveTrigger` and `MemoriesReachPersona` do not
speak of them. They are the losses of the code, each where an action adds to it:

- `L2ComesBackEmpty`: the model of an L2 run failed, or wrote no scene. The extractor
  catches the failure, the runner returns nothing, and the task is acknowledged as
  skipped, with no retry and no timer;
- `BodyThrows` and `MoveToDeadLetter`: something else threw in the last retry;
- `QuotaRefuses`: the quota was exhausted when the task came up;
- `DropAfterConflict`: the task waited for a lock longer than the lock's TTL;
- a run that lost its lock, in a local deployment or with its message acknowledged by
  the coroutine that claimed it: nobody runs the task again (`LeavesUnacked`);
- `Crash`: a worker died between acknowledging a task and queueing what follows it.

A failed L1 extraction stores nothing and moves the cursor all the same
(`L1Commits`): it never makes a memory, and no property asks for one. The L3 task
that an L2 run queues carries on the L2 task's count of retries.

### Records

| Code | Actions |
|---|---|
| `recordConversation`, then row by row `upsertL0` | `Capture`, `StoreRow`, `LoseRow` |
| L1 runner: cursor, query of 2N rows or JSONL fallback, slice aligned to a millisecond | `L1Reads` |
| `extractL1Memories`, batch deduplication, `writeMemory` (delete, insert), mark | `L1Extracts`, `L1Decides`, `L1Writes` or `L1WriteFails`, `L1Marks` |
| L2 runner: query after its cursor, extraction, cursor to the newest read | `L2Reads`, `L2Works`, `L2Fails` |
| crash, restart with a store that opens or not | `Crash` |

A row is a number, a memory the set of rows it tells. A decision names any memories
as its targets, shown to the model or not, and has a merged text or not; only a
merged text takes over what its targets told, and only of those that were shown
(`TakenOver`). The delete, the insert, or the process may fail between. `lost` has
what a decision deletes without taking it over, and what was deleted for a memory
that could not be written, until a later memory tells it: `MemoriesKeepFacts` speaks
of all other facts. A capture stamps at most
`L1_BATCH_PROCESS + 1` rows with one time: with more, rows of one millisecond fill
the query and the cursor passes the rest (see below). Sessions share the
memories, so that one's candidates may be replaced by the other.

### SqliteStore

Three tables per layer. `Start` is the constructor and `initSchema` with another
model, the same or none: vectors are kept, dropped or left, and keyword tables
rebuilt, as `embedding_meta` and the schema say. `WriteMemory`, `CaptureMessage`,
`MessageEmbedded`, `BeginUpdate` and `EndUpdate` (`/v2/atomic/update`), `Delete`
and `Expire` are the writes; `VectorHits` and `KeywordHits` what a search finds.
A failing keyword *delete* is left out, and so are updates of unknown ids (the
code inserts them).

### Persona and ProfileSync

`Persona`: `L2Begin` (backup, cursor), `L2Edits` or `L2Fails` (a language model
that writes, renames or empties scene files, or dies half-way, and the backup
that is restored), `L2Syncs` (normalised names, index), `L2Navigates`, `L2Checks`
and `L2Repairs` (the unlocked repair of a checkpoint that looks corrupt),
`L2Counts`; `L3Decides` (the trigger), `L3Misses` (it finds nothing to do),
`L3Loads`, `L3Writes`, `L3WritesNothing` or `L3Fails`, `L3Navigates`, `L3Marks`; `Capture` and `L1Extracts` move the counters
meanwhile. Models are assumed to stamp what they write with the time they are
given and to use everything they are offered.

`ProfileSync`: `Begin` (pull over the local files, with a baseline of versions),
`LlmEdits`, `UserWrites` and `UserRemoves` (the v2 API), `Queries` and `Upserts`
(the optimistic check and the write that follows it), `Deletes`, failed calls and
corrupted records. A text is the set of edits its author had seen; an LLM that
merges a file away has seen it, and still has if it writes that file anew. A user's
text comes of the host's file or of nothing: the API takes the caller's content,
asks the remote store for the version only, and writes over whatever that version
says. `NoBlindOverwrite` therefore asks two things: what a *run* replaces it has
read, what a *request* replaces is the version it probed. `PersonaFile` is the one
profile the API writes without its being there. Requests to a host while that host
runs an extraction are not modelled, as they go through the same local files.

### Compaction, ContextEngine, OffloadPlugin, OffloadServer

`Compaction`: a client's conversation grows by steps of one or two parallel tool
calls (`UseTools`) and by talk, in three provider formats; `Compact` applies the
fast path, `Mild` replaces results by summaries, `Aggressive` and `Emergency`
delete, `Respond` inserts the task maps and answers, `LocalCompact` is the
client's own way out when the server does not answer. Token counts are
abstracted: a deletion stops at any length its guards allow. `deleted` is the
server's set of ids, `erased` what it really took out: in the merged format a message
has several results and a deletion notes the first, so the others come back.
`DecisionsStay` speaks of `erased` in the formats with one result per message and of
the noted ids in the merged one, where it says nothing of summaries either (they may share a
message with a deleted result). It does not speak of a client's own cut
(`level = "local"`), nor of messages without results, which have no id and come back
in every format.

`ContextEngine`: the same with the plugin alone. The transcript (`history`) only
grows and is replayed whole; what a run works on is `work`. A pass is a hook
(`Assemble`, `BeforePromptBuild`, `AfterToolCall`, `CompactItself`) followed by its
levels, each of which may be skipped: `TailAccumulate` (the first cut of a run, to
60% of the budget), `Aggressive` or `Stalled`, `Mild`, `Emergency` with `HeadDelete`,
`TailDelete` and `Truncate`, `EmergencyEnds`, `InjectMap`. `boundary` is the place in
the transcript where the next replay is cut (`Replayed`); it holds as long as the
message there is unedited. `deleted` and `confirmed` are the plugin's two sets, by
which `FastPath` redoes earlier decisions on every replay. The tokens, the scores
and the cap of 200 collected ids are left out, the history maps of several tasks
are one message, and a hook runs to its end before the conversation goes on.
`harm` notes that a cut was one of those listed below as disagreements; from
then on the property concerned is not claimed.

`OffloadPlugin`: `AfterToolCall`, `TurnHook` and `JudgeL15` start flushes that
queue on the L1 lock (`TakePending`, `L1Answers`, `L1Fails`, `L1GivesUp`,
`FallbackFails`, `L1Counts`, `FlushEnds`); a judgment answers, fails or is retried (`JudgmentMade`,
`JudgmentFails`, `RetryFires`); L2 is triggered, polled and chained
(`CheckL2Trigger`, `PollTick`, `Residual`, `SwitchEnds`, `PostCompletion`) and runs
in steps (`BatchRead`, `BatchMarked`, `L2Answers`, `BackfillNodeIds`, `RunEnds`).
`MarkOffloadStatus` and `StatusMarked` are the marks of L3's cuts, which rewrite the
same file. `PairsKept` has three exceptions, which the ghosts hold: what the backend's
answer leaves out, and what a flush still had when its degraded entries could not be
appended (`omitted`), and entries that a rewrite ran over (`lost`). An append that fails
after an answer of the backend is a failure of the chunk, as in the code.

`OffloadServer`: ingestion (`IngestPair`, `IngestCounts`, `IngestPrompt`,
`PromptQueued`), timers, and three kinds of tasks in two coroutines, each step
what lies between two awaits on files that another task may write in between:
L1 (`ClaimReads`, `ClaimDeletes`, `L1Summarises`, `L1ReadsState`,
`L1SetsTimers`), L1.5 (`L15Locks`, `L15Writes`, `L15SetsTimers`), L2
(`L2ReadsState`, `L2ReadsEntries`, `L2Maps`, `L2Ends`). Any of them may fail before,
between and after its writes (`ClaimFails`, `L1Fails`, `L15Fails`, `L2Fails`,
`TimersFail`) by an exception or with its worker, whose task is delivered again, and a task may
be claimed while it still runs (`ClaimStale`). A task that threw sleeps in memory with its
lock (`Throws`), is queued again (`Requeues`) and only then gives the lock back
(`Releases`), or is lost in its sleep (`DiesAsleep`). `namedLocks` says which tasks share
a lock: with local timers an MMD has its own (`createLocalTimerTask` names it), with the
scanner all L2 tasks of the instance share one. `SkipsOnConflict` needs no conflict that
the model can see, as the lock may be with another session.

`stranded` holds the MMDs that lost what would have brought L2 to them and whose timer
nobody has set since. `EntriesReachL2` does not speak of them. They are losses of the
code, each where an action adds to it:

- `SkipsOnConflict`: an L2 task met its lock and was acknowledged and dropped;
- `BreaksOff` after the last retry: the task is dead-lettered;
- `DiesAsleep`: a worker died while a failed task slept;
- `TimerFires`: the scanner took a timer and failed before its task was queued;
- `TimersFail`: an L1 broke off after its append, or an L1.5 after its boundary; the
  retry finds nothing pending, or the boundary filled in, and sets no timer.

### GatewaySupervisor and HermesProvider

A thread that needs the Gateway goes through `ensure_running`: `FirstProbe`,
`StartupSingleflight` (the lock of the address), `Reprobe` or `Prepare` (the reaped
handle), `Popen`, `WaitForHealth` or `WaitExpires`; `shutdown` of the same supervisor is
`RequestShutdown`, `Terminate`, `Collect`. A Gateway process starts, serves, hangs, shuts
down or has exited; one that starts while another holds the port exits
(`Listens`). `missed` is history: the processes a health check gave up on, and every
process that ever hung, also one whose handle the supervisor still has.

| Code | Actions |
|---|---|
| `initialize`, `_background_start` | `Initialize`, `BackgroundStart`, `BackgroundStarted` |
| `_watchdog_loop` | `WatchdogTick`, `WatchdogProbes`, `WatchdogAttaches` |
| `_try_recover_gateway` | `TryRecover` inside the caller, `RecoverProbes`, `RecoverEnds` |
| `prefetch`, `handle_tool_call`, `sync_turn` and its thread | `Request`, `Refused`, `ToolAdmitted`, `Asks`, `SyncTurn`, `StartSync`, `Captures` |
| `shutdown` | `BeginShutdown`, `JoinWatchdog`, `JoinSyncs`, `ShutdownSupervisor`, `Release` |

Every `join` has a timeout: `abandoned` holds the threads it ended before.
How long the breaker's pause and the cooldown of recoveries last is left open;
`end_session`, the discovery of the command, log files and host threads beyond
one are left out.

## Runs

| Run | Question | Instance |
|---|---|---|
| `pipeline_session` | one session through everything, from every kind of saved state: is a message lost or reordered, does a trigger of L2 vanish? | 1 session, 3 conversations, 1 retry, warm-up to 3, GC on every second call |
| `pipeline_sessions` | two sessions contending for the queues, with GC, flushes and shutdown: exact flags, no eviction under work, no lost wake-up | 2 sessions, 1 conversation each, with and without message lists |
| `pipeline_liveness` | triggers reach their runner, `destroy()` returns, the persona catches up | 1 session, 2 conversations, `FairSpec` |
| `checkpoint` | captures, repeated `agent_end` events, L1 runs and saves on one lock, with a failing read or write and a crash: exact counters, how often a message is taken again, is one ever skipped, does a waiting call return, and the refinement of `AtomicCheckpoint` | 2 sessions, 3 messages; nothing failing with 2 saves, 1 repetition and 3 operations waiting, or 1 fault and 1 crash with 2 waiting (`MCCheckpoint`) |
| `service_pipeline` | the gateway's tasks, locks and timers with failures: exclusion, repeated work, and that memories reach the persona | 1 session, 2 coroutines, 2 requests, 3 deployments; per behaviour 2 conversations, or one with a session end or an incident |
| `profiles` | `Persona` and `ProfileSync` | 2 scenes, 2 memories, an interval of 2; 2 hosts, 2 profiles, 3 edits, 3 runs, 1 fault |
| `records` | `Records` and `SqliteStore` | 2 sessions, 3 rows, 2 memories, 1 fault; 3 records, 2 models, 3 starts |
| `offload` | `Compaction`, `ContextEngine`, `OffloadPlugin`, `OffloadServer` | 3 calls in 5 messages, 3 formats; 2 calls in 5 messages with replays; 2 pairs, 1 task, 2 prompts, 2 coroutines |
| `hermes` | the host, the background start, the watchdog and a capture find the Gateway crashed, hanging or slow, and the host shuts down: is a second one launched, what does a shutdown leave behind, does the Gateway come back? | 1 capture thread, 2 processes, 2 events (crash, hang, slow start, failed launch, launch by others, request), `FairSpec` |
| `sqlite_update`, `offload_claim`, `offload_rest` | statements of the code's own comments that the code does not keep (below) | as above, smaller |

What each property says is stated above it in its module. Together they cover
the hazards listed in `PROJECT.json`, where each names its properties.

Bounds of `MemoryPipeline`: `MaxRounds` conversations per session (two are enough
to reach the threshold while L1 runs, three to do so after a failure),
`MaxRetries` (5 in the code; 1 shows both a retry and giving up), `GcEvery` (50 in
the code; GC is as reachable with 1 or 2), `EveryN` 2 or 3, batches of 1 message,
and of none in `pipeline_sessions`, as the capture hook sends them. Nothing in the
code depends on more than two sessions at once: they meet only in the queues,
where the order of two is all there is to observe.

Bounds of `Checkpoint`: `MaxMessages` over both sessions (three give one session
two turns and the other a competing one), `MaxChain` operations on the lock (one
running, one waiting and one that the second must not overtake), `MaxSaves`,
`MaxRedeliveries`, and `MaxFaults` and `MaxCrashes`, which the properties count.
Faults and crashes come without saves and repetitions (`Short`): a save touches no
cursor except through a failed read, which captures and L1 runs also have.

Bounds of the others. `ServicePipeline`: a threshold of 2 and batches of 2 with a
backlog of 2 rows give a partial batch, a full one and a remainder; two
coroutines are what exclusion and overtaking need, four `MessageIds` more than they
and the queue can have in hand; `Scenarios` bounds each behaviour: two failures
of calls at most, and one incident (a crash, an expired lock, a refusal, a claim
from a living holder), as two of them mostly excuse the session. `Records`: a batch
of one row with two of one millisecond is the smallest that crosses the boundary. `SqliteStore`:
three starts are needed to come back to a model by way of another or none.
`Persona`: two scenes (one changed while the other is offered), an interval of
two (due and not due). `ProfileSync`: three runs of two hosts (a pull, a push of
the other, a push). `Compaction`: three calls, two of them parallel, in five
messages with at least two to keep. `ContextEngine`: two calls, parallel or not, five
messages, two to keep and three in the first cut: enough for a cut between a call
and its result, a replay after a cut, and a cut of what a replay kept. `OffloadPlugin` and `OffloadServer`: two pairs
on both sides of a boundary, thresholds of two, one retry; hooks queue one flush that
waits or runs, beside those of the judgments; on the server three events (pairs,
prompts and faults together: two pairs and a prompt, or one of each with a crash, a
lost timer or a task claimed away) and the shared lock of the scanner's tasks, which
is the coarser one. `HermesProvider`: four
threads are all the kinds there are; two processes are a stale one and the next,
and two events a hang and a crash, or a trouble and the request that meets it.
Several supervisors at one address are covered by the proof.

Behaviours end when their bounds are used up, and the system itself may stop
(after `destroy`, or with no timer pending), so deadlock is not an error in any
run.

Symmetry: sessions in `records` and `pipeline_sessions`, pairs and coroutines in
`offload`; none of these runs checks liveness.

Fairness. A pending timer fires, a suspended `await` resumes and a runner
settles: that is what the event loop and the runners' own timeouts give. Users,
`flushSession` and `destroy` owe nothing, and no property needs a runner to
*succeed* except those that say so. For the checkpoint it is enough that the
event loop resumes the operation whose gate is open (`LockStep`); reads and writes
may fail whenever the fault bound allows. In `ServicePipeline` requests go on,
timers fire (the scanner's interval), coroutines go on, and the lock of a dead
worker ends with its TTL. In `Persona` a run that has begun goes on
(`L2Proceeds`, `L3Proceeds`), as the model calls have timeouts; no new
conversation is assumed. In `hermes` threads run, a launched Gateway listens unless it
crashes, and one that hangs answers again or is killed; requests owe nothing.
`offload_rest` assumes only that L2's steps happen.

## Disagreements between comments and code

Three are runs that TLC refutes, under `findings` in `PROJECT.json`:

- `sqlite_update`: `/v2/atomic/update` reads "existing record by primary key", but
  SQLite's `queryL1Records` ignores `recordIds`: the type, priority, scene and
  metadata of the least recently updated memory are written to the one updated.
- `offload_claim`: L1 claims `pending.jsonl` by a rename that the comment calls
  atomic; it is a read, a write and a delete, and a pair appended in between is
  deleted with the file.
- `offload_rest`: null entries of a task judged short "won't pollute future L2",
  but L2's end counts them and starts L2 again, without end.

The others were met while modelling. The models do what the code does, and the
properties are stated so that they hold all the same:

- `pipeline-manager.ts:764,775`: with a full backlog `runL1` enqueues another
  round from inside the round whose `l1Queued` flag is still set (`:633`); the
  request is dropped.
- `pipeline-manager.ts:11,427-431`: a conversation that reaches the threshold
  while L1 runs is neither queued nor given an idle timer, and waits for another.
- `pipeline-manager.ts:498`, `tdai-core.ts:367`: capture passes empty message
  lists, so `flushSession` only ever cancels the idle timer.
- `pipeline-manager.ts:18-21,35-37` ("only moved earlier, never postponed"): an L2
  run that ends arms the timer of the longest interval (`armL2MaxInterval`,
  `:832-838`), which replaces the delay that an L1 run armed meanwhile, although it
  is later, and which the cold check may cancel. `TriggersFire` says what is left:
  the delay timer brings a run when no L2 of the session is under way; one armed
  during a run is replaced at its end, and that timer brings a run unless the session
  goes cold.
- `pipeline-manager.ts:50-51,799`: a destroyed manager arms no L2 timer, so the
  shutdown flush runs L1 but not the L2 the header promises.
- `checkpoint.ts:256,406-407`: a save of pipeline states whose read fails writes
  default cursors over those of every session, where the comment promises that it
  never touches them.
- `gateway/server.ts:1437`: "session already processed (count=0)" skips a timer's
  L1; a zero count does not mean that (`pipeline-worker.ts:499` and the warm-up
  reset it), and the rows wait for the next conversation.
- `scene-extractor.ts:249-274`, `pipeline-factory.ts:648-692`, `tdai-core.ts:666-670`,
  `pipeline-worker.ts:515`: an L2 run whose model failed is caught, returned as
  nothing, and acknowledged as "skipped": none of the worker's retries applies to
  it, and no timer brings the session back before its next L1.
- `l1-writer.ts:168,226-238`, `l1-dedup.ts:348-349`: a merge whose answer lacks
  `merged_content` deletes its targets and writes the new memory's own text; the
  target ids are not compared with the candidates.
- `v2-router.ts:753-781` (`syncProfileToVdb`): the version is probed just before the
  push, so the optimistic check passes whatever the caller had read.
- `pipeline-factory.ts:60-64,409,452-461`: with more than N + 1 rows of one
  millisecond the cursor passes rows that were not queried.
- `profile-sync.ts:198-207`, `tcvdb.ts:1112`: a failed pull is answered with no
  records, and the local files are deleted as if the profiles were gone.
- `compact/helpers.ts:61-69`, `compressor.ts:835`, `fast-path.ts:88-107`: an
  OpenAI-format assistant that keeps text keeps calls whose results were deleted.
- `offload/index.ts:1716-1717` ("User message protection: don't cut past the last
  user message"): when the results after the last user message fill the budget of
  the first cut, `keepFrom` reaches the end of the list, the protecting loop does
  not run, and the reset to the last ten messages (`:1736-1739`) may drop that
  message, or begin with a result whose call is gone.
- `llm-input-l3.ts:836-837` ("to avoid orphaned tool_use/tool_result (Anthropic 400
  error)"): the emergency's head deletion stops extending a cut at the minimum to
  keep, between a call and its results; its tail deletion takes a group whose
  other results are still to come; its truncation reports the id of a result it
  has kept as deleted, so the next replay deletes the result and, of a call with
  text, not the call. The summary of an only-call assistant stands for it. In a run
  whose user message is gone, nothing holds the aggressive level's cut in
  `after_tool_call` back either: it extends over the results at the end, and takes a
  call whose other results are still to come.
- `offload/state-manager.ts:428,435,455`: boundaries are searched as ascending by
  `startIndex`, which `pushBoundary` does not ensure.
- `sqlite.ts:1801`: nobody calls `reindexAll` after `needsReindex`; the metadata
  already name the new model, so the old vectors are gone for good. A write
  without an embedding keeps the vector of the old text. `deleteL1Expired` and
  `deleteL0Expired` (`:1279`) leave the keyword rows. A process without a model
  cannot delete vectors.
- `pipeline-factory.ts:772-774`: a failed generation is logged as "no changes" and
  marked as generated; a request made during a run is cleared by that run's mark;
  `:656-673` writes a checkpoint read without the lock, against `checkpoint.ts:305`.
- `pipeline-worker.ts:306-308`: "idempotent timer will re-trigger" an L2 that met
  the lock, but the timer that made it is used up. `:578` has a "per-MMD lock", but the
  scanner's tasks carry no `targetMmdFile` (`timer-scanner.ts:164`) and share the key
  `default` over all sessions of the instance, and a task that failed still holds its lock when
  it is queued again (`:434-457`), so that its retry may meet it.
- `offload-task-executor.ts:83,405`: an L1 that fails after its append, or an L1.5 that
  fails after its boundary, is retried, but the retry returns before it sets a timer.
- `compressor.ts:852,1174`, `fast-path.ts:49-70`: a deleted message is noted by one result
  id, so the other results of a merged one, and messages without results, come back.
- `offload/index.ts:513`: a failed append of degraded entries drops the chunk and the
  rest of the flush; `storage.ts:362-379,469-503` rewrite the entry file without the lock
  of its appends (`:257`).
- `offload-task-executor.ts:174`: "processing file remains for re-claim", but no
  task claims it again. A judgment that cannot be parsed leaves `_pending` behind.
- `test_gateway_shutdown_leak.py:322` ("Gateway we started MUST die on
  shutdown()"): a background start that is past its second probe when `shutdown`
  looks at `_process` launches a Gateway afterwards, as `_shutdown_requested` only
  cancels its wait, and `shutdown` does not wait for that thread. A recovery under
  way likewise attaches a released provider again (`__init__.py:466-468,984-986`).
  `ReleasedIsQuiet` claims what holds when every thread was waited for.
- `supervisor.py:267`: a second launch beside a child that hangs or starts slowly
  replaces the handle; that child keeps the port, later ones exit, and nobody can
  stop it. `OneLaunch` and `ReleasedIsQuiet` excuse processes a health check has
  given up on or that have hung (`missed`).

## Proofs

`MemoryPipelineProofs` assumes `PipelineAssumption` only: finitely many sessions
(the shutdown flush visits them in some order), a token that is none of them, and
configuration values of their types. It proves

- `TypeCorrect`: `Spec => []TypeOK`;
- `FlagsAlwaysExact`: the L1 flag, and the L2 flag, of a session is set exactly
  when one of its tasks is queued or running, and never two are.

The flags are not inductive alone: that an ended task clears *its* flag needs
the running task to be a session's, which needs a queue that runs nothing to be
empty and to have no owner (`RunShape`). `QueueInv` is the conjunction of the
types, `RunShape` and both flag invariants; each action has one lemma for the
types and one for the flags. The queue lemmas are stated once: `ConcatFlags` (new
sessions join the queue and are flagged), `TakeFlags` (a task ends and the next
begins), `IdleFlags` (a task ends and the queue is empty).

Its second half goes on from there, with the same assumption, to the manager's
other safety invariants. `PipelineInvariant` proves their conjunction inductive:

- `NoWakeupLost`: `NoLostWakeup` is inductive with `QueueInv`;
- `WorkKeepsState`: `WorkHasState` is not. The collector looks at activity, not at
  notifications, so one must know that a session with a notification under way is
  active, and the timers of a session need its state as its tasks do (`WorkInv`);
- `MessagesKeepOrder`: `MessagesInOrder` says which messages lie between capture
  and L1; `MessagesInv` adds that no more are delivered than were captured, without
  which the difference of two counters says nothing. `SpanGrows` and its like are
  the arithmetic of such spans;
- `MemoriesReachL2`: `PendingL2HasTrigger` needs two facts: a run that was skipped
  has armed the session's timer before its flag is cleared, and the timers that a
  flush takes away are those of a destroyed manager (`TriggerInv`).

`CheckpointProofs` assumes `BoundsAssumption` and `FaultBoundsAssumption` only:
the bounds are naturals, of any size, and there is a session. It proves

- `TypeCorrect`;
- `LockIsAtomic`: `Spec => AtomicFile`, with any failures and crashes. Only the oldest
  operation has begun (`LockInv`), so what it has read is still the file
  (`HeadCurrent`); its write is then one step of `AtomicCheckpoint` and every
  other step leaves the file alone. What failures cost is in the abstraction: an
  operation whose read failed is applied to an empty file (`Seen`), one whose
  write failed not at all, and each such step is counted;
- `RetakenPerFault` and its case without failures, `DeliveredOnce` (`TakenOnce`). That a message
  is taken at most `1 + faults + crashes` times is not inductive: one must know
  why the next capture will not take it again. `RetakenInv` adds that a message
  which has used up its deliveries is behind the cursor that the operation under
  way has read, or the file's when none has begun.

Its second half proves the checkpoint's other two invariants from the same
assumptions:

- `NothingIsSkipped`. A capture's window is fixed when it is queued, its messages
  are handed over later, and the one after it starts behind it already. So
  `CaptureInv` speaks of the messages an operation in the chain *will* take: a window
  leaves out an earlier message only when one before it in the chain has it
  (`WindowsClosed`), and between the turns of a session each of its messages is
  taken or in such a window (`TurnsAccounted`). The property excludes crashes, as
  `CaptureInv` must;
- `NoUpdateIsLost`. `total_processed` is the number of messages handed over
  (`Cardinality(Delivered)`), so a step that takes a window adds its size
  (`ProcessedTrue`); `MarksTrue` says which memories the file may lack, and
  `SavesInOrder` that the last save in the chain has what the manager holds. All of
  it needs that an operation under way has read the file as it is (`HeadTrue`).

`StepCases` sorts the actions by what they do to the lock (a step of the oldest
operation, a call, something elsewhere, a crash), so that each invariant is
proved over four cases. `NewestExists` proves from the well-foundedness of the
naturals that the `CHOOSE` for the newest message finds one.

`HermesProofs` begins with the supervisor, of which it assumes `SupervisorAssumption`
only: supervisors, threads with
their supervisor, and bounds of any size. `SupervisorsLaunchOne` is
`SupervisorSpec => []OneLaunch`. That two Gateways do not run is not inductive:
`LaunchInv` adds that whoever is between its second probe and the end of its wait
holds the lock, that a Gateway which starts is awaited by the holder or was given
up on, that one which hangs is marked, and that nothing fresh runs when the
holder is about to launch. This is then lifted to the provider
(`ProviderLaunchesOne`): each of its steps is a step of the supervisor or leaves
processes, lock and waits alone (`ProviderSteps`). It also proves `TypeCorrect` and
`ReleaseIsQuiet`. That nothing of a released provider is left depends on the order
in which `shutdown` waits: `QuietInv` says who cannot run any more at each of its
places (`WatchdogJoined`, `SyncsJoined`, `StarterJoined`), that a thread is inside
the supervisor only where its place in the provider says so (`EnsuresWhereCalled`),
and that the supervisor has a handle of whatever it launched and still runs, but for
what a health check gave up on (`HandleKnown`). `ProviderAssumption` says: one
supervisor; host, starter and watchdog threads that differ from each other and from
the capture threads, of which there may be any number.

`ServicePipelineProofs` assumes `ServiceAssumption` only: numbers of their types,
finitely many clients (the handlers of open requests), and lock owner ids that no
coroutine shares (`randomUUID` in the code). Coroutines, sessions and rows are any.

- `TypeCorrect` includes that no cursor is ahead of the rows and no counter exceeds
  them: whoever has seen rows saw no more than there are (`RowInv`), and what is
  counted, with the requests about to count, has a row (`CountInv`);
- `TasksExclude`: a coroutine that works owns the lock of its task (`LockInv`), until
  a lock runs out under its holder, which `expired` records;
- `ExtractionBounded`: `ExtractInv` counts a row as extracted once when it is below
  the cursor, or stored by the run under way, which began at the cursor as it is now;
- `MemoriesTriggered`: a trigger passes from timer to task to coroutine and to the
  next timer. A task in hand is not enough to carry on the argument: an L2 run that
  read before there was anything to read arms no timer. `TriggerInv` does without
  those (`Doomed`) and is stronger than the property.

`RecordsProofs` proves the invariants of `MCRecords` from `RecordsAssumption` and
`StoreAssumption`: numbers of their types, and `None` different from whatever it
stands beside. One of them matters: a capture stamps at most `L1_BATCH_PROCESS + 1`
rows with one time. That is the weakest that will do, as the rows of one
millisecond may begin with the last row of a batch and have to end with the query.
Sessions, memories, record ids, models and requests are any.

- `CursorsAreExact`, the L1 cursor: what a run leaves unread lies behind its batch
  (`RunsSkipNothing`, `OldestReachFurther`). The slice ends with a row of the first N;
  if the query left out a row of that millisecond, the last N rows of the query had
  it too, and with those two the session would have N + 2 rows of one millisecond,
  more than a capture stamps (`RowsStamped`). The L2 cursor: a memory is stamped before it is
  written, and read by its stamp, so one could appear behind the cursor.
  `StampsInOrder` says that a session's stamps come in the order of its writes, so
  that only a memory with the cursor's own millisecond can (`twins`);
- `FactsAreKept`: the property speaks of who is about to write. `FactsInv` says why
  that suffices: he tells what every memory told that he himself deleted and takes
  over, and a fact whose memories are gone is told by one of these, or given up. The
  exceptions are in `lost`: what a decision deletes without a merged text or without
  having seen it, and what was deleted for a memory that could not be written;
- `SearchesAreTrue`: three tables agree while three actors write them. `VectorsInv`
  has every vector come from the model that the database remembers, which is the
  running one or there is none, so that a background embedding, an update and a
  restart cannot mix models; `KeywordsInv` that the keyword tables are empty
  until they are made, at the first start, and have the text of every row from then;
  `Layers` that whoever writes late writes an id that exists.

`ProfilesProofs` proves the invariants of `MCProfiles` and its action property from
`ProfilesAssumption`, numbers of their types: scenes, hosts and profiles are any.

- `TypeCorrect` includes that a repair, which writes counters of two readings over
  the file, never writes more than was counted (`RepairedIsCounted`), and that
  versions are no more than the runs that are past their push (`VersionsCounted`);
- `CountersAreTrue`: `CountersKept` adds that the file is ahead of what the L2 run
  read when it began, so that a good reading never looks corrupt;
- `PersonaIsComplete` speaks of the moments when nothing runs. `ScenesKept` says what
  lies between them. What a failed L2 run leaves behind agrees with the index, though
  the index is only rebuilt by a run that succeeds, because its edits bear a time
  that no earlier file does (`FilesAgree`); and a backup is never of another time
  than the run's beginning, because no run leaves all its scenes empty
  (`BackupAgrees`). What an L3 run is not offered, the persona before it told
  (`PersonaKnows`);
- `PushesHaveSeen`: a version stands for a text. A run whose baseline has the version
  of the document has seen what that says (`BaselinesSeen`), and between query and
  upsert the document cannot change, or somebody pushed at once (`UpsertsSeen`).
  The proof needs that an LLM which merges a file away and writes it anew has still
  seen it, as it has; were its text forgotten, three edits would break the property,
  so the run `profiles` has three.

`OffloadProofs` proves the plugin's and the server's invariant in `MCOffload`, whose
actions are theirs and those of the two compactions. From `OffloadAssumption` it needs
that the tool calls are finitely many (a flush puts its failed calls back in some order)
and that no task has the name of the L1 timer (`"L1"`) or of a mark for "no task"
(`NoTask`, `"_pending"`): tasks are names of MMD files. Tool calls, tasks, prompts and coroutines are any.

- `ToolCallsKept`: a call passes from `pending` to the chunks of a flush and from there
  to the entries, or back; `HolderChanges`, `HolderEnds` and `FirstChunkAndRest` say that
  a step of one flush moves the calls it names and no other. The invariant needs little
  more than the types (`PluginInv`): a flush that has not had the lock yet has no chunks,
  so that the one that takes it finds what it queued. Of the chunks it needs that they
  hold every call of the batch (`ChunksCover`), which no case analysis shows: it goes by
  the least chunk that would miss one. Three things lose a pair and are its exceptions:
  an answer that leaves it out, degraded entries that could not be appended, and an
  unlocked rewrite of the entries' file by L2 or L3 that runs over an append;
- `EntriesAreServed`: `EntriesReachL2` is inductive with the types (`ServerInv`), as it
  already names every place where an entry can wait, and `stranded` the MMDs whose
  entries wait nowhere, because a task or a timer of theirs was lost and none was set
  since. The work lies in what a run *knows*:
  it reads ranges and entries in two steps, with other tasks writing between them, so
  each action is looked at for what it leaves true of a reading that may be stale
  (`ServesIn`, `Woken`).

A filter is a recursive function in `Subsequences`, and the provers have no induction
over data. `KeptRecursion` and `KeptPlaces` show what it returns all the same, by the
least length for which it would not (`LeastExists`, from the well-foundedness of the
naturals): an increasing enumeration of the positions that are kept.

Both compactions of `MCOffload` are proved for conversations of any length, the
server's in `OffloadProofs`, the plugin's in `ContextEngineProofs`. The proofs are
about sequences that are filtered, cut and added to, so most of their lemmas carry
a fact about a conversation through one such operation, with an increasing map
from the places of the new messages to the old ones (`Follows`, `Derives`).

- `LastQuestionKept`: that a request has the user's last message is not inductive. The
  cuts look for the last message of kind `"user"`, so the invariant says that it stands
  in the work under way *and* is the one of the transcript (`HasTurn`), which needs that
  messages keep the transcript's order (`InOrder`) and that a replay's boundary lies no
  later than it (`TurnHeld`). The maps, set aside while a level deletes, are no messages of the
  user (`OneOfEach`);
- `DecisionsKept` and `AnswersPaired`: what the client sends is a conversation in which
  no call and no result comes twice (`Apart`, `UsesApart`), every result has its call
  before it with results only between (`Linked`), and every call its result
  (`Answered`). `Served` says the same of the work under way in Anthropic's format, and
  of every format that the results in it are not among the deleted ones and are
  replaced if they were before (`Decides`). `PairsIntact` alone is not preserved: a
  deletion takes the assistant of a result if its other calls are deleted too, which
  is right only because results and calls are unique; a map is put in at places
  that are not between a call and its results. A client that compacts by itself
  decides nothing for later requests, so of its answers only the pairing is claimed;
- `CallsTogether`: again the property is not inductive. A request is cut while calls
  are open, their results come later, and the next replay applies the ids deleted by
  then to a transcript that has grown. `PairHeld` therefore compares the work with the
  transcript: a message mirrors one of it (`Mirrors`); as long as a call waits, for a
  result that is to come or stands further on, only results come (`Joined`); a call that
  has its result in the transcript is in the work with it or gone with it, and an open
  call is never gone (`Whole`). For the replay `DeletedWhole` says that deleted calls
  have their results and go with all the calls of their message, as the code knows an
  assistant by its first call alone. A cut, and the place of a map, is right where no
  call waits; `Closed` says so of a place, and `SeamCloses` that a place before a
  message that is no result is one, which is what the loops over results look for;
- `TypeCorrect`: the types of the four components, from their invariants.

The assumptions are `OffloadAssumption` and those of the components: a transcript
has at least a message (`EngineAssumption`), one of the client at least two
(`CompactionAssumption`), as each begins with the user's question. Working the proofs
out corrected the model: a cut of the aggressive level in a run without its user
message can separate a call from results still to come, which `harm` now records.

Model-checked only is everything about liveness, which the prover does not reach
(`L1MarkReturns`, `TriggersFire`, `DestroyReturns`, `PersonaCatchesUp`,
`MemoriesReachPersona`, `RequestStartsPersona`, `GatewayComesBack`). Every safety
property of the passing runs, invariant or action property, has its theorem.

## Not modelled

- What language models, embedding services and databases compute, prompt text,
  token counts, HTTP parsing and routing, authentication, configuration, metrics,
  SDKs, scripts, command line and host adapters: no state of their own, or I/O.
- L2's due times: `MemoryPipeline` knows that a timer is pending and of which
  kind; where two due times are compared both outcomes are allowed.
- `TdaiCore`'s start and teardown, the store pool, the quota cache, recall, and
  the seed runtime. Of the quota only a refusal is modelled.
- TCVDB's rows (one database, one call each); remote state backends beyond their
  interface.
- In `OffloadServer` the expiry of the state lock (10 s, far above the writes
  under it) and concurrent compactions of one session; in the plugin session
  registry, reclaimer and reports.
- Failed deletes of the SQLite keyword index, updates of unknown ids; system
  reminders in conversations; sanitising of messages.

## Plan

1. The manager, the checkpoint and their proofs; records, database, scenes,
   persona, profiles; the gateway's pipeline; the offload; the Hermes provider. Done.
2. The proofs of the manager, the checkpoint, the gateway's pipeline, the records and
   the store, scenes, persona and profiles, the Hermes provider, the offload's
   plugin and server, and the two compactions. Done.
3. Then the lifecycle of `TdaiCore` with the store pool, and the plugin's local
   compression.
