----------------------------- MODULE MCOffload -----------------------------
(* The context offload, checked on small instances: the plugin and the       *)
(* server, and what each does to a conversation.  A deployment has the       *)
(* plugin or the server, and a compaction sees of them only which tool calls *)
(* have entries: the four share no state, the initial state chooses one, the *)
(* variables of the others are off.                                          *)
EXTENDS Naturals, FiniteSets, Sequences, TLC

CONSTANTS Formats, AGGRESSIVE_MIN_KEEP, MaxCalls, MaxMessages
CONSTANTS MIN_KEEP, maxDistFromTail, EngineCalls
CONSTANTS Pairs, Tasks, NoTask, MaxPrompts
CONSTANTS L1_BATCH_SIZE, MAX_L1_CHUNK_RETRIES, ForceThreshold, NullThreshold
CONSTANTS Coroutines, maxRetries, namedLocks, MaxEvents

VARIABLES focus
VARIABLES format, history, calls, offloaded, confirmed, deleted, erased, level, phase, work, sent
VARIABLES boundary, force, hook, aside, removed, harm
VARIABLES reported, pending, flushes, fails, entries, entryCounter, boundaries, active, settled,
          judges, prompts, l2, l2Running, poll, omitted, lost
VARIABLES lines, appended, stamp, ranges, current, stateLock, records, nodes, timers, queue,
          run, left, clobbered, stranded, faults

C == INSTANCE Compaction WITH entries <- offloaded
E == INSTANCE ContextEngine
       WITH entries <- offloaded, MIN_MESSAGES_TO_KEEP <- AGGRESSIVE_MIN_KEEP,
            MaxCalls <- EngineCalls
P == INSTANCE OffloadPlugin
S == INSTANCE OffloadServer
       WITH pending <- lines, boundaries <- ranges, active <- current, entries <- records,
            forceTriggerThreshold <- ForceThreshold, l2NullThreshold <- NullThreshold

ASSUME OffloadAssumption == C!CompactionAssumption /\ E!EngineAssumption /\ P!PluginAssumption /\ S!ServerAssumption

messages == <<history, calls, offloaded, confirmed, deleted, phase, work>>
serverSide == <<format, erased, level, sent>>
pluginSide == <<boundary, force, hook, aside, removed, harm>>
compactVars == <<messages, serverSide, pluginSide>>
pluginVars == <<reported, pending, flushes, fails, entries, entryCounter, boundaries,
                active, settled, judges, prompts, l2, l2Running, poll, omitted, lost>>
serverVars == <<lines, appended, stamp, ranges, current, stateLock, records, nodes,
                timers, queue, run, left, clobbered, stranded, faults>>
vars == <<focus, compactVars, pluginVars, serverVars>>

Off == "off"
ServerSideOff == format = Off /\ erased = Off /\ level = Off /\ sent = Off
PluginSideOff ==
  /\ boundary = Off /\ force = Off /\ hook = Off /\ aside = Off /\ removed = Off /\ harm = Off
CompactionOff ==
  /\ history = Off /\ calls = Off /\ offloaded = Off /\ confirmed = Off /\ deleted = Off
  /\ phase = Off /\ work = Off /\ ServerSideOff /\ PluginSideOff
PluginOff ==
  /\ reported = Off /\ pending = Off /\ flushes = Off /\ fails = Off /\ entries = Off
  /\ entryCounter = Off /\ boundaries = Off /\ active = Off /\ settled = Off /\ judges = Off
  /\ prompts = Off /\ l2 = Off /\ l2Running = Off /\ poll = Off /\ omitted = Off /\ lost = Off
ServerOff ==
  /\ lines = Off /\ appended = Off /\ stamp = Off /\ ranges = Off /\ current = Off
  /\ stateLock = Off /\ records = Off /\ nodes = Off /\ timers = Off /\ queue = Off
  /\ run = Off /\ left = Off /\ clobbered = Off /\ stranded = Off /\ faults = Off

Init ==
  \/ focus = "compaction" /\ C!Init /\ PluginSideOff /\ PluginOff /\ ServerOff
  \/ focus = "engine" /\ E!Init /\ ServerSideOff /\ PluginOff /\ ServerOff
  \/ focus = "plugin" /\ P!Init /\ CompactionOff /\ ServerOff
  \/ focus = "server" /\ S!Init /\ CompactionOff /\ PluginOff

Next ==
  \/ focus = "compaction" /\ C!Next /\ UNCHANGED <<focus, pluginSide, pluginVars, serverVars>>
  \/ focus = "engine" /\ E!Next /\ UNCHANGED <<focus, serverSide, pluginVars, serverVars>>
  \/ focus = "plugin" /\ P!Next /\ UNCHANGED <<focus, compactVars, serverVars>>
  \/ focus = "server" /\ S!Next /\ UNCHANGED <<focus, compactVars, pluginVars>>

Spec == Init /\ [][Next]_vars

\* nothing tells two tool calls, or two coroutines, apart
MCSymmetry == Permutations(Pairs) \cup Permutations(Coroutines)
-----------------------------------------------------------------------------
\* The variables of the component that runs have their types.
TypeOK ==
  /\ focus = "compaction" => C!TypeOK
  /\ focus = "engine" => E!TypeOK
  /\ focus = "plugin" => P!TypeOK
  /\ focus = "server" => S!TypeOK

\* Compaction: the compacted conversation keeps calls and results together.
PairsIntact == focus = "compaction" => C!PairsIntact

\* Compaction: a tool result that was deleted or replaced once is so in every later
\* request, in the formats that do not merge results.
DecisionsStay == focus = "compaction" => C!DecisionsStay

\* ContextEngine: the user's last message is in every request.
UserTurnKept == focus = "engine" => E!UserTurnKept

\* ContextEngine: calls and results stay together.
PairsTogether == focus = "engine" => E!PairsTogether

\* OffloadPlugin: a reported tool call is pending, in a flush, or has its entry.
PairsKept == focus = "plugin" => P!PairsKept

\* OffloadServer: an entry of a task is on its way to L2 until it has a node.
EntriesReachL2 == focus = "server" => S!EntriesReachL2
=============================================================================
