--------------------------- MODULE ContextEngine ---------------------------
(***************************************************************************)
(* The compaction of a conversation by the plugin itself (its level L3).   *)
(* The host replays the whole transcript to assemble() before a run; the   *)
(* hooks before_prompt_build and after_tool_call then compact the list of  *)
(* the run in place.  A pass applies what earlier passes decided (boundary *)
(* and fast path), deletes messages from the head (aggressive), replaces   *)
(* tool results by summaries (mild), deletes whatever it must (emergency), *)
(* and puts the task maps back in.                                         *)
(*                                                                         *)
(* Token counts are abstracted: a deletion stops at any length its guards  *)
(* allow.  The history maps of several tasks are one message.  Calls are   *)
(* numbered in the order they are made; their ids need no normalisation.   *)
(***************************************************************************)
EXTENDS Naturals, FiniteSets, Sequences, Subsequences

CONSTANTS
  MIN_MESSAGES_TO_KEEP, \* of the aggressive and the emergency level
  MIN_KEEP,             \* of the first cut of a run
  maxDistFromTail,      \* of the map of the active task
  MaxCalls,             \* bound: tool calls of a conversation
  MaxMessages           \* bound: messages of a conversation

\* what the constants must be
EngineAssumption ==
  /\ MIN_MESSAGES_TO_KEEP \in Nat \ {0} /\ MIN_KEEP \in Nat \ {0} /\ maxDistFromTail \in Nat
  /\ MaxCalls \in Nat /\ MaxMessages \in Nat \ {0}

VARIABLES
  history,   \* the transcript, which the host replays
  calls,     \* tool calls made so far
  entries,   \* calls whose result has an offload entry
  confirmed, \* confirmedOffloadIds
  deleted,   \* deletedOffloadIds
  boundary,  \* _lastAggressiveBoundary
  force,     \* _forceEmergencyNext
  hook,      \* whose pass is under way
  phase,     \* what it does next
  work,      \* the messages of the run
  aside,     \* the maps that emergency took out
  removed,   \* whether this emergency deleted a message
  harm       \* what the cuts so far may have broken

vars == <<history, calls, entries, confirmed, deleted, boundary, force, hook, phase, work,
          aside, removed, harm>>
host == <<history, calls, entries>>

\* A message: its kind, whether an assistant has text, the calls it makes or the call it
\* answers, whether it is as it was, and its place in the transcript.
Message(kind, text, uses, id, at) ==
  [kind |-> kind, text |-> text, uses |-> uses, id |-> id, form |-> "whole", at |-> at]
Question(at) == Message("user", TRUE, {}, 0, at)
Map(kind) == Message(kind, TRUE, {}, 0, 0)
NoBoundary == [at |-> 0, whole |-> FALSE]

Init ==
  /\ history = <<Question(1)>> /\ calls = 0 /\ entries = {} /\ confirmed = {} /\ deleted = {}
  /\ boundary = NoBoundary /\ force = FALSE /\ hook = "none" /\ phase = "idle"
  /\ work = history /\ aside = <<>> /\ removed = FALSE /\ harm = {}
-----------------------------------------------------------------------------
(* Messages, l3-helpers.ts.                                                *)

MinOf(S) == CHOOSE x \in S : \A y \in S : x <= y
MaxOf(S) == CHOOSE x \in S : \A y \in S : x >= y
Least(a, b) == IF a < b THEN a ELSE b
Most(a, b) == IF a < b THEN b ELSE a
Less(a, b) == IF a < b THEN 0 ELSE a - b

IsMap(m) == m.kind \in {"active", "history"}
IsResult(m) == m.kind = "result"
OnlyUses(m) == m.uses # {} /\ ~m.text
\* extractToolCallId() ?? extractToolUseIdFromAssistant(): of an assistant, the first.
IdOf(m) == IF IsResult(m) THEN {m.id} ELSE IF m.uses = {} THEN {} ELSE {MinOf(m.uses)}
IdsOf(ms) == UNION {IdOf(ms[i]) : i \in DOMAIN ms}
UsesOf(ms) == UNION {ms[i].uses : i \in DOMAIN ms}
ResultsOf(ms) == {ms[i].id : i \in {j \in DOMAIN ms : IsResult(ms[j])}}
Outstanding == UsesOf(history) \ ResultsOf(history)

Maps(ms) == Kept(ms, {i \in DOMAIN ms : IsMap(ms[i])})
WithoutMaps(ms) == Kept(ms, {i \in DOMAIN ms : ~IsMap(ms[i])})
WithoutKind(ms, kind) == Kept(ms, {i \in DOMAIN ms : ms[i].kind # kind})
InsertedAt(ms, n, m) == SubSeq(ms, 1, n) \o <<m>> \o SubSeq(ms, n + 1, Len(ms))
From(ms, n) == SubSeq(ms, n + 1, Len(ms))
Without(ms, drop) == Kept(ms, DOMAIN ms \ drop)

\* The last message of the user, or 0.
Users(ms) == {i \in DOMAIN ms : ms[i].kind = "user"}
LastUser(ms) == IF Users(ms) = {} THEN 0 ELSE MaxOf(Users(ms))

\* A cut of n messages, extended over the results that follow it.
BeyondResults(ms, n) == MinOf({c \in n..Len(ms) : c = Len(ms) \/ ~IsResult(ms[c + 1])})

\* capDeleteCountForUserMessage()
UncappedForUser(ms, n) == n                                               \* mutant
CappedForUser(ms, n) == IF LastUser(ms) = 0 THEN n ELSE Least(n, LastUser(ms) - 1)
-----------------------------------------------------------------------------
(* Task maps, mmd-injector.ts; a point is the number of messages before it. *)

\* adjustForToolCallPair()
Adjusted(ms, n) ==
  IF n >= Len(ms) THEN n
  ELSE MaxOf({c \in 0..n : c = 0 \/ ~(IsMap(ms[c + 1]) \/ IsResult(ms[c + 1]))})

\* findActiveMmdInsertionPoint()
ActivePoint(ms) ==
  LET loop == {i \in DOMAIN ms : /\ ms[i].kind \in {"assistant", "result"}
                                 /\ \A j \in i..Len(ms) : ms[j].kind # "user"}
      loopStart == IF loop = {} THEN Len(ms) ELSE MinOf(loop) - 1
      n == IF LastUser(ms) > Len(ms) \div 2 THEN LastUser(ms)
           ELSE Least(Most(loopStart, Less(Len(ms), maxDistFromTail)), Len(ms) - 1)
  IN IF Len(ms) <= 2 THEN 0 ELSE Adjusted(ms, n)

HistoryPoint(ms) ==
  LET actives == {i \in DOMAIN ms : ms[i].kind = "active"}
  IN IF actives = {} THEN ActivePoint(ms) ELSE MinOf(actives) - 1

WithMap(ms, m) ==
  InsertedAt(ms, IF m.kind = "history" THEN HistoryPoint(ms) ELSE ActivePoint(ms), m)
WithMaps(ms, maps) ==
  LET with[n \in 0..Len(maps)] == IF n = 0 THEN ms ELSE WithMap(with[n - 1], maps[n])
  IN with[Len(maps)]
\* History maps of deleted calls, in place of the ones before.
WithHistoryMap(ms) == WithMap(WithoutKind(ms, "history"), Map("history"))
\* injectMmdIntoMessages()
WithActiveMap(ms) == WithMap(WithoutKind(ms, "active"), Map("active"))
-----------------------------------------------------------------------------
(* What earlier passes decided.                                            *)

FastDeleted(m) == IF IsResult(m) THEN m.id \in deleted ELSE OnlyUses(m) /\ m.uses \subseteq deleted
FastEdited(m) ==
  IF m.form = "summary" THEN m
  ELSE IF IsResult(m) /\ m.id \in confirmed \cap entries THEN [m EXCEPT !.form = "summary"]
  ELSE IF OnlyUses(m) /\ m.uses \subseteq confirmed \cap entries THEN [m EXCEPT !.form = "summary"]
  ELSE IF m.text /\ m.uses \cap (deleted \cup (confirmed \cap entries)) # {}
       THEN [m EXCEPT !.uses = @ \ deleted, !.form = "cut"]
  ELSE m
FastPath(ms) ==
  LET kept == Without(ms, {i \in DOMAIN ms : FastDeleted(ms[i])})
  IN [i \in DOMAIN kept |-> FastEdited(kept[i])]

\* The transcript, as the host replays it, from the boundary of an earlier cut on.  The
\* fingerprint of an edited message is not the one of its transcript.
BoundaryApplies == boundary.at \in 2..Len(history)
Replayed ==
  IF BoundaryApplies /\ boundary.whole /\ BeyondResults(history, boundary.at - 1) < Len(history)
  THEN From(history, BeyondResults(history, boundary.at - 1)) ELSE history

\* Where the first message that is kept stands in the transcript: it and the next must
\* stand there as they stand here.
BoundaryOf(ms) ==
  IF /\ ms # <<>> /\ ms[1].at # 0
     /\ ms[1].at = Len(history) \/ Len(ms) = 1 \/ ms[2].at = ms[1].at + 1
  THEN [at |-> ms[1].at, whole |-> ms[1].form = "whole"] ELSE NoBoundary
-----------------------------------------------------------------------------
(* The host: the conversation goes on, in the transcript and in the run.   *)

Said(m) ==
  /\ phase = "idle" /\ Len(history) < MaxMessages
  /\ history' = Append(history, m) /\ work' = Append(work, m)
  /\ UNCHANGED <<confirmed, deleted, boundary, force, hook, phase, aside, removed, harm>>
Place == Len(history) + 1
LastKind == history[Len(history)].kind

Ask == LastKind = "assistant" /\ Outstanding = {} /\ Said(Question(Place)) /\ UNCHANGED <<calls, entries>>
Answer ==
  /\ LastKind # "assistant" /\ Outstanding = {}
  /\ Said(Message("assistant", TRUE, {}, 0, Place)) /\ UNCHANGED <<calls, entries>>
\* n parallel calls, perhaps with text; their results come one by one, and the plugin
\* finds some of them worth an entry.
UseTools(n, text) ==
  /\ LastKind # "assistant" /\ Outstanding = {} /\ calls + n <= MaxCalls /\ calls' = calls + n
  /\ Said(Message("assistant", text, (calls + 1)..(calls + n), 0, Place)) /\ UNCHANGED entries
ResultArrives(c, worth) ==
  /\ c \in Outstanding /\ entries' = (IF worth THEN entries \cup {c} ELSE entries)
  /\ Said(Message("result", FALSE, {}, c, Place)) /\ UNCHANGED calls
-----------------------------------------------------------------------------
(* Passes.                                                                 *)

Done == phase' = "idle" /\ hook' = "none"
Begin(h, p) == phase = "idle" /\ hook' = h /\ phase' = p /\ UNCHANGED <<host, force, aside, removed, harm>>

\* assemble(), with the user's prompt or without.
Assemble(prompted) ==
  /\ Outstanding = {} /\ Begin(IF prompted THEN "prompted" ELSE "assemble", "aggressive")
  /\ work' = FastPath(IF prompted THEN Replayed ELSE history)
  /\ boundary' = IF prompted /\ BoundaryApplies /\ ~boundary.whole THEN NoBoundary ELSE boundary
  /\ UNCHANGED <<confirmed, deleted>>

\* before_prompt_build
BeforePromptBuild ==
  /\ Outstanding = {} /\ Begin("prompt", IF confirmed \cup deleted = {} THEN "map" ELSE "aggressive")
  /\ work' = FastPath(work) /\ UNCHANGED <<confirmed, deleted, boundary>>

\* after_tool_call; the map of the active task comes in when there is one.
AfterToolCall(map) ==
  /\ (LastKind = "result" \/ Outstanding # {}) /\ Begin("call", "aggressive")
  /\ work' = (IF map /\ \A i \in DOMAIN work : work[i].kind # "active"
              THEN WithMap(work, Map("active")) ELSE work)
  /\ UNCHANGED <<confirmed, deleted, boundary>>

Decide(ids) == confirmed' = confirmed \cup ids /\ deleted' = deleted \cup ids
TakesTail == hook = "prompted" /\ boundary = NoBoundary

\* aggressiveCompressUntilBelowThreshold(): k messages would free enough.
UnpairedCount(ms, k) == CappedForUser(ms, k)                              \* mutant
DeleteCount(ms, k) == CappedForUser(ms, BeyondResults(ms, k))
Aggressive(k, known) ==
  /\ phase = "aggressive" /\ ~TakesTail /\ Len(work) > MIN_MESSAGES_TO_KEEP
  /\ LET rest == WithoutMaps(work) n == DeleteCount(rest, k) gone == SubSeq(rest, 1, n)
         after == WithMaps(From(rest, n), Maps(work)) IN
       /\ k \in 1..Less(Len(rest), MIN_MESSAGES_TO_KEEP) /\ n > 0
       /\ known => IdsOf(gone) \cap entries # {}
       /\ boundary' = (IF hook = "prompted" THEN BoundaryOf(after) ELSE boundary)
       /\ work' = (IF known THEN WithHistoryMap(after) ELSE after)
       /\ Decide(IdsOf(gone))
       /\ harm' = harm \cup (IF UsesOf(gone) \cap Outstanding = {} THEN {} ELSE {"pair"})
  /\ phase' = "mild" /\ UNCHANGED <<host, force, hook, aside, removed>>

\* Nothing can be deleted: the maps go back in, and emergency may have to help.
Stalled(forced) ==
  /\ phase = "aggressive" /\ ~TakesTail /\ Len(work) > MIN_MESSAGES_TO_KEEP
  /\ LET rest == WithoutMaps(work) IN
       /\ Len(rest) > MIN_MESSAGES_TO_KEEP => DeleteCount(rest, 1) = 0
       /\ work' = WithMaps(rest, Maps(work))
  /\ force' = (force \/ forced) /\ phase' = "mild"
  /\ UNCHANGED <<host, confirmed, deleted, boundary, hook, aside, removed, harm>>

\* TAIL-ACCUMULATE: the messages after the first n fit in 60% of the budget.
KeptFrom(ms, n) ==
  LET c == BeyondResults(ms, n)
      before == Users(ms) \cap 1..c
      user == IF c < Len(ms) /\ Users(ms) \cap (c + 1)..Len(ms) = {} /\ before # {}
              THEN MaxOf(before) - 1 ELSE c
  IN IF Len(ms) - user < MIN_KEEP THEN Less(Len(ms), MIN_KEEP) ELSE user
TailIds(ms) == UNION {IF ms[i].text THEN {} ELSE IdOf(ms[i]) : i \in DOMAIN ms}
TailAccumulate(n) ==
  /\ phase = "aggressive" /\ TakesTail /\ n <= Len(work)
  /\ LET c == KeptFrom(work, n) IN
       /\ c \in 1..(Len(work) - 1)
       /\ work' = From(work, c) /\ boundary' = BoundaryOf(From(work, c))
       /\ Decide(TailIds(SubSeq(work, 1, c)))
       /\ harm' = harm \cup (IF IsResult(work[c + 1]) THEN {"pair"} ELSE {})
                       \cup (IF LastUser(work) \in 1..c THEN {"user"} ELSE {})
  /\ phase' = "mild" /\ UNCHANGED <<host, force, hook, aside, removed>>

\* compressByScoreCascade(): in the first part, any of the results that have an entry,
\* and of the assistants whose calls all have one, with their results.
Scanned(ms) == {ms[i] : i \in {j \in 1..((Len(ms) * 7) \div 10) : ms[j].form # "summary"}}
Replaceable(ms, ids) ==
  LET alone == {m.id : m \in {r \in Scanned(ms) : IsResult(r)}} \cap entries
      together == {m.uses : m \in {a \in Scanned(ms) : OnlyUses(a) /\ a.uses \subseteq entries}}
  IN ids \subseteq alone \cup UNION {uses \in together : uses \subseteq ids}
Summarized(ms, ids) ==
  [i \in DOMAIN ms |->
     IF \/ IsResult(ms[i]) /\ ms[i].id \in ids
        \/ OnlyUses(ms[i]) /\ ms[i].uses \subseteq ids
     THEN [ms[i] EXCEPT !.form = "summary"]
     ELSE IF ms[i].uses \cap ids # {} /\ ms[i].form = "whole" THEN [ms[i] EXCEPT !.form = "cut"] ELSE ms[i]]
Mild(ids) ==
  /\ phase = "mild" /\ Replaceable(work, ids)
  /\ work' = Summarized(work, ids) /\ confirmed' = confirmed \cup ids
  /\ phase' = "emergency"
  /\ UNCHANGED <<host, deleted, boundary, force, hook, aside, removed, harm>>

\* Below a threshold there is nothing to do; below the mild one, after_tool_call returns.
BelowThreshold(next) ==
  /\ phase = "aggressive" /\ IF next = "mild" THEN phase' = next /\ hook' = hook ELSE hook = "call" /\ Done
  /\ UNCHANGED <<host, confirmed, deleted, boundary, force, work, aside, removed, harm>>
-----------------------------------------------------------------------------
(* Emergency: from the head, else a group of the tail, else a message's    *)
(* text, until the rest fits.                                              *)

AfterEmergency == IF hook = "prompt" THEN phase' = "map" /\ hook' = hook ELSE Done
TakesAside ==
  /\ aside' = Maps(work) /\ work' = WithoutMaps(work) /\ removed' = FALSE /\ phase' = "deleting"
Emergency ==
  /\ phase = "emergency" /\ force' = FALSE /\ Len(work) > MIN_MESSAGES_TO_KEEP /\ TakesAside
  /\ UNCHANGED <<host, confirmed, deleted, boundary, hook, harm>>
NoEmergency ==
  /\ phase = "emergency" /\ force' = FALSE /\ (force => Len(work) <= MIN_MESSAGES_TO_KEEP)
  /\ AfterEmergency
  /\ UNCHANGED <<host, confirmed, deleted, boundary, work, aside, removed, harm>>
\* compact(), when the host does not do it itself.
CompactItself ==
  /\ phase = "idle" /\ hook' = "compact" /\ TakesAside
  /\ UNCHANGED <<host, confirmed, deleted, boundary, force, harm>>

CanDelete == phase = "deleting" /\ Len(work) > MIN_MESSAGES_TO_KEEP
\* k is at most half of the messages, and enough are left.
HeadCount(ms, k) == CappedForUser(ms, Least(BeyondResults(ms, k), Len(ms) - MIN_MESSAGES_TO_KEEP))
HeadDelete(k) ==
  /\ CanDelete /\ k <= (Len(work) + 1) \div 2 /\ k <= Len(work) - MIN_MESSAGES_TO_KEEP
  /\ LET n == HeadCount(work, k) IN
       /\ n > 0 /\ work' = From(work, n) /\ Decide(IdsOf(SubSeq(work, 1, n)))
       /\ harm' = harm \cup (IF IsResult(work[n + 1]) THEN {"pair"} ELSE {})
  /\ removed' = TRUE /\ UNCHANGED <<host, boundary, force, hook, phase, aside>>

\* The groups of the tail: calls with their results, or one message.
Blocked == CanDelete /\ LastUser(work) = 1
GroupOf(ms, i) == {i} \cup {j \in (i + 1)..Len(ms) : IsResult(ms[j]) /\ ms[j].id \in ms[i].uses}
Groups(ms) ==
  LET paired == {GroupOf(ms, i) : i \in {j \in 2..Len(ms) : ms[j].uses # {}}}
      single == {i \in 2..(Len(ms) - 1) : ms[i].kind # "user"} \ UNION paired
  IN paired \cup {{i} : i \in single}
TooMany(ms, group) == Len(ms) - Cardinality(group) < MIN_MESSAGES_TO_KEEP
TailDelete(group) ==
  /\ Blocked /\ ~TooMany(work, group) /\ work' = Without(work, group)
  /\ LET ids == UNION {work[i].uses \cup (IF IsResult(work[i]) THEN {work[i].id} ELSE {}) : i \in group} IN
       /\ Decide(ids)
       /\ harm' = harm \cup (IF ids \subseteq ResultsOf(history) THEN {} ELSE {"pair"})
  /\ removed' = TRUE /\ UNCHANGED <<host, boundary, force, hook, phase, aside>>

\* _emergencyTruncateOversized(): the largest message is cut short, and its id is
\* reported as deleted.
Truncate(i) ==
  /\ Blocked /\ i \in 2..Len(work)
  /\ Groups(work) = {} \/ \E group \in Groups(work) : TooMany(work, group)
  /\ work' = [work EXCEPT ![i].form = IF @ = "summary" THEN @ ELSE "cut"]
  /\ Decide(IdOf(work[i])) /\ harm' = harm \cup (IF IdOf(work[i]) = {} THEN {} ELSE {"pair"})
  /\ UNCHANGED <<host, boundary, force, hook, phase, aside, removed>>

EmergencyEnds ==
  /\ phase = "deleting" /\ AfterEmergency
  /\ work' = WithMaps(work, aside) /\ aside' = <<>> /\ removed' = FALSE
  /\ boundary' = (IF removed /\ hook = "prompted" THEN BoundaryOf(WithMaps(work, aside))
                   ELSE IF removed /\ hook = "compact" THEN NoBoundary ELSE boundary)
  /\ UNCHANGED <<host, confirmed, deleted, force, harm>>

\* Phase 3 of before_prompt_build; without a judgment of the task it waits, without an
\* active task the map is taken out.
InjectMap(map) ==
  /\ phase = "map" /\ Done
  /\ work' = (CASE map = "active" -> WithActiveMap(work)
               [] map = "none" -> WithoutKind(work, "active")
               [] OTHER -> work)
  /\ UNCHANGED <<host, confirmed, deleted, boundary, force, aside, removed, harm>>

Next ==
  \/ Ask \/ Answer
  \/ \E n \in 1..2, text \in BOOLEAN : UseTools(n, text)
  \/ \E c \in 1..MaxCalls, worth \in BOOLEAN : ResultArrives(c, worth)
  \/ \E prompted \in BOOLEAN : Assemble(prompted)
  \/ BeforePromptBuild
  \/ \E map \in BOOLEAN : AfterToolCall(map)
  \/ \E k \in 1..MaxMessages, known \in BOOLEAN : Aggressive(k, known)
  \/ \E forced \in BOOLEAN : Stalled(forced)
  \/ \E n \in 0..MaxMessages : TailAccumulate(n)
  \/ \E next \in {"mild", "idle"} : BelowThreshold(next)
  \/ \E ids \in SUBSET (1..MaxCalls) : Mild(ids)
  \/ Emergency \/ NoEmergency \/ CompactItself
  \/ \E k \in 1..MaxMessages : HeadDelete(k)
  \/ \E group \in Groups(work) : TailDelete(group)
  \/ \E i \in 1..MaxMessages : Truncate(i)
  \/ EmergencyEnds
  \/ \E map \in {"active", "none", "wait"} : InjectMap(map)

Spec == Init /\ [][Next]_vars
-----------------------------------------------------------------------------
TypeOK ==
  /\ Len(history) <= MaxMessages /\ calls <= MaxCalls
  /\ \A m \in {history[i] : i \in DOMAIN history} \cup {work[i] : i \in DOMAIN work} :
       m \in [kind : {"user", "assistant", "result", "active", "history"}, text : BOOLEAN,
              uses : SUBSET (1..MaxCalls), id : 0..MaxCalls, form : {"whole", "summary", "cut"},
              at : 0..MaxMessages]
  /\ entries \subseteq 1..calls /\ deleted \subseteq confirmed /\ confirmed \subseteq 1..calls
  /\ boundary \in [at : 0..MaxMessages, whole : BOOLEAN]
  /\ force \in BOOLEAN /\ removed \in BOOLEAN /\ harm \subseteq {"pair", "user"}
  /\ hook \in {"none", "assemble", "prompted", "prompt", "call", "compact"}
  /\ phase \in {"idle", "aggressive", "mild", "emergency", "deleting", "map"}
  /\ Len(aside) <= 2

\* The user's last message is in every request: the aggressive and the emergency level
\* cut before it, through the maps they take out and put back in, the results they extend
\* the cut over, and the boundary at which the next replay is cut.  The first cut of a
\* run does not keep it when the results after it take the whole budget: its own check
\* does not run then.
UserTurnKept ==
  phase = "idle" /\ "user" \notin harm =>
    \E i \in DOMAIN work : work[i].kind = "user" /\ work[i].at = LastUser(history)

\* Calls and results stay together, in the run and in every replay of the transcript:
\* every call has its results behind it, but for those still to come, and every result
\* its call, through cuts that know a deleted assistant by the first of its calls only,
\* and through maps put in.  The cuts of an emergency that do not keep them together are
\* excepted, and the cut that takes a call before its result has come: without the user's
\* message nothing holds it back.
PairsTogether ==
  phase = "idle" /\ "pair" \notin harm =>
    /\ UsesOf(work) \ Outstanding = ResultsOf(work)
    /\ \A i \in DOMAIN work : IsResult(work[i]) =>
         \E j \in 1..(i - 1) : work[i].id \in work[j].uses /\ \A k \in (j + 1)..i : IsResult(work[k])
=============================================================================
