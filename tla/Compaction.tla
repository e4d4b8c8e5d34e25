---------------------------- MODULE Compaction ----------------------------
(***************************************************************************)
(* The compaction of a conversation by the offload server.  A client sends *)
(* its whole history before every call of the LLM that would exceed its    *)
(* budget; the server replaces tool results by summaries (mild), deletes   *)
(* messages (aggressive, emergency), puts task maps in, and remembers which *)
(* tool results it replaced or deleted, to do it again at once (fast path) *)
(* when the history comes back.                                            *)
(*                                                                         *)
(* Token counts are abstracted: a deletion stops at any length its guards  *)
(* allow.  The providers' formats differ: OpenAI keeps the calls of an     *)
(* assistant beside its content ("calls"), Anthropic in it ("blocks"),     *)
(* with the results of one step in one user message ("merged") or several. *)
(***************************************************************************)
EXTENDS Naturals, FiniteSets, Sequences, Subsequences

CONSTANTS
  Formats,             \* the formats of the conversations to check
  AGGRESSIVE_MIN_KEEP, \* the same as EMERGENCY_MIN_KEEP
  MaxCalls,            \* bound: tool calls of a conversation
  MaxMessages          \* bound: messages of a conversation

\* what the constants must be
CompactionAssumption ==
  /\ Formats \subseteq {"calls", "blocks", "merged"} /\ Formats # {}
  /\ AGGRESSIVE_MIN_KEEP \in Nat /\ MaxCalls \in Nat /\ MaxMessages \in Nat \ {0, 1}

VARIABLES
  format,
  history,   \* the client's messages
  calls,     \* tool calls made so far
  entries,   \* calls whose result has an offload entry
  confirmed, \* confirmedOffloadIds of compact-state.json
  deleted,   \* deletedOffloadIds of compact-state.json
  erased,    \* history: calls whose result was deleted, noted in deleted or not
  level,     \* of the compaction under way
  phase,     \* what it does next
  work,      \* its messages
  sent       \* the answer to the last compaction, or nothing

vars == <<format, history, calls, entries, confirmed, deleted, erased, level, phase, work, sent>>
client == <<format, history, calls, entries>>

\* A message: its kind, whether an assistant has a text block, the calls it makes or
\* the calls it answers, and whether it is a summary.
Message(kind, text, uses, results) ==
  [kind |-> kind, text |-> text, uses |-> uses, results |-> results, offloaded |-> FALSE]
System == Message("system", TRUE, {}, {})
Question == Message("user", TRUE, {}, {})
MmdMessage(kind) == Message(kind, TRUE, {}, {})

Init ==
  /\ format \in Formats /\ history \in {<<Question>>, <<System, Question>>}
  /\ calls = 0 /\ entries = {} /\ confirmed = {} /\ deleted = {} /\ erased = {}
  /\ level = "fastpath" /\ phase = "idle" /\ work = <<>> /\ sent = <<>>
-----------------------------------------------------------------------------
(* Messages, helpers.ts.                                                   *)

MinOf(S) == CHOOSE x \in S : \A y \in S : x <= y
Least(a, b) == IF a < b THEN a ELSE b
IsMmd(m) == m.kind \in {"mmd", "history mmd"}
IsResult(m) == m.kind = "result"
InBlocks == format # "calls"

\* extractToolResultId(): the first of the ids of a message.
ResultId(m) == IF m.results = {} THEN {} ELSE {MinOf(m.results)}

OnlyUses(m) == InBlocks /\ m.kind = "assistant" /\ ~m.text /\ m.uses # {}
UsesOf(ms) == UNION {ms[i].uses : i \in DOMAIN ms}
ResultsOf(ms) == UNION {ms[i].results : i \in DOMAIN ms}

Without(ms, drop) == Kept(ms, DOMAIN ms \ drop)
InsertedAt(ms, n, m) == SubSeq(ms, 1, n) \o <<m>> \o SubSeq(ms, n + 1, Len(ms))
-----------------------------------------------------------------------------
(* Fast path: what earlier compactions decided.                            *)

FastDeleted(m) ==
  \/ /\ ResultId(m) # {} /\ ResultId(m) \subseteq deleted
     /\ Cardinality(m.results) > 1 => m.results \subseteq deleted
  \/ OnlyUses(m) /\ m.uses \subseteq deleted

FastEdited(m) ==
  IF ResultId(m) # {} /\ ResultId(m) \subseteq deleted THEN [m EXCEPT !.results = @ \ deleted]
  ELSE IF IsResult(m) /\ ResultId(m) \subseteq confirmed \cap entries THEN [m EXCEPT !.offloaded = TRUE]
  ELSE IF InBlocks /\ m.kind = "assistant" /\ ~OnlyUses(m) THEN [m EXCEPT !.uses = @ \ deleted]
  ELSE m

\* Second pass: calls without results, results without calls, and what is empty then.
Repaired(ms) ==
  LET repaired == [i \in DOMAIN ms |->
        IF InBlocks THEN [ms[i] EXCEPT !.uses = @ \cap ResultsOf(ms), !.results = @ \cap UsesOf(ms)]
                    ELSE ms[i]]
      empty(i) == \/ IsResult(ms[i]) /\ ms[i].results \cap UsesOf(ms) = {}
                  \/ InBlocks /\ ms[i].kind = "assistant" /\ ~ms[i].text /\ repaired[i].uses = {}
  IN Without(repaired, {i \in DOMAIN ms : empty(i)})

FastPathOfSummaries(ms) ==                                                \* mutant
  IF confirmed = {} THEN ms
  ELSE Repaired(Without([i \in DOMAIN ms |-> FastEdited(ms[i])],
                        {i \in DOMAIN ms : FastDeleted(ms[i])}))
FastPath(ms) ==
  IF confirmed = {} /\ deleted = {} THEN ms
  ELSE Repaired(Without([i \in DOMAIN ms |-> FastEdited(ms[i])],
                        {i \in DOMAIN ms : FastDeleted(ms[i])}))
-----------------------------------------------------------------------------
(* Mild: any of the results in the first part that have an entry.          *)

Candidates(ms) ==
  {i \in 1..((Len(ms) * 7) \div 10) : IsResult(ms[i]) /\ ~ms[i].offloaded /\ ResultId(ms[i]) \subseteq entries}
Summarized(ms, chosen) == [i \in DOMAIN ms |-> IF i \in chosen THEN [ms[i] EXCEPT !.offloaded = TRUE] ELSE ms[i]]
IdsOf(ms, idx) == UNION {ResultId(ms[i]) : i \in idx}
AllIds(ms, idx) == UNION {ms[i].results : i \in idx}
-----------------------------------------------------------------------------
(* Aggressive and emergency: tool results first, then anything, oldest     *)
(* first, until enough is freed or too few messages would be left.         *)

\* findLastUserMessageIndex(): in blocks, tool results are messages of the user.
Users(ms) == {i \in DOMAIN ms : ms[i].kind = "user" \/ (InBlocks /\ IsResult(ms[i]))}
LastUser(ms) == IF Users(ms) = {} THEN Len(ms) + 1 ELSE CHOOSE i \in Users(ms) : \A j \in Users(ms) : j <= i

Deletable(ms) == {i \in 1..(LastUser(ms) - 1) : ~IsMmd(ms[i]) /\ ms[i].kind # "system"}
DeletedBefore(ms, i, j) ==
  IF IsResult(ms[i]) = IsResult(ms[j]) THEN i < j ELSE IsResult(ms[i])
FirstDeleted(ms, k) ==
  {i \in Deletable(ms) : Cardinality({j \in Deletable(ms) : DeletedBefore(ms, j, i)}) < k}

Room(ms) ==
  LET others == Cardinality({i \in DOMAIN ms : ~IsMmd(ms[i])}) IN
  Least(Cardinality(Deletable(ms)), IF others < AGGRESSIVE_MIN_KEEP THEN 0 ELSE others - AGGRESSIVE_MIN_KEEP)

\* ensureToolPairIntegrity(): an assistant takes its results along, and goes with
\* the last of them.
UnpairedIntegrity(ms, drop) == drop                                       \* mutant
WithPairs(ms, drop) ==
  LET results == drop \cup {i \in DOMAIN ms : \E j \in drop : ms[j].uses \cap ms[i].results # {}} IN
  results \cup {j \in DOMAIN ms : ms[j].uses # {} /\ ms[j].uses \subseteq UNION {ms[i].results : i \in results}}

\* The calls that are left of an assistant whose other results are deleted.
Stripped(ms, drop) ==
  LET dangling == IdsOf(ms, drop) IN
  Without([i \in DOMAIN ms |-> IF InBlocks /\ ~(ms[i].uses \subseteq dangling)
                                 THEN [ms[i] EXCEPT !.uses = @ \ dangling] ELSE ms[i]],
          drop \cup {i \in DOMAIN ms : ms[i].uses # {} /\ ms[i].uses \subseteq dangling})

Dropped(ms, k) == WithPairs(ms, FirstDeleted(ms, k))

\* emergencyCompress() takes the task maps out and puts them at the front, the last first.
Mmds(ms) == {i \in DOMAIN ms : IsMmd(ms[i])}
Reversed(ms) == [i \in DOMAIN ms |-> ms[Len(ms) + 1 - i]]
WithoutMmds(ms) == Without(ms, Mmds(ms))
MmdsFirst(ms, rest) == Reversed(Kept(ms, Mmds(ms))) \o rest
-----------------------------------------------------------------------------
(* Task maps; an insertion point is the number of messages before it.      *)

\* The assistant before the results that end at i, or 0.
AssistantOf(ms, i) ==
  LET before == {j \in 1..i : ms[j].kind = "assistant" /\ \A k \in (j + 1)..i : IsResult(ms[k])}
  IN IF before = {} THEN 0 ELSE CHOOSE j \in before : TRUE

\* adjustForToolCallPair()
Adjusted(ms, n) ==
  IF n = 0 \/ n >= Len(ms) THEN n
  ELSE IF IsResult(ms[n + 1]) /\ AssistantOf(ms, n) # 0 THEN AssistantOf(ms, n) - 1
  ELSE IF InBlocks /\ ms[n].uses # {} THEN n - 1
  ELSE n

\* findActiveMmdInsertionPoint(), without the distance limit of 30 messages.
ActivePoint(ms) ==
  IF Len(ms) <= 2 THEN Adjusted(ms, Least(1, Len(ms)))
  ELSE
    LET tail == {i \in DOMAIN ms : ~IsMmd(ms[i]) /\ \A j \in i..Len(ms) : ms[j].kind \in {"assistant", "result"} \/ IsMmd(ms[j])}
        loop == IF tail = {} THEN Len(ms) ELSE MinOf(tail) - 1
        at == IF Users(ms) = {} THEN (IF loop = 0 THEN 1 ELSE loop)
              ELSE IF LastUser(ms) = Len(ms) THEN Len(ms) - 1 ELSE LastUser(ms)
        n == Adjusted(ms, at)
    IN IF n = 0 /\ ms[1].kind = "system" THEN 1 ELSE n

\* injectHistoryMmds(), the maps of deleted calls; injectActiveMmd().
WithHistoryMmd(ms) == InsertedAt(ms, ActivePoint(ms), MmdMessage("history mmd"))
WithActiveMmd(ms) == InsertedAt(ms, ActivePoint(ms), MmdMessage("mmd"))
-----------------------------------------------------------------------------
(* The client, between compactions.                                       *)

Last == history[Len(history)]
LlmTurn == phase = "idle" /\ Last.kind \in {"user", "result"}
Extend(ms) ==
  /\ Len(history) + Len(ms) <= MaxMessages /\ history' = history \o ms /\ sent' = <<>>
  /\ UNCHANGED <<format, confirmed, deleted, erased, level, phase, work>>

\* A step of the LLM: n parallel calls, perhaps with text, and then their results,
\* of which some are found worth an entry.
UseTools(n, text, worth) ==
  /\ LlmTurn /\ calls + n <= MaxCalls /\ calls' = calls + n
  /\ worth \subseteq (calls + 1)..(calls + n) /\ entries' = entries \cup worth
  /\ LET ids == (calls + 1)..(calls + n)
         answers == IF format = "merged" THEN <<Message("result", FALSE, {}, ids)>>
                    ELSE [i \in 1..n |-> Message("result", FALSE, {}, {calls + i})]
     IN Extend(<<Message("assistant", text, ids, {})>> \o answers)

Talk == LlmTurn /\ Extend(<<Message("assistant", TRUE, {}, {}), Question>>) /\ UNCHANGED <<calls, entries>>
-----------------------------------------------------------------------------
(* handleCompaction().                                                     *)

Compact(lv) ==
  /\ LlmTurn /\ level' = lv
  /\ work' = FastPath(history) /\ phase' = (IF lv = "fastpath" THEN "map" ELSE "mild")
  /\ sent' = <<>> /\ UNCHANGED <<client, confirmed, deleted, erased>>

Mild(chosen) ==
  /\ phase = "mild" /\ chosen \subseteq Candidates(work)
  /\ work' = Summarized(work, chosen) /\ confirmed' = confirmed \cup IdsOf(work, chosen)
  /\ phase' = (IF level = "mild" THEN "map" ELSE "aggressive")
  /\ UNCHANGED <<client, deleted, erased, level, sent>>

\* k messages go for their tokens; none when the summaries freed enough.  A task map
\* comes in when it knows one of the deleted calls.
Aggressive(k, known) ==
  /\ phase = "aggressive" /\ k <= Room(work)
  /\ LET drop == Dropped(work, k) after == Stripped(work, drop) IN
       /\ known => IdsOf(work, drop) \cap entries # {}
       /\ work' = IF known THEN WithHistoryMmd(after) ELSE after
       /\ deleted' = deleted \cup IdsOf(work, drop) /\ erased' = erased \cup AllIds(work, drop)
  /\ phase' = (IF level = "emergency" THEN "emergency" ELSE "map")
  /\ UNCHANGED <<client, confirmed, level, sent>>

Emergency(k) ==
  /\ phase = "emergency" /\ phase' = "map"
  /\ LET rest == WithoutMmds(work) drop == IF Len(rest) <= 2 THEN {} ELSE Dropped(rest, k) IN
       /\ k <= Room(rest)
       /\ work' = MmdsFirst(work, Stripped(rest, drop))
       /\ deleted' = deleted \cup IdsOf(rest, drop) /\ erased' = erased \cup AllIds(rest, drop)
  /\ UNCHANGED <<client, confirmed, level, sent>>

Respond(mmd) ==
  /\ phase = "map" /\ phase' = "idle" /\ work' = <<>>
  /\ sent' = IF mmd THEN WithActiveMmd(work) ELSE work
  /\ UNCHANGED <<client, confirmed, deleted, erased, level>>

\* Without an answer of the server the client cuts its history itself, at any length:
\* never between a call and its result.
BeyondResults(c) == MinOf({i \in (c + 1)..(Len(history) + 1) : i > Len(history) \/ ~IsResult(history[i])}) - 1
BeforeUses(c) ==
  IF c \in 1..(Len(history) - 1) /\ InBlocks
  THEN CHOOSE d \in 0..c : (\A i \in (d + 1)..c : history[i].uses # {}) /\ (d = 0 \/ history[d].uses = {})
  ELSE c
LocalCompact(c) ==
  /\ LlmTurn /\ c <= Len(history)
  /\ LET cut == BeforeUses(BeyondResults(c)) IN
       sent' = IF cut = Len(history) THEN history ELSE SubSeq(history, cut + 1, Len(history))
  /\ level' = "local"
  /\ UNCHANGED <<client, confirmed, deleted, erased, phase, work>>

Next ==
  \/ \E n \in 1..2, text \in BOOLEAN, worth \in SUBSET (1..MaxCalls) : UseTools(n, text, worth)
  \/ Talk
  \/ \E lv \in {"fastpath", "mild", "aggressive", "emergency"} : Compact(lv)
  \/ \E chosen \in SUBSET (1..MaxMessages) : Mild(chosen)
  \/ \E k \in 0..MaxMessages, known \in BOOLEAN : Aggressive(k, known)
  \/ \E k \in 0..MaxMessages : Emergency(k)
  \/ \E mmd \in BOOLEAN : Respond(mmd)
  \/ \E c \in 0..MaxMessages : LocalCompact(c)

Spec == Init /\ [][Next]_vars
-----------------------------------------------------------------------------
TypeOK ==
  /\ format \in Formats /\ calls \in 0..MaxCalls /\ Len(history) <= MaxMessages
  /\ \A m \in {history[i] : i \in DOMAIN history} \cup {sent[i] : i \in DOMAIN sent} :
       m \in [kind : {"system", "user", "assistant", "result", "mmd", "history mmd"}, text : BOOLEAN,
              uses : SUBSET (1..MaxCalls), results : SUBSET (1..MaxCalls), offloaded : BOOLEAN]
  /\ entries \cup confirmed \cup deleted \cup erased \subseteq 1..calls
  /\ level \in {"fastpath", "mild", "aggressive", "emergency", "local"}
  /\ phase \in {"idle", "mild", "aggressive", "emergency", "map"}

\* Every call has its result, every result its call, and nothing comes between them.
Paired(ms) ==
  /\ UsesOf(ms) = ResultsOf(ms)
  /\ \A i \in DOMAIN ms : IsResult(ms[i]) =>
       LET j == AssistantOf(ms, i) IN j # 0 /\ ms[i].results \subseteq ms[j].uses

\* A compacted conversation in Anthropic's format is one that the provider takes:
\* through parallel calls of which some are deleted, the cascade between results and
\* assistants, the fast path over what earlier requests deleted, and task maps put in.
PairsIntact == InBlocks => Paired(sent)

\* A tool result that was deleted stays deleted and one that was replaced replaced,
\* request after request, though the client sends its whole history again: but for what
\* a client cuts itself, and for the format that merges results.  There a deletion
\* notes one id of the message: the result of that id stays away, the others come
\* back; and a summary may share its message with a deleted result.  (Messages
\* without results have no id, and come back in every format.)
DecisionsStay ==
  level # "local" => \A i \in DOMAIN sent : IsResult(sent[i]) =>
    /\ IF format = "merged" THEN ResultId(sent[i]) \cap deleted = {}
                            ELSE sent[i].results \cap erased = {}
    /\ ResultId(sent[i]) \subseteq confirmed \cap entries => sent[i].offloaded \/ format = "merged"
=============================================================================
