------------------------------ MODULE Persona ------------------------------
(***************************************************************************)
(* Scenes and persona of one data directory: the L2 runner lets an LLM     *)
(* edit the scene files, indexes them and counts the round; the L3 runner  *)
(* decides from counters whether the persona is due, offers the scenes     *)
(* that changed since the last one to an LLM and marks the persona done.   *)
(*                                                                         *)
(* L2 and L3 run in queues of their own and share, without a lock, the     *)
(* scene files, the index and persona.md; only single updates of the       *)
(* checkpoint are locked.  A memory is a number, the text of a scene or    *)
(* of the persona the set of memories it tells.  LLMs are assumed to stamp *)
(* what they write with the time they are given, and to work everything    *)
(* they are offered into the persona.  The store keeps no profiles here    *)
(* (SQLite); ProfileSync has the ones that do.                             *)
(***************************************************************************)
EXTENDS Integers, FiniteSets

CONSTANTS
  Scenes,       \* canonical names of scene files
  Interval,     \* persona.triggerEveryN
  MaxCaptures,  \* bound: captures
  MaxMemories,  \* bound: memories that L1 extracts
  MaxTime,      \* bound: readings of the clock that matter
  MaxUnreadable \* bound: checkpoint reads that find no readable file

\* what the constants must be
PersonaAssumption ==
  /\ Interval \in Nat \ {0} /\ MaxCaptures \in Nat /\ MaxMemories \in Nat
  /\ MaxTime \in Nat \ {0} /\ MaxUnreadable \in Nat

Memories == 1..MaxMemories
Time == 0..MaxTime                   \* 0: never

VARIABLES
  local,     \* BackupManager in use: no StorageAdapter; never changes
  files,     \* files[s]: the scene file, its META time and what it tells
  index,     \* index[s]: the time scene_index.json gives for s, 0 if not listed
  backup,    \* the latest backup of the scene files
  persona,   \* persona.md: its body and the scenes its navigation lists
  cp,        \* the counters of the checkpoint
  memories,  \* memories extracted so far
  captures,  \* captures so far
  cursor,    \* l2_last_extraction_updated_time: memories L2 is done with
  asked,     \* the pipeline is to run L3
  l2,        \* the L2 run
  l3,        \* the L3 run
  clock,
  incidents, \* history: what went wrong so far
  overlapped,\* history: an L2 and an L3 run have been under way at once
  unreadable \* checkpoint reads that failed so far

vars == <<local, files, index, backup, persona, cp, memories, captures, cursor,
          asked, l2, l3, clock, incidents, overlapped, unreadable>>

File == [there : BOOLEAN, facts : SUBSET Memories, updated : Time]
NoFile == [there |-> FALSE, facts |-> {}, updated |-> 0]
NoBackup == [s \in Scenes |-> NoFile]
Document == [body : BOOLEAN, facts : SUBSET Memories, nav : SUBSET Scenes]
NoDocument == [body |-> FALSE, facts |-> {}, nav |-> {}]
Counters == [total : 0..MaxCaptures, cursors : 0..MaxCaptures, since : 0..MaxMemories,
             scenes : 0..MaxTime, request : BOOLEAN, time : Time]
DefaultCheckpoint == [total |-> 0, cursors |-> 0, since |-> 0, scenes |-> 0,
                      request |-> FALSE, time |-> 0]
IdleL2 == [phase |-> "idle", stamp |-> 0, batch |-> {}, pre |-> DefaultCheckpoint,
           post |-> DefaultCheckpoint, wasEmpty |-> FALSE, seen |-> NoDocument]
IdleL3 == [phase |-> "idle", facts |-> {}, nav |-> {}]

Init ==
  /\ local \in BOOLEAN
  /\ files = NoBackup /\ backup = NoBackup /\ index = [s \in Scenes |-> 0]
  /\ persona = NoDocument /\ cp = DefaultCheckpoint
  /\ memories = 0 /\ captures = 0 /\ cursor = 0 /\ asked = FALSE
  /\ l2 = IdleL2 /\ l3 = IdleL3 /\ clock = 0
  /\ incidents = {} /\ overlapped = FALSE /\ unreadable = 0
-----------------------------------------------------------------------------
Larger(a, b) == IF a >= b THEN a ELSE b
Indexed == {s \in Scenes : index[s] # 0}

\* CheckpointManager.read(): without the lock; an unreadable file reads as the
\* default checkpoint.
Reads(v) ==
  \/ v = cp /\ UNCHANGED <<unreadable, incidents>>
  \/ /\ unreadable < MaxUnreadable /\ unreadable' = unreadable + 1
     /\ v = DefaultCheckpoint /\ incidents' = incidents \cup {"unreadable"}

Notes(what, happened) ==
  incidents' = IF happened THEN incidents \cup {what} ELSE incidents

Capture ==
  /\ captures < MaxCaptures /\ captures' = captures + 1
  /\ cp' = [cp EXCEPT !.total = @ + 1, !.cursors = @ + 1]
  /\ UNCHANGED <<local, files, index, backup, persona, memories, cursor, asked, l2, l3,
                 clock, incidents, unreadable>>

L1Extracts ==
  /\ memories < MaxMemories /\ memories' = memories + 1
  /\ cp' = [cp EXCEPT !.since = @ + 1]
  /\ UNCHANGED <<local, files, index, backup, persona, captures, cursor, asked, l2, l3,
                 clock, incidents, unreadable>>
-----------------------------------------------------------------------------
(* The L2 runner.                                                          *)

L2Keeps == UNCHANGED <<local, memories, captures, l3>>

BackedUp == IF local /\ \E s \in Scenes : files[s].there THEN files ELSE backup

EveryMemory == 1..memories                                           \* mutant

\* queryMemoryRecords({ updatedAfter }): the memories behind the L2 cursor
UnreadMemories == (cursor + 1)..memories

L2Begin ==
  /\ l2.phase = "idle" /\ cursor < memories /\ clock < MaxTime
  /\ clock' = clock + 1
  /\ \E v \in {cp, DefaultCheckpoint} :
       /\ Reads(v)
       /\ l2' = [IdleL2 EXCEPT !.phase = "llm", !.stamp = clock + 1, !.pre = v,
                               !.batch = UnreadMemories, !.wasEmpty = Indexed = {}]
  /\ backup' = BackedUp
  /\ UNCHANGED <<files, index, persona, cp, cursor, asked>> /\ L2Keeps

\* A name that is not canonical is renamed to a free one, never over a file.
RenameTargets(s) ==
  IF files[s].there THEN {t \in Scenes : ~files[t].there} ELSE {s}

Written(s, facts) == [there |-> TRUE, facts |-> facts, updated |-> l2.stamp]

\* One edit of the LLM: it works the new memories into a scene, under its name
\* or a made-up one, or merges a scene into another and soft-deletes it.
L2Edits ==
  /\ l2.phase = "llm"
  /\ \/ \E s \in Scenes : files' = [files EXCEPT ![s] = Written(s, files[s].facts \cup l2.batch)]
     \/ \E s \in Scenes : \E t \in RenameTargets(s) :
          files' = [files EXCEPT ![t] = Written(t, l2.batch)]
     \/ \E s, t \in Scenes :
          /\ s # t /\ files[s].there /\ files[t].there
          /\ files' = [files EXCEPT ![s] = Written(s, {}),
                                    ![t] = Written(t, files[s].facts \cup files[t].facts)]
  /\ UNCHANGED <<index, backup, persona, cp, cursor, asked, l2, clock, incidents, unreadable>>
  /\ L2Keeps

Restored == IF local /\ backup # NoBackup THEN backup ELSE files

\* The runner returns undefined, which the pipeline takes for success.
L2Fails ==
  /\ l2.phase = "llm" /\ files' = Restored
  /\ Notes("partial", \E s \in Scenes : files'[s].updated = l2.stamp) /\ asked' = TRUE /\ l2' = IdleL2
  /\ UNCHANGED <<index, backup, persona, cp, cursor, clock, unreadable>> /\ L2Keeps

\* Soft-deleted and META-only files go, the index is rebuilt from the rest.
Cleaned == [s \in Scenes |-> IF files[s].facts = {} THEN NoFile ELSE files[s]]

SyncedIndex == [s \in Scenes |-> Cleaned[s].updated]

L2Syncs ==
  /\ l2.phase = "llm" /\ files' = Cleaned /\ index' = SyncedIndex
  /\ l2' = [l2 EXCEPT !.phase = "nav", !.seen = persona]
  /\ UNCHANGED <<backup, persona, cp, cursor, asked, clock, incidents, unreadable>> /\ L2Keeps

\* updateSceneNavigation rewrites the persona it read, unless it has no body.
Navigated == IF l2.seen.body THEN [l2.seen EXCEPT !.nav = Indexed] ELSE persona

EmptyExtraction == l2.wasEmpty /\ Indexed = {}

L2Navigates ==
  /\ l2.phase = "nav" /\ persona' = Navigated
  /\ \E signal \in BOOLEAN : cp' = [cp EXCEPT !.request = @ \/ signal]
  /\ l2' = IF EmptyExtraction THEN IdleL2 ELSE [l2 EXCEPT !.phase = "check"]
  /\ UNCHANGED <<files, index, backup, cursor, asked, clock, incidents, unreadable>> /\ L2Keeps

LooksCorruptAtOnce(pre, post) ==                                \* mutant
  post.scenes <= pre.scenes \/ post.total < pre.total

LooksCorrupt(pre, post) == post.scenes < pre.scenes \/ post.total < pre.total

Repaired(pre, post) ==
  [post EXCEPT !.scenes = Larger(@, pre.scenes), !.total = Larger(@, pre.total),
               !.since = Larger(@, pre.since)]

L2Checks ==
  /\ l2.phase = "check"
  /\ \E v \in {cp, DefaultCheckpoint} :
       /\ Reads(v)
       /\ l2' = IF LooksCorrupt(l2.pre, v)
                  THEN [l2 EXCEPT !.phase = "repair", !.post = Repaired(l2.pre, v)]
                  ELSE [l2 EXCEPT !.phase = "count"]
  /\ UNCHANGED <<files, index, backup, persona, cp, cursor, asked, clock>> /\ L2Keeps

\* The whole checkpoint, as it was read, is written over the file.
L2Repairs ==
  /\ l2.phase = "repair" /\ cp' = l2.post /\ l2' = [l2 EXCEPT !.phase = "count"]
  /\ UNCHANGED <<files, index, backup, persona, cursor, asked, clock, incidents, unreadable>>
  /\ L2Keeps

L2Counts ==
  /\ l2.phase = "count"
  /\ cp' = [cp EXCEPT !.scenes = @ + 1]
  /\ cursor' = cursor + Cardinality(l2.batch) /\ asked' = TRUE /\ l2' = IdleL2
  /\ UNCHANGED <<files, index, backup, persona, clock, incidents, unreadable>> /\ L2Keeps
-----------------------------------------------------------------------------
(* The L3 runner.                                                          *)

L3Keeps == UNCHANGED <<local, files, index, backup, memories, captures, cursor, l2, unreadable>>

HasSceneFiles == \E s \in Scenes : files[s].there
HasGenerated == cp.time # 0 \/ persona.body

ShouldGenerateWhenDue ==                                         \* mutant
  \/ cp.scenes > 0 /\ ~HasGenerated /\ HasSceneFiles
  \/ cp.scenes = 1 /\ cp.since > 0
  \/ cp.since >= Interval

ShouldGenerate ==
  \/ cp.request
  \/ cp.scenes > 0 /\ ~HasGenerated /\ HasSceneFiles
  \/ HasGenerated /\ HasSceneFiles /\ ~persona.body
  \/ cp.scenes = 1 /\ cp.since > 0
  \/ cp.since >= Interval

L3Decides ==
  /\ asked /\ l3.phase = "idle" /\ asked' = FALSE
  /\ l3' = IF ShouldGenerate /\ Indexed # {} THEN [IdleL3 EXCEPT !.phase = "load"] ELSE l3
  /\ UNCHANGED <<persona, cp, clock, incidents>> /\ L3Keeps

\* The trigger meets an unreadable checkpoint, by which nothing is due: what was
\* asked for is left to the next L2 run.  (The generator's own read of it offers
\* every scene then, and does no harm.)
L3Misses ==
  /\ asked /\ l3.phase = "idle" /\ unreadable < MaxUnreadable
  /\ asked' = FALSE /\ unreadable' = unreadable + 1
  /\ incidents' = incidents \cup {"unreadable", "missed"}
  /\ UNCHANGED <<persona, cp, clock, l3, local, files, index, backup, memories, captures, cursor, l2>>

ChangedScenesLate == {s \in Indexed : index[s] > cp.time + 1}    \* mutant

ChangedScenes == {s \in Indexed : cp.time = 0 \/ index[s] > cp.time}
Offered == {s \in ChangedScenes : files[s].there}
OfferedFacts == UNION {files[s].facts : s \in Offered}

L3Loads ==
  /\ l3.phase = "load"
  /\ l3' = [phase |-> IF Offered = {} /\ persona.body THEN "mark" ELSE "llm",
            facts |-> persona.facts \cup OfferedFacts, nav |-> Indexed]
  /\ UNCHANGED <<asked, persona, cp, clock, incidents>> /\ L3Keeps

\* The LLM writes persona.md itself; a later tool call of it may still fail.
L3Writes ==
  /\ l3.phase = "llm" /\ l3' = [l3 EXCEPT !.phase = "navigate"]
  /\ persona' = [body |-> TRUE, facts |-> l3.facts, nav |-> {}]
  /\ UNCHANGED <<asked, cp, clock, incidents>> /\ L3Keeps

L3WritesNothing ==
  /\ l3.phase = "llm" /\ l3' = [l3 EXCEPT !.phase = "mark"]
  /\ persona' = NoDocument /\ Notes("failed", TRUE)
  /\ UNCHANGED <<asked, cp, clock>> /\ L3Keeps

\* The generator returns false, as it does when nothing has changed.
L3Fails ==
  /\ l3.phase \in {"llm", "navigate"} /\ l3' = [l3 EXCEPT !.phase = "mark"]
  /\ Notes("failed", TRUE)
  /\ UNCHANGED <<asked, persona, cp, clock>> /\ L3Keeps

L3Navigates ==
  /\ l3.phase = "navigate" /\ l3' = [l3 EXCEPT !.phase = "mark"]
  /\ persona' = IF persona.body THEN [persona EXCEPT !.nav = l3.nav] ELSE persona
  /\ UNCHANGED <<asked, cp, clock, incidents>> /\ L3Keeps

MarkPersonaGenerated(c, now) == [c EXCEPT !.time = now, !.since = 0, !.request = FALSE]

L3Marks ==
  /\ l3.phase = "mark" /\ l3' = IdleL3
  /\ cp' = MarkPersonaGenerated(cp, clock)
  /\ UNCHANGED <<asked, persona, clock, incidents>> /\ L3Keeps
-----------------------------------------------------------------------------
L2Proceeds == L2Syncs \/ L2Navigates \/ L2Checks \/ L2Repairs \/ L2Counts
L3Proceeds == L3Decides \/ L3Loads \/ L3Writes \/ L3Navigates \/ L3Marks

Step ==
  \/ Capture \/ L1Extracts
  \/ L2Begin \/ L2Edits \/ L2Fails \/ L2Proceeds
  \/ L3Misses \/ L3WritesNothing \/ L3Fails \/ L3Proceeds

Remembers == overlapped' = (overlapped \/ (l2'.phase # "idle" /\ l3'.phase # "idle"))

Next == Step /\ Remembers

Spec == Init /\ [][Next]_vars

\* A run that has begun goes on: the LLM calls have timeouts, and the pipeline
\* runs the L3 it was asked for.  New conversations are not assumed to come.
FairSpec == Spec /\ WF_vars(L2Proceeds /\ Remembers) /\ WF_vars(L3Proceeds /\ Remembers)
-----------------------------------------------------------------------------
TypeOK ==
  /\ local \in BOOLEAN
  /\ files \in [Scenes -> File] /\ backup \in [Scenes -> File] /\ index \in [Scenes -> Time]
  /\ persona \in Document /\ cp \in Counters
  /\ memories \in 0..MaxMemories /\ captures \in 0..MaxCaptures /\ cursor \in 0..memories
  /\ l2 \in [phase : {"idle", "llm", "nav", "check", "repair", "count"}, stamp : Time,
             batch : SUBSET Memories, pre : Counters, post : Counters,
             wasEmpty : BOOLEAN, seen : Document]
  /\ l3 \in [phase : {"idle", "load", "llm", "navigate", "mark"}, facts : SUBSET Memories,
             nav : SUBSET Scenes]
  /\ asked \in BOOLEAN /\ clock \in Time /\ overlapped \in BOOLEAN
  /\ incidents \subseteq {"unreadable", "missed", "partial", "failed"} /\ unreadable \in 0..MaxUnreadable

\* A scene that the next persona will not be offered, because its time is not
\* after that of the last persona, is in the persona, and the navigation of
\* persona.md lists the scenes there are: as long as no LLM call has failed, no
\* checkpoint read has, and L2 and L3 have not been under way at once.
PersonaKnowsOldScenes ==
  (incidents = {} /\ ~overlapped /\ l2.phase = "idle" /\ l3.phase = "idle") =>
     /\ cp.time # 0 =>
          \A s \in Indexed : index[s] <= cp.time => files[s].facts \subseteq persona.facts
     /\ persona.body => persona.nav = Indexed

\* The counters are what happened, whatever LLM calls fail and however the runs
\* overlap, until a read without the lock meets an unreadable file: the repair of
\* the L2 runner, a read followed by a write of everything, needs a broken read.
CountersTrue ==
  "unreadable" \notin incidents => cp.total = captures /\ cp.cursors = captures

\* A request of the L2 model that meets no L3 run under way, whose mark would clear
\* it, brings a persona run that begins after it, also when no counter makes the
\* persona due, and through L2 runs that fail or repair the checkpoint.  Only an
\* unreadable checkpoint gets in the way: when the trigger meets it, or when the
\* repair is about to write over the request.
Requested == cp.request /\ Indexed # {} /\ l3.phase = "idle"
Begun ==
  \/ l3.phase = "load" \/ "missed" \in incidents
  \/ l2.phase = "repair" /\ ~l2.post.request
RequestStartsPersona == Requested ~> Begun
=============================================================================
