------------------------------ MODULE Records ------------------------------
(***************************************************************************)
(* From captured messages to scenes: captures write rows (L0), the L1      *)
(* runner reads the oldest rows behind its cursor, lets an LLM extract     *)
(* memories from them, compares these with the memories there are and      *)
(* replaces or adds some, and the L2 runner reads the memories written     *)
(* since its own cursor.  Cursors are times of writing, in milliseconds.   *)
(*                                                                         *)
(* A session runs one L1 at a time, beside its captures, its L2 and the L1 *)
(* of other sessions, with which it shares the memories.  A crash loses    *)
(* what is under way.  A row is a number, the text of a memory the set of  *)
(* rows it tells.  A merged text is assumed to tell what those memories    *)
(* told that the LLM was shown; it may name others, or give no text.       *)
(* A process whose store does not open works from the JSONL files.         *)
(***************************************************************************)
EXTENDS Integers, FiniteSets

CONSTANTS
  Sessions,
  L1_BATCH_PROCESS,
  MaxNew,        \* maxMessagesPerExtraction of the extractor
  MaxPerCapture, \* rows that one capture stamps with the same time
  MaxRows,       \* bound: rows
  MaxMemories,   \* bound: memories written
  MaxTime,       \* bound: milliseconds
  MaxFaults      \* bound: crashes and writes that fail

\* what the constants must be
RecordsAssumption ==
  /\ L1_BATCH_PROCESS \in Nat \ {0} /\ MaxNew \in Nat \ {0}
  /\ MaxPerCapture \in 1..(L1_BATCH_PROCESS + 1)
  /\ MaxRows \in Nat /\ MaxMemories \in Nat /\ MaxTime \in Nat \ {0} /\ MaxFaults \in Nat

L1_BATCH_QUERY == 2 * L1_BATCH_PROCESS
Rows == 1..MaxRows
Memories == 1..MaxMemories
Time == 0..MaxTime

VARIABLES
  degraded, \* the store of this process did not open
  row,      \* row[i]: session, recorded_at, and whether it is in the store
  rows,     \* rows captured so far
  memory,   \* memory[k]: session, rows told, updated_time, whether it is in the store
  memories, \* memories written so far
  cursor,   \* last_l1_cursor of each session
  l2cursor, \* l2_last_extraction_updated_time of each session
  l1,       \* the L1 run of each session
  l2,       \* the memories that the L2 run of each session read
  clock, faults,
  processed,\* history: rows behind which a run moved its cursor
  late,     \* history: rows the store got when the cursor, or the L1 run, was past them,
            \* and rows that the JSONL fallback cut off as the oldest
  told,     \* history: rows that memories in the store have told
  lost,     \* history: rows of memories deleted for one that was not written, or that
            \* does not take over their text, until a memory tells them again
  seen,     \* history: memories that an L2 run has worked in
  twins     \* history: memories stamped with the millisecond of the L2 cursor

vars == <<degraded, row, rows, memory, memories, cursor, l2cursor, l1, l2, clock, faults,
          processed, late, told, lost, seen, twins>>
history == <<processed, late, told, lost, seen, twins>>

NoRow == [s |-> "none", at |-> 0, state |-> "none"]
NoMemory == [s |-> "none", tells |-> {}, at |-> 0, there |-> FALSE]
IdleL1 == [phase |-> "idle", batch |-> {}, upto |-> 0, new |-> {}, known |-> {},
           tells |-> {}, at |-> 0, deleted |-> {}]
IdleL2 == [running |-> FALSE, read |-> {}]

Init ==
  /\ degraded \in BOOLEAN
  /\ row = [i \in Rows |-> NoRow] /\ rows = 0
  /\ memory = [k \in Memories |-> NoMemory] /\ memories = 0
  /\ cursor = [s \in Sessions |-> 0] /\ l2cursor = [s \in Sessions |-> 0]
  /\ l1 = [s \in Sessions |-> IdleL1] /\ l2 = [s \in Sessions |-> IdleL2]
  /\ clock = 1 /\ faults = 0
  /\ processed = {} /\ late = {} /\ told = {} /\ lost = {} /\ seen = {} /\ twins = {}

Fault == faults < MaxFaults /\ faults' = faults + 1
-----------------------------------------------------------------------------
(* Captures.                                                               *)

RowsOf(s) == {i \in Rows : row[i].s = s /\ row[i].state # "none"}

\* All rows of a capture carry one time; rounds of a session have times of their own.
\* The file and the store are stamped one after the other: taken as one time.
Capture(s, n) ==
  /\ rows + n <= MaxRows /\ rows' = rows + n
  /\ \A i \in RowsOf(s) : row[i].at # clock
  /\ row' = [i \in Rows |-> IF i \in (rows + 1)..(rows + n)
                              THEN [s |-> s, at |-> clock,
                                    state |-> IF degraded THEN "file only" ELSE "file"] ELSE row[i]]
  /\ UNCHANGED <<degraded, memory, memories, cursor, l2cursor, l1, l2, clock, faults, history>>

\* The rows of a capture reach the store one by one, after its lock is released.
StoreRow(i) ==
  /\ ~degraded /\ row[i].state = "file" /\ row' = [row EXCEPT ![i].state = "store"]
  /\ late' = IF \/ row[i].at <= cursor[row[i].s]
                \/ l1[row[i].s].phase # "idle" /\ row[i].at <= l1[row[i].s].upto
              THEN late \cup {i} ELSE late
  /\ UNCHANGED <<degraded, rows, memory, memories, cursor, l2cursor, l1, l2, clock, faults,
                 processed, told, lost, seen, twins>>

\* A row the store refuses stays in the file.
LoseRow(i) ==
  /\ row[i].state = "file" /\ Fault
  /\ row' = [row EXCEPT ![i].state = "file only"]
  /\ UNCHANGED <<degraded, rows, memory, memories, cursor, l2cursor, l1, l2, clock, history>>
-----------------------------------------------------------------------------
(* The L1 runner.                                                          *)

Behind(s) == {i \in RowsOf(s) : row[i].at > cursor[s] /\ (degraded \/ row[i].state = "store")}

\* queryL0GroupedBySessionId(): the oldest rows, ties in any order.
Oldest(from, n) ==
  {q \in SUBSET from : /\ Cardinality(q) = (IF Cardinality(from) < n THEN Cardinality(from) ELSE n)
                       /\ \A i \in q, j \in from \ q : row[i].at <= row[j].at}

\* readConversationMessagesGroupedBySessionId(): the newest ones.
Newest(from, n) ==
  {q \in SUBSET from : /\ Cardinality(q) = (IF Cardinality(from) < n THEN Cardinality(from) ELSE n)
                       /\ \A i \in q, j \in from \ q : row[i].at >= row[j].at}

Queried(s) ==
  IF degraded THEN Newest(Behind(s), L1_BATCH_QUERY) ELSE Oldest(Behind(s), L1_BATCH_QUERY)

Before(i, j) == row[i].at < row[j].at \/ (row[i].at = row[j].at /\ i < j)
FirstOf(q, n) == {i \in q : Cardinality({j \in q : Before(j, i)}) < n}

\* The first rows, and those that share the millisecond of the last of them.
SliceUnaligned(q) == FirstOf(q, L1_BATCH_PROCESS)                         \* mutant
Slice(q) ==
  LET first == FirstOf(q, L1_BATCH_PROCESS) IN
  {i \in q : \E j \in first : row[i].at <= row[j].at}

\* The extractor takes the last rows for new, a few before them for background.
NewMessages(slice) == {i \in slice : Cardinality({j \in slice : Before(i, j)}) < MaxNew}

LatestOf(slice) == CHOOSE t \in {row[i].at : i \in slice} : \A i \in slice : row[i].at <= t

L1Reads(s) ==
  /\ l1[s].phase = "idle" /\ Behind(s) # {}
  /\ \E q \in Queried(s) :
       /\ l1' = [l1 EXCEPT ![s] = [IdleL1 EXCEPT !.phase = "extract", !.batch = Slice(q),
                                                 !.upto = LatestOf(Slice(q)),
                                                 !.new = NewMessages(Slice(q))]]
       /\ late' = IF degraded THEN late \cup (Behind(s) \ q) ELSE late
  /\ UNCHANGED <<degraded, row, rows, memory, memories, cursor, l2cursor, l2, clock, faults,
                 processed, told, lost, seen, twins>>

\* A failed extraction is an answer like any other: nothing to write.  The dedup
\* search shows the LLM some of the memories there are; without a store it finds none.
L1Extracts(s) ==
  /\ l1[s].phase = "extract"
  /\ \/ /\ UNCHANGED faults
        /\ \/ \E known \in SUBSET {k \in Memories : ~degraded /\ memory[k].there} :
                l1' = [l1 EXCEPT ![s].phase = "apply", ![s].known = known]
           \/ l1' = [l1 EXCEPT ![s].phase = "mark"]
     \/ Fault /\ l1' = [l1 EXCEPT ![s].phase = "mark"]
  /\ UNCHANGED <<degraded, row, rows, memory, memories, cursor, l2cursor, l2, clock,
                 processed, late, told, lost, seen, twins>>

\* Decisions are taken on the memories as the dedup search found them, all to store
\* when it found none; a memory does not change, it is only replaced.
Told(ks) == UNION {memory[k].tells : k \in ks}
ReplacedTargets(s, targets) == targets
ReplacedCandidates(s, targets) == l1[s].known                             \* mutant
Replaced(s, targets) == ReplacedTargets(s, targets)

\* A merged text takes over what the LLM was shown; without one the extracted text is
\* written.  Nothing compares the targets with what was shown.
TakenOver(s, targets, merged) == IF merged THEN targets \cap l1[s].known ELSE {}

\* store, update or merge: what is replaced leaves the store first.
Deletes(s, targets, taken) ==
  LET there == {k \in targets : memory[k].there} IN
  /\ memory' = [k \in Memories |->
                  IF k \in Replaced(s, targets) THEN [memory[k] EXCEPT !.there = FALSE] ELSE memory[k]]
  /\ lost' = lost \cup Told(there \ taken)
  /\ l1' = [l1 EXCEPT ![s].phase = "write", ![s].at = clock,
                      ![s].tells = l1[s].new \cup Told(taken), ![s].deleted = there \cap taken]

\* A delete that fails is logged; without a store there is none.
KeepsAll(s, taken) ==
  /\ l1' = [l1 EXCEPT ![s].phase = "write", ![s].at = clock,
                      ![s].tells = l1[s].new \cup Told(taken), ![s].deleted = {}]
  /\ UNCHANGED <<memory, lost>>

L1Decides(s, targets, merged) ==
  /\ l1[s].phase = "apply" /\ memories < MaxMemories /\ (targets # {} => l1[s].known # {})
  /\ LET taken == TakenOver(s, targets, merged) IN
     \/ ~degraded /\ Deletes(s, targets, taken) /\ UNCHANGED faults
     \/ ((degraded /\ UNCHANGED faults) \/ (~degraded /\ targets # {} /\ Fault)) /\ KeepsAll(s, taken)
  /\ UNCHANGED <<degraded, row, rows, memories, cursor, l2cursor, l2, clock,
                 processed, late, told, seen, twins>>

\* writeMemory() has appended the record to its file, and computed its embedding.
L1Writes(s) ==
  /\ l1[s].phase = "write" /\ ~degraded /\ memories < MaxMemories /\ memories' = memories + 1
  /\ memory' = [memory EXCEPT ![memories + 1] =
                  [s |-> s, tells |-> l1[s].tells, at |-> l1[s].at, there |-> TRUE]]
  /\ told' = told \cup l1[s].tells /\ lost' = lost \ l1[s].tells
  /\ twins' = IF l1[s].at = l2cursor[s] \/ \E k \in l2[s].read : memory[k].at = l1[s].at
                THEN twins \cup {memories + 1} ELSE twins
  /\ l1' = [l1 EXCEPT ![s].phase = "apply"]
  /\ UNCHANGED <<degraded, row, rows, cursor, l2cursor, l2, clock, faults,
                 processed, late, seen>>

\* The failure of the store is logged, and the next memory is written.
L1WriteFails(s) ==
  /\ l1[s].phase = "write" /\ ((degraded /\ UNCHANGED faults) \/ (~degraded /\ Fault))
  /\ lost' = lost \cup Told(l1[s].deleted)
  /\ l1' = [l1 EXCEPT ![s].phase = "apply"]
  /\ UNCHANGED <<degraded, row, rows, memory, memories, cursor, l2cursor, l2, clock,
                 processed, late, told, seen, twins>>

\* markL1ExtractionComplete(), after the last decision (or none: skip).
L1Marks(s) ==
  /\ l1[s].phase \in {"apply", "mark"}
  /\ cursor' = [cursor EXCEPT ![s] = l1[s].upto]
  /\ processed' = processed \cup l1[s].batch
  /\ l1' = [l1 EXCEPT ![s] = IdleL1]
  /\ UNCHANGED <<degraded, row, rows, memory, memories, l2cursor, l2, clock, faults,
                 late, told, lost, seen, twins>>
-----------------------------------------------------------------------------
(* The L2 runner, as far as its cursor goes.                               *)

Unread(s) == {k \in Memories : memory[k].there /\ memory[k].s = s /\ memory[k].at > l2cursor[s]}

L2Reads(s) ==
  /\ ~degraded /\ ~l2[s].running /\ Unread(s) # {}
  /\ l2' = [l2 EXCEPT ![s] = [running |-> TRUE, read |-> Unread(s)]]
  /\ UNCHANGED <<degraded, row, rows, memory, memories, cursor, l2cursor, l1, clock, faults, history>>

LatestRead(s) == CHOOSE t \in {memory[k].at : k \in l2[s].read} : \A k \in l2[s].read : memory[k].at <= t
LatestNext(s) == LatestRead(s) + 1                                         \* mutant
LatestCursor(s) == LatestRead(s)

L2Works(s) ==
  /\ l2[s].running
  /\ l2cursor' = [l2cursor EXCEPT ![s] = LatestCursor(s)]
  /\ seen' = seen \cup l2[s].read /\ l2' = [l2 EXCEPT ![s] = IdleL2]
  /\ UNCHANGED <<degraded, row, rows, memory, memories, cursor, l1, clock, faults,
                 processed, late, told, lost, twins>>

\* A run that fails, or changes no file, leaves the cursor.
L2Fails(s) ==
  /\ l2[s].running /\ l2' = [l2 EXCEPT ![s] = IdleL2]
  /\ UNCHANGED <<degraded, row, rows, memory, memories, cursor, l2cursor, l1, clock, faults, history>>
-----------------------------------------------------------------------------
\* The process stops and starts again; the next one may have no store.
Crash ==
  /\ Fault /\ degraded' \in BOOLEAN
  /\ row' = [i \in Rows |-> IF row[i].state = "file" THEN [row[i] EXCEPT !.state = "file only"] ELSE row[i]]
  /\ lost' = lost \cup UNION {IF l1[s].phase = "write" THEN Told(l1[s].deleted) ELSE {} : s \in Sessions}
  /\ l1' = [s \in Sessions |-> IdleL1] /\ l2' = [s \in Sessions |-> IdleL2]
  /\ UNCHANGED <<rows, memory, memories, cursor, l2cursor, clock,
                 processed, late, told, seen, twins>>

Tick ==
  /\ clock < MaxTime /\ clock' = clock + 1
  /\ UNCHANGED <<degraded, row, rows, memory, memories, cursor, l2cursor, l1, l2, faults, history>>

SessionStep(s) ==
  \/ \E n \in 1..MaxPerCapture : Capture(s, n)
  \/ L1Reads(s) \/ L1Extracts(s)
  \/ \E targets \in SUBSET Memories, merged \in BOOLEAN : L1Decides(s, targets, merged)
  \/ L1Writes(s) \/ L1WriteFails(s) \/ L1Marks(s)
  \/ L2Reads(s) \/ L2Works(s) \/ L2Fails(s)

Next ==
  \/ \E s \in Sessions : SessionStep(s)
  \/ \E i \in Rows : StoreRow(i) \/ LoseRow(i)
  \/ Crash \/ Tick

Spec == Init /\ [][Next]_vars
-----------------------------------------------------------------------------
TypeOK ==
  /\ degraded \in BOOLEAN
  /\ row \in [Rows -> [s : Sessions \cup {"none"}, at : Time, state : {"none", "file", "file only", "store"}]]
  /\ rows \in 0..MaxRows /\ memories \in 0..MaxMemories
  /\ memory \in [Memories -> [s : Sessions \cup {"none"}, tells : SUBSET Rows, at : Time, there : BOOLEAN]]
  /\ cursor \in [Sessions -> Time] /\ l2cursor \in [Sessions -> Time]
  /\ l1 \in [Sessions -> [phase : {"idle", "extract", "apply", "write", "mark"}, batch : SUBSET Rows,
                          upto : Time, new : SUBSET Rows, known : SUBSET Memories,
                          tells : SUBSET Rows, at : Time, deleted : SUBSET Memories]]
  /\ l2 \in [Sessions -> [running : BOOLEAN, read : SUBSET Memories]]
  /\ clock \in Time /\ faults \in 0..MaxFaults
  /\ processed \cup late \cup told \cup lost \subseteq Rows
  /\ seen \cup twins \subseteq Memories

\* No cursor leaves anything behind.  The L1 cursor: no row of the store, through
\* batches, rows of one millisecond, failed extractions, crashes and concurrent
\* captures, but for rows that reach the store when the cursor, or a run under way,
\* has passed them and for those that the JSONL fallback cuts off.  The L2 cursor: no
\* memory, though it is stamped before it is written, but for one of the same
\* millisecond.
RowsRead ==
  \A i \in Rows : (row[i].state = "store" /\ row[i].at <= cursor[row[i].s]) =>
    i \in processed \cup late
MemoriesRead ==
  \A k \in Memories : (memory[k].there /\ memory[k].at <= l2cursor[memory[k].s]) => k \in seen \cup twins
CursorsSkipNothing == RowsRead /\ MemoriesRead

\* What memories have told stays told: deduplication may replace memories on the
\* word of a search that is stale by then, in two sessions at once, after a delete
\* that failed, and loses nothing but what a decision gives up (it deletes memories
\* without a merged text, or memories the LLM was not shown) and what was deleted for
\* a memory that could not be written, until it is told again.
MemoriesKeepFacts ==
  \A i \in told \ lost :
    \/ \E k \in Memories : memory[k].there /\ i \in memory[k].tells
    \/ \E s \in Sessions : l1[s].phase = "write" /\ i \in l1[s].tells
=============================================================================
