--------------------------- MODULE CheckpointFile ---------------------------
(***************************************************************************)
(* The contents of the checkpoint file (src/src/utils/checkpoint.ts) and   *)
(* what each locked operation does to them.  An operation is a record; the *)
(* function Apply is the body its caller hands to mutate().                *)
(*                                                                         *)
(* Data: a message is the time it was said; a pipeline state of a session  *)
(* is the number of the save that produced it (0: the session is not       *)
(* there).  last_captured_timestamp and l0_conversations_count are         *)
(* aggregates that move together with total_processed and are left out, as *)
(* is last_scene_name.  The persona and scene counters are in Persona.     *)
(***************************************************************************)
EXTENDS Naturals, FiniteSets

CONSTANTS
    Sessions,       \* session keys
    MaxMessages,    \* bound: messages said in all conversations
    MaxSaves,       \* bound: states the pipeline manager saves
    Noise           \* messages that shouldCaptureL0 filters out

ASSUME BoundsAssumption ==
    /\ MaxMessages \in Nat
    /\ MaxSaves \in Nat
    /\ Sessions # {}

Time == 1 .. MaxMessages
Cursor == 0 .. MaxMessages
Save == 0 .. MaxSaves

\* RunnerSessionState is captured and l1, PipelineSessionState is pipeline.
Checkpoint ==
    [captured  : [Sessions -> Cursor],   \* last_captured_timestamp
     l1        : [Sessions -> Cursor],   \* last_l1_cursor
     pipeline  : [Sessions -> Save],
     processed : Nat,                    \* total_processed
     extracted : Nat]                    \* total_memories_extracted

DEFAULT_CHECKPOINT ==
    [captured  |-> [s \in Sessions |-> 0],
     l1        |-> [s \in Sessions |-> 0],
     pipeline  |-> [s \in Sessions |-> 0],
     processed |-> 0,
     extracted |-> 0]

CaptureOp ==
    [kind : {"captureAtomically"}, session : Sessions,
     window : SUBSET Time, floor : Cursor]
L1Op ==
    [kind : {"markL1ExtractionComplete"}, session : Sessions,
     cursor : Time, stored : {0, 1}]
MergeOp == [kind : {"mergePipelineStates"}, states : [Sessions -> Save]]

Op == CaptureOp \cup L1Op \cup MergeOp

-----------------------------------------------------------------------------
Newest(S) == CHOOSE m \in S : \A n \in S : n <= m

\* The session's own cursor, or the start of the plugin while it has none.
AfterTimestamp(op, cp) ==
    IF cp.captured[op.session] = 0 THEN op.floor ELSE cp.captured[op.session]

\* What recordConversation returns: the messages it was given that are newer
\* than the cursor and worth recording.
RecordConversation(op, cp) ==
    {m \in op.window \ Noise : m > AfterTimestamp(op, cp)}

\* mutant: the cursor stays where it was
KeepsCursor(op, cp) ==
    [cp EXCEPT !.processed = @ + Cardinality(RecordConversation(op, cp))]

\* mutant: one cursor serves all sessions
GlobalCursor(op, cp) ==
    LET new == RecordConversation(op, cp)
    IN  IF new = {}
        THEN cp
        ELSE [cp EXCEPT !.captured = [s \in Sessions |-> Newest(new)],
                        !.processed = @ + Cardinality(new)]

CaptureAtomically(op, cp) ==
    LET new == RecordConversation(op, cp)
    IN  IF new = {}
        THEN cp
        ELSE [cp EXCEPT !.captured[op.session] = Newest(new),
                        !.processed = @ + Cardinality(new)]

\* mutant: the cursor one past the last message
MarkPast(op, cp) ==
    [cp EXCEPT !.l1[op.session] = op.cursor + 1, !.extracted = @ + op.stored]

MarkL1ExtractionComplete(op, cp) ==
    [cp EXCEPT !.l1[op.session] = op.cursor, !.extracted = @ + op.stored]

\* A session that is in memory overwrites its saved state, the others stay.
MergePipelineStates(op, cp) ==
    [cp EXCEPT !.pipeline = [s \in Sessions |->
        IF op.states[s] # 0 THEN op.states[s] ELSE cp.pipeline[s]]]

Apply(op, cp) ==
    CASE op.kind = "captureAtomically"        -> CaptureAtomically(op, cp)
      [] op.kind = "markL1ExtractionComplete" -> MarkL1ExtractionComplete(op, cp)
      [] op.kind = "mergePipelineStates"      -> MergePipelineStates(op, cp)
=============================================================================
