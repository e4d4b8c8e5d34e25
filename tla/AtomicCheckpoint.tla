-------------------------- MODULE AtomicCheckpoint --------------------------
(***************************************************************************)
(* What CheckpointManager promises (src/src/utils/checkpoint.ts:19-25): a  *)
(* file that its operations change one at a time, each applied to what the *)
(* one before it left.  Once a failure has been met, an operation may have *)
(* taken an empty file for the contents (readRaw, 255-257).                *)
(***************************************************************************)
EXTENDS Naturals

CONSTANTS
    Op,                 \* the operations
    Apply(_, _),        \* what an operation makes of the contents
    DEFAULT_CHECKPOINT  \* the contents while there is no file

VARIABLES
    file,
    failures            \* reads and writes that failed

Init ==
    /\ file = DEFAULT_CHECKPOINT
    /\ failures = 0

Seen == IF failures = 0 THEN {file} ELSE {file, DEFAULT_CHECKPOINT}

Perform(op) ==
    /\ \E seen \in Seen : file' = Apply(op, seen)
    /\ UNCHANGED failures

Fail ==
    /\ failures' = failures + 1
    /\ UNCHANGED file

Next == Fail \/ \E op \in Op : Perform(op)

Spec == Init /\ [][Next]_<<file, failures>>
=============================================================================
