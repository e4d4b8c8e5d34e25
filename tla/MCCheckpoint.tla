---------------------------- MODULE MCCheckpoint ----------------------------
(***************************************************************************)
(* Two kinds of behaviour of Checkpoint in one run: without a fault, with  *)
(* repeated agent_end events, saves and longer queues at the lock; and     *)
(* with failed reads and writes and crashes, in between fewer operations.  *)
(***************************************************************************)
EXTENDS Checkpoint

CONSTANTS a, b

Undisturbed == faults = 0 /\ crashes = 0

Short ==
    /\ saves = 0
    /\ redelivered = 0
    /\ Len(chain) <= 2

Within == Undisturbed \/ Short

MCNext == Next /\ Within'

\* The event loop gets to every operation that may run.
MCSpec == Init /\ [][MCNext]_vars /\ WF_vars(LockStep /\ Within')
=============================================================================
