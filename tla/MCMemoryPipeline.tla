-------------------------- MODULE MCMemoryPipeline --------------------------
(* Small instances of MemoryPipeline for TLC *)
EXTENDS MemoryPipeline, TLC

CONSTANTS a, b

MCSessions == {a, b}
OneSession == {a}

MCSymmetry == Permutations(MCSessions)

(* what a checkpoint may hold: an idle graduate, a session with            *)
(* conversations L1 never saw, one with memories L2 never saw              *)
NothingRestored == {}
MCRestored ==
  {[conversation_count |-> 0, l2_pending_l1_count |-> 0, warmup_threshold |-> 0],
   [conversation_count |-> 2, l2_pending_l1_count |-> 0, warmup_threshold |-> 2],
   [conversation_count |-> 0, l2_pending_l1_count |-> 1, warmup_threshold |-> 0]}

AnyResult == {"drained", "hasMore", "hasFullBacklog"}
NoBacklog == {"drained"}
SmallTail == {"drained", "hasMore"}

WithMessages == {1}
AnyMessages == {0, 1}
=============================================================================
