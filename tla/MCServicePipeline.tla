------------------------- MODULE MCServicePipeline -------------------------
(* Bounds for ServicePipeline.  With one conversation "shared" and "pinned" *)
(* do the same, and sessions end only where the default instance is served. *)
EXTENDS ServicePipeline

Bound(b, a, f, x, i) ==
  [before |-> b, adds |-> a, flushes |-> f, failures |-> x, incidents |-> i]
MCScenarios ==
  {"local", "pinned"} \X {Bound(2, 2, 0, 0, 0), Bound(0, 2, 1, 0, 0)}
    \cup {"shared"} \X {Bound(0, 2, 0, 0, 0)}
    \cup {"local", "shared"} \X {Bound(2, 1, 0, 2, 0), Bound(0, 1, 0, 1, 1), Bound(0, 1, 0, 0, 2)}
=============================================================================
