----------------------------- MODULE MCSignOff -----------------------------
(* SignOff on small instances.                                             *)
EXTENDS SignOff

AllOps == {"finalize", "reopen", "bulk", "close", "unclose", "revise", "confirm", "enqueue"}

\* No handler is in progress while a run is: what still goes wrong needs no race.
OneAtATime ==
  (\E r \in Request : req[r].op # "none") =>
    \A j \in Run : run[j].at \in {"none", "queued", "done"}
=============================================================================
