--------------------------- MODULE MCReviewQueue ---------------------------
(* ReviewQueue on small instances: two workers, each in a process of its   *)
(* own (a second application instance).                                    *)
EXTENDS ReviewQueue

OneEach == [w \in {1, 2} |-> w]
=============================================================================
