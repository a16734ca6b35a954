----------------------------- MODULE MCSummary -----------------------------
(* Summary on small instances.                                             *)
EXTENDS Summary

Asked(q, d) == [id |-> q, domain |-> d, blank |-> FALSE]
TwoDomains == <<Asked("q1", "network"), Asked("q2", "cloud")>>

\* A good answer, scored below the scale.
Good == [score |-> 0, sure |-> TRUE, draft |-> TRUE, flags |-> 0, completeness |-> "complete"]

OnlyGood == {Good}

AnyRun == Permutations(Run)
=============================================================================
