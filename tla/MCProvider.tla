----------------------------- MODULE MCProvider -----------------------------
(* ProviderCalls on small questionnaires.                                  *)
EXTENDS ProviderCalls

Asked(q, d, blank) == [id |-> q, domain |-> d, blank |-> blank]
Mixed  == <<Asked("q1", "network", FALSE), Asked("q2", "cloud", FALSE), Asked("q3", "network", TRUE)>>
Single == <<Asked("q1", "network", FALSE)>>
SmallSheets == {Mixed, Single}
ThreeIds == {"q1", "q2", "q3"}

Words == "0" :> 0 @@ "2" :> 2 @@ "3" :> 3 @@ "5" :> 5 @@ "7" :> 7 @@ "20" :> 20 @@ "90" :> 90 @@ "1" :> 1

Saying(score, sure, flagged, feedback, completeness) ==
  [score |-> score, confidence |-> IF sure THEN "90" ELSE "20", flagged |-> flagged,
   feedback |-> feedback, completeness |-> completeness]
Fair   == Saying("2", TRUE, TRUE, TRUE, "complete")
Grave  == Saying("7", FALSE, FALSE, TRUE, "absent")
TwoSayings == {Fair, Grave}

Backends == {[client |-> "openaicompat", rejects |-> TRUE], [client |-> "anthropic", rejects |-> FALSE]}

\* The contract of the reader that the proofs rest on holds of this instance, and so does
\* the one that is proved.
ASSUME ReaderAssumption == ReaderKeeps /\ FlagsAreCounted
=============================================================================
