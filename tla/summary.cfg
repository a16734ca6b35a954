SPECIFICATION Spec
CONSTANTS
  Sheet <- TwoDomains
  BatchSize = 1
  Reply <- OnlyGood
  Request = {r1}
  Run = {j1, j2}
  None = None
  MaxRequests = 1
  MaxUpsets = 1
INVARIANTS SummaryIsCurrent OneResultPerRun
PROPERTIES NarrativeIsTheRuns
SYMMETRY AnyRun
CHECK_DEADLOCK FALSE
