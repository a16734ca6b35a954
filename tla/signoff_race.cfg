SPECIFICATION FairSpec
CONSTANTS
  Slots = 1
  Answer = {"a0", "a1"}
  FirstAnswer = "a0"
  Request = {r1, r2}
  Ops = {"finalize", "reopen", "bulk", "revise", "confirm", "enqueue"}
  Run = {1}
  BatchSize = 1
  MaxMappings = 2
INVARIANTS ReviewingHasRun
PROPERTIES SignedStaysSigned ColumnsSeparable ReviewEnds
