SPECIFICATION Spec
CONSTANTS
  Slots = 2
  Answer = {"a0", "a1"}
  FirstAnswer = "a0"
  Request = {r1}
  Ops <- AllOps
  Run = {j1}
  BatchSize = 1
  MaxMappings = 1
INVARIANTS TypeOK ClosedIsSigned
