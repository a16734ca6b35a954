SPECIFICATION Spec
CONSTANTS
  Slots = 1
  Answer = {"a0", "a1"}
  FirstAnswer = "a0"
  Request = {r1}
  Ops = {"confirm", "enqueue", "revise", "bulk"}
  Run = {1}
  BatchSize = 1
  MaxMappings = 1
INVARIANTS SignedAnswerIsStored
CONSTRAINT OneAtATime
