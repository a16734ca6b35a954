SPECIFICATION Spec
CONSTANTS
  Assessment = {a1}
  Server = {1, 2}
  Worker = {1, 2}
  ServerOf <- OneEach
  Request = {r1}
  MaxJobs = 2
  StalledAfter = 3
  HeartbeatEvery = 1
  FinishWithin = 1
  MaxMisses = 1
  MaxFaults = 1
INVARIANTS TypeOK ExclusiveRun LeaseInv
PROPERTIES ImplementsLedger
CHECK_DEADLOCK FALSE
