SPECIFICATION FairSpec
CONSTANTS
  Assessment = {a1}
  Server = {1, 2}
  Worker = {1, 2}
  ServerOf <- OneEach
  Request = {r1, r2}
  MaxJobs = 2
  StalledAfter = 2
  HeartbeatEvery = 1
  FinishWithin = 1
  MaxMisses = 0
  MaxFaults = 0
INVARIANTS ReviewingHasOwner
PROPERTIES ReviewEnds
