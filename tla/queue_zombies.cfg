SPECIFICATION FairSpec
CONSTANTS
  Assessment = {a1}
  Server = {1, 2}
  Worker = {1, 2}
  ServerOf <- OneEach
  Request = {r1}
  MaxJobs = 1
  StalledAfter = 1
  HeartbeatEvery = 1
  FinishWithin = 1
  MaxMisses = 2
  MaxFaults = 1
PROPERTIES NoResurrection JobSettles
CHECK_DEADLOCK FALSE
