CONSTANTS
  d1 = d1
  s1 = s1
  s2 = s2
  Docs = {d1}
  Servers = {s1, s2}
  MaxSequence = 2
  MaxAttempts = 1
  MaxCrashes = 2
  MaxFaults = 1
  MaxFailures = 2
  MaxStalls = 1
  NoWorker = NoWorker

SPECIFICATION FairSpec
INVARIANTS TypeOK RowUntilPublished AnsweredIsQueued
PROPERTIES DeliveredDespiteCrash
CHECK_DEADLOCK FALSE
