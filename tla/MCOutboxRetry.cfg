CONSTANTS
  d1 = d1
  s1 = s1
  s2 = s2
  Docs = {d1}
  Servers = {s1, s2}
  MaxSequence = 1
  MaxAttempts = 2
  MaxCrashes = 1
  MaxFaults = 2
  MaxFailures = 3
  MaxStalls = 1
  NoWorker = NoWorker

SPECIFICATION FairSpec
PROPERTIES RetriedUntilDelivered
CHECK_DEADLOCK FALSE
