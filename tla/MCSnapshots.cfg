CONSTANTS
  d1 = d1
  k1 = k1
  k2 = k2
  r1 = r1
  c1 = c1
  Docs = {d1}
  Workers = {k1, k2}
  Readers = {r1}
  Closers = {c1}
  Threshold = 2
  MaxSequence = 3
  CallsFail = TRUE
  MaxStalls = 1
  NoWorker = NoWorker

SPECIFICATION Spec
SYMMETRY Symmetry
INVARIANTS TypeOK SnapshotsExact OneWorkerPerDocument
PROPERTIES LoadsEverything NoRegress
