CONSTANTS
  t1 = t1
  t2 = t2
  t3 = t3
  r1 = r1
  r2 = r2
  Tokens = {t1, t2, t3}
  Requests = {r1, r2}
  Lifetime = 1
  TicksPerSecond = 2
  MaxTime = 4

SPECIFICATION Spec
SYMMETRY Symmetry
INVARIANTS TypeOK SpentIsRefused
PROPERTIES NothingAfterSpent
