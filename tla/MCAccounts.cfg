CONSTANTS
  c1 = c1
  c2 = c2
  t1 = t1
  t2 = t2
  t3 = t3
  r1 = r1
  r2 = r2
  Codes = {c1, c2}
  ResetTokens = {t1, t2, t3}
  Requests = {r1, r2}

SPECIFICATION Spec
SYMMETRY Symmetry
INVARIANTS TypeOK DeadSecretsStayDead ActiveOnlyByOverlap AnsweredAsDocumented
