CONSTANTS
  u1 = u1
  u2 = u2
  u3 = u3
  l1 = l1
  r1 = r1
  r2 = r2
  Users = {u1, u2, u3}
  Links = {l1}
  Requests = {r1, r2}
  Served <- MCServed

SPECIFICATION Spec
SYMMETRY Symmetry
INVARIANTS TypeOK SingleUse AuthorRemains
PROPERTIES RevokedAdmitsNobody DeletedIsClosed AnsweredAsDocumented
