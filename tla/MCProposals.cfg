CONSTANTS
  q1 = q1
  q2 = q2
  r1 = r1
  r2 = r2
  Proposals = {q1, q2}
  Requests = {r1, r2}
  Ops = {1, 2}
  Inserts = {2}
  MaxEdits = 1

SPECIFICATION Spec
SYMMETRY Symmetry
INVARIANTS TypeOK AppliedOnce DeclinedStaysOut
PROPERTIES ImplementsProposalLife
