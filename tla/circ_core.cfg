\* One work with two copies that float between two branches, two patrons.
SPECIFICATION Spec
CONSTANTS
  None = None
  p1 = p1  p2 = p2  c1 = c1  c2 = c2  w1 = w1  w2 = w2  b1 = b1  b2 = b2
  Patrons = {p1, p2}
  Copies = {c1, c2}
  Works = {w1}
  Branches = {b1, b2}
  WorkOf <- OneWork
  Floating = {c1, c2}
  Holdable = {w1}
  Retaining = {}
  MaxLoans = 1
  MaxHolds = 1
  MaxRenewals = 1
  MaxAttempts = 2
  LoanRows = 2
  HoldRows = 3
SYMMETRY Symmetry
VIEW OpenRows
INVARIANTS TypeOK LoanCustody Reservations StrandedOnlyByErasure
PROPERTIES QueueOrder Withdrawn
CHECK_DEADLOCK FALSE
