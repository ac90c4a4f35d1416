\* One copy, two branches, two patrons who may queue for it.
SPECIFICATION FairSpec
CONSTANTS
  None = None
  p1 = p1  p2 = p2  c1 = c1  c2 = c2  w1 = w1  w2 = w2  b1 = b1  b2 = b2
  Patrons = {p1, p2}
  Copies = {c1}
  Works = {w1}
  Branches = {b1, b2}
  WorkOf <- OneWork
  Floating = {}
  Holdable = {w1}
  Retaining = {}
  MaxLoans = 1
  MaxHolds = 1
  MaxRenewals = 0
  MaxAttempts = 2
  LoanRows = 1
  HoldRows = 2
PROPERTIES TransitEnds ReservationEnds HeadServed
CHECK_DEADLOCK FALSE
