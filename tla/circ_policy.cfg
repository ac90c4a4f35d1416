\* Two works of one copy each at one branch, limits of one; p1 keeps a history.
SPECIFICATION Spec
CONSTANTS
  None = None
  p1 = p1  p2 = p2  c1 = c1  c2 = c2  w1 = w1  w2 = w2  b1 = b1  b2 = b2
  Patrons = {p1, p2}
  Copies = {c1, c2}
  Works = {w1, w2}
  Branches = {b1}
  WorkOf <- TwoWorks
  Floating = {}
  Holdable = {w1, w2}
  Retaining = {p1}
  MaxLoans = 1
  MaxHolds = 1
  MaxRenewals = 1
  MaxAttempts = 1
  LoanRows = 2
  HoldRows = 2
VIEW OpenRows
INVARIANTS PatronLimits
PROPERTIES ImplementsLending
CHECK_DEADLOCK FALSE
