\* One copy, two patrons: a loan is returned while the overdue sweep runs.
SPECIFICATION RaceSpec
CONSTANTS
  None = None
  w1 = w1
  Patrons = {p1, p2}
  Copies = {c1}
  Works = {w1}
  Branches = {b1}
  WorkOf <- OneWork
  Floating = {}
  Holdable = {w1}
  Retaining = {}
  MaxLoans = 1
  MaxHolds = 1
  MaxRenewals = 0
  MaxAttempts = 1
  LoanRows = 1
  HoldRows = 2
INVARIANT Reservations
CHECK_DEADLOCK FALSE
