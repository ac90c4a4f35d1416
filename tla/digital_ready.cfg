\* Two patrons, one licence for one reader.
SPECIFICATION DigitalSpec
CONSTANTS
  None = None
  e1 = e1
  Patrons = {p1, p2}
  Editions = {e1}
  Licenses = {1}
  EditionOf <- OneEdition
  Limit <- OneThenTwo
  Allowed <- SecondMetered
  Retaining = {}
  LoanRows = 4
  HoldRows = 4
SYMMETRY Symmetry
VIEW OpenRows
PROPERTY ReadyKeepsItsSlot
CHECK_DEADLOCK FALSE
