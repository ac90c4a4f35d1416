\* Three patrons.  Digital: a licence for one reader, and one for two with two
\* checkouts.  Orders: three lines on a budget of 5.  An event of one seat and
\* four registrations; a room, two hours and two reservations.  Imports: two
\* batches of three rows.  Inter-library loans: two members, three requests.
\* Access: two libraries, one user with a token.
SPECIFICATION FrontDesk
CONSTANTS
  None = None
  Patrons = {p1, p2, p3}
  e1 = e1
  Editions = {e1}
  Licenses = {1, 2}
  EditionOf <- OneEdition
  Limit <- OneThenTwo
  Allowed <- SecondMetered
  Retaining = {}
  LoanRows = 4
  HoldRows = 4
  o1 = o1  o2 = o2  ln1 = ln1  ln2 = ln2  ln3 = ln3
  Orders = {o1, o2}
  Lines = {ln1, ln2, ln3}
  LineOrder <- OrderOf
  Quantity <- Quantities
  Cost <- Costs
  Budget = 5
  CopyCap = 3
  Registrations = 4
  Capacity = 1
  Rooms = {r1}
  Hours = 2
  Reservations = {v1, v2}
  b1 = b1  b2 = b2  wk1 = wk1  wk2 = wk2  ed1 = ed1  ed2 = ed2
  cp1 = cp1  cp2 = cp2  au1 = au1
  Batches = {b1, b2}
  Faulty = {}
  ImportRows = {1, 2, 3}
  RowBatch <- BatchOfRow
  RowWork <- WorkOfRow
  RowEdition <- EditionOfRow
  RowCopy <- CopyOfRow
  RowAuthor <- AuthorOfRow
  OldWorks = {wk2}
  m1 = m1  m2 = m2  h1 = h1  h2 = h2
  Members = {m1, m2}
  HomeOf <- Home
  Lending = {m1, m2}
  Borrowing = {m1}
  Titles = {"w"}
  Holdings = {h1, h2}
  TitleOf <- Title
  OwnerOf <- Owner
  Keeping = {}
  Requests = 3
  u1 = u1  t1 = t1
  Users = {u1}
  PatronHome <- Homes
  Libraries = {1, 2}
  ApiTokens = {t1}
  TokenUser <- TokensUser
  TokenLibrary <- TokensLibrary
  TokenScopes <- TokensScopes
SYMMETRY Symmetry
VIEW State
INVARIANTS FrontDeskTypeOK WithinLicense OncePerEdition NoIdleSlot WithinBudget FundBooks Seats NoDoubleBooking CatalogueWhole LentOnce CheckedIsServed
PROPERTIES QueueOrder WaitlistOrder RollbackReverses CodeAdmits
CHECK_DEADLOCK FALSE
