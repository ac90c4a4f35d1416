\* Outbox: two workers, two events, one a notice over two channels.  Webhooks:
\* two sweeps, three deliveries, one unreadable.  Fees: one loan, two fees and
\* two payments.  Billing: two plans, two late events, two joiners.
SPECIFICATION BackOffice
CONSTANTS
  None = None
  Patrons = {p1}
  Workers = {w1, w2}
  Events = {e1, e2}
  Channels = {email, sms}
  Endpoints = {hook}
  Notified = {e1}
  MaxAttempts = 2
  BatchSize = 2
  MaxFaults = 2
  Sweepers = {s1, s2}
  Deliveries = {d1, d2, d3}
  Unreadable = {d3}
  WebhookMaxAttempts = 2
  HookBatch = 2
  Threshold = 2
  MaxHookFaults = 2
  LateLoans = {l1}
  FeeRows = 2
  PaymentRows = 2
  PlanRows = 1
  Borrower <- OneBorrower
  MaxFine = 2
  ItemFee = 2
  BlockThreshold = 2
  MaxDays = 2
  Amounts = {1, 2}
  small = small  big = big  ePaid = ePaid  eFailed = eFailed  c1 = c1
  Plans = {small, big}
  Price <- Prices
  PatronCap <- Caps
  Period = 1
  MaxDunning = 2
  GatewayEvents = {ePaid, eFailed}
  EventStatus <- Statuses
  Sessions = {c1}
  SessionPlan <- PlanOf
  Joiners = {j1, j2}
  MaxCredit = 2
  MaxMembers = 2
  MaxSubscribing = 2
SYMMETRY Symmetry
VIEW State
INVARIANTS BackOfficeTypeOK RetriesContained AcceptedOncePerFault Ledger LimitOverrun
PROPERTIES ImplementsDelivery SweepImplementsDelivery WaivedIsFinal CanceledIsFinal ChargedOnce
CHECK_DEADLOCK FALSE
