# E-Library: specification and proofs

This directory holds TLA+ modules for E-Library (Django, PostgreSQL), the TLC
configurations that check them on small instances, and TLAPS proofs. Paths below
are relative to `src/`.

Run, in this directory:

    tlasany Circulation.tla
    tlc -workers 2 -config circ_core.cfg MCCirculation.tla
    tlapm CirculationProofs.tla

`PROJECT.json` lists components, runs, mutants (a changed definition that makes
each property fail), the source lines of each definition, findings, hazards and
theorems.

## 1. The system

E-Library is a monolith: HTTP handlers (`views.py`, `api.py`, `sip2.py`) check
permissions and call service functions, which change state in database
transactions. Beside the web processes run an **outbox worker** (`drain_outbox`,
a loop) and a **scheduler** (`run_sweeps` every five minutes, `--full` once an
hour, `docker-compose.yml:78-88`). All share one PostgreSQL database; services
take row locks (`select_for_update`, sometimes `skip_locked`) and, for a work's
or an edition's hold queue, an advisory lock. Nothing else is shared except a
cache.

| Component | State | Operations | What is hard | What makes it correct | Module |
|---|---|---|---|---|---|
| Physical circulation (`services.py`) | Copy, Loan, Hold, patron status | borrow, return, renew, place/cancel hold, check-in, retire, move; sweeps for overdue loans, pickup windows, stale transfers, reconciliation | one freed copy, many ways to free it; copies in transit; sweeps against calls | custody, reservations, queue order, policy limits, no stranded copy, no neglected queue | `Circulation` |
| Librarian workflows (`workflows.py`) | copies in bulk; loans | bulk edit, weed, lost, claims returned, damaged | edits go past the queue | reserved and lent copies stay out of reach | `Circulation`, `Fees` (partly) |
| Consortia (`consortia.py`) | IllRequest; the lender's copy | request, ship, receive, return, check in, cancel | two libraries act on one request while the copy's own library uses it | one request per copy; no copy stays away | `Interlibrary`, `Circulation` |
| Privacy (`privacy.py`) | everything that names a patron | export, erase | rows of every component at once | nothing names the erased patron; nothing stays reserved for them | an action in five modules (partly) |
| Outbox and notifications (`services.py`, `notifications.py`) | OutboxEvent, NotificationDelivery | emit, claim, reclaim, send, retry, dead-letter | crashes, stalls, two workers on one event | delivered at least once; repeated only after a fault; settled | `Outbox` |
| Webhooks (`webhooks.py`, `circuit.py`) | WebhookDelivery; the breaker of a host | queue, sweep: claim, post, retry, dead-letter | the same, plus answers that are lost and an error outside the guard that ends the sweep | one sweep per delivery; accepted again only after a fault; settled | `Webhooks` |
| Scheduler (`run_sweeps.py`, `ops.py`) | a lock | the sweeps in a fixed order | a sweep that raises ends the run | every sweep runs again and again | in the others (partly) |
| Fees, payments, plans (`services.py`, `finance.py`) | Fee, Payment, PaymentAllocation, PaymentPlan | assess, pay, waive, refund, instalments | fines read without a lock, by the sweep and by returns, and saved after they were paid or waived | the ledger adds up; nothing is refunded twice | `Fees` |
| Digital lending (`digital.py`) | DigitalLicense, DigitalLoan, DigitalHold | checkout, return, expire, hold, promote | a ready hold that reserves no slot | concurrent and metered limits | `Digital` |
| Billing (`billing*.py`, `entitlements.py`, `sso.py`) | Subscription, CheckoutSession, GatewayEvent | trial, subscribe, renew, dun, change plan, cancel, checkout, gateway events | lists, events and first plans that are stale when acted on; sign-ins that ask for no room | a period is charged for once; cancelled is cancelled; limits | `Billing` (partly) |
| Acquisitions (`acquisitions.py`, `finance.py`) | PurchaseOrder, lines, Fund | order, add line, place, receive, cancel | receiving while cancelling | encumbered and spent money | `Acquisitions` |
| Events and rooms (`events.py`) | registrations, reservations | register, cancel, promote, book | a cancellation or an erasure that does not see a registration | capacity, no double booking | `Gatherings` |
| Imports (`imports.py`, `marc.py`) | CatalogImportBatch, rows, catalogue | stage, validate, commit, roll back | batches share works; status read before the transaction | committed once; a whole catalogue after a roll-back | `Imports` |
| Access (`permissions.py`, `tenancy.py`, `middleware.py`, `mfa.py`, `auth.py`) and the API (`api.py`) | memberships, session, TOTP device, tokens | enrol, verify, sign in, select; ask, gate, handle | gate and handler each work out a library, at different times | the library served is the one checked, unless the caller's roles or a library's being open changed between | `Access` (partly) |
| Rate limiting, SIP2, search, reports, HTML pages, content delivery, retention | derived, cached or none | read-only queries, deletes by age | no protocol of their own | | not modelled |

## 2. Modules

| Module | What it is |
|---|---|
| `Library` | the patrons, and the value that stands for nobody |
| `Lending` | abstract specification: whom each copy is out with, whom it is kept for |
| `Delivery` | abstract specification: what a queue of background tasks promises |
| `Circulation` | physical circulation, workflows, the circulation sweeps, what ILL does to a copy, erasure of loans and holds |
| `CirculationRaces` | `Circulation` with the overdue sweep in its two statements |
| `Outbox` | outbox drain with notifications and the queueing of webhooks |
| `Webhooks` | the delivery sweep, the scheduler's lock and the circuit breaker |
| `Digital` | licences, digital loans and holds |
| `Fees` | fines, fees, payments, refunds, plans |
| `Billing` | a library's subscription, the gateway's events, the limit of patrons |
| `Acquisitions` | purchase orders and a fund |
| `Gatherings` | an event with its waitlist; rooms |
| `Imports` | import batches over a catalogue |
| `Interlibrary` | requests between member libraries |
| `Access` | roles, the library of a request, scopes, the second factor, the API's gates |
| `CirculationProofs`, `DigitalProofs`, `ImportsProofs`, `DeliveryProofs`, `FinanceProofs` (`Fees`, `Acquisitions`), `MessagesProofs` (`Outbox`, `Webhooks`), `BillingProofs` (and `MCBackOffice`), `FrontDeskProofs` (`Gatherings`, `Interlibrary`, `Access`, `MCFrontDesk`) | theorems and proofs |
| `MCCirculation`, `MCCirculationRaces`, `MCDigital`, `MCBilling` | values for constants, symmetry, views |
| `MCBackOffice` | `Outbox`, `Webhooks`, `Fees`, `Billing` in one instance |
| `MCFrontDesk` | `Digital`, `Acquisitions`, `Gatherings`, `Imports`, `Interlibrary`, `Access` in one instance |
| `MCSweeps` | `Webhooks`, `Digital`, `Billing` with the fairness of their sweeps |

`CirculationRaces` extends `Circulation`, which is checked and proved to implement `Lending`;
`Outbox` and `Webhooks` are checked and proved to implement `Delivery`, each with its own
refinement mapping. The other components share with each other and with circulation at most the patron's
row (which each module sees through its own `Erase...` action) and, for
`Interlibrary`, a copy (whose queue is in `Circulation`: `IllReserve`, `IllRelease`,
and whose own library is `LocalUse` in `Interlibrary`). Because they share nothing
more, the three MC modules with several components let a behaviour be that of *one*
of them (the variable `component`): interleaving them would only multiply states. Three
are divided once more for the search: the subscription ("billing" without members coming
and going, "limits" with them), the event and the rooms ("events", "rooms", which only
an erasure touches together), and access ("access" without staff requests, "calls" with
them and without the second factor). The theorems know no such division.

In every module a service call is one step where its transaction locks what it reads
and changes. Where the code reads without a lock and acts later, there are two
steps. Time is left out: whatever may be due may be due at any moment.

### Circulation

Variables are columns: `copyStatus`, `copyBranch`, `copyVisible` (Copy); `loan*`,
`renewals` (Loan); `hold*`, `attempts` (Hold, with `transit_attempts`);
`patronStatus`. Rows of loans and holds are numbered in order of creation, which
is the order of every queue query. Each service function is one action:

| Code | Action |
|---|---|
| `borrow_work` | `BorrowHeld` (the patron's ready hold), `BorrowShelf` |
| `return_loan`, `renew_loan` | `Return`, `Renew` |
| `place_hold`, `cancel_hold` | `PlaceHold`, `CancelHold` |
| `assign_copy_to_next_hold`, `_mark_hold_ready` | `Offer`, `Ship`, `MarkReady`, inside the actions that call them |
| `receive_copy_in_transit`, `staff_checkin` | `Receive`, `StaffCheckin` |
| `retire_copy`, `move_copy` | `Retire`, `Move` |
| `flag_overdue_loans`, `expire_ready_holds`, `expire_stale_transits`, `reconcile_holds` | `FlagOverdue`, `ExpireReady`, `ExpireTransit`, `Reconcile` |
| `mark_loan_lost`, `mark_claims_returned`, `return_damaged` | `MarkLost`, `ClaimsReturned`, `ReturnDamaged` |
| `bulk_update_copies`, `weed_copies` | `BulkStatus`, `BulkVisible`, `Weed` |
| `_reserve_lender_copy`, `checkin_ill` | `IllReserve`, `IllRelease` |
| `erase_patron`; the admin's patron form | `Erase`; `SetPatronStatus` |

Decisions:

- **One call, one step.** A service runs in one `transaction.atomic()`, locks what
  it changes and reads status again under the lock. `skip_locked` needs care: on
  the hold queue only a hold that is being cancelled or served is locked, which is
  the same as running before or after that call; on the shelf another transaction
  may hold a copy it then does not take, so `PlaceHold` takes the set of locked
  copies as a parameter. What is read *before* the transaction (the patron's
  status) is a listed hazard and not modelled.
- **No clock.** A loan may be past due, a pickup window over, a transfer stale at
  any moment; so every order of sweeps and calls is included.
- **Left out because they only refuse more:** unpublished editions, the fine
  threshold. Archived patrons count as blocked. Branch preferences only order the
  search for a copy.
- **Not guards:** the unique constraints on loans and holds. The invariants show
  that the services never meet them. Only `CirculationRaces` needs one.
- **An erased hold** is kept as a row with status `erased` and its former copy, so
  that a property can say why a copy is stranded. No action reads it.
- **`attempts` saturates** at `MaxAttempts`; the code only asks for `>=`.
- **Fixed stock:** adding copies (imports, acquisitions) and editing copies, loans
  or holds by hand in the admin site are not modelled.

`Lending` sees of all this only who has a copy and whom it is kept for. The
refinement mapping (`Out`, `Kept`) looks these up in the active loans and holds;
each circulation step is a `CheckOut`, `CheckIn`, `Keep`, `Forget` or a stutter.

### Outbox

Every statement committed on its own is a step, as is each call of a channel: a
worker (`pc`, `batch`, `tries`, `event`, `todo`, `channel`) takes stale claims back
(`Reclaim`), claims a batch (`Claim`), and for each event opens a delivery row
(`Open`), sends (`Send`), saves (`Save`), queues a webhook for each endpoint
(`Enqueue`) and marks it processed (`Finish`), or gives up for now (`SendFails`, `Fail`). `tries` is the
attempt count in the worker's own copy of the row, which it never reads again, so a
worker that stalled writes its old view over that of the next.
`stale` stands for `updated_at` older than 15 minutes. Faults are counted and
bounded: `Crash`, `Age` over an event a worker still holds, `SendFails` after the
notice went out. Every event in `Notified` goes to all channels; opted-out patrons
and unknown recipients are events outside it. Database errors are not modelled.

`Delivery` is what such a queue promises to those who emit: a task waits, is taken, and is
done or dropped; its effects happen, some perhaps twice. The mapping (`Outcome`,
`Happened`) reads the event's status as that of the task, and takes for its effects a notice
on each channel, if somebody is notified, and a webhook delivery for each
endpoint. `failed` (something went wrong) and `met` (two workers may have had one
task) are both `faults > 0`. Each step of the outbox settles tasks, makes one effect happen, or
is not seen. `Served` is what a client of any queue of the kind may rely on.

### Digital

Variables are columns again: `live`, `used` (DigitalLicense: usable, and
`checkouts_used`), `loan*` (DigitalLoan), `hold*` (DigitalHold), rows numbered in
order of creation.

| Code | Action |
|---|---|
| `borrow_digital` | `Borrow` |
| `return_digital`, `expire_digital_loans` | `ReturnDigital`, `ExpireLoan` (both `_close_digital_loan`) |
| `place_digital_hold`, `cancel_digital_hold` | `PlaceHold`, `CancelHold` |
| `expire_digital_ready_holds` | `ExpireHold` |
| `_assign_next_digital_hold` | `AssignNext`, inside the actions that call it |
| `erase_patron` | `Erase` |
| a licence expires, or staff deactivate it | `Lapse` |

- One call is one step: every call that takes or frees a slot holds the edition's
  advisory lock in its transaction. There is no clock, as in `Circulation`.
- Availability is computed from active loans, as in the code: a ready hold reserves
  no slot.
- Left out because they only refuse more: the patron's status and the feature gate
  of the organization's plan. Left out because they only read: `delivery.py` (access
  tokens, manifests). Licences that staff add, extend or reactivate are not
  modelled; nothing in the code reacts to them (a listed hazard).
- A waiting hold that is erased becomes `cancelled`; an erased ready one is kept as
  `erased`, so that a property can say why a slot is idle. No action reads it.

### Webhooks

`Sweep` takes the scheduler's lock (`scheduler_lock`), starts with a breaker of its own and
takes back claims older than 15 minutes; `ClaimHooks` claims a batch and counts the attempt;
`Sign` decrypts the secret and signs (`SignFails`: the secret cannot be read, the command
ends); `PostHook` is the request with what the breaker records, `LoseAnswer` one that the
endpoint accepts and whose answer does not come within the 8 seconds or breaks off: the code
sees a failure (`webhooks.py:114`) and asks again. `Refuse` is an open circuit; `SaveHook`
writes the answer; `SweepEnds` ends the process. `EnqueueHook` is
`enqueue_for_outbox_event`. `Cooldown` ends the breaker's pause; all endpoints are on one
host. `CrashSweep` and `LoseAnswer` are faults and are bounded; `AgeHook` (15 minutes pass
over a claim, also under a living sweep) may happen at any time. `hookTries` saturates at
the maximum, since the code only asks for `>=`.

The sweep implements `Delivery` too, with the endpoint's acceptance as the one effect of a
delivery. Here `met` is `FALSE`: behind the scheduler's lock no two sweeps ever have one
delivery, so that done stays done even after faults, which the outbox cannot promise.

### Fees

| Code | Action |
|---|---|
| `borrow_work`, `renew_loan`, `mark_claims_returned` as far as money matters | `CheckOut`, `RenewLate`, `ClaimReturned` |
| `_assess_overdue_fine_locked` reads a fee, without a lock | `ReadFine`, for the sweep, a return or a charge |
| `assess_overdue_fines`; `return_loan`; `mark_loan_lost`, `return_damaged` | `SaveFine`; `ReturnLate`; `ChargeItem`: each saves what was read |
| `record_payment`, `PayFeesAPI` | `Record`, `PayOnline` |
| `waive_fee`, `run_amnesty` | `Waive`, once or several times |
| `refund_payment` | `Refund` (newest allocations first, unapplied money last) |
| `create_payment_plan`, `pay_installment` | `CreatePlan`, `PayPlan` |
| `erase_patron` | `ErasePayer` |

An assessment locks its loan (`Locked`) and not the fee: whoever waives, pays or refunds the
fine between `ReadFine` and the save is overwritten, be it by the sweep or by a return, a
loss or a damage. It saves amount and status only, never what is paid. With nothing to be
saved there is one step. Money is counted in days of fine; `PaymentAllocation` is the
matrices `alloc` and `reversed`. Left out: days of grace, the ledger export, the record of
who acted.

### Billing

| Code | Action |
|---|---|
| `ChangePlanAPI` and the dashboard find no subscription, then `subscribe` | `FindNone`, `Subscribe` |
| `provision_tenant` (`start_trial`), `complete_checkout` | `StartTrial`, `CompleteCheckout` |
| `run_billing_cycle`, `charge_subscription`, its `cancel_subscription` | `ListDue`; `ChargeListed`, `CancelListed` |
| `change_plan`, `cancel_subscription` | `ChangePlan`, `CancelSubscription` |
| `handle_gateway_event` | `ReadEvent`, `ApplyEvent` (it saves what it read without a lock), `MissEvent`, `LoseEvent` |
| `assert_within_limit`, `register_patron` | `AskToJoin`, `Join` |
| `_ensure_connection_membership` (sign-in), `erase_patron` | `SignInJoins`, `LeaveLibrary` |

`left` counts the units of time until the period ends, `grace` says whether the grace
of dunning runs. An amount is a price; `Prorated` divides as `_prorate` does.
Checkout sessions are open from the start. `subscribing` counts the
callers who found no subscription and have not subscribed yet: `subscribe` never looks at
what there is by then. Left out: stored cards, invoices as
documents, the gateway's own protocol. `unpaid` and `charges` are not columns: they
record whether the last charge was declined, and that one was made; `unasked` counts by how
much sign-ins outnumber departures since a plan was found to fit (`fitted`).

### Acquisitions, Gatherings, Imports, Interlibrary

- `Acquisitions`: one fund. `add_line` is `AskLine`, `AddLine` (it reads the order's
  status before), `receive_line` is `BeginReceipt`, then `Receive` or `AbandonReceipt` (it locks
  the line, not the order), `cancel_order` is `BeginCancel`, `CancelOrder` (it locks the order,
  not the lines). `Receive` waits while the order is locked; where PostgreSQL would
  break a deadlock of the two, neither step is taken. `crossed` records that a line
  came late or a receipt met a cancellation.
- `Gatherings`: `register_for_event` locks the event and is one step; `cancel_registration`
  locks its row only, and counts seats and sees the waitlist (`_promote_waitlist`) as they
  were committed when it looked: `BeginCancelPlace`, `CancelPlace`. `reserve_room` locks the
  room; `cancel_reservation` acts on an object read before: `BeginLeave`, `LeaveRoom`. An
  erasure is two steps for the same reason: `BeginErase` looks round for what the patron has
  (`doomed`), `EraseGuest` cancels that, promotes, and deletes the patron with every row
  that names it by then, also one that came since and is not cancelled. `met` records that a
  registration came while a cancellation or the erasure of its own patron was under way.
  Rows are numbered in order of creation, which is the order of the waitlist (`NextInLine`).
- `Imports`: a record's *maker* stands for its primary key: the row that created it, or
  `Old`. `commit_import` locks the batch and is one step in which any rows may fail;
  `rollback_import` reads the status first (`ReadBatch`), then marks (`CancelBatch`) or
  reverses (`RevertBatch`), and any number of requests may be between the two at one time
  (`Done`); validation acts on the staged batch its request holds. `UseCopy` is a loan or
  hold by somebody. Parsing is data: a batch is faulty or not.
- `Interlibrary`: each service call locks request and copy and is one step, behind
  `IllActionAPI`'s test of which library may act (`IllAction`). A request may end up unfilled
  although a copy could be lent, since locked ones are skipped. `CheckErasure` and
  `FinishErasure` are the look at open requests and the deletion, which no lock joins.

### Access

`Handlers` lists the handlers of `api.py` that a permission stands before: each with its
gate (patron or staff permission), token scope and the service it calls. A staff request is three
queries and three steps (`request`): `AskStaff` works out the library that the gate looks at
(`CheckedLibrary`), `Admit` looks up the role there and the second factor, and until
`Answered` the handler works out its library anew (`HandlersLibrary`). The answer of
`get_current_organization` is kept for the request (`Current`), as in the code; everything
else is asked again, while administrators change roles, libraries and tokens at any
time. `staffed` is not in the code: it keeps for the property where the caller was staff when
asking. `SecondFactor` is the gate's test, `ChallengeLibrary` the middleware's, `MarkVerified`
what a right code stamps. The other steps are enrolment, verification, expiry, signing in and
selecting a library. A user has one request at a time. Left out: superusers, explicit
grants, several roles at one library, restrictions to a branch (`_require_branch`), codes
and keys, the exchange with an identity provider.

## 3. Runs

| Run | Instance | Shows |
|---|---|---|
| `circ_core` | 1 work, 2 floating copies, 2 branches, 2 patrons, 2 loans, 3 holds | `TypeOK`, `LoanCustody`, `Reservations`, `StrandedOnlyByErasure`, `QueueOrder`, `Withdrawn` |
| `circ_policy` | 2 works of 1 copy, 1 branch, limits of 1, one patron keeps history | `PatronLimits`; `Circulation` implements `Lending` |
| `circ_live` | 1 copy, 2 branches, 2 patrons, 2 holds, fair sweeps | `TransitEnds`, `ReservationEnds`, `HeadServed` |
| `backoffice_core` | *outbox*: 2 workers, 2 events, 2 channels, 2 attempts, 2 faults; *webhooks*: 2 sweeps, 3 deliveries, one of them unreadable, 2 attempts, 2 faults; *fees*: 1 loan, 2 fees, 2 payments, 1 plan; *billing*: 2 plans, 2 gateway events, 1 session, 2 first plans at once; *limits*: 2 joiners, 2 members, the event of a failure | outbox and webhooks implement `Delivery` (`ImplementsDelivery`, `SweepImplementsDelivery`), `RetriesContained`, `AcceptedOncePerFault`; `Ledger`, `WaivedIsFinal`; `LimitOverrun`, `CanceledIsFinal`, `ChargedOnce`; types |
| `frontdesk_core` | *digital*: 3 patrons, a licence for 1 reader and one for 2 with 2 checkouts, 4 loans, 4 holds; *orders*: 2 orders, 3 lines, budget 5; *event* of 1 seat, 4 registrations; *room*: 2 hours, 2 reservations; *imports*: 2 batches, 3 rows; *ILL*: 2 members, 3 requests; *access* and *calls*: 2 libraries, 1 user, 1 token | `WithinLicense`, `OncePerEdition`, `NoIdleSlot`, `QueueOrder`; `WithinBudget`, `FundBooks`; `Seats`, `WaitlistOrder`, `NoDoubleBooking`; `CatalogueWhole`, `RollbackReverses`; `LentOnce`; `CheckedIsServed`, `CodeAdmits`; types |
| `outbox_live` | 2 workers, 2 events, 1 channel, fair workers | `Settles`; no deadlock |
| `sweeps_live` | 2 sweeps, 2 deliveries; 3 patrons, a licence for 1 reader and an unlimited one with 1 checkout; 2 plans, 1 event | `HooksSettle`, `HoldsServed`, `DunningEnds` |
| `circ_race` | 1 copy, 2 patrons, split overdue sweep | violation of `Reservations` |
| `circ_erase` | 1 hold | violation of `EveryReservationHasAHold` |
| `digital_ready` | 2 patrons, 1 licence for 1 reader | violation of `ReadyKeepsItsSlot` |
| `billing_unpaid` | 2 plans, 2 events, 1 session | violation of `ActiveIsPaid` |
| `webhook_settles` | 1 delivery, unreadable | violation of `HooksSettle` |

**Bounds.** Three holds for two patrons let one patron queue again while the other's hold is
served; two copies let one be in transit while the other is freed; two branches make pickup
and home differ. In `Outbox` two faults let one worker crash and another stall; with two
attempts an event is tried again, dead-lettered by one worker and put back by another that
had stalled, and claimed once more than the maximum. Its second event tells nobody, so that
an event without a notice is there too. In `Webhooks` a third delivery in a batch of two
shows what happens to the rest of a batch. In `Fees` the second fee and the second payment
make the order of allocation and of reversal matter. With two faults an endpoint accepts a
delivery, loses the answer, and accepts it again. In `Billing` one gateway event reports a
payment and one a failure, and the dearer plan has no limit while the cheaper has one of 1:
two members and two joiners reach and pass it, asked or not. Two callers may choose a first
plan at once, so that one subscribes after the other's subscription was cancelled. In
`Digital` two licences of different kinds make the choice of licence matter, and a metered
one runs out within the run; three patrons are a reader, one with a ready hold and one who
waits. Two orders compete for a budget that does not pay for all. An event of one seat with
four registrations has somebody to promote twice, and a newcomer when a crossed cancellation
or erasure has left the seat free. Two import batches name the same work and edition and
their own copies. The user of `Access` is a patron of one library and may become staff of
both. Row counts (`LoanRows`, `HoldRows`, `FeeRows`, `Registrations`, ...) bound rows ever
created, so a run is a finite prefix of a library's life; that is why deadlock is not
checked there (with all rows used, nothing may be left to do). It is checked in
`outbox_live`, whose workers never stop.

**Symmetry and views.** Symmetry is used for safety only: patrons, copies, branches in
`circ_core`; workers and joiners in `backoffice_core`; patrons in `frontdesk_core`, whose
components either treat patrons alike or ignore them. The view `OpenRows`
(in `circ_core`, `circ_policy`, and its namesake in `MCDigital`) forgets what closed
loans and ended holds still say: no action reads those fields, so states that agree on
the rest have the same future, and no property of those runs asks for more than the
view keeps. (The view of `Digital` keeps the licence of closed loans, which
`WithinLicense` counts, and the erased ready holds, which `NoIdleSlot` and `HoldsServed` name.) The
view `State` of the MC modules with several components is the state of the one that
runs; the others stay as they began.

**Fairness.** `circ_live` assumes weak fairness of the three sweeps, for each hold,
copy and work: the scheduler runs for ever and each sweep loops over all rows; a
lapsed pickup window or a stale transfer stays one until the sweep or somebody else
deals with it. This assumes that runs complete: a sweep that raises ends
`run_sweeps` before the later ones (finding 5). No patron and no librarian is
assumed to do anything. `outbox_live` assumes that a worker goes on and is started
again after a crash (`docker-compose.yml` gives the worker no restart policy, so
this is an assumption about operation), that 15 minutes pass, and that an event
claimable again and again is claimed, because batches are filled in the order of
`next_attempt_at`. `sweeps_live` assumes the same of the webhook sweep (`SweepWork`, `AgeHook`,
claims); that `ExpireLoan` and `ExpireHold` are weakly fair for each row, since both sweeps run
every five minutes and a loan or a pickup window always ends; and that the billing
cycle lists and acts again and again (`ListDue`, `ChargeListed`, `CancelListed`), with strong
fairness of a grace that ends while no cycle is at work. No reader returns, no card is
accepted, no event arrives by assumption.

## 4. Findings

1. **`circ_race`** (`services.py:1286`). `flag_overdue_loans` lists ids, then updates
   by id alone, outside a transaction. A loan returned in between becomes overdue
   again while its copy is on the hold shelf for the next patron.
2. **`circ_erase`** (`privacy.py:202`). Erasing a patron with a ready or travelling
   hold leaves the copy reserved for nobody. `StrandedOnlyByErasure` shows that
   nothing else does.
3. **`digital_ready`** (`digital.py:111`). A patron without a hold may borrow when
   nobody *waits*, even if somebody's hold is *ready*: the promised slot is gone and
   the holder, who was told to borrow it (`notifications.py:74`), is refused.
4. **`billing_unpaid`** (`billing.py:721`). `change_plan` makes a past-due subscription
   active and charges at most the difference, so a change to a plan that is not
   dearer pays nothing, although `billing.py:692-693` speaks of never delivering a tier
   on an unpaid invoice.
5. **`webhook_settles`** (`webhooks.py:102`). The secret is decrypted outside the `try`: an
   unreadable one ends the sweep, the delivery is claimed for ever and never
   dead-lettered, and the sweeps after it do not run.

Seen while modelling, and stated by the properties as the exception they make:

- *Outbox.* One fault is enough for several repetitions of a notice: two workers who
  take turns at one event each mark as failed what the other has sent. A delivery row
  that is still `pending` does not stop a second send (`notifications.py:306`).
- *Fees.* A sweep, a return, a loss or a damage that read a fine before it was waived brings
  it back when it saves (`WaivedIsFinal`). A
  paid fine that keeps growing is `paid` with something short, which no payment
  reaches. A fine falls after a renewal, although `services.py:283` calls it monotonic.
- *Billing.* A list of exhausted subscriptions that is stale cancels one that was paid
  meanwhile. An event read before a cancellation undoes it, and so does a first plan chosen
  when there was no subscription yet (`CanceledIsFinal`): `subscribe` brings back what was
  made and cancelled meanwhile, and charges a second time for a period that runs
  (`ChargedOnce`). An event before its subscription keeps its claim and is lost. `subscribe` and
  a checkout do not look at usage; registrations under way pass the limit; a sign-in
  through the library's identity provider (`sso.py:116`) creates patrons past any limit
  (`LimitOverrun`). A past-due subscription that moves to a cheaper plan is given credit for a
  period that nobody paid.
- *Webhooks.* An endpoint that accepts a delivery and answers too late is asked again, up to
  the last attempt, and the delivery may end as failed (`AcceptedOncePerFault`). An open
  circuit consumes attempts; a half-open one lets every caller through, although
  `circuit.py:39` speaks of a single trial.
- *Acquisitions.* A line added to an order just placed is not encumbered; a receipt
  that crosses a cancellation releases money of other orders and may turn a cancelled
  order into a received one (`crossed` in `FundBooks`; the budget holds all the same).
- *Events.* A registration that crosses a cancellation, also that of an erasure, leaves a free
  seat beside the waitlist (`met` in `Seats`); the next to register takes it before those who
  wait (`WaitlistOrder`). Raising the capacity promotes nobody.
- *Imports.* A rollback that read `validated` before the commit marks the batch as
  rolled back and leaves its records; a validation that comes after a rollback makes
  the batch committable again; removing links may remove one that another batch needs.
- *Digital.* A ready hold deleted with its patron promotes nobody, so its slot stays
  idle until another loan of that edition ends (`NoIdleSlot`, `HoldsServed`).
- *Inter-library loans.* An unfilled request is never tried again and blocks the
  patron; cancelling one that was shipped puts a copy on the shelf that is in the mail;
  `retire_copy` takes a copy that is lent to another library.
- *Access.* A staff request may serve another library than its gate checked, if the caller
  loses the role at the one or gets a role at the other between the two queries
  (`CheckedIsServed` says that nothing else does it). A member of two libraries may be
  challenged for one that the code does not stamp (`middleware.py:81-94`); `CodeAdmits` says
  for whom that cannot happen.
- *Circulation.* `E-Library.md:304` forbids a hold on a work the patron has on
  loan, which `place_hold` does not check; `workflows.py:232-238` speaks of a
  found-item path for lost copies, and there is none; a fulfilled hold still names
  patron, loan and copy after the loan was made anonymous; no caller of `return_loan`
  passes `settle_branch`, so copies float in tests only.

## 5. Proofs

The assumptions are the modules' `ASSUME`s, and nothing else: numbers are naturals, the
catalogue, the lines, the licences and the plans are well-formed, a few sets are finite,
`None` is nobody. Each theorem holds for every value of the constants: any number of
patrons, copies, workers, sweeps, rows, faults.

| Module | Theorems (property) |
|---|---|
| `CirculationProofs` | `TypeCorrect` (`TypeOK`), `Custody` (`LoanCustody`), `ReservationsKept` (`Reservations`), `NothingElseStrands` (`StrandedOnlyByErasure`), `WithdrawnForGood` (`Withdrawn`), `FirstComeFirstServed` (`QueueOrder`), `LimitsKept` (`PatronLimits`), `Implements` (`ImplementsLending`) |
| `DeliveryProofs` | `PromiseServes` (`Delivery`'s own `Served`) |
| `MessagesProofs` | *outbox*: `OutboxTypeCorrect`, `AtLeastOnce`, `StaysProcessed`, `RetriesEnd` (`RetriesContained`), `OutboxDelivers` (`ImplementsDelivery`), `OutboxServes`; *webhooks*: `WebhooksInductive`, `ClaimedByOne`, `AcceptedOnce` (`AcceptedOncePerFault`), `WebhooksDeliver` (`SweepImplementsDelivery`), `SweepServes` |
| `DigitalProofs` | `TypeCorrect`, `OnceEach` (`OncePerEdition`), `FirstComeFirstServed` (`QueueOrder`), `TermsKept` (`WithinLicense`), `SlotsTold` (`NoIdleSlot`) |
| `BillingProofs` | `Inductive`, `LimitHolds` (`LimitOverrun`), `PeriodChargedOnce` (`ChargedOnce`), `CanceledStays` (`CanceledIsFinal`), `BackOfficeTypeCorrect` (`BackOfficeTypeOK`) |
| `ImportsProofs` | `ImportsHold`, `StaysWhole` (`CatalogueWhole`), `RollbackIsWhole` (`RollbackReverses`) |
| `FinanceProofs` | `BudgetHolds` (`WithinBudget`), `BooksKept` (`FundBooks`), `FundTyped` (`AcquisitionsTypeOK`), `FeesHold`, `FeesTyped` (`FeesTypeOK`), `BooksAgree` (`Ledger`), `WaiversStand` (`WaivedIsFinal`) |
| `FrontDeskProofs` | `GatheringsHold`, `SeatsHold` (`Seats`), `ServedInTurn` (`WaitlistOrder`), `RoomsOnce` (`NoDoubleBooking`), `CopyLentOnce` (`LentOnce`), `AccessTyped`, `GateAndHandlerAgree` (`CheckedIsServed`), `CodeIsEnough` (`CodeAdmits`), `FrontDeskTypeCorrect` (`FrontDeskTypeOK`) |

**Circulation.** None of the invariants is inductive alone. A return sets a copy free
and offers it to the queue, so custody needs the reservations (a reserved copy is not
lent), the reservations need to know that a free copy is promised to nobody
(`StrandedOnlyByErasure`), and that needs holds that name their work and branch
(`Requests`). `Inv` is their conjunction. `InitInv` and one lemma per action prove it
inductive. The heart is `ReserveKeeps` and `OfferKeeps`: whatever a transaction has
already written (the statuses `hs` and assignments `hc`), offering a copy that is
`SettledBut` for it to the queue settles everything. Returns, cancellations, expiries,
failed transfers and reconciliation all end in them. `WithdrawnForGood` and
`FirstComeFirstServed` follow step by step from `Inv`. `LimitsKept` counts: the loans and holds
of a patron are finite sets of rows; every step but a borrowing or a placement leaves
them or takes from them, and those two add one where the guard found room.

That circulation implements `Lending` (`Implements`) is proved step by step. The mapping
chooses the patron of *the* loan on a copy and of *the* hold that has it; `InvViews` says
that by `Inv` there is one at most, so what is chosen is known (`Views`), and no later step
meets a CHOOSE. Each action then concerns one copy: the loans and holds of the others are
left alone (`OneCopyStays`, `OneCopyLent`, `OfferBeside`), and for that one copy the lemmas
`BorrowPromised`, `ReturnPromised`, `EndHoldPromised` say which step of `Lending` it is, or
that nothing is to be seen. `Views` is needed before and after the step.

**Outbox.** `Delivered` speaks of finished events only, so `OutboxInv` adds `NothingSkipped`:
while a worker holds an event, every channel not in its `todo` has been delivered. It
survives two workers on one event because sent rows stay sent. For `StaysProcessed` an event
belongs to one worker while nothing has gone wrong (`OwnClaim`), and only what is claimed
grows old (`OldIsClaimed`). `RetriesEnd` has two parts. As long as there is no fault, what was sent is
on record or about to be (`OnRecord`). The bound on attempts counts *turns*: each worker
that may still put an event back has one, and so has an event that can be claimed.
There is one turn, and one more for each fault; from the last regular attempt each
claim uses one up (`TurnsInv`).

**The outbox delivers.** That the outbox implements `Delivery` (`OutboxDelivers`) needs the
invariants above and two more (`RefinementInv`). A finished event has all its effects: that is
`NothingSkipped` at the step that finishes. An event is given up only short of something, and
a notice goes out once, as long as nothing failed: `InHand` says what a worker that
has not failed, or has, still owes, and `OnRecord` that what it is about to send is not yet
sent. Only a taken event changes hands without a fault: `OwnClaim`. `Emitted` says that no
worker holds an event that was not emitted. `SettleStep` and `ActStep` turn facts
about outcomes and effects into a step of `Delivery`; `NoticeStep`, `HookStep` and
`DoneStep` apply them to the actions that are seen, and `StepDelivers` goes through all of them.
`PromiseServes` is proved in `Delivery` itself, for any tasks and effects; its one
hypothesis is that a task wants effects that exist. Both mappings satisfy it, so
`OutboxServes` and `SweepServes` draw the consequence for the two components. `Delivered`,
`ProcessedIsFinal` and `OneSweep`, which these proofs rest on, have theorems of their own; no run
checks them apart, since a step that breaks one of the first two is no step of `Delivery`, and
two sweeps with one delivery soon take such a step.

**Webhooks.** `OnlyRunner` (only the holder of the lock has anything in its hands) makes
`OneSweep` inductive; `Accounted` charges every accepted request to the saved answer, to the
sweep that is about to save it, or to a fault: a sweep that died, or an answer that was
lost. That the sweep implements `Delivery` (`WebhooksDeliver`) needs from these that a
delivery that is given up without a fault was never accepted, and in addition
`Acknowledged`: a sweep about to write `delivered` had its request accepted.

**Digital.** `DigitalInv` is `DigitalTypeOK /\ OncePerEdition`; the lemma `Promotes` says what
`AssignNext` may do to the holds, and the actions that end a loan or a ready hold end in
it. `LicenseInv` adds that a metered licence has counted all its loans. `SlotsTold` compares two
cardinalities, of the free slots of an edition and of the holds that were told of one: a loan takes
one of each while somebody waits (`OneSlotLess`), a return adds one of each (`OneSlotMore`), and
a ready hold that ends is replaced by the first of the queue. It needs `Anonymous`: an erased hold
has no patron, so that a second erasure does not take it from the count.

**Fees.** `Ledger` is not inductive: a refund takes from the fees what the payment gave
them, so it must be there to take, and a waiver must not hide it. `FeesInv` adds that a loan
has one fine (`OneFine`), that what is waived is unpaid (`WaivedUnpaid`), that a fine read
as waived is waived still when it is saved (`ReadWaived`), and that a row without a payment
gave nothing (`Unrecorded`). Payments and refunds hand an amount out along a queue, oldest
fee first or newest first; the lemmas on `HandedOut` say that nobody gets more than there is
room for and that the sum handed out is the amount or all the room. `WaiversStand` is a step
property of the same proof: only the end of an assessment that had read the fine before can
change a waived one; it rests on `ReadWaived` and on `OneFine`.

**Acquisitions.** The budget needs types only: every step that commits money looks at what
is left. The books need that nothing arrives for an order before it is placed
(`NothingTooEarly`) and, while nothing has crossed, that a received order is complete
(`ReceivedInFull`) and that what a cancellation added up is what is still outstanding
(`StillOutstanding`).

Both proofs are about sums. These are folds over finite sets, and what a fold computes is
out of induction's reach here; the lemmas at the head of `FinanceProofs` therefore reduce
a sum of naturals to the cardinality of a set of units, which the theorems on
finite sets know how to count.

**Billing.** `LimitOverrun` is inductive because each registration that asked holds one of the
`Cardinality(Joiners)` places of the overrun, and each member who signed in without asking
is in `unasked` until as many have left. `ChargedOnce` needs `PastDueUnpaid`: what a
subscription goes past due by leaves it unpaid, so a cycle that charges before the period is
over charges for an unpaid one. `CanceledIsFinal` goes through all steps that
write the status. All rest on that what was listed or read had a plan (`ListedHasPlan`).

**Gatherings.** A cancellation under way has seen all that wait unless a registration came
since, and its own row is still active (`Cancelling`); hence it frees a seat that it fills again.
An erasure under way cancels all that its patron has, unless a registration of the patron
came since (`ErasureCancels`); `SeatGoesOn` is the step that both have in common.
Seats are counted with the theorems on finite sets; that there is a first of those who
wait is a lemma from well-founded induction. `ServedInTurn` adds `InOrderSeen`: of those that
wait, a cancellation (or an erasure) has seen everybody who came before anybody it has seen, since rows
come in order and nobody begins to wait later than he came; so the first of what it
saw is first of all, however many steps ago it looked.

**Imports.** `Remembered`: what a row made and is still there is in its batch's result; and
`CommittedOnce`: a batch that may still be committed has made nothing. Rollback then takes
copies before editions before works, each only if nothing else stands on it.

**Interlibrary.** `LentOnce` is inductive once a request not yet made is known to have no copy.

**Access.** `CheckedIsServed` relates what the gate found at one time to what the handler
finds at another, so it is not a matter of one state: `AccessInv` adds to the types that the
library of a request is the one that its token, or the selection and the roles at the time it
was asked, gave it (`RequestsAsAsked`). `OtherLibrary` then compares the two choices of the
first library of the caller's: if the gate's is still among them and the handler's was already
then, each is no later than the other in the order of names. What a role
admits is compared handler by handler (`ReportersRead`). `CodeAdmits`
compares the library that a code stamps with the one the middleware challenges for, after
the step.

**Compositions.** A step of an MC module with several components is a step of one of them and
leaves the others alone (`BackOfficeIsAll`, `FrontDeskIsAll`: a behaviour of
the composition is one of each component, with stuttering). So what is
proved of the components holds in what TLC searches; the types of the compositions are
stated.

**Model-checked only.** Liveness (`TransitEnds`, `ReservationEnds`, `HeadServed`, `Settles`,
`HooksSettle`, `HoldsServed`, `DunningEnds`) is beyond this prover, as it rests on ENABLED.
Every other property of a passing run is the property of a theorem. `Delivery` says nothing
about liveness: that its tasks are settled at last is `Settles` and `HooksSettle`.

## 6. Not modelled

- **Rate limiting** (`ratelimit.py`): a counter in a cache that nothing else reads; it is
  read and set without a lock, so it may admit more than its limit.
- **SIP2** (`sip2.py`): a text protocol in front of `borrow_work` and `return_loan`; its
  session is one login flag.
- **Search, catalogue pages, enrichment, reports, analytics, reviews, reading lists,
  the assistant**: derived documents, ranking and read-only queries, and rows that only
  their owner writes.
- **Content delivery and retention** (`delivery.py`, `prune_logs.py`): tokens and manifests
  read a loan that must be active; deletes by age touch nothing that another
  component reads.
- **HTTP**: parsing, serializers, paging and HTML pages; `Access` models the API's gates.
- **Inventory sessions** (`workflows.py`): they record what was seen and change no copy.
- **Admin site**: rows edited by hand, beyond a patron's status, roles and libraries.
- **Parts of components listed as "partly"**: stored cards, invoices as documents and
  the gateway's protocol; superusers, explicit grants and branch restrictions; the
  identity data that erasure deletes; which reminders are due.
- **Reads before a transaction** that only one module takes apart: the patron's status in
  `borrow_work` and `place_hold`, erasure against borrowing, and the second look of `reconcile_holds`
  are one step here. Deadlocks between row locks (which PostgreSQL breaks) are not
  modelled either. All are in the list of hazards with their lines.
