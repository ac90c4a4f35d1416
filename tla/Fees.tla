--------------------------------- MODULE Fees ---------------------------------
(***************************************************************************)
(* What patrons owe: fines that grow with an overdue loan, fees for lost   *)
(* and damaged items, payments and their allocation to fees, waivers,      *)
(* refunds and payment plans (library/services.py, library/finance.py,     *)
(* library/workflows.py), and the detachment of an erased patron.          *)
(*                                                                         *)
(* A call is one transaction and one step, with one exception.  Whoever    *)
(* assesses an overdue fine (the sweep, a return, a loss, a damage) locks  *)
(* the loan but reads the fee without a lock, and saves later what it      *)
(* computed from that: two steps, with the loan locked in between.  Money  *)
(* is counted in days of fine, with no days of grace.                      *)
(***************************************************************************)
EXTENDS Library, Functions

CONSTANTS
  LateLoans, FeeRows, PaymentRows, PlanRows,   \* bounds: rows ever created
  Borrower,        \* the patron of a loan
  MaxFine,         \* max_overdue_cents
  ItemFee,         \* what a lost or damaged item costs
  BlockThreshold,  \* a patron who owes as much may not borrow; 0: never blocked
  MaxDays,         \* bound: how late a loan may get
  Amounts          \* bound: what a payment or a refund may be

FeeIds == 1 .. FeeRows
PaymentIds == 1 .. PaymentRows
PlanIds == 1 .. PlanRows

ASSUME FeesAssumption ==
  /\ FeeRows \in Nat /\ PaymentRows \in Nat /\ PlanRows \in Nat
  /\ Borrower \in [LateLoans -> Patrons]
  /\ {MaxFine, ItemFee, BlockThreshold, MaxDays} \subseteq Nat
  /\ Amounts \subseteq Nat \ {0}
  /\ None \notin LateLoans

VARIABLES
  loanState, late,           \* a loan, and its days overdue
  fees,                      \* Fee
  reading,                   \* what an assessment under way will save
  payments,                  \* Payment of kind "payment"
  alloc, reversed,           \* PaymentAllocation, by payment and fee
  plans                      \* PaymentPlan

paymentVars == <<payments, alloc, reversed>>
feesVars == <<loanState, late, reading, fees, paymentVars, plans>>

Purposes == {"out", "returning", "charging"}
LoanStates == {"absent", "closed"} \cup Purposes
FeeStatus == {"outstanding", "paid", "waived"}
FeeType == {"overdue", "item"}
NoFee == [status |-> "absent", type |-> "item", amount |-> 0, paid |-> 0,
          loan |-> None, patron |-> None]
NoPayment == [amount |-> 0, refunded |-> 0, patron |-> None]
NoPlan == [total |-> 0, paid |-> 0, patron |-> None]

Larger(a, b) == IF a > b THEN a ELSE b
Smaller(a, b) == IF a < b THEN a ELSE b

----------------------------------------------------------------------------
(* What is owed.                                                           *)

Short(f) == Larger(0, fees[f].amount - fees[f].paid)

ShortOf(F) == SumFunctionOnSet([f \in FeeIds |-> Short(f)], F)

\* patron_balance_cents
Balance(p) ==
  ShortOf({f \in FeeIds : fees[f].patron = p /\ fees[f].status # "waived"})

\* Mutation: fees that were forgiven are paid too.
OwingOrWaived(p) == {f \in FeeIds : fees[f].patron = p}

\* The fees a payment looks at, the oldest first.
Owing(p) == {f \in FeeIds : fees[f].patron = p /\ fees[f].status = "outstanding"}

(* Fines.                                                                  *)

Fine(days) == Smaller(MaxFine, days)

FineOf(l) == {f \in FeeIds : fees[f].loan = l /\ fees[f].type = "overdue"}

NextRow(f) == fees[f].status = "absent" /\ \A g \in FeeIds : g < f => fees[g].status # "absent"

NewFee(type, l, amount) ==
  [status |-> "outstanding", type |-> type, amount |-> amount, paid |-> 0,
   loan |-> l, patron |-> Borrower[l]]

\* _assess_overdue_fine_locked, for the fee as it was read.
Accrued(fee, days) ==
  LET amount == Larger(fee.paid, Fine(days))
  IN  IF amount = fee.amount THEN fee
      ELSE [fee EXCEPT !.amount = amount,
                       !.status = IF fee.paid >= amount /\ amount > 0 THEN "paid" ELSE @]

\* The transaction that has read a loan's fine holds the loan until it ends.
Locked(l) == reading[l] # None

\* Nothing of the fine is to be saved: there is none, or it has its amount.
UpToDate(l) == \A f \in FineOf(l) : Accrued(fees[f], late[l]) = fees[f]

\* The fees when an assessment of the loan commits: amount and status of the fine
\* are saved as they were worked out, or the first fine is written.
Assessed(l) ==
  IF Locked(l)
  THEN [f \in FeeIds |-> IF f \in FineOf(l)
                         THEN [fees[f] EXCEPT !.amount = reading[l].amount,
                                              !.status = reading[l].status]
                         ELSE fees[f]]
  ELSE [f \in FeeIds |-> IF FineOf(l) = {} /\ NextRow(f) /\ Fine(late[l]) > 0
                         THEN NewFee("overdue", l, Fine(late[l])) ELSE fees[f]]

----------------------------------------------------------------------------
(* Loans.                                                                  *)

\* borrow_work, as far as money matters; staff may override.
CheckOut(l, override) ==
  /\ loanState[l] = "absent"
  /\ ~override => BlockThreshold = 0 \/ Balance(Borrower[l]) < BlockThreshold
  /\ loanState' = [loanState EXCEPT ![l] = "out"]
  /\ UNCHANGED <<late, reading, fees, paymentVars, plans>>

\* Midnight, for one loan.
DayPasses(l) ==
  /\ loanState[l] = "out" /\ late[l] < MaxDays
  /\ late' = [late EXCEPT ![l] = @ + 1]
  /\ UNCHANGED <<loanState, reading, fees, paymentVars, plans>>

\* renew_loan: it is due in the future again.
RenewLate(l) ==
  /\ loanState[l] = "out" /\ ~Locked(l)
  /\ late' = [late EXCEPT ![l] = 0]
  /\ UNCHANGED <<loanState, reading, fees, paymentVars, plans>>

\* An assessment for the sweep ("out"), a return, or the charge of an item: the
\* loan is locked, its fine read, and what will be saved is worked out.
ReadFine(l, purpose) ==
  /\ loanState[l] = "out" /\ ~Locked(l)
  /\ purpose = "out" => late[l] > 0
  /\ \E f \in FineOf(l) :
        /\ Accrued(fees[f], late[l]) # fees[f]
        /\ reading' = [reading EXCEPT ![l] = Accrued(fees[f], late[l])]
  /\ loanState' = [loanState EXCEPT ![l] = purpose]
  /\ UNCHANGED <<late, fees, paymentVars, plans>>

\* It is saved and committed, or all at once when no older fine is to be saved.
SavesFor(l, purpose) ==
  /\ IF Locked(l) THEN loanState[l] = purpose ELSE loanState[l] = "out" /\ UpToDate(l)
  /\ reading' = [reading EXCEPT ![l] = None]
  /\ UNCHANGED <<late, paymentVars, plans>>

\* assess_overdue_fines: the sweep of the overdue loans.
SaveFine(l) ==
  /\ late[l] > 0
  /\ SavesFor(l, "out")
  /\ fees' = Assessed(l)
  /\ UNCHANGED loanState

Close(l) == loanState' = [loanState EXCEPT ![l] = "closed"]

\* return_loan
ReturnLate(l) ==
  /\ SavesFor(l, "returning")
  /\ fees' = Assessed(l)
  /\ Close(l)

\* mark_claims_returned closes a loan without a look at its fine.
ClaimReturned(l) ==
  /\ loanState[l] = "out" /\ ~Locked(l)
  /\ Close(l)
  /\ UNCHANGED <<late, reading, fees, paymentVars, plans>>

\* mark_loan_lost and return_damaged: the fine, and the item.
ChargeItem(l, f) ==
  /\ SavesFor(l, "charging")
  /\ Assessed(l)[f].status = "absent"
  /\ \A g \in FeeIds : g < f => Assessed(l)[g].status # "absent"
  /\ fees' = [Assessed(l) EXCEPT ![f] = NewFee("item", l, ItemFee)]
  /\ Close(l)

----------------------------------------------------------------------------
(* Payments.                                                               *)

\* How much of an amount reaches a fee once the older ones have theirs.
Share(f, amount, F) ==
  Smaller(Short(f), Larger(0, amount - ShortOf({g \in F : g < f})))

\* record_payment
Record(y, p, amount) ==
  LET share == [f \in FeeIds |-> IF f \in Owing(p) THEN Share(f, amount, Owing(p)) ELSE 0]
  IN  /\ payments[y] = NoPayment /\ \A x \in PaymentIds : x < y => payments[x] # NoPayment
      /\ payments' = [payments EXCEPT ![y] = [amount |-> amount, refunded |-> 0, patron |-> p]]
      /\ alloc' = [alloc EXCEPT ![y] = share]
      /\ fees' = [f \in FeeIds |->
                    IF share[f] = 0 THEN fees[f]
                    ELSE [fees[f] EXCEPT !.paid = @ + share[f],
                            !.status = IF share[f] = Short(f) THEN "paid" ELSE @]]
      /\ UNCHANGED <<loanState, late, reading, reversed>>

\* PayFeesAPI: the patron pays online, and no more than is owed.
PayOnline(y, p, amount) ==
  /\ amount <= Balance(p)
  /\ Record(y, p, amount)
  /\ UNCHANGED plans

\* waive_fee; run_amnesty is a sequence of them.
Waive(f) ==
  /\ fees[f].status = "outstanding" /\ fees[f].paid = 0
  /\ fees' = [fees EXCEPT ![f].status = "waived"]
  /\ UNCHANGED <<loanState, late, reading, paymentVars, plans>>

\* Mutation: what was taken back before is forgotten.
Given(y, f) == alloc[y][f]

Kept(y, f) == alloc[y][f] - reversed[y][f]
KeptOf(y, F) == SumFunctionOnSet([f \in FeeIds |-> Kept(y, f)], F)
Applied(y) == KeptOf(y, FeeIds)
Unallocated(y) == payments[y].amount - SumFunctionOnSet(alloc[y], FeeIds)

\* The fees that a refund may take back from.
NotWaived == {f \in FeeIds : fees[f].status # "waived"}

Refundable(y) ==
  Smaller(KeptOf(y, NotWaived) + Unallocated(y),
          payments[y].amount - payments[y].refunded)

\* How much of a refund comes from a fee once the newer ones gave theirs.
Returned(y, f, amount, F) ==
  Smaller(Kept(y, f), Larger(0, amount - KeptOf(y, {g \in F : g > f})))

\* A fee after a refund has taken n of a payment back from it.
Reopened(y, f, n) ==
  [fees[f] EXCEPT !.paid = Larger(0, @ - n),
     !.status = IF @ = "paid" /\ fees[f].paid - n < fees[f].amount
                THEN "outstanding" ELSE @]

\* refund_payment: the payment's newest allocations are reversed first, and its
\* unapplied rest goes back last.
Refund(y, amount) ==
  LET back == [f \in FeeIds |-> IF f \in NotWaived THEN Returned(y, f, amount, NotWaived)
                                ELSE 0]
  IN  /\ payments[y] # NoPayment
      /\ amount <= Refundable(y)
      /\ payments' = [payments EXCEPT ![y].refunded = @ + amount]
      /\ reversed' = [reversed EXCEPT ![y] = [f \in FeeIds |-> @[f] + back[f]]]
      /\ fees' = [f \in FeeIds |-> IF back[f] = 0 THEN fees[f]
                                   ELSE Reopened(y, f, back[f])]
      /\ UNCHANGED <<loanState, late, reading, alloc, plans>>

----------------------------------------------------------------------------
(* Payment plans.                                                          *)

CreatePlan(q, p, total) ==
  /\ plans[q] = NoPlan /\ \A r \in PlanIds : r < q => plans[r] # NoPlan
  /\ total <= Balance(p)
  /\ plans' = [plans EXCEPT ![q] = [total |-> total, paid |-> 0, patron |-> p]]
  /\ UNCHANGED <<loanState, late, reading, fees, paymentVars>>

Instalment(q, amount) == Smaller(plans[q].total - plans[q].paid, amount)

\* pay_installment, whatever the patron owes by now.
PayPlan(y, q, amount) ==
  LET due == Instalment(q, amount)
  IN  /\ plans[q].paid < plans[q].total /\ plans[q].patron # None
      /\ Record(y, plans[q].patron, due)
      /\ plans' = [plans EXCEPT ![q].paid = @ + due]

----------------------------------------------------------------------------
\* erase_patron: the ledger is kept, without its owner.
ErasePayer(p) ==
  /\ \A l \in LateLoans : Borrower[l] = p => loanState[l] \in {"absent", "closed"}
  /\ Owing(p) = {}
  /\ fees' = [f \in FeeIds |-> IF fees[f].patron = p THEN [fees[f] EXCEPT !.patron = None]
                               ELSE fees[f]]
  /\ payments' = [y \in PaymentIds |->
                    IF payments[y].patron = p THEN [payments[y] EXCEPT !.patron = None]
                    ELSE payments[y]]
  /\ plans' = [q \in PlanIds |-> IF plans[q].patron = p THEN [plans[q] EXCEPT !.patron = None]
                                 ELSE plans[q]]
  /\ loanState' = [l \in LateLoans |-> IF Borrower[l] = p THEN "closed" ELSE loanState[l]]
  /\ UNCHANGED <<late, reading, alloc, reversed>>

FeesInit ==
  /\ loanState = [l \in LateLoans |-> "absent"]
  /\ late = [l \in LateLoans |-> 0]
  /\ fees = [f \in FeeIds |-> NoFee]
  /\ reading = [l \in LateLoans |-> None]
  /\ payments = [y \in PaymentIds |-> NoPayment]
  /\ alloc = [y \in PaymentIds |-> [f \in FeeIds |-> 0]]
  /\ reversed = [y \in PaymentIds |-> [f \in FeeIds |-> 0]]
  /\ plans = [q \in PlanIds |-> NoPlan]

FeesNext ==
  \/ \E l \in LateLoans :
        \/ \E b \in BOOLEAN : CheckOut(l, b)
        \/ DayPasses(l) \/ RenewLate(l)
        \/ \E purpose \in Purposes : ReadFine(l, purpose)
        \/ SaveFine(l) \/ ReturnLate(l) \/ ClaimReturned(l)
        \/ \E f \in FeeIds : ChargeItem(l, f)
  \/ \E f \in FeeIds : Waive(f)
  \/ \E y \in PaymentIds, n \in Amounts :
        \/ \E p \in Patrons : PayOnline(y, p, n)
        \/ \E q \in PlanIds : PayPlan(y, q, n)
        \/ Refund(y, n)
  \/ \E q \in PlanIds, p \in Patrons, n \in Amounts : CreatePlan(q, p, n)
  \/ \E p \in Patrons : ErasePayer(p)

FeesSpec == FeesInit /\ [][FeesNext]_feesVars

----------------------------------------------------------------------------
(* Properties.                                                             *)

FeesTypeOK ==
  /\ loanState \in [LateLoans -> LoanStates]
  /\ late \in [LateLoans -> 0 .. MaxDays]
  /\ reading \in [LateLoans -> {None} \cup
                     [status : FeeStatus, type : FeeType, amount : Nat, paid : Nat,
                      loan : LateLoans, patron : Patrons \cup {None}]]
  /\ fees \in [FeeIds -> {NoFee} \cup
                 [status : FeeStatus, type : FeeType, amount : Nat, paid : Nat,
                  loan : LateLoans, patron : Patrons \cup {None}]]
  /\ payments \in [PaymentIds -> [amount : Nat, refunded : Nat, patron : Patrons \cup {None}]]
  /\ alloc \in [PaymentIds -> [FeeIds -> Nat]]
  /\ reversed \in [PaymentIds -> [FeeIds -> Nat]]
  /\ \A y \in PaymentIds, f \in FeeIds : reversed[y][f] <= alloc[y][f]
  /\ plans \in [PlanIds -> [total : Nat, paid : Nat, patron : Patrons \cup {None}]]

\* The books agree, whatever payments, refunds, instalments and sweeps crossed:
\* what a fee counts as paid is what payments gave it less what refunds took
\* back; no payment is worth more than its amount, between what is still applied
\* to fees and what was handed back; and a plan collects no more than its total.
Ledger ==
  /\ \A f \in FeeIds :
        fees[f].paid = SumFunctionOnSet([y \in PaymentIds |-> Kept(y, f)], PaymentIds)
  /\ \A y \in PaymentIds : Applied(y) + payments[y].refunded <= payments[y].amount
  /\ \A q \in PlanIds : plans[q].paid <= plans[q].total

\* A waived fee takes nobody's money, and comes back to life only in the step
\* that ends an assessment of its loan (a sweep's, a return's, a loss's or a
\* damage's) which had read the fine before it was waived.
WaivedIsFinal ==
  [][\A f \in FeeIds : fees[f].status = "waived" =>
       /\ fees'[f].paid = fees[f].paid
       /\ fees'[f].status # "waived" =>
            LET l == fees[f].loan
            IN  /\ fees[f].type = "overdue"
                /\ reading[l] # None /\ reading[l].status # "waived"
                /\ reading'[l] = None]_feesVars
=============================================================================
