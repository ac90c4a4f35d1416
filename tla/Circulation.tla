---------------------------- MODULE Circulation ----------------------------
(***************************************************************************)
(* Physical circulation of one library: library/services.py (borrowing,    *)
(* returning, the hold queue, transfers between branches, the scheduled    *)
(* sweeps), library/workflows.py (bulk edits, weeding, lost and damaged    *)
(* loans), the copy's side of an inter-library loan (library/consortia.py) *)
(* and the erasure of a patron (library/privacy.py).                       *)
(*                                                                         *)
(* Every service function runs in one transaction.atomic() block that      *)
(* locks the rows it changes and the advisory lock of the work, so one     *)
(* call is one step here.  Calendar time is left out: a loan may be past   *)
(* due, a pickup window over or a transfer stale at any moment.            *)
(***************************************************************************)
EXTENDS Naturals, FiniteSets

CONSTANTS
  Patrons, Copies, Works, Branches,
  None,         \* a null foreign key
  WorkOf,       \* the work a copy is an instance of (copy.edition.work)
  Floating,     \* copies that settle at the branch they are returned to
  Holdable,     \* works some edition of which may be held by policy
  Retaining,    \* patrons who keep their loan history
  MaxLoans, MaxHolds, MaxRenewals,   \* the effective circulation policy
  MaxAttempts,  \* MAX_TRANSIT_ATTEMPTS
  LoanRows, HoldRows   \* bounds: how many loans and holds are ever created

\* Rows are numbered in the order of their creation (created_at, id).
LoanIds == 1 .. LoanRows
HoldIds == 1 .. HoldRows

ASSUME RowAssumption == LoanRows \in Nat /\ HoldRows \in Nat
ASSUME PolicyAssumption ==
  /\ MaxLoans \in Nat /\ MaxHolds \in Nat /\ MaxRenewals \in Nat
  /\ MaxAttempts \in Nat \ {0}
ASSUME CatalogAssumption ==
  /\ WorkOf \in [Copies -> Works]
  /\ Floating \subseteq Copies /\ Holdable \subseteq Works
  /\ Retaining \subseteq Patrons
ASSUME NoneAssumption ==
  /\ None \notin Patrons /\ None \notin Copies /\ None \notin Branches
  /\ None \notin Nat

VARIABLES
  copyStatus, copyBranch, copyVisible,            \* Copy
  loanStatus, loanCopy, loanPatron, renewals,     \* Loan
  holdStatus, holdPatron, holdWork, holdBranch,   \* Hold
  holdCopy, holdLoan, attempts,
  patronStatus                                    \* PatronProfile

copyVars == <<copyStatus, copyBranch, copyVisible>>
loanVars == <<loanStatus, loanCopy, loanPatron, renewals>>
\* What a hold asks for: written when it is placed and never again.
requestVars == <<holdPatron, holdWork, holdBranch>>
holdVars == <<holdStatus, requestVars, holdCopy, holdLoan, attempts>>
vars == <<copyVars, loanVars, holdVars, patronStatus>>

CopyStatus == {"available", "loaned", "on_hold", "in_transit", "ill", "lost",
               "retired", "repair"}
LoanStatus == {"active", "overdue", "returned", "lost", "claims_returned"}
HoldStatus == {"waiting", "ready", "fulfilled", "expired", "cancelled"}
\* Beside those: "absent" is a row not yet created, "erased" a deleted one.
PatronStatus == {"active", "blocked"}   \* archived is refused like blocked

----------------------------------------------------------------------------
(* The queries the services make.                                          *)

ActiveLoan(l) == loanStatus[l] \in {"active", "overdue"}
ActiveHold(h) == holdStatus[h] \in {"waiting", "ready"}

\* Mutation: an overdue loan no longer counts.
CurrentLoansOf(p) == {l \in LoanIds : loanStatus[l] = "active" /\ loanPatron[l] = p}

LoansOf(p) == {l \in LoanIds : ActiveLoan(l) /\ loanPatron[l] = p}
HoldsOf(p) == {h \in HoldIds : ActiveHold(h) /\ holdPatron[h] = p}

\* Does anybody wait for w, with or without a copy on its way?
Waiting(w) == \E h \in HoldIds : holdStatus[h] = "waiting" /\ holdWork[h] = w

\* available_copies_for_work over the whole organization.
Shelf(w) == {c \in Copies : /\ WorkOf[c] = w
                            /\ copyStatus[c] = "available"
                            /\ copyVisible[c]}

\* A row that does not exist yet; rows are created in order.
NextLoan(l) == /\ loanStatus[l] = "absent"
               /\ \A k \in LoanIds : k < l => loanStatus[k] # "absent"
NextHold(h) == /\ holdStatus[h] = "absent"
               /\ \A k \in HoldIds : k < h => holdStatus[k] # "absent"

----------------------------------------------------------------------------
(* The hold queue.                                                         *)

\* Mutation: a hold whose copy is on its way is offered another.
QueueWithTransits(hs, hc, w) ==
  {h \in HoldIds : hs[h] = "waiting" /\ holdWork[h] = w}

\* The holds that wait for w and have no copy yet, under the statuses hs and
\* the assignments hc that the calling transaction has already written.
Queue(hs, hc, w) ==
  {h \in HoldIds : hs[h] = "waiting" /\ holdWork[h] = w /\ hc[h] = None}

\* Mutation: last in, first out.
Newest(h, Q) == h \in Q /\ \A k \in Q : k <= h

Oldest(h, Q) == h \in Q /\ \A k \in Q : h <= k

\* _mark_hold_ready: c waits for the holder of h at the pickup branch.
MarkReady(h, c, hs, hc) ==
  /\ copyStatus' = [copyStatus EXCEPT ![c] = "on_hold"]
  /\ holdStatus' = [hs EXCEPT ![h] = "ready"]
  /\ holdCopy' = [hc EXCEPT ![h] = c]

\* Ship c to the pickup branch; the hold keeps waiting, now with a copy.
Ship(h, c, hs, hc) ==
  /\ copyStatus' = [copyStatus EXCEPT ![c] = "in_transit"]
  /\ holdStatus' = hs
  /\ holdCopy' = [hc EXCEPT ![h] = c]

\* Reserve c, which is at branch b, for h.
Reserve(h, c, b, pickup, hs, hc) ==
  \/ b = pickup /\ MarkReady(h, c, hs, hc)
  \/ b # pickup /\ Ship(h, c, hs, hc)

\* assign_copy_to_next_hold: a freed copy goes to the head of the queue, or to
\* the shelf when nobody waits.
Offer(c, b, hs, hc) ==
  LET Q == Queue(hs, hc, WorkOf[c])
  IN  \/ \E h \in HoldIds : Oldest(h, Q) /\ Reserve(h, c, b, holdBranch[h], hs, hc)
      \/ /\ Q = {}
         /\ copyStatus' = [copyStatus EXCEPT ![c] = "available"]
         /\ holdStatus' = hs
         /\ holdCopy' = hc

----------------------------------------------------------------------------
(* Borrowing, renewing, returning.                                         *)

\* The checks of borrow_work that an override does not lift, then the one it
\* does.  (The fine block is left to the finance model: it only refuses more.)
MayBorrow(p, w, override) ==
  /\ patronStatus[p] = "active"
  /\ Cardinality(LoansOf(p)) < MaxLoans
  /\ override \/ \A l \in LoansOf(p) : WorkOf[loanCopy[l]] # w

LendTo(p, c, l) ==
  /\ NextLoan(l)
  /\ loanStatus' = [loanStatus EXCEPT ![l] = "active"]
  /\ loanCopy' = [loanCopy EXCEPT ![l] = c]
  /\ loanPatron' = [loanPatron EXCEPT ![l] = p]
  /\ copyStatus' = [copyStatus EXCEPT ![c] = "loaned"]
  /\ UNCHANGED <<copyBranch, copyVisible, renewals, patronStatus>>

\* Mutation: anybody may pick up a held copy.
HeldForAnyone(p, w, h) == holdStatus[h] = "ready" /\ holdWork[h] = w

\* The patron's own hold is ready: its copy is lent and the hold fulfilled.
HeldFor(p, w, h) ==
  holdStatus[h] = "ready" /\ holdPatron[h] = p /\ holdWork[h] = w

BorrowHeld(p, w, h, l, override) ==
  /\ MayBorrow(p, w, override)
  /\ HeldFor(p, w, h)
  /\ holdCopy[h] # None
  /\ copyStatus[holdCopy[h]] = "on_hold"
  /\ LendTo(p, holdCopy[h], l)
  /\ holdStatus' = [holdStatus EXCEPT ![h] = "fulfilled"]
  /\ holdLoan' = [holdLoan EXCEPT ![h] = l]
  /\ UNCHANGED <<requestVars, holdCopy, attempts>>

\* A copy from the shelf, which the queue keeps from everybody but staff.  The
\* branch asked for only orders the search, so any shelf copy may be found.
BorrowShelf(p, w, c, l, override) ==
  /\ MayBorrow(p, w, override)
  /\ \A h \in HoldIds : ~HeldFor(p, w, h)
  /\ override \/ ~Waiting(w)
  /\ c \in Shelf(w)
  /\ LendTo(p, c, l)
  /\ UNCHANGED holdVars

\* The loan ends; unless the patron keeps a history it forgets the patron.
CloseLoan(l, status) ==
  /\ loanStatus' = [loanStatus EXCEPT ![l] = status]
  /\ loanPatron' = [loanPatron EXCEPT
                      ![l] = IF @ \in Retaining THEN @ ELSE None]
  /\ UNCHANGED <<loanCopy, renewals>>

\* return_loan: settle is the branch the copy comes back to, if given.
Return(l, settle) ==
  LET c == loanCopy[l]
      b == IF settle # None /\ c \in Floating THEN settle ELSE copyBranch[c]
  IN  /\ ActiveLoan(l)
      /\ CloseLoan(l, "returned")
      /\ copyBranch' = [copyBranch EXCEPT ![c] = b]
      /\ Offer(c, b, holdStatus, holdCopy)
      /\ UNCHANGED <<copyVisible, requestVars, holdLoan, attempts, patronStatus>>

\* Mutation: one renewal too many.
RenewalsLeftOrEqual(l) == renewals[l] <= MaxRenewals

RenewalsLeft(l) == renewals[l] < MaxRenewals

Renew(l) ==
  /\ ActiveLoan(l)
  /\ loanPatron[l] # None => patronStatus[loanPatron[l]] = "active"
  /\ RenewalsLeft(l)
  /\ ~Waiting(WorkOf[loanCopy[l]])
  /\ loanStatus' = [loanStatus EXCEPT ![l] = "active"]
  /\ renewals' = [renewals EXCEPT ![l] = @ + 1]
  /\ UNCHANGED <<copyVars, loanCopy, loanPatron, holdVars, patronStatus>>

\* Mutation: the sweep forgets to look at the status.
FlagAnyLoan(S) ==
  /\ S # {}
  /\ \A l \in S : loanStatus[l] # "absent"
  /\ loanStatus' = [l \in LoanIds |-> IF l \in S THEN "overdue" ELSE loanStatus[l]]
  /\ UNCHANGED <<copyVars, loanCopy, loanPatron, renewals, holdVars, patronStatus>>

\* flag_overdue_loans, when no other call comes between its SELECT and its
\* UPDATE (CirculationRaces takes the two apart).
FlagOverdue(S) ==
  /\ S # {}
  /\ \A l \in S : loanStatus[l] = "active"
  /\ loanStatus' = [l \in LoanIds |-> IF l \in S THEN "overdue" ELSE loanStatus[l]]
  /\ UNCHANGED <<copyVars, loanCopy, loanPatron, renewals, holdVars, patronStatus>>

\* mark_loan_lost: the loan stays with the patron, who is billed for the copy.
MarkLost(l) ==
  /\ ActiveLoan(l)
  /\ loanPatron[l] # None
  /\ loanStatus' = [loanStatus EXCEPT ![l] = "lost"]
  /\ copyStatus' = [copyStatus EXCEPT ![loanCopy[l]] = "lost"]
  /\ UNCHANGED <<copyBranch, copyVisible, loanCopy, loanPatron, renewals,
                 holdVars, patronStatus>>

ClaimsReturned(l) ==
  LET c == loanCopy[l]
  IN  /\ ActiveLoan(l)
      /\ loanStatus' = [loanStatus EXCEPT ![l] = "claims_returned"]
      /\ copyStatus' = [copyStatus EXCEPT ![c] = IF @ = "loaned" THEN "lost" ELSE @]
      /\ UNCHANGED <<copyBranch, copyVisible, loanCopy, loanPatron, renewals,
                     holdVars, patronStatus>>

\* return_damaged: the copy goes to repair, past any waiting hold.
ReturnDamaged(l) ==
  /\ ActiveLoan(l)
  /\ loanPatron[l] # None
  /\ CloseLoan(l, "returned")
  /\ copyStatus' = [copyStatus EXCEPT ![loanCopy[l]] = "repair"]
  /\ UNCHANGED <<copyBranch, copyVisible, holdVars, patronStatus>>

----------------------------------------------------------------------------
(* Holds.                                                                  *)

MayHold(p, w) ==
  /\ patronStatus[p] = "active"
  /\ w \in Holdable
  /\ \E c \in Copies : WorkOf[c] = w /\ copyStatus[c] # "lost"
  /\ Cardinality(HoldsOf(p)) < MaxHolds
  /\ \A h \in HoldsOf(p) : holdWork[h] # w

\* The copies place_hold picks from, passing over those another transaction has
\* locked: those at the pickup branch if there are any.
PickFrom(w, b, locked) ==
  LET free == Shelf(w) \ locked
      here == {c \in free : copyBranch[c] = b}
  IN  IF here # {} THEN here ELSE free

\* A hold is placed and, when nobody else waits for the work, served at once
\* from the shelf.
PlaceHold(p, w, b, h, locked) ==
  LET hs == [holdStatus EXCEPT ![h] = "waiting"]
  IN  /\ NextHold(h)
      /\ MayHold(p, w)
      /\ holdPatron' = [holdPatron EXCEPT ![h] = p]
      /\ holdWork' = [holdWork EXCEPT ![h] = w]
      /\ holdBranch' = [holdBranch EXCEPT ![h] = b]
      /\ \/ /\ Waiting(w) \/ PickFrom(w, b, locked) = {}
            /\ holdStatus' = hs
            /\ UNCHANGED <<copyStatus, holdCopy>>
         \/ /\ ~Waiting(w)
            /\ \E c \in PickFrom(w, b, locked) :
                  Reserve(h, c, copyBranch[c], b, hs, holdCopy)
      /\ UNCHANGED <<copyBranch, copyVisible, loanVars, holdLoan, attempts,
                     patronStatus>>

\* A hold ends without a loan; a copy it had reserved is offered again.
EndHold(h, status) ==
  LET hs == [holdStatus EXCEPT ![h] = status]
      c  == holdCopy[h]
  IN  /\ \/ /\ c # None
            /\ Offer(c, copyBranch[c], hs, holdCopy)
         \/ /\ c = None
            /\ holdStatus' = hs
            /\ UNCHANGED <<copyStatus, holdCopy>>
      /\ UNCHANGED <<copyBranch, copyVisible, loanVars, requestVars, holdLoan,
                     attempts, patronStatus>>

CancelHold(h) == ActiveHold(h) /\ EndHold(h, "cancelled")

\* Mutation: a window is closed only when somebody else waits.
ExpireReadyIfWanted(h) ==
  holdStatus[h] = "ready" /\ Waiting(holdWork[h]) /\ EndHold(h, "expired")

\* One iteration of expire_ready_holds.
ExpireReady(h) == holdStatus[h] = "ready" /\ EndHold(h, "expired")

----------------------------------------------------------------------------
(* Transfers between branches.                                             *)

\* The hold a copy in transit is on its way to.
TransitHold(c, h) == holdStatus[h] = "waiting" /\ holdCopy[h] = c

\* receive_copy_in_transit: with no hold left to serve the copy is shelved, and
\* not offered to the queue.
Receive(c) ==
  /\ copyStatus[c] = "in_transit"
  /\ \/ \E h \in HoldIds :
          /\ Oldest(h, {k \in HoldIds : TransitHold(c, k)})
          /\ copyBranch' = [copyBranch EXCEPT ![c] = holdBranch[h]]
          /\ MarkReady(h, c, holdStatus, holdCopy)
     \/ /\ \A h \in HoldIds : ~TransitHold(c, h)
        /\ copyStatus' = [copyStatus EXCEPT ![c] = "available"]
        /\ UNCHANGED <<copyBranch, holdStatus, holdCopy>>
  /\ UNCHANGED <<copyVisible, loanVars, requestVars, holdLoan, attempts,
                 patronStatus>>

\* The desk scans a barcode: receive the copy, or return the loan it is out on.
StaffCheckin(c) ==
  \/ Receive(c)
  \/ /\ copyStatus[c] # "in_transit"
     /\ \E l \in LoanIds : loanCopy[l] = c /\ Return(l, None)

\* Mutation: the attempts are not counted.
SameAttempts(h) == attempts[h]

\* transit_attempts is only compared with MaxAttempts, so it stops there.
OneMoreAttempt(h) ==
  IF attempts[h] < MaxAttempts THEN attempts[h] + 1 ELSE MaxAttempts

\* One iteration of expire_stale_transits: ship the copy again, or, after the
\* hold's last attempt, pull it for repair.
TransitFailed(c, h) ==
  LET hc == [holdCopy EXCEPT ![h] = None]
  IN  /\ TransitHold(c, h)
      /\ attempts' = [attempts EXCEPT ![h] = OneMoreAttempt(h)]
      /\ \/ /\ OneMoreAttempt(h) >= MaxAttempts
            /\ copyStatus' = [copyStatus EXCEPT ![c] = "repair"]
            /\ holdCopy' = hc
            /\ UNCHANGED holdStatus
         \/ /\ OneMoreAttempt(h) < MaxAttempts
            /\ Offer(c, copyBranch[c], holdStatus, hc)

ExpireTransit(c) ==
  /\ copyStatus[c] = "in_transit"
  /\ \/ \E h \in HoldIds : TransitFailed(c, h)
     \/ /\ \A h \in HoldIds : ~TransitHold(c, h)
        /\ Offer(c, copyBranch[c], holdStatus, holdCopy)
        /\ UNCHANGED attempts
  /\ UNCHANGED <<copyBranch, copyVisible, loanVars, requestVars, holdLoan,
                 patronStatus>>

\* Mutation: a copy is matched only with a hold at its own branch.
ReconcileHere(c) ==
  LET Q == {h \in Queue(holdStatus, holdCopy, WorkOf[c]) :
              holdBranch[h] = copyBranch[c]}
  IN  /\ c \in Shelf(WorkOf[c])
      /\ \E h \in Q : Oldest(h, Q) /\ MarkReady(h, c, holdStatus, holdCopy)
      /\ UNCHANGED <<copyBranch, copyVisible, loanVars, requestVars, holdLoan,
                     attempts, patronStatus>>

\* One assignment of reconcile_holds.
Reconcile(c) ==
  /\ c \in Shelf(WorkOf[c])
  /\ Queue(holdStatus, holdCopy, WorkOf[c]) # {}
  /\ Offer(c, copyBranch[c], holdStatus, holdCopy)
  /\ UNCHANGED <<copyBranch, copyVisible, loanVars, requestVars, holdLoan, attempts,
                 patronStatus>>

----------------------------------------------------------------------------
(* Managing the stock.                                                     *)

\* Mutation: only a loan keeps a copy from being retired.
NotOnLoan(c) == \A l \in LoanIds : ~(ActiveLoan(l) /\ loanCopy[l] = c)

Retirable(c) == NotOnLoan(c) /\ copyStatus[c] \notin {"on_hold", "in_transit"}

Retire(c) ==
  /\ Retirable(c)
  /\ copyStatus' = [copyStatus EXCEPT ![c] = "retired"]
  /\ copyVisible' = [copyVisible EXCEPT ![c] = FALSE]
  /\ UNCHANGED <<copyBranch, loanVars, holdVars, patronStatus>>

Move(c, b) ==
  /\ copyStatus[c] \notin {"loaned", "on_hold", "in_transit"}
  /\ copyBranch' = [copyBranch EXCEPT ![c] = b]
  /\ UNCHANGED <<copyStatus, copyVisible, loanVars, holdVars, patronStatus>>

\* Mutation: a batch takes in the copies kept for a hold.
MutableOrHeld(c) == copyStatus[c] \in {"available", "repair", "on_hold"}

\* bulk_update_copies and weed_copies pass over the copies of the batch that
\* are in somebody's hands or on their way.
Mutable(c) == copyStatus[c] \in {"available", "repair"}
Weedable(c) == copyStatus[c] \notin {"loaned", "on_hold", "in_transit", "ill"}

BulkStatus(S, status) ==
  /\ copyStatus' = [c \in Copies |-> IF c \in S /\ Mutable(c) THEN status
                                     ELSE copyStatus[c]]
  /\ UNCHANGED <<copyBranch, copyVisible, loanVars, holdVars, patronStatus>>

BulkVisible(S, visible) ==
  /\ copyVisible' = [c \in Copies |-> IF c \in S /\ Mutable(c) THEN visible
                                      ELSE copyVisible[c]]
  /\ UNCHANGED <<copyStatus, copyBranch, loanVars, holdVars, patronStatus>>

Weed(S) ==
  /\ copyStatus' = [c \in Copies |-> IF c \in S /\ Weedable(c) THEN "retired"
                                     ELSE copyStatus[c]]
  /\ copyVisible' = [c \in Copies |-> copyVisible[c] /\ ~(c \in S /\ Weedable(c))]
  /\ UNCHANGED <<copyBranch, loanVars, holdVars, patronStatus>>

\* Another member of the consortium is lent a shelf copy, past the hold queue,
\* and the copy comes back to the shelf when that request ends.
IllReserve(c) ==
  /\ c \in Shelf(WorkOf[c])
  /\ copyStatus' = [copyStatus EXCEPT ![c] = "ill"]
  /\ UNCHANGED <<copyBranch, copyVisible, loanVars, holdVars, patronStatus>>

IllRelease(c) ==
  /\ copyStatus[c] = "ill"
  /\ copyStatus' = [copyStatus EXCEPT ![c] = "available"]
  /\ UNCHANGED <<copyBranch, copyVisible, loanVars, holdVars, patronStatus>>

----------------------------------------------------------------------------
(* Patrons.                                                                *)

\* Staff block, archive or reinstate a patron in the admin site.
SetPatronStatus(p, status) ==
  /\ patronStatus[p] \in PatronStatus \ {status}
  /\ patronStatus' = [patronStatus EXCEPT ![p] = status]
  /\ UNCHANGED <<copyVars, loanVars, holdVars>>

\* erase_patron: loans forget the patron and every hold row is deleted.  A
\* deleted row stays here under the status "erased"; one that was active keeps
\* the copy it had reserved, as history that no service reads.
Erase(p) ==
  /\ patronStatus[p] \in PatronStatus
  /\ LoansOf(p) = {}
  /\ patronStatus' = [patronStatus EXCEPT ![p] = "erased"]
  /\ loanPatron' = [l \in LoanIds |-> IF loanPatron[l] = p THEN None
                                      ELSE loanPatron[l]]
  /\ holdStatus' = [h \in HoldIds |-> IF holdPatron[h] = p THEN "erased"
                                      ELSE holdStatus[h]]
  /\ holdPatron' = [h \in HoldIds |-> IF holdPatron[h] = p THEN None
                                      ELSE holdPatron[h]]
  /\ holdCopy' = [h \in HoldIds |-> IF holdPatron[h] = p /\ ~ActiveHold(h) THEN None
                                    ELSE holdCopy[h]]
  /\ holdLoan' = [h \in HoldIds |-> IF holdPatron[h] = p THEN None
                                    ELSE holdLoan[h]]
  /\ UNCHANGED <<copyVars, loanStatus, loanCopy, renewals, holdWork, holdBranch,
                 attempts>>

----------------------------------------------------------------------------
Init ==
  /\ copyStatus = [c \in Copies |-> "available"]
  /\ copyBranch \in [Copies -> Branches]
  /\ copyVisible = [c \in Copies |-> TRUE]
  /\ loanStatus = [l \in LoanIds |-> "absent"]
  /\ loanCopy = [l \in LoanIds |-> None]
  /\ loanPatron = [l \in LoanIds |-> None]
  /\ renewals = [l \in LoanIds |-> 0]
  /\ holdStatus = [h \in HoldIds |-> "absent"]
  /\ holdPatron = [h \in HoldIds |-> None]
  /\ holdWork = [h \in HoldIds |-> None]
  /\ holdBranch = [h \in HoldIds |-> None]
  /\ holdCopy = [h \in HoldIds |-> None]
  /\ holdLoan = [h \in HoldIds |-> None]
  /\ attempts = [h \in HoldIds |-> 0]
  /\ patronStatus = [p \in Patrons |-> "active"]

LoanStep ==
  \/ \E p \in Patrons, w \in Works, l \in LoanIds, override \in BOOLEAN :
        \/ \E h \in HoldIds : BorrowHeld(p, w, h, l, override)
        \/ \E c \in Copies : BorrowShelf(p, w, c, l, override)
  \/ \E l \in LoanIds :
        \/ \E b \in Branches \cup {None} : Return(l, b)
        \/ Renew(l)
        \/ MarkLost(l)
        \/ ClaimsReturned(l)
        \/ ReturnDamaged(l)

HoldStep ==
  \E h \in HoldIds :
     \/ \E p \in Patrons, w \in Works, b \in Branches, locked \in SUBSET Copies :
           PlaceHold(p, w, b, h, locked)
     \/ CancelHold(h)

StockStep ==
  \/ \E c \in Copies : \/ StaffCheckin(c)
                       \/ Retire(c)
                       \/ \E b \in Branches : Move(c, b)
                       \/ IllReserve(c)
                       \/ IllRelease(c)
  \/ \E S \in SUBSET Copies : \/ \E s \in {"available", "repair"} : BulkStatus(S, s)
                              \/ \E v \in BOOLEAN : BulkVisible(S, v)
                              \/ Weed(S)

PatronStep ==
  \E p \in Patrons : \/ \E s \in PatronStatus : SetPatronStatus(p, s)
                     \/ Erase(p)

\* The scheduler's run_sweeps.
SweepStep ==
  \/ \E S \in SUBSET LoanIds : FlagOverdue(S)
  \/ \E h \in HoldIds : ExpireReady(h)
  \/ \E c \in Copies : ExpireTransit(c) \/ Reconcile(c)

Next == LoanStep \/ HoldStep \/ StockStep \/ PatronStep \/ SweepStep

Spec == Init /\ [][Next]_vars

\* run_sweeps is started again and again, and loops over all holds, transits
\* and works (a stale transit or a lapsed pickup window stays one).
Fairness ==
  /\ \A h \in HoldIds : WF_vars(ExpireReady(h))
  /\ \A c \in Copies : WF_vars(ExpireTransit(c))
  /\ \A w \in Works : WF_vars(\E c \in Copies : WorkOf[c] = w /\ Reconcile(c))

FairSpec == Spec /\ Fairness

----------------------------------------------------------------------------
(* Properties.                                                             *)

TypeOK ==
  /\ copyStatus \in [Copies -> CopyStatus]
  /\ copyBranch \in [Copies -> Branches]
  /\ copyVisible \in [Copies -> BOOLEAN]
  /\ loanStatus \in [LoanIds -> LoanStatus \cup {"absent"}]
  /\ loanCopy \in [LoanIds -> Copies \cup {None}]
  /\ loanPatron \in [LoanIds -> Patrons \cup {None}]
  /\ renewals \in [LoanIds -> 0 .. MaxRenewals]
  /\ holdStatus \in [HoldIds -> HoldStatus \cup {"absent", "erased"}]
  /\ holdPatron \in [HoldIds -> Patrons \cup {None}]
  /\ holdWork \in [HoldIds -> Works \cup {None}]
  /\ holdBranch \in [HoldIds -> Branches \cup {None}]
  /\ holdCopy \in [HoldIds -> Copies \cup {None}]
  /\ holdLoan \in [HoldIds -> LoanIds \cup {None}]
  /\ attempts \in [HoldIds -> 0 .. MaxAttempts]
  /\ patronStatus \in [Patrons -> PatronStatus \cup {"erased"}]

\* A copy is loaned exactly while one active or overdue loan is on it: no call
\* of any service leaves a copy out with no loan, a loan with its copy back on
\* the shelf, or two loans of one copy (models.Loan, uniq_active_loan_per_copy).
LoanCustody ==
  /\ \A l \in LoanIds : ActiveLoan(l) =>
        /\ loanCopy[l] \in Copies
        /\ loanPatron[l] \in Patrons
        /\ copyStatus[loanCopy[l]] = "loaned"
  /\ \A k, l \in LoanIds :
        ActiveLoan(k) /\ ActiveLoan(l) /\ loanCopy[k] = loanCopy[l] => k = l
  /\ \A c \in Copies : copyStatus[c] = "loaned" =>
        \E l \in LoanIds : ActiveLoan(l) /\ loanCopy[l] = c

\* A ready hold has its copy set aside at its pickup branch, a waiting hold
\* with a copy has it in transit from another branch, both of the right work,
\* and no copy is promised to two holds.
Reservations ==
  /\ \A h \in HoldIds : holdStatus[h] = "ready" =>
        /\ holdCopy[h] \in Copies
        /\ copyStatus[holdCopy[h]] = "on_hold"
        /\ copyBranch[holdCopy[h]] = holdBranch[h]
        /\ WorkOf[holdCopy[h]] = holdWork[h]
  /\ \A h \in HoldIds : holdStatus[h] = "waiting" /\ holdCopy[h] # None =>
        /\ copyStatus[holdCopy[h]] = "in_transit"
        /\ copyBranch[holdCopy[h]] # holdBranch[h]
        /\ WorkOf[holdCopy[h]] = holdWork[h]
  /\ \A g, h \in HoldIds :
        ActiveHold(g) /\ ActiveHold(h) /\ holdCopy[g] = holdCopy[h]
          /\ holdCopy[g] # None => g = h

\* A copy that is set aside or in transit has an active hold to show for it.
HoldOn(c, status) ==
  \E h \in HoldIds : holdStatus[h] = status /\ holdCopy[h] = c

EveryReservationHasAHold ==
  \A c \in Copies : /\ copyStatus[c] = "on_hold" => HoldOn(c, "ready")
                    /\ copyStatus[c] = "in_transit" => HoldOn(c, "waiting")

\* That fails for one reason only: the hold was deleted with its patron.
StrandedOnlyByErasure ==
  \A c \in Copies :
     /\ copyStatus[c] = "on_hold" => HoldOn(c, "ready") \/ HoldOn(c, "erased")
     /\ copyStatus[c] = "in_transit" => HoldOn(c, "waiting") \/ HoldOn(c, "erased")

\* What the other invariants rest on: an active hold says who wants which work
\* where, a row not yet created holds nothing and a deleted one names nobody.
Requests ==
  \A h \in HoldIds :
     /\ ActiveHold(h) => /\ holdPatron[h] \in Patrons
                        /\ holdWork[h] \in Works
                        /\ holdBranch[h] \in Branches
     /\ holdStatus[h] = "absent" => holdPatron[h] = None /\ holdCopy[h] = None
     /\ holdStatus[h] = "erased" => holdPatron[h] = None

\* The inductive invariant.
Inv == TypeOK /\ Requests /\ LoanCustody /\ Reservations /\ StrandedOnlyByErasure

\* No sequence of borrowing, overrides, renewals, sweeps and holds takes a
\* patron over the limits of the circulation policy, or lets two active holds
\* of one patron stand for the same work (uniq_active_hold_per_patron_work).
PatronLimits ==
  \A p \in Patrons :
     LET loans == {l \in LoanIds : /\ loanStatus[l] \in {"active", "overdue"}
                                   /\ loanPatron[l] = p}
         holds == {h \in HoldIds : /\ holdStatus[h] \in {"waiting", "ready"}
                                   /\ holdPatron[h] = p}
     IN  /\ Cardinality(loans) <= MaxLoans
         /\ Cardinality(holds) <= MaxHolds
         /\ \A g, h \in holds : holdWork[g] = holdWork[h] => g = h

\* First come, first served: when a hold is given a copy, no older hold for the
\* work is left waiting without one (ADR-0016).
QueueOrder ==
  [][\A g, h \in HoldIds :
       /\ holdCopy'[h] \notin {None, holdCopy[h]}
       /\ g < h
       /\ holdStatus'[g] = "waiting" /\ holdWork'[g] = holdWork'[h]
       => holdCopy'[g] # None]_vars

\* A retired copy never circulates again and a lost one is at most retired,
\* although ending a hold or a loan sets the copy's status without looking.
Withdrawn ==
  [][\A c \in Copies :
       /\ copyStatus[c] = "retired" => copyStatus'[c] = "retired"
       /\ copyStatus[c] = "lost" => copyStatus'[c] \in {"lost", "retired"}]_vars

\* A copy is not in transit for ever: the sweep ships it again at most
\* MaxAttempts times for a hold and then pulls it.
TransitEnds ==
  \A c \in Copies : copyStatus[c] = "in_transit" ~> copyStatus[c] # "in_transit"

\* A reservation ends: whether the copy is on its way or waits at the desk, the
\* hold in the end gives it up, by a loan, by the sweeps or by losing it.
ReservationEnds ==
  \A h \in HoldIds :
    ActiveHold(h) /\ holdCopy[h] # None ~> ~(ActiveHold(h) /\ holdCopy[h] # None)

\* The head of a queue does not wait for ever beside a copy on the shelf, which
\* the assignment at circulation events alone does not ensure (reconcile_holds).
HeadServed ==
  \A h \in HoldIds :
    []<>~(/\ holdWork[h] # None
          /\ Oldest(h, Queue(holdStatus, holdCopy, holdWork[h]))
          /\ Shelf(holdWork[h]) # {})

\* What a copy is to its patrons (module Lending).
Out == [c \in Copies |->
          IF \E l \in LoanIds : ActiveLoan(l) /\ loanCopy[l] = c
          THEN loanPatron[CHOOSE l \in LoanIds : ActiveLoan(l) /\ loanCopy[l] = c]
          ELSE None]
Kept == [c \in Copies |->
          IF \E h \in HoldIds : ActiveHold(h) /\ holdCopy[h] = c
          THEN holdPatron[CHOOSE h \in HoldIds : ActiveHold(h) /\ holdCopy[h] = c]
          ELSE None]

Abstract == INSTANCE Lending WITH out <- Out, kept <- Kept

\* Circulation keeps the promises of Lending.
ImplementsLending == Abstract!Spec
=============================================================================
