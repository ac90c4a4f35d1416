------------------------- MODULE CirculationProofs -------------------------
(***************************************************************************)
(* Inv is an inductive invariant of Circulation, for any stock, any        *)
(* patrons, any policy and any number of loans and holds.  One lemma per   *)
(* kind of step; what Offer does to the reservations is a lemma of its own.*)
(*                                                                         *)
(* The last part proves that Circulation implements Lending: Views says    *)
(* without CHOOSE whom a copy is out with and whom it is kept for, and each*)
(* step concerns one copy, beside which the others' loans and holds stay.  *)
(***************************************************************************)
EXTENDS Circulation, TLAPS, FiniteSetTheorems

\* The reservations of every copy but c are in order, under the hold statuses
\* hs and assignments hc a transaction has written, and no hold has c.
SettledBut(c, hs, hc) ==
  /\ \A h \in HoldIds : hs[h] = "ready" =>
        /\ hc[h] \in Copies \ {c}
        /\ copyStatus[hc[h]] = "on_hold"
        /\ copyBranch[hc[h]] = holdBranch[h]
        /\ WorkOf[hc[h]] = holdWork[h]
  /\ \A h \in HoldIds : hs[h] = "waiting" /\ hc[h] # None =>
        /\ hc[h] \in Copies \ {c}
        /\ copyStatus[hc[h]] = "in_transit"
        /\ copyBranch[hc[h]] # holdBranch[h]
        /\ WorkOf[hc[h]] = holdWork[h]
  /\ \A g, h \in HoldIds :
        /\ hs[g] \in {"waiting", "ready"} /\ hs[h] \in {"waiting", "ready"}
        /\ hc[g] = hc[h] /\ hc[g] # None
        => g = h
  /\ \A d \in Copies \ {c} :
        /\ copyStatus[d] = "on_hold" =>
              \E h \in HoldIds : hs[h] \in {"ready", "erased"} /\ hc[h] = d
        /\ copyStatus[d] = "in_transit" =>
              \E h \in HoldIds : hs[h] \in {"waiting", "erased"} /\ hc[h] = d

HoldStatuses == HoldStatus \cup {"absent", "erased"}

\* The step gives c one of those statuses and puts all reservations in order,
\* without starting, ending or erasing a hold.
Settles(c, statuses, hs, hc) ==
  /\ copyStatus' \in [Copies -> CopyStatus]
  /\ holdStatus' \in [HoldIds -> HoldStatuses]
  /\ holdCopy' \in [HoldIds -> Copies \cup {None}]
  /\ \A d \in Copies \ {c} : copyStatus'[d] = copyStatus[d]
  /\ copyStatus'[c] \in statuses
  /\ \A k \in HoldIds :
        \/ hs[k] \in {"waiting", "ready"} /\ holdStatus'[k] \in {"waiting", "ready"}
        \/ holdStatus'[k] = hs[k] /\ holdCopy'[k] = hc[k]
  /\ Reservations' /\ StrandedOnlyByErasure'

-----------------------------------------------------------------------------
(* Reserving a copy, and offering it to the queue.                           *)

\* Reserving the free copy c, at branch b, for a hold that waits for its work
\* leaves the reservations in order.
LEMMA ReserveKeeps ==
  ASSUME NEW c \in Copies, NEW b \in Branches, NEW h \in HoldIds,
         NEW hs \in [HoldIds -> HoldStatuses],
         NEW hc \in [HoldIds -> Copies \cup {None}],
         copyStatus \in [Copies -> CopyStatus],
         copyBranch \in [Copies -> Branches],
         copyBranch' = [copyBranch EXCEPT ![c] = b],
         \A k \in HoldIds \ {h} :
            holdBranch'[k] = holdBranch[k] /\ holdWork'[k] = holdWork[k],
         SettledBut(c, hs, hc),
         hs[h] = "waiting", hc[h] = None, holdWork'[h] = WorkOf[c],
         Reserve(h, c, b, holdBranch'[h], hs, hc)
  PROVE  Settles(c, {"on_hold", "in_transit"}, hs, hc)
<1> USE CatalogAssumption, NoneAssumption DEF HoldStatuses, HoldStatus, CopyStatus
<1>1. CASE b = holdBranch'[h] /\ MarkReady(h, c, hs, hc)
  <2>1. /\ copyStatus' = [copyStatus EXCEPT ![c] = "on_hold"]
        /\ holdStatus' = [hs EXCEPT ![h] = "ready"]
        /\ holdCopy' = [hc EXCEPT ![h] = c]
    BY <1>1 DEF MarkReady
  <2>2. Reservations'
    BY <1>1, <2>1 DEF Reservations, SettledBut, ActiveHold
  <2>3. StrandedOnlyByErasure'
    BY <1>1, <2>1 DEF StrandedOnlyByErasure, HoldOn, SettledBut
  <2> QED BY <2>1, <2>2, <2>3 DEF Settles
<1>2. CASE b # holdBranch'[h] /\ Ship(h, c, hs, hc)
  <2>1. /\ copyStatus' = [copyStatus EXCEPT ![c] = "in_transit"]
        /\ holdStatus' = hs
        /\ holdCopy' = [hc EXCEPT ![h] = c]
    BY <1>2 DEF Ship
  <2>2. Reservations'
    BY <1>2, <2>1 DEF Reservations, SettledBut, ActiveHold
  <2>3. StrandedOnlyByErasure'
    BY <1>2, <2>1 DEF StrandedOnlyByErasure, HoldOn, SettledBut
  <2> QED BY <2>1, <2>2, <2>3 DEF Settles
<1> QED BY <1>1, <1>2 DEF Reserve

\* So does offering it to the queue, which may also leave it on the shelf.
LEMMA OfferKeeps ==
  ASSUME NEW c \in Copies, NEW b \in Branches,
         NEW hs \in [HoldIds -> HoldStatuses],
         NEW hc \in [HoldIds -> Copies \cup {None}],
         copyStatus \in [Copies -> CopyStatus],
         copyBranch \in [Copies -> Branches],
         copyBranch' = [copyBranch EXCEPT ![c] = b],
         UNCHANGED requestVars,
         SettledBut(c, hs, hc),
         Offer(c, b, hs, hc)
  PROVE  Settles(c, {"available", "on_hold", "in_transit"}, hs, hc)
<1>1. UNCHANGED <<holdPatron, holdWork, holdBranch>>
  BY DEF requestVars
<1>2. ASSUME NEW h \in HoldIds, Oldest(h, Queue(hs, hc, WorkOf[c])),
             Reserve(h, c, b, holdBranch[h], hs, hc)
      PROVE  /\ hs[h] = "waiting" /\ hc[h] = None /\ holdWork'[h] = WorkOf[c]
             /\ Reserve(h, c, b, holdBranch'[h], hs, hc)
  BY <1>1, <1>2 DEF Oldest, Queue
<1>3. CASE \E h \in HoldIds : /\ Oldest(h, Queue(hs, hc, WorkOf[c]))
                              /\ Reserve(h, c, b, holdBranch[h], hs, hc)
  <2>1. PICK h \in HoldIds : /\ Oldest(h, Queue(hs, hc, WorkOf[c]))
                             /\ Reserve(h, c, b, holdBranch[h], hs, hc)
    BY <1>3
  <2>2. /\ hs[h] = "waiting" /\ hc[h] = None /\ holdWork'[h] = WorkOf[c]
        /\ Reserve(h, c, b, holdBranch'[h], hs, hc)
    BY <1>2, <2>1
  <2>3. \A k \in HoldIds \ {h} :
            holdBranch'[k] = holdBranch[k] /\ holdWork'[k] = holdWork[k]
    BY <1>1
  <2>4. Settles(c, {"on_hold", "in_transit"}, hs, hc)
    BY <2>2, <2>3, ReserveKeeps
  <2> QED BY <2>4 DEF Settles
<1>4. CASE /\ copyStatus' = [copyStatus EXCEPT ![c] = "available"]
           /\ holdStatus' = hs
           /\ holdCopy' = hc
  <2>1. Reservations'
    BY <1>1, <1>4, NoneAssumption DEF Reservations, SettledBut, ActiveHold
  <2>2. StrandedOnlyByErasure'
    BY <1>4 DEF StrandedOnlyByErasure, HoldOn, SettledBut, CopyStatus
  <2> QED BY <1>4, <2>1, <2>2 DEF Settles, CopyStatus
<1> QED BY <1>3, <1>4 DEF Offer

-----------------------------------------------------------------------------
(* Loans.                                                                    *)

\* When a copy that is not out changes to a status other than loaned, and no
\* loan changes, custody is kept.
LEMMA CustodyOfOthers ==
  ASSUME LoanCustody, UNCHANGED loanVars,
         \A c \in Copies : copyStatus'[c] = "loaned" <=> copyStatus[c] = "loaned"
  PROVE  LoanCustody'
BY DEF LoanCustody, ActiveLoan, loanVars

\* When a loan ends, its copy is out no more and the other copies keep their
\* statuses, custody is kept.
LEMMA CustodyAfterEnd ==
  ASSUME NEW l \in LoanIds, NEW status \in LoanStatus \ {"active", "overdue"},
         TypeOK, LoanCustody, ActiveLoan(l),
         loanStatus' = [loanStatus EXCEPT ![l] = status],
         loanCopy' = loanCopy,
         \A k \in LoanIds \ {l} : loanPatron'[k] = loanPatron[k],
         copyStatus'[loanCopy[l]] # "loaned",
         \A c \in Copies \ {loanCopy[l]} : copyStatus'[c] = copyStatus[c]
  PROVE  LoanCustody'
BY DEF LoanCustody, ActiveLoan, TypeOK, LoanStatus

\* A copy that is out is reserved for nobody.
LEMMA LoanedIsSettled ==
  ASSUME NEW c \in Copies, TypeOK, Reservations, StrandedOnlyByErasure,
         copyStatus[c] \notin {"on_hold", "in_transit"}
  PROVE  SettledBut(c, holdStatus, holdCopy)
BY DEF SettledBut, Reservations, StrandedOnlyByErasure, HoldOn, TypeOK, ActiveHold

\* The reservations do not depend on copies nobody reserved.
LEMMA ReservationsOfOthers ==
  ASSUME TypeOK, Reservations, StrandedOnlyByErasure,
         UNCHANGED <<holdStatus, holdWork, holdBranch, holdCopy>>,
         \A c \in Copies :
            \/ copyStatus'[c] = copyStatus[c] /\ copyBranch'[c] = copyBranch[c]
            \/ /\ copyStatus[c] \notin {"on_hold", "in_transit"}
               /\ copyStatus'[c] \notin {"on_hold", "in_transit"}
  PROVE  Reservations' /\ StrandedOnlyByErasure'
<1>1. Reservations'
  BY DEF Reservations, ActiveHold, TypeOK
<1>2. StrandedOnlyByErasure'
  BY DEF StrandedOnlyByErasure, HoldOn
<1> QED BY <1>1, <1>2

-----------------------------------------------------------------------------
(* The invariant holds at first.                                             *)

LEMMA InitInv == Init => Inv
<1> SUFFICES ASSUME Init PROVE Inv
  OBVIOUS
<1> USE NoneAssumption DEF Init
<1>1. TypeOK
  BY PolicyAssumption DEF TypeOK, CopyStatus, PatronStatus
<1>2. Requests
  BY DEF Requests, ActiveHold
<1>3. LoanCustody
  BY DEF LoanCustody, ActiveLoan
<1>4. Reservations /\ StrandedOnlyByErasure
  BY DEF Reservations, StrandedOnlyByErasure, ActiveHold
<1> QED BY <1>1, <1>2, <1>3, <1>4 DEF Inv

-----------------------------------------------------------------------------
(* Borrowing.                                                                *)

\* A new loan of a copy that is not out keeps custody.
LEMMA CustodyAfterLoan ==
  ASSUME TypeOK, LoanCustody,
         NEW p \in Patrons, NEW c \in Copies, NEW l \in LoanIds,
         copyStatus[c] # "loaned", LendTo(p, c, l)
  PROVE  LoanCustody'
<1>1. /\ loanStatus[l] = "absent"
      /\ loanStatus' = [loanStatus EXCEPT ![l] = "active"]
      /\ loanCopy' = [loanCopy EXCEPT ![l] = c]
      /\ loanPatron' = [loanPatron EXCEPT ![l] = p]
      /\ copyStatus' = [copyStatus EXCEPT ![c] = "loaned"]
  BY DEF LendTo, NextLoan
<1> QED BY <1>1 DEF LoanCustody, ActiveLoan, TypeOK

LEMMA BorrowHeldKeeps ==
  ASSUME Inv, NEW p \in Patrons, NEW w \in Works, NEW h \in HoldIds,
         NEW l \in LoanIds, NEW override \in BOOLEAN,
         BorrowHeld(p, w, h, l, override)
  PROVE  Inv'
<1> DEFINE c == holdCopy[h]
<1> USE DEF Inv
<1>1. /\ c \in Copies /\ copyStatus[c] = "on_hold" /\ holdStatus[h] = "ready"
      /\ LendTo(p, c, l)
      /\ holdStatus' = [holdStatus EXCEPT ![h] = "fulfilled"]
      /\ holdLoan' = [holdLoan EXCEPT ![h] = l]
      /\ UNCHANGED <<holdPatron, holdWork, holdBranch, holdCopy, attempts>>
  BY DEF BorrowHeld, HeldFor, TypeOK, requestVars
<1>2. /\ copyStatus' = [copyStatus EXCEPT ![c] = "loaned"]
      /\ copyBranch' = copyBranch
  BY <1>1 DEF LendTo
<1>3. TypeOK'
  BY <1>1 DEF LendTo, TypeOK, CopyStatus, LoanStatus, HoldStatus
<1>4. Requests'
  BY <1>1 DEF Requests, ActiveHold, TypeOK
<1>5. LoanCustody'
  BY <1>1, CustodyAfterLoan
<1>6. Reservations'
  BY <1>1, <1>2, NoneAssumption DEF Reservations, ActiveHold, TypeOK
<1>7. StrandedOnlyByErasure'
  BY <1>1, <1>2 DEF StrandedOnlyByErasure, HoldOn, TypeOK
<1> QED BY <1>3, <1>4, <1>5, <1>6, <1>7

LEMMA BorrowShelfKeeps ==
  ASSUME Inv, NEW p \in Patrons, NEW w \in Works, NEW c \in Copies,
         NEW l \in LoanIds, NEW override \in BOOLEAN,
         BorrowShelf(p, w, c, l, override)
  PROVE  Inv'
<1> USE DEF Inv
<1>1. /\ copyStatus[c] = "available" /\ LendTo(p, c, l)
      /\ UNCHANGED <<holdStatus, holdPatron, holdWork, holdBranch, holdCopy,
                     holdLoan, attempts>>
  BY DEF BorrowShelf, Shelf, holdVars, requestVars
<1>2. /\ copyStatus' = [copyStatus EXCEPT ![c] = "loaned"]
      /\ copyBranch' = copyBranch
  BY <1>1 DEF LendTo
<1>3. TypeOK'
  BY <1>1 DEF LendTo, TypeOK, CopyStatus, LoanStatus
<1>4. Requests'
  BY <1>1 DEF Requests, ActiveHold
<1>5. LoanCustody'
  BY <1>1, CustodyAfterLoan
<1>6. Reservations' /\ StrandedOnlyByErasure'
  BY <1>1, <1>2, ReservationsOfOthers DEF TypeOK
<1> QED BY <1>3, <1>4, <1>5, <1>6

-----------------------------------------------------------------------------
(* Ending, renewing and flagging loans.                                      *)

LEMMA ReturnKeeps ==
  ASSUME Inv, NEW l \in LoanIds, NEW settle \in Branches \cup {None},
         Return(l, settle)
  PROVE  Inv'
<1> DEFINE c == loanCopy[l]
           b == IF settle # None /\ c \in Floating THEN settle ELSE copyBranch[c]
<1> USE DEF Inv
<1>1. /\ ActiveLoan(l) /\ CloseLoan(l, "returned")
      /\ copyBranch' = [copyBranch EXCEPT ![c] = b]
      /\ Offer(c, b, holdStatus, holdCopy)
      /\ UNCHANGED <<copyVisible, requestVars, holdLoan, attempts, patronStatus>>
  BY DEF Return
<1>2. c \in Copies /\ copyStatus[c] = "loaned" /\ b \in Branches
  BY <1>1 DEF LoanCustody, TypeOK
<1>3. SettledBut(c, holdStatus, holdCopy)
  BY <1>2, LoanedIsSettled
<1>4. Settles(c, {"available", "on_hold", "in_transit"}, holdStatus, holdCopy)
  BY <1>1, <1>2, <1>3, OfferKeeps DEF TypeOK, HoldStatuses
<1>5. TypeOK'
  BY <1>1, <1>2, <1>4 DEF TypeOK, CloseLoan, LoanStatus, requestVars, Settles, HoldStatuses
<1>6. Requests'
  BY <1>1, <1>4 DEF Requests, ActiveHold, requestVars, Settles
<1>7. LoanCustody'
  <2>1. /\ copyStatus'[c] # "loaned"
        /\ \A d \in Copies \ {c} : copyStatus'[d] = copyStatus[d]
    BY <1>4 DEF Settles
  <2>2. /\ loanStatus' = [loanStatus EXCEPT ![l] = "returned"]
        /\ loanCopy' = loanCopy
        /\ \A k \in LoanIds \ {l} : loanPatron'[k] = loanPatron[k]
    BY <1>1 DEF CloseLoan, TypeOK
  <2> QED BY <1>1, <2>1, <2>2, CustodyAfterEnd DEF LoanStatus
<1> QED BY <1>4, <1>5, <1>6, <1>7 DEF Settles

\* A loan that ends with its copy lost or broken.
LEMMA LossKeeps ==
  ASSUME Inv, NEW l \in LoanIds,
         MarkLost(l) \/ ClaimsReturned(l) \/ ReturnDamaged(l)
  PROVE  Inv'
<1> DEFINE c == loanCopy[l]
<1> USE DEF Inv
<1>1. ActiveLoan(l)
  BY DEF MarkLost, ClaimsReturned, ReturnDamaged
<1>2. c \in Copies /\ copyStatus[c] = "loaned"
  BY <1>1 DEF LoanCustody
<1>3. PICK status \in {"lost", "claims_returned", "returned"} :
         loanStatus' = [loanStatus EXCEPT ![l] = status]
  BY DEF MarkLost, ClaimsReturned, ReturnDamaged, CloseLoan
<1>4. PICK gone \in {"lost", "repair"} :
         copyStatus' = [copyStatus EXCEPT ![c] = gone]
  BY <1>2 DEF MarkLost, ClaimsReturned, ReturnDamaged, TypeOK
<1>5. UNCHANGED <<copyBranch, copyVisible, loanCopy, renewals, holdVars, patronStatus>>
  BY DEF MarkLost, ClaimsReturned, ReturnDamaged, CloseLoan
<1>6. /\ loanPatron' \in [LoanIds -> Patrons \cup {None}]
      /\ \A k \in LoanIds \ {l} : loanPatron'[k] = loanPatron[k]
  BY DEF MarkLost, ClaimsReturned, ReturnDamaged, CloseLoan, TypeOK
<1>7. TypeOK'
  BY <1>3, <1>4, <1>5, <1>6 DEF TypeOK, LoanStatus, CopyStatus, holdVars, requestVars
<1>8. Requests'
  BY <1>5 DEF Requests, ActiveHold, holdVars, requestVars
<1>9. LoanCustody'
  <2>1. /\ copyStatus'[c] # "loaned"
        /\ \A d \in Copies \ {c} : copyStatus'[d] = copyStatus[d]
    BY <1>2, <1>4 DEF TypeOK
  <2>2. status \in LoanStatus \ {"active", "overdue"}
    BY DEF LoanStatus
  <2> QED BY <1>1, <1>3, <1>5, <1>6, <2>1, <2>2, CustodyAfterEnd
<1>10. Reservations' /\ StrandedOnlyByErasure'
  BY <1>2, <1>4, <1>5, ReservationsOfOthers DEF TypeOK, holdVars, requestVars
<1> QED BY <1>7, <1>8, <1>9, <1>10

LEMMA RenewKeeps ==
  ASSUME Inv, NEW l \in LoanIds, Renew(l)
  PROVE  Inv'
<1> USE DEF Inv, Renew, copyVars, holdVars, requestVars
<1>1. TypeOK'
  <2>1. renewals[l] + 1 \in 0 .. MaxRenewals
    BY PolicyAssumption DEF TypeOK, RenewalsLeft
  <2> QED BY <2>1 DEF TypeOK, LoanStatus
<1>2. Requests'
  BY DEF Requests, ActiveHold
<1>3. LoanCustody'
  BY DEF LoanCustody, ActiveLoan, TypeOK
<1>4. Reservations' /\ StrandedOnlyByErasure'
  BY ReservationsOfOthers
<1> QED BY <1>1, <1>2, <1>3, <1>4

LEMMA FlagOverdueKeeps ==
  ASSUME Inv, NEW S \in SUBSET LoanIds, FlagOverdue(S)
  PROVE  Inv'
<1> USE DEF Inv, FlagOverdue, copyVars, holdVars, requestVars
<1>1. TypeOK'
  BY DEF TypeOK, LoanStatus
<1>2. Requests'
  BY DEF Requests, ActiveHold
<1>3. LoanCustody'
  <2>1. \A l \in LoanIds : ActiveLoan(l)' <=> ActiveLoan(l)
    BY DEF ActiveLoan
  <2> QED BY <2>1 DEF LoanCustody
<1>4. Reservations' /\ StrandedOnlyByErasure'
  BY ReservationsOfOthers
<1> QED BY <1>1, <1>2, <1>3, <1>4

-----------------------------------------------------------------------------
(* Placing and ending holds.                                                 *)

LEMMA PlaceHoldKeeps ==
  ASSUME Inv, NEW p \in Patrons, NEW w \in Works, NEW b \in Branches,
         NEW h \in HoldIds, NEW locked \in SUBSET Copies,
         PlaceHold(p, w, b, h, locked)
  PROVE  Inv'
<1> DEFINE hs == [holdStatus EXCEPT ![h] = "waiting"]
<1> USE DEF Inv
<1>1. /\ holdStatus[h] = "absent" /\ holdCopy[h] = None
      /\ holdPatron' = [holdPatron EXCEPT ![h] = p]
      /\ holdWork' = [holdWork EXCEPT ![h] = w]
      /\ holdBranch' = [holdBranch EXCEPT ![h] = b]
      /\ UNCHANGED <<copyBranch, copyVisible, loanVars, holdLoan, attempts,
                     patronStatus>>
  BY DEF PlaceHold, NextHold, Requests
<1>2. CASE holdStatus' = hs /\ UNCHANGED <<copyStatus, holdCopy>>
  <2>1. TypeOK'
    BY <1>1, <1>2 DEF TypeOK, HoldStatus, loanVars
  <2>2. Requests'
    BY <1>1, <1>2 DEF Requests, ActiveHold, TypeOK
  <2>3. LoanCustody'
    BY <1>1, <1>2, CustodyOfOthers
  <2>4. Reservations'
    BY <1>1, <1>2 DEF Reservations, ActiveHold, TypeOK
  <2>5. StrandedOnlyByErasure'
    BY <1>1, <1>2 DEF StrandedOnlyByErasure, HoldOn, TypeOK
  <2> QED BY <2>1, <2>2, <2>3, <2>4, <2>5
<1>3. CASE \E c \in PickFrom(w, b, locked) : Reserve(h, c, copyBranch[c], b, hs, holdCopy)
  <2>1. PICK c \in PickFrom(w, b, locked) : Reserve(h, c, copyBranch[c], b, hs, holdCopy)
    BY <1>3
  <2>2. c \in Copies /\ WorkOf[c] = w /\ copyStatus[c] = "available"
    BY DEF PickFrom, Shelf
  <2>3. copyBranch[c] \in Branches /\ copyBranch' = [copyBranch EXCEPT ![c] = copyBranch[c]]
    BY <1>1, <2>2 DEF TypeOK
  <2>4. hs \in [HoldIds -> HoldStatuses] /\ hs[h] = "waiting" /\ holdBranch'[h] = b
        /\ holdWork'[h] = w
    BY <1>1 DEF TypeOK, HoldStatuses, HoldStatus
  <2>5. \A k \in HoldIds \ {h} :
            holdBranch'[k] = holdBranch[k] /\ holdWork'[k] = holdWork[k]
    BY <1>1 DEF TypeOK
  <2>6. SettledBut(c, hs, holdCopy)
    <3>1. SettledBut(c, holdStatus, holdCopy)
      BY <2>2, LoanedIsSettled
    <3> QED BY <1>1, <3>1 DEF SettledBut, TypeOK
  <2>7. Settles(c, {"on_hold", "in_transit"}, hs, holdCopy)
    BY <1>1, <2>1, <2>2, <2>3, <2>4, <2>5, <2>6, ReserveKeeps DEF TypeOK
  <2>8. TypeOK'
    BY <1>1, <2>2, <2>7 DEF TypeOK, Settles, HoldStatuses, loanVars
  <2>9. Requests'
    BY <1>1, <2>4, <2>7 DEF Requests, ActiveHold, TypeOK, Settles
  <2>10. LoanCustody'
    BY <1>1, <2>2, <2>7, CustodyOfOthers DEF Settles
  <2> QED BY <2>7, <2>8, <2>9, <2>10 DEF Settles
<1> QED BY <1>2, <1>3 DEF PlaceHold

\* Ending an active hold, whatever ends it.
LEMMA EndHoldKeeps ==
  ASSUME Inv, NEW h \in HoldIds, ActiveHold(h),
         NEW status \in {"cancelled", "expired"}, EndHold(h, status)
  PROVE  Inv'
<1> DEFINE hs == [holdStatus EXCEPT ![h] = status]
           c  == holdCopy[h]
<1> USE DEF Inv
<1>1. UNCHANGED <<copyBranch, copyVisible, loanVars, requestVars, holdLoan,
                  attempts, patronStatus>>
  BY DEF EndHold
<1>2. hs \in [HoldIds -> HoldStatuses] /\ hs[h] = status
  BY DEF TypeOK, HoldStatuses, HoldStatus
<1>3. CASE c # None /\ Offer(c, copyBranch[c], hs, holdCopy)
  <2>1. c \in Copies /\ copyBranch[c] \in Branches
        /\ copyBranch' = [copyBranch EXCEPT ![c] = copyBranch[c]]
    BY <1>1, <1>3 DEF TypeOK
  <2>2. copyStatus[c] \in {"on_hold", "in_transit"}
    BY <1>3 DEF Reservations, ActiveHold
  <2>3. SettledBut(c, hs, holdCopy)
    BY <1>3, NoneAssumption DEF SettledBut, Reservations, StrandedOnlyByErasure, HoldOn, TypeOK, ActiveHold
  <2>4. Settles(c, {"available", "on_hold", "in_transit"}, hs, holdCopy)
    BY <1>1, <1>2, <1>3, <2>1, <2>3, OfferKeeps DEF TypeOK
  <2>5. TypeOK'
    BY <1>1, <2>1, <2>4 DEF TypeOK, Settles, HoldStatuses, loanVars, requestVars
  <2>6. Requests'
    BY <1>1, <1>2, <2>4 DEF Requests, ActiveHold, TypeOK, Settles, requestVars
  <2>7. LoanCustody'
    BY <1>1, <2>2, <2>4, CustodyOfOthers DEF Settles
  <2> QED BY <2>4, <2>5, <2>6, <2>7 DEF Settles
<1>4. CASE c = None /\ holdStatus' = hs /\ UNCHANGED <<copyStatus, holdCopy>>
  <2>1. TypeOK'
    BY <1>1, <1>4 DEF TypeOK, HoldStatus, loanVars, requestVars
  <2>2. Requests'
    BY <1>1, <1>4 DEF Requests, ActiveHold, TypeOK, requestVars
  <2>3. LoanCustody'
    BY <1>1, <1>4, CustodyOfOthers
  <2>4. Reservations'
    BY <1>1, <1>4 DEF Reservations, ActiveHold, TypeOK, requestVars
  <2>5. StrandedOnlyByErasure'
    BY <1>1, <1>4, NoneAssumption DEF StrandedOnlyByErasure, HoldOn, TypeOK
  <2> QED BY <2>1, <2>2, <2>3, <2>4, <2>5
<1> QED BY <1>3, <1>4 DEF EndHold

-----------------------------------------------------------------------------
(* Transfers.                                                                *)

LEMMA ReceiveKeeps ==
  ASSUME Inv, NEW c \in Copies, Receive(c)
  PROVE  Inv'
<1> USE DEF Inv
<1>1. /\ copyStatus[c] = "in_transit"
      /\ UNCHANGED <<copyVisible, loanVars, requestVars, holdLoan, attempts,
                     patronStatus>>
  BY DEF Receive
<1>2. CASE \E h \in HoldIds :
             /\ Oldest(h, {k \in HoldIds : TransitHold(c, k)})
             /\ copyBranch' = [copyBranch EXCEPT ![c] = holdBranch[h]]
             /\ MarkReady(h, c, holdStatus, holdCopy)
  <2>1. PICK h \in HoldIds :
             /\ TransitHold(c, h)
             /\ copyBranch' = [copyBranch EXCEPT ![c] = holdBranch[h]]
             /\ MarkReady(h, c, holdStatus, holdCopy)
    BY <1>2 DEF Oldest
  <2>2. /\ holdStatus[h] = "waiting" /\ holdCopy[h] = c
        /\ copyStatus' = [copyStatus EXCEPT ![c] = "on_hold"]
        /\ holdStatus' = [holdStatus EXCEPT ![h] = "ready"]
        /\ holdCopy' = holdCopy
    BY <2>1 DEF TransitHold, MarkReady, TypeOK
  <2>3. TypeOK'
    BY <1>1, <2>1, <2>2 DEF TypeOK, Requests, ActiveHold, CopyStatus, HoldStatus,
                            loanVars, requestVars
  <2>4. Requests'
    BY <1>1, <2>2 DEF Requests, ActiveHold, TypeOK, requestVars
  <2>5. LoanCustody'
    BY <1>1, <2>2, CustodyOfOthers DEF TypeOK
  <2>6. Reservations'
    BY <1>1, <2>1, <2>2, NoneAssumption DEF Reservations, ActiveHold, TypeOK, requestVars
  <2>7. StrandedOnlyByErasure'
    BY <1>1, <2>2 DEF StrandedOnlyByErasure, HoldOn, TypeOK
  <2> QED BY <2>3, <2>4, <2>5, <2>6, <2>7
<1>3. CASE /\ \A h \in HoldIds : ~TransitHold(c, h)
           /\ copyStatus' = [copyStatus EXCEPT ![c] = "available"]
           /\ UNCHANGED <<copyBranch, holdStatus, holdCopy>>
  <2>1. TypeOK'
    BY <1>1, <1>3 DEF TypeOK, CopyStatus, loanVars, requestVars
  <2>2. Requests'
    BY <1>1, <1>3 DEF Requests, ActiveHold, requestVars
  <2>3. LoanCustody'
    BY <1>1, <1>3, CustodyOfOthers DEF TypeOK
  <2>4. Reservations'
    BY <1>1, <1>3 DEF Reservations, ActiveHold, TypeOK, TransitHold, requestVars
  <2>5. StrandedOnlyByErasure'
    BY <1>1, <1>3 DEF StrandedOnlyByErasure, HoldOn, TypeOK
  <2> QED BY <2>1, <2>2, <2>3, <2>4, <2>5
<1> QED BY <1>2, <1>3 DEF Receive

LEMMA StaffCheckinKeeps ==
  ASSUME Inv, NEW c \in Copies, StaffCheckin(c)
  PROVE  Inv'
<1>1. CASE Receive(c)
  BY <1>1, ReceiveKeeps
<1>2. CASE \E l \in LoanIds : Return(l, None)
  BY <1>2, ReturnKeeps
<1> QED BY <1>1, <1>2 DEF StaffCheckin

\* With the holds it was on its way to forgotten, a copy in transit is free.
LEMMA TransitIsSettled ==
  ASSUME Inv, NEW c \in Copies, copyStatus[c] = "in_transit",
         NEW hc \in [HoldIds -> Copies \cup {None}],
         \A k \in HoldIds : IF TransitHold(c, k) THEN hc[k] = None
                                                 ELSE hc[k] = holdCopy[k]
  PROVE  SettledBut(c, holdStatus, hc)
BY NoneAssumption DEF Inv, SettledBut, Reservations, StrandedOnlyByErasure, HoldOn,
                      TypeOK, ActiveHold, TransitHold

LEMMA ExpireTransitKeeps ==
  ASSUME Inv, NEW c \in Copies, ExpireTransit(c)
  PROVE  Inv'
<1> USE DEF Inv
<1>1. /\ copyStatus[c] = "in_transit"
      /\ UNCHANGED <<copyBranch, copyVisible, loanVars, requestVars, holdLoan,
                     patronStatus>>
      /\ copyBranch[c] \in Branches
      /\ copyBranch' = [copyBranch EXCEPT ![c] = copyBranch[c]]
  BY DEF ExpireTransit, TypeOK
<1>2. attempts' \in [HoldIds -> 0 .. MaxAttempts]
  <2>1. \A h \in HoldIds : OneMoreAttempt(h) \in 0 .. MaxAttempts
    BY PolicyAssumption DEF OneMoreAttempt, TypeOK
  <2>2. ASSUME NEW h \in HoldIds, attempts' = [attempts EXCEPT ![h] = OneMoreAttempt(h)]
        PROVE  attempts' \in [HoldIds -> 0 .. MaxAttempts]
    BY <2>1, <2>2 DEF TypeOK
  <2> QED BY <2>2 DEF ExpireTransit, TransitFailed, TypeOK
<1>3. ASSUME NEW hc \in [HoldIds -> Copies \cup {None}],
             SettledBut(c, holdStatus, hc),
             \A k \in HoldIds : hc[k] \in {None, holdCopy[k]},
             Offer(c, copyBranch[c], holdStatus, hc)
      PROVE  Inv'
  <2>1. Settles(c, {"available", "on_hold", "in_transit"}, holdStatus, hc)
    BY <1>1, <1>3, OfferKeeps DEF TypeOK, HoldStatuses
  <2>2. TypeOK'
    BY <1>1, <1>2, <2>1 DEF TypeOK, Settles, HoldStatuses, loanVars, requestVars
  <2>3. Requests'
    BY <1>1, <1>3, <2>1 DEF Requests, ActiveHold, Settles, requestVars
  <2>4. LoanCustody'
    BY <1>1, <2>1, CustodyOfOthers DEF Settles
  <2> QED BY <2>1, <2>2, <2>3, <2>4 DEF Settles
<1>4. CASE \E h \in HoldIds : TransitFailed(c, h)
  <2>1. PICK h \in HoldIds : TransitFailed(c, h)
    BY <1>4
  <2> DEFINE hc == [holdCopy EXCEPT ![h] = None]
  <2>2. /\ hc \in [HoldIds -> Copies \cup {None}]
        /\ \A k \in HoldIds : hc[k] \in {None, holdCopy[k]}
    BY DEF TypeOK
  <2>3. SettledBut(c, holdStatus, hc)
    <3>1. \A k \in HoldIds : IF TransitHold(c, k) THEN hc[k] = None
                                                  ELSE hc[k] = holdCopy[k]
      BY <2>1, NoneAssumption DEF TransitFailed, TransitHold, Reservations, ActiveHold, TypeOK
    <3> QED BY <1>1, <2>2, <3>1, TransitIsSettled
  <2>4. CASE copyStatus' = [copyStatus EXCEPT ![c] = "repair"]
             /\ holdCopy' = hc /\ UNCHANGED holdStatus
    <3>1. TypeOK'
      BY <1>1, <1>2, <2>2, <2>4 DEF TypeOK, CopyStatus, loanVars, requestVars
    <3>2. Requests'
      BY <1>1, <2>2, <2>4 DEF Requests, ActiveHold, requestVars
    <3>3. LoanCustody'
      BY <1>1, <2>4, CustodyOfOthers DEF TypeOK
    <3>4. Reservations'
      BY <1>1, <2>2, <2>3, <2>4 DEF Reservations, SettledBut, ActiveHold, TypeOK, requestVars
    <3>5. StrandedOnlyByErasure'
      BY <2>3, <2>4 DEF StrandedOnlyByErasure, HoldOn, SettledBut, TypeOK
    <3> QED BY <3>1, <3>2, <3>3, <3>4, <3>5
  <2>5. CASE Offer(c, copyBranch[c], holdStatus, hc)
    BY <1>3, <2>2, <2>3, <2>5
  <2> QED BY <2>1, <2>4, <2>5 DEF TransitFailed
<1>5. CASE /\ \A h \in HoldIds : ~TransitHold(c, h)
           /\ Offer(c, copyBranch[c], holdStatus, holdCopy)
  <2>1. SettledBut(c, holdStatus, holdCopy)
    BY <1>1, <1>5, TransitIsSettled DEF TypeOK
  <2> QED BY <1>3, <1>5, <2>1 DEF TypeOK
<1> QED BY <1>4, <1>5 DEF ExpireTransit

LEMMA ReconcileKeeps ==
  ASSUME Inv, NEW c \in Copies, Reconcile(c)
  PROVE  Inv'
<1> USE DEF Inv
<1>1. /\ copyStatus[c] = "available" /\ copyBranch[c] \in Branches
      /\ copyBranch' = [copyBranch EXCEPT ![c] = copyBranch[c]]
      /\ Offer(c, copyBranch[c], holdStatus, holdCopy)
      /\ UNCHANGED <<copyBranch, copyVisible, loanVars, requestVars, holdLoan,
                     attempts, patronStatus>>
  BY DEF Reconcile, Shelf, TypeOK
<1>2. SettledBut(c, holdStatus, holdCopy)
  BY <1>1, LoanedIsSettled
<1>3. Settles(c, {"available", "on_hold", "in_transit"}, holdStatus, holdCopy)
  BY <1>1, <1>2, OfferKeeps DEF TypeOK, HoldStatuses
<1>4. TypeOK'
  BY <1>1, <1>3 DEF TypeOK, Settles, HoldStatuses, loanVars, requestVars
<1>5. Requests'
  BY <1>1, <1>3 DEF Requests, ActiveHold, Settles, requestVars
<1>6. LoanCustody'
  BY <1>1, <1>3, CustodyOfOthers DEF Settles
<1> QED BY <1>3, <1>4, <1>5, <1>6 DEF Settles

-----------------------------------------------------------------------------
(* Stock and patrons.                                                        *)

\* A step of the stock that leaves alone the copies that are out, set aside or
\* in transit, and every loan and hold.
LEMMA StockKeeps ==
  ASSUME Inv,
         copyStatus' \in [Copies -> CopyStatus],
         copyBranch' \in [Copies -> Branches],
         copyVisible' \in [Copies -> BOOLEAN],
         \A c \in Copies :
            \/ copyStatus'[c] = copyStatus[c] /\ copyBranch'[c] = copyBranch[c]
            \/ /\ copyStatus[c] \notin {"loaned", "on_hold", "in_transit"}
               /\ copyStatus'[c] \notin {"loaned", "on_hold", "in_transit"},
         UNCHANGED <<loanVars, holdVars, patronStatus>>
  PROVE  Inv'
<1> USE DEF Inv
<1>1. UNCHANGED <<holdStatus, holdPatron, holdWork, holdBranch, holdCopy, holdLoan,
                  attempts>>
  BY DEF holdVars, requestVars
<1>2. TypeOK'
  BY <1>1 DEF TypeOK, loanVars
<1>3. Requests'
  BY <1>1 DEF Requests, ActiveHold
<1>4. LoanCustody'
  BY CustodyOfOthers
<1>5. Reservations' /\ StrandedOnlyByErasure'
  BY <1>1, ReservationsOfOthers
<1> QED BY <1>2, <1>3, <1>4, <1>5

LEMMA StockStepKeeps ==
  ASSUME Inv, StockStep
  PROVE  Inv'
<1> USE DEF Inv, TypeOK, CopyStatus
<1>1. ASSUME NEW c \in Copies, StaffCheckin(c) PROVE Inv'
  BY <1>1, StaffCheckinKeeps
<1>2. ASSUME NEW c \in Copies, Retire(c) PROVE Inv'
  <2>1. copyStatus[c] \notin {"loaned", "on_hold", "in_transit"}
    BY <1>2 DEF Retire, Retirable, NotOnLoan, LoanCustody
  <2> QED BY <1>2, <2>1, StockKeeps DEF Retire
<1>3. ASSUME NEW c \in Copies, NEW b \in Branches, Move(c, b) PROVE Inv'
  BY <1>3, StockKeeps DEF Move
<1>4. ASSUME NEW c \in Copies, IllReserve(c) PROVE Inv'
  BY <1>4, StockKeeps DEF IllReserve, Shelf
<1>5. ASSUME NEW c \in Copies, IllRelease(c) PROVE Inv'
  BY <1>5, StockKeeps DEF IllRelease
<1>6. ASSUME NEW S \in SUBSET Copies, NEW s \in {"available", "repair"},
             BulkStatus(S, s)
      PROVE  Inv'
  BY <1>6, StockKeeps DEF BulkStatus, Mutable
<1>7. ASSUME NEW S \in SUBSET Copies, NEW v \in BOOLEAN, BulkVisible(S, v)
      PROVE  Inv'
  BY <1>7, StockKeeps DEF BulkVisible, Mutable
<1>8. ASSUME NEW S \in SUBSET Copies, Weed(S) PROVE Inv'
  BY <1>8, StockKeeps DEF Weed, Weedable
<1> QED BY <1>1, <1>2, <1>3, <1>4, <1>5, <1>6, <1>7, <1>8 DEF StockStep

LEMMA SetPatronStatusKeeps ==
  ASSUME Inv, NEW p \in Patrons, NEW s \in PatronStatus, SetPatronStatus(p, s)
  PROVE  Inv'
<1> USE DEF Inv, SetPatronStatus, copyVars, loanVars, holdVars, requestVars
<1>1. TypeOK'
  BY DEF TypeOK
<1>2. Requests'
  BY DEF Requests, ActiveHold
<1>3. LoanCustody'
  BY CustodyOfOthers
<1>4. Reservations' /\ StrandedOnlyByErasure'
  BY ReservationsOfOthers
<1> QED BY <1>1, <1>2, <1>3, <1>4

LEMMA EraseKeeps ==
  ASSUME Inv, NEW p \in Patrons, Erase(p)
  PROVE  Inv'
<1> USE NoneAssumption DEF Inv, Erase, copyVars
<1>1. TypeOK'
  BY DEF TypeOK
<1>2. Requests'
  BY DEF Requests, ActiveHold, TypeOK
<1>3. LoanCustody'
  <2>1. \A l \in LoanIds : ActiveLoan(l) => loanPatron[l] # p
    BY DEF LoansOf
  <2> QED BY <2>1 DEF LoanCustody, ActiveLoan
<1>4. \A h \in HoldIds : ActiveHold(h)' =>
         ActiveHold(h) /\ holdStatus'[h] = holdStatus[h] /\ holdCopy'[h] = holdCopy[h]
  BY DEF ActiveHold
<1>5. Reservations'
  BY <1>4 DEF Reservations, ActiveHold
<1>6. StrandedOnlyByErasure'
  BY DEF StrandedOnlyByErasure, HoldOn, Requests, ActiveHold, TypeOK
<1> QED BY <1>1, <1>2, <1>3, <1>5, <1>6

-----------------------------------------------------------------------------
(* The theorems.                                                             *)

LEMMA StepKeepsInv == Inv /\ [Next]_vars => Inv'
<1> SUFFICES ASSUME Inv, [Next]_vars PROVE Inv'
  OBVIOUS
<1>1. CASE LoanStep
  <2>1. ASSUME NEW p \in Patrons, NEW w \in Works, NEW l \in LoanIds,
               NEW override \in BOOLEAN,
               \/ \E h \in HoldIds : BorrowHeld(p, w, h, l, override)
               \/ \E c \in Copies : BorrowShelf(p, w, c, l, override)
        PROVE  Inv'
    BY <2>1, BorrowHeldKeeps, BorrowShelfKeeps
  <2>2. ASSUME NEW l \in LoanIds, NEW b \in Branches \cup {None}, Return(l, b)
        PROVE  Inv'
    BY <2>2, ReturnKeeps
  <2>3. ASSUME NEW l \in LoanIds,
               Renew(l) \/ MarkLost(l) \/ ClaimsReturned(l) \/ ReturnDamaged(l)
        PROVE  Inv'
    BY <2>3, RenewKeeps, LossKeeps
  <2> QED BY <1>1, <2>1, <2>2, <2>3 DEF LoanStep
<1>2. CASE HoldStep
  <2>1. ASSUME NEW h \in HoldIds, CancelHold(h) PROVE Inv'
    BY <2>1, EndHoldKeeps DEF CancelHold
  <2> QED BY <1>2, <2>1, PlaceHoldKeeps DEF HoldStep
<1>3. CASE StockStep
  BY <1>3, StockStepKeeps
<1>4. CASE PatronStep
  BY <1>4, SetPatronStatusKeeps, EraseKeeps DEF PatronStep
<1>5. CASE SweepStep
  <2>1. ASSUME NEW h \in HoldIds, ExpireReady(h) PROVE Inv'
    BY <2>1, EndHoldKeeps DEF ExpireReady, ActiveHold
  <2> QED BY <1>5, <2>1, FlagOverdueKeeps, ExpireTransitKeeps, ReconcileKeeps
          DEF SweepStep
<1>6. CASE UNCHANGED vars
  BY <1>6 DEF vars, copyVars, loanVars, holdVars, requestVars, Inv, TypeOK, Requests,
              LoanCustody, Reservations, StrandedOnlyByErasure, ActiveLoan,
              ActiveHold, HoldOn
<1> QED BY <1>1, <1>2, <1>3, <1>4, <1>5, <1>6 DEF Next

LEMMA Invariance == Spec => []Inv
BY InitInv, StepKeepsInv, PTL DEF Spec

\* Whatever the stock, the policy and the number of rows, every row keeps to its
\* fields' types; renewals never pass the limit of the policy (renew_loan).
THEOREM TypeCorrect == Spec => []TypeOK
<1>1. Inv => TypeOK
  BY DEF Inv
<1> QED BY <1>1, Invariance, PTL

\* A copy is loaned exactly while one active or overdue loan is on it, through
\* every service function of services.py and workflows.py.
THEOREM Custody == Spec => []LoanCustody
<1>1. Inv => LoanCustody
  BY DEF Inv
<1> QED BY <1>1, Invariance, PTL

\* Ready holds have their copy set aside at their branch, waiting ones theirs in
\* transit, and no copy is promised twice, through every offer and transfer.
THEOREM ReservationsKept == Spec => []Reservations
<1>1. Inv => Reservations
  BY DEF Inv
<1> QED BY <1>1, Invariance, PTL

\* Only the erasure of a patron (privacy.py) leaves a copy reserved for nobody.
THEOREM NothingElseStrands == Spec => []StrandedOnlyByErasure
<1>1. Inv => StrandedOnlyByErasure
  BY DEF Inv
<1> QED BY <1>1, Invariance, PTL

-----------------------------------------------------------------------------
(* What a step may never do.                                                 *)

\* A step serves the queue in order: a hold that is given a copy has no older
\* one for its work left waiting without.
InOrder ==
  \A g, h \in HoldIds :
     /\ holdCopy'[h] \notin {None, holdCopy[h]}
     /\ g < h
     /\ holdStatus'[g] = "waiting" /\ holdWork'[g] = holdWork'[h]
     => holdCopy'[g] # None

\* A step leaves a retired copy retired, and a lost one lost unless it is retired.
LeavesWithdrawn ==
  \A c \in Copies :
     /\ copyStatus[c] = "retired" => copyStatus'[c] = "retired"
     /\ copyStatus[c] = "lost" => copyStatus'[c] \in {"lost", "retired"}

\* A step that changes only copies of other statuses leaves the withdrawn alone.
LEMMA ChangesOthers ==
  ASSUME NEW c \in Copies, copyStatus[c] \notin {"retired", "lost"},
         \A d \in Copies \ {c} : copyStatus'[d] = copyStatus[d]
  PROVE  LeavesWithdrawn
BY DEF LeavesWithdrawn

\* Offering a copy touches no other copy, and serves the head of the queue.
LEMMA OfferInOrder ==
  ASSUME Inv, NEW c \in Copies, NEW b,
         NEW hs \in [HoldIds -> HoldStatuses],
         NEW hc \in [HoldIds -> Copies \cup {None}],
         \A k \in HoldIds : hc[k] \in {None, holdCopy[k]},
         UNCHANGED requestVars,
         Offer(c, b, hs, hc)
  PROVE  /\ \A d \in Copies \ {c} : copyStatus'[d] = copyStatus[d]
         /\ InOrder
<1>1. \A d \in Copies \ {c} : copyStatus'[d] = copyStatus[d]
  BY DEF Offer, Reserve, MarkReady, Ship, Inv, TypeOK
<1>2. CASE \E h \in HoldIds : /\ Oldest(h, Queue(hs, hc, WorkOf[c]))
                              /\ Reserve(h, c, b, holdBranch[h], hs, hc)
  <2>1. PICK h \in HoldIds : /\ Oldest(h, Queue(hs, hc, WorkOf[c]))
                             /\ Reserve(h, c, b, holdBranch[h], hs, hc)
    BY <1>2
  <2>2. /\ holdCopy' = [hc EXCEPT ![h] = c]
        /\ holdStatus' \in {hs, [hs EXCEPT ![h] = "ready"]}
        /\ holdWork' = holdWork
    BY <2>1 DEF Reserve, MarkReady, Ship, requestVars
  <2>3. \A g \in HoldIds : g < h /\ hs[g] = "waiting" /\ holdWork[g] = holdWork[h]
                           => hc[g] # None
    BY <2>1 DEF Oldest, Queue, HoldIds
  <2> QED BY <1>1, <2>2, <2>3 DEF InOrder, HoldIds
<1>3. CASE holdStatus' = hs /\ holdCopy' = hc
  BY <1>1, <1>3 DEF InOrder
<1> QED BY <1>2, <1>3 DEF Offer

\* A step that gives no hold a copy is in order.
LEMMA NothingGiven ==
  ASSUME \A h \in HoldIds : holdCopy'[h] \in {None, holdCopy[h]}
  PROVE  InOrder
BY DEF InOrder

LEMMA LoanStepWithinBounds == Inv /\ LoanStep => LeavesWithdrawn /\ InOrder
<1> SUFFICES ASSUME Inv, LoanStep PROVE LeavesWithdrawn /\ InOrder
  OBVIOUS
<1> USE DEF Inv
<1>1. ASSUME NEW p \in Patrons, NEW c \in Copies, NEW l \in LoanIds, LendTo(p, c, l),
             copyStatus[c] \in {"available", "on_hold"}, UNCHANGED holdCopy
      PROVE  LeavesWithdrawn /\ InOrder
  BY <1>1, ChangesOthers, NothingGiven DEF LendTo, TypeOK
<1>2. ASSUME NEW p \in Patrons, NEW w \in Works, NEW l \in LoanIds,
             NEW override \in BOOLEAN, NEW h \in HoldIds,
             BorrowHeld(p, w, h, l, override)
      PROVE  LeavesWithdrawn /\ InOrder
  BY <1>1, <1>2 DEF BorrowHeld, TypeOK
<1>3. ASSUME NEW p \in Patrons, NEW w \in Works, NEW l \in LoanIds,
             NEW override \in BOOLEAN, NEW c \in Copies,
             BorrowShelf(p, w, c, l, override)
      PROVE  LeavesWithdrawn /\ InOrder
  BY <1>1, <1>3 DEF BorrowShelf, Shelf, holdVars
<1>4. \A l \in LoanIds : ActiveLoan(l) => loanCopy[l] \in Copies
                                        /\ copyStatus[loanCopy[l]] = "loaned"
  BY DEF LoanCustody
<1>5. ASSUME NEW l \in LoanIds, NEW b \in Branches \cup {None}, Return(l, b)
      PROVE  LeavesWithdrawn /\ InOrder
  <2> DEFINE c == loanCopy[l]
             at == IF b # None /\ c \in Floating THEN b ELSE copyBranch[c]
  <2>1. Offer(c, at, holdStatus, holdCopy) /\ ActiveLoan(l) /\ UNCHANGED requestVars
    BY <1>5 DEF Return
  <2>2. (\A d \in Copies \ {c} : copyStatus'[d] = copyStatus[d]) /\ InOrder
    BY <1>4, <2>1, OfferInOrder DEF TypeOK, HoldStatuses
  <2> QED BY <1>4, <2>1, <2>2, ChangesOthers
<1>6. ASSUME NEW l \in LoanIds,
             Renew(l) \/ MarkLost(l) \/ ClaimsReturned(l) \/ ReturnDamaged(l)
      PROVE  LeavesWithdrawn /\ InOrder
  <2>1. ActiveLoan(l) /\ UNCHANGED holdCopy
    BY <1>6 DEF Renew, MarkLost, ClaimsReturned, ReturnDamaged, holdVars
  <2>2. \A d \in Copies \ {loanCopy[l]} : copyStatus'[d] = copyStatus[d]
    BY <1>6 DEF Renew, MarkLost, ClaimsReturned, ReturnDamaged, copyVars, TypeOK
  <2> QED BY <1>4, <2>1, <2>2, ChangesOthers, NothingGiven
<1> QED BY <1>2, <1>3, <1>5, <1>6 DEF LoanStep

\* Ending a hold, whatever ends it.
LEMMA EndHoldWithinBounds ==
  ASSUME Inv, NEW h \in HoldIds, ActiveHold(h),
         NEW status \in {"cancelled", "expired"}, EndHold(h, status)
  PROVE  LeavesWithdrawn /\ InOrder
<1> DEFINE hs == [holdStatus EXCEPT ![h] = status]
           c  == holdCopy[h]
<1> USE DEF Inv
<1>1. CASE c # None /\ Offer(c, copyBranch[c], hs, holdCopy)
  <2>1. c \in Copies /\ copyStatus[c] \in {"on_hold", "in_transit"}
    BY <1>1 DEF TypeOK, Reservations, ActiveHold
  <2>2. hs \in [HoldIds -> HoldStatuses] /\ UNCHANGED requestVars
    BY DEF TypeOK, HoldStatuses, HoldStatus, EndHold
  <2>3. (\A d \in Copies \ {c} : copyStatus'[d] = copyStatus[d]) /\ InOrder
    BY <1>1, <2>1, <2>2, OfferInOrder DEF TypeOK
  <2> QED BY <2>1, <2>3, ChangesOthers
<1>2. CASE UNCHANGED <<copyStatus, holdCopy>>
  BY <1>2, NothingGiven DEF LeavesWithdrawn
<1> QED BY <1>1, <1>2 DEF EndHold

LEMMA HoldStepWithinBounds == Inv /\ HoldStep => LeavesWithdrawn /\ InOrder
<1> SUFFICES ASSUME Inv, HoldStep PROVE LeavesWithdrawn /\ InOrder
  OBVIOUS
<1> USE DEF Inv
<1>1. ASSUME NEW h \in HoldIds, NEW p \in Patrons, NEW w \in Works, NEW b \in Branches,
             NEW locked \in SUBSET Copies, PlaceHold(p, w, b, h, locked)
      PROVE  LeavesWithdrawn /\ InOrder
  <2> DEFINE hs == [holdStatus EXCEPT ![h] = "waiting"]
  <2>1. CASE UNCHANGED <<copyStatus, holdCopy>>
    BY <2>1, NothingGiven DEF LeavesWithdrawn
  <2>2. CASE /\ ~Waiting(w)
             /\ \E c \in PickFrom(w, b, locked) :
                   Reserve(h, c, copyBranch[c], b, hs, holdCopy)
    <3>1. PICK c \in Copies : /\ copyStatus[c] = "available"
                              /\ Reserve(h, c, copyBranch[c], b, hs, holdCopy)
      BY <2>2 DEF PickFrom, Shelf
    <3>2. /\ \A d \in Copies \ {c} : copyStatus'[d] = copyStatus[d]
          /\ \A k \in HoldIds \ {h} : /\ holdStatus'[k] = holdStatus[k]
                                       /\ holdCopy'[k] = holdCopy[k]
                                       /\ holdWork'[k] = holdWork[k]
          /\ holdWork'[h] = w
      BY <1>1, <3>1 DEF PlaceHold, Reserve, MarkReady, Ship, TypeOK
    <3>3. InOrder
      BY <2>2, <3>2 DEF InOrder, Waiting, HoldIds
    <3> QED BY <3>1, <3>2, <3>3, ChangesOthers
  <2> QED BY <1>1, <2>1, <2>2 DEF PlaceHold
<1>2. ASSUME NEW h \in HoldIds, CancelHold(h) PROVE LeavesWithdrawn /\ InOrder
  BY <1>2, EndHoldWithinBounds DEF CancelHold
<1> QED BY <1>1, <1>2 DEF HoldStep

LEMMA StockStepWithinBounds == Inv /\ StockStep => LeavesWithdrawn /\ InOrder
<1> SUFFICES ASSUME Inv, StockStep PROVE LeavesWithdrawn /\ InOrder
  OBVIOUS
<1> USE DEF Inv
<1>1. ASSUME NEW c \in Copies, Receive(c) PROVE LeavesWithdrawn /\ InOrder
  <2>1. /\ copyStatus[c] = "in_transit"
        /\ \A d \in Copies \ {c} : copyStatus'[d] = copyStatus[d]
    BY <1>1 DEF Receive, MarkReady, TypeOK
  <2>2. \A h \in HoldIds : holdCopy'[h] \in {None, holdCopy[h]}
    BY <1>1 DEF Receive, Oldest, TransitHold, MarkReady, TypeOK
  <2> QED BY <2>1, <2>2, ChangesOthers, NothingGiven
<1>2. ASSUME NEW c \in Copies, StaffCheckin(c) PROVE LeavesWithdrawn /\ InOrder
  <2>1. CASE \E l \in LoanIds : Return(l, None)
    BY <2>1, LoanStepWithinBounds DEF LoanStep
  <2> QED BY <1>1, <1>2, <2>1 DEF StaffCheckin
<1>3. ASSUME NEW c \in Copies,
             \/ Retire(c) \/ IllReserve(c) \/ IllRelease(c)
             \/ \E b \in Branches : Move(c, b)
      PROVE  LeavesWithdrawn /\ InOrder
  <2>1. LeavesWithdrawn
    BY <1>3 DEF LeavesWithdrawn, Retire, Move, IllReserve, IllRelease, Shelf, TypeOK
  <2> QED BY <1>3, <2>1, NothingGiven DEF Retire, Move, IllReserve, IllRelease, holdVars
<1>4. ASSUME NEW S \in SUBSET Copies,
             \/ \E s \in {"available", "repair"} : BulkStatus(S, s)
             \/ \E v \in BOOLEAN : BulkVisible(S, v)
             \/ Weed(S)
      PROVE  LeavesWithdrawn /\ InOrder
  <2>1. LeavesWithdrawn
    BY <1>4 DEF LeavesWithdrawn, BulkStatus, BulkVisible, Weed, Mutable, Weedable, TypeOK
  <2> QED BY <1>4, <2>1, NothingGiven DEF BulkStatus, BulkVisible, Weed, holdVars
<1> QED BY <1>2, <1>3, <1>4 DEF StockStep

LEMMA PatronStepWithinBounds == Inv /\ PatronStep => LeavesWithdrawn /\ InOrder
<1> SUFFICES ASSUME Inv, PatronStep PROVE LeavesWithdrawn /\ InOrder
  OBVIOUS
<1>1. UNCHANGED copyStatus
  BY DEF PatronStep, SetPatronStatus, Erase, copyVars
<1>2. \A h \in HoldIds : holdCopy'[h] \in {None, holdCopy[h]}
  BY DEF PatronStep, SetPatronStatus, Erase, holdVars
<1> QED BY <1>1, <1>2, NothingGiven DEF LeavesWithdrawn

LEMMA SweepStepWithinBounds == Inv /\ SweepStep => LeavesWithdrawn /\ InOrder
<1> SUFFICES ASSUME Inv, SweepStep PROVE LeavesWithdrawn /\ InOrder
  OBVIOUS
<1> USE DEF Inv
<1>1. ASSUME NEW S \in SUBSET LoanIds, FlagOverdue(S) PROVE LeavesWithdrawn /\ InOrder
  BY <1>1, NothingGiven DEF FlagOverdue, copyVars, holdVars, LeavesWithdrawn
<1>2. ASSUME NEW h \in HoldIds, ExpireReady(h) PROVE LeavesWithdrawn /\ InOrder
  BY <1>2, EndHoldWithinBounds DEF ExpireReady, ActiveHold
<1>3. ASSUME NEW c \in Copies, copyStatus[c] \notin {"retired", "lost"},
             UNCHANGED requestVars,
             NEW hc \in [HoldIds -> Copies \cup {None}],
             \A k \in HoldIds : hc[k] \in {None, holdCopy[k]},
             Offer(c, copyBranch[c], holdStatus, hc)
      PROVE  LeavesWithdrawn /\ InOrder
  <2>1. (\A d \in Copies \ {c} : copyStatus'[d] = copyStatus[d]) /\ InOrder
    BY <1>3, OfferInOrder DEF TypeOK, HoldStatuses
  <2> QED BY <1>3, <2>1, ChangesOthers
<1>4. ASSUME NEW c \in Copies, ExpireTransit(c) PROVE LeavesWithdrawn /\ InOrder
  <2>1. copyStatus[c] = "in_transit" /\ UNCHANGED requestVars
    BY <1>4 DEF ExpireTransit
  <2>2. CASE Offer(c, copyBranch[c], holdStatus, holdCopy)
    BY <1>3, <2>1, <2>2 DEF TypeOK
  <2>3. ASSUME NEW h \in HoldIds, TransitFailed(c, h) PROVE LeavesWithdrawn /\ InOrder
    <3> DEFINE hc == [holdCopy EXCEPT ![h] = None]
    <3>1. /\ hc \in [HoldIds -> Copies \cup {None}]
          /\ \A k \in HoldIds : hc[k] \in {None, holdCopy[k]}
      BY DEF TypeOK
    <3>2. CASE copyStatus' = [copyStatus EXCEPT ![c] = "repair"] /\ holdCopy' = hc
      <4>1. \A d \in Copies \ {c} : copyStatus'[d] = copyStatus[d]
        BY <3>2 DEF TypeOK
      <4> QED BY <2>1, <3>1, <3>2, <4>1, ChangesOthers, NothingGiven
    <3>3. CASE Offer(c, copyBranch[c], holdStatus, hc)
      BY <1>3, <2>1, <3>1, <3>3
    <3> QED BY <2>3, <3>2, <3>3 DEF TransitFailed
  <2> QED BY <1>4, <2>2, <2>3 DEF ExpireTransit
<1>5. ASSUME NEW c \in Copies, Reconcile(c) PROVE LeavesWithdrawn /\ InOrder
  <2>1. /\ copyStatus[c] = "available" /\ UNCHANGED requestVars
        /\ Offer(c, copyBranch[c], holdStatus, holdCopy)
    BY <1>5 DEF Reconcile, Shelf
  <2> QED BY <1>3, <2>1 DEF TypeOK
<1> QED BY <1>1, <1>2, <1>4, <1>5 DEF SweepStep

LEMMA StepWithinBounds == Inv /\ Next => LeavesWithdrawn /\ InOrder
BY LoanStepWithinBounds, HoldStepWithinBounds, StockStepWithinBounds,
   PatronStepWithinBounds, SweepStepWithinBounds DEF Next

\* A retired copy never circulates again and a lost one is at most retired,
\* although cancel_hold, expire_ready_holds and return_loan write the status of
\* the copy without reading it.
THEOREM WithdrawnForGood == Spec => Withdrawn
<1>1. Inv /\ [Next]_vars => [LeavesWithdrawn]_vars
  BY StepWithinBounds
<1>2. Spec => [][LeavesWithdrawn]_vars
  BY <1>1, Invariance, PTL DEF Spec
<1> QED BY <1>2 DEF Withdrawn, LeavesWithdrawn

\* A hold is given a copy only when no older hold for the work waits without
\* one: by assign_copy_to_next_hold, place_hold and reconcile_holds alike.
THEOREM FirstComeFirstServed == Spec => QueueOrder
<1>1. Inv /\ [Next]_vars => [InOrder]_vars
  BY StepWithinBounds
<1>2. Spec => [][InOrder]_vars
  BY <1>1, Invariance, PTL DEF Spec
<1> QED BY <1>2 DEF QueueOrder, InOrder

-----------------------------------------------------------------------------
(* The limits of the policy.                                                 *)

\* The parts of PatronLimits.
LoanLimit == \A p \in Patrons : Cardinality(LoansOf(p)) <= MaxLoans

HoldLimit ==
  \A p \in Patrons : /\ Cardinality(HoldsOf(p)) <= MaxHolds
                     /\ \A g, h \in HoldsOf(p) : holdWork[g] = holdWork[h] => g = h

\* A step takes up no loan, and no hold, that was not active before.
NoNewLoan ==
  \A l \in LoanIds : ActiveLoan(l)' => ActiveLoan(l) /\ loanPatron'[l] = loanPatron[l]

NoNewHold ==
  \A h \in HoldIds : ActiveHold(h)' => /\ ActiveHold(h)
                                      /\ holdPatron'[h] = holdPatron[h]
                                      /\ holdWork'[h] = holdWork[h]

LEMMA RowsFinite ==
  ASSUME NEW m \in Nat, NEW S \in SUBSET (1 .. m)
  PROVE  IsFiniteSet(S) /\ Cardinality(S) \in Nat
<1>1. IsFiniteSet(1 .. m)
  BY FS_Interval
<1>2. IsFiniteSet(S)
  BY <1>1, FS_Subset
<1> QED BY <1>2, FS_CardinalityType

LEMMA FewerRows ==
  ASSUME NEW m \in Nat, NEW S \in SUBSET (1 .. m), NEW T \in SUBSET S
  PROVE  /\ Cardinality(S) \in Nat /\ Cardinality(T) \in Nat
         /\ Cardinality(T) <= Cardinality(S)
BY RowsFinite, FS_Subset

LEMMA OneRowMore ==
  ASSUME NEW m \in Nat, NEW S \in SUBSET (1 .. m), NEW n \in 1 .. m,
         NEW T \in SUBSET (S \cup {n})
  PROVE  /\ Cardinality(S) \in Nat /\ Cardinality(T) \in Nat
         /\ Cardinality(T) <= Cardinality(S) + 1
<1> DEFINE U == S \cup {n}
           c == Cardinality(S)
           d == Cardinality(U)
<1>1. IsFiniteSet(S) /\ c \in Nat
  BY RowsFinite
<1>2. U \in SUBSET (1 .. m)
  OBVIOUS
<1>3. d = IF n \in S THEN c ELSE c + 1
  BY ONLY <1>1, FS_AddElement, Zenon
<1>4. Cardinality(T) <= d /\ Cardinality(T) \in Nat /\ d \in Nat
  <2> HIDE DEF U
  <2> QED BY <1>2, FewerRows DEF U
<1> HIDE DEF c, d, U
<1>5. Cardinality(T) <= c + 1
  BY <1>1, <1>3, <1>4
<1> QED BY <1>1, <1>4, <1>5 DEF c

LEMMA LoansStay == ASSUME LoanLimit, NoNewLoan PROVE LoanLimit'
<1> SUFFICES ASSUME NEW p \in Patrons PROVE Cardinality(LoansOf(p)') <= MaxLoans
  BY DEF LoanLimit
<1>1. LoansOf(p) \in SUBSET LoanIds /\ LoansOf(p)' \in SUBSET LoansOf(p)
  BY DEF NoNewLoan, LoansOf
<1>2. /\ Cardinality(LoansOf(p)) \in Nat /\ Cardinality(LoansOf(p)') \in Nat
      /\ Cardinality(LoansOf(p)') <= Cardinality(LoansOf(p))
  BY <1>1, RowAssumption, FewerRows DEF LoanIds
<1> QED BY <1>2, PolicyAssumption DEF LoanLimit

LEMMA HoldsStay == ASSUME HoldLimit, NoNewHold PROVE HoldLimit'
<1> SUFFICES ASSUME NEW p \in Patrons
             PROVE  /\ Cardinality(HoldsOf(p)') <= MaxHolds
                    /\ \A g, h \in HoldsOf(p)' : holdWork'[g] = holdWork'[h] => g = h
  BY DEF HoldLimit
<1>1. HoldsOf(p) \in SUBSET HoldIds /\ HoldsOf(p)' \in SUBSET HoldsOf(p)
  BY DEF NoNewHold, HoldsOf
<1>2. /\ Cardinality(HoldsOf(p)) \in Nat /\ Cardinality(HoldsOf(p)') \in Nat
      /\ Cardinality(HoldsOf(p)') <= Cardinality(HoldsOf(p))
  BY <1>1, RowAssumption, FewerRows DEF HoldIds
<1>3. Cardinality(HoldsOf(p)') <= MaxHolds
  BY <1>2, PolicyAssumption DEF HoldLimit
<1>4. \A g \in HoldsOf(p)' : g \in HoldsOf(p) /\ holdWork'[g] = holdWork[g]
  BY DEF NoNewHold, HoldsOf
<1> QED BY <1>3, <1>4 DEF HoldLimit

\* borrow_work counts the patron's loans before it makes one.
LEMMA BorrowWithinLimit ==
  ASSUME TypeOK, LoanLimit, NEW p \in Patrons, NEW w \in Works, NEW c \in Copies,
         NEW l \in LoanIds, NEW override \in BOOLEAN,
         MayBorrow(p, w, override), LendTo(p, c, l)
  PROVE  LoanLimit'
<1> SUFFICES ASSUME NEW q \in Patrons PROVE Cardinality(LoansOf(q)') <= MaxLoans
  BY DEF LoanLimit
<1>1. LoansOf(q) \in SUBSET LoanIds
  BY DEF LoansOf
<1>2. CASE q = p
  <2>1. LoansOf(q)' \in SUBSET (LoansOf(q) \cup {l})
    BY DEF LoansOf, LendTo, ActiveLoan, TypeOK
  <2>2. /\ Cardinality(LoansOf(q)) \in Nat /\ Cardinality(LoansOf(q)') \in Nat
        /\ Cardinality(LoansOf(q)') <= Cardinality(LoansOf(q)) + 1
    BY <1>1, <2>1, RowAssumption, OneRowMore DEF LoanIds
  <2>3. Cardinality(LoansOf(q)) < MaxLoans
    BY <1>2 DEF MayBorrow
  <2> QED BY <2>2, <2>3, PolicyAssumption
<1>3. CASE q # p
  <2>1. LoansOf(q)' \in SUBSET LoansOf(q)
    BY <1>3 DEF LoansOf, LendTo, ActiveLoan, TypeOK
  <2>2. /\ Cardinality(LoansOf(q)) \in Nat /\ Cardinality(LoansOf(q)') \in Nat
        /\ Cardinality(LoansOf(q)') <= Cardinality(LoansOf(q))
    BY <1>1, <2>1, RowAssumption, FewerRows DEF LoanIds
  <2> QED BY <2>2, PolicyAssumption DEF LoanLimit
<1> QED BY <1>2, <1>3

\* place_hold counts the patron's holds, and asks for another on the work.
LEMMA HoldWithinLimit ==
  ASSUME TypeOK, HoldLimit, NEW p \in Patrons, NEW w \in Works, NEW h \in HoldIds,
         NextHold(h), MayHold(p, w),
         holdPatron' = [holdPatron EXCEPT ![h] = p],
         holdWork' = [holdWork EXCEPT ![h] = w],
         \A k \in HoldIds \ {h} : holdStatus'[k] = holdStatus[k]
  PROVE  HoldLimit'
<1> SUFFICES ASSUME NEW q \in Patrons
             PROVE  /\ Cardinality(HoldsOf(q)') <= MaxHolds
                    /\ \A g, k \in HoldsOf(q)' : holdWork'[g] = holdWork'[k] => g = k
  BY DEF HoldLimit
<1>1. HoldsOf(q) \in SUBSET HoldIds /\ h \notin HoldsOf(q)
  BY DEF HoldsOf, NextHold, ActiveHold
<1>2. /\ \A k \in HoldIds \ {h} : k \in HoldsOf(q)' => /\ k \in HoldsOf(q)
                                                      /\ holdWork'[k] = holdWork[k]
      /\ h \in HoldsOf(q)' => q = p
      /\ holdWork'[h] = w
      /\ HoldsOf(q)' \subseteq HoldIds
  BY DEF HoldsOf, ActiveHold, TypeOK
<1>3. CASE q = p
  <2>1. HoldsOf(q)' \in SUBSET (HoldsOf(q) \cup {h})
    BY <1>2
  <2>2. /\ Cardinality(HoldsOf(q)) \in Nat /\ Cardinality(HoldsOf(q)') \in Nat
        /\ Cardinality(HoldsOf(q)') <= Cardinality(HoldsOf(q)) + 1
    BY <1>1, <2>1, RowAssumption, OneRowMore DEF HoldIds
  <2>3. Cardinality(HoldsOf(q)) < MaxHolds /\ \A k \in HoldsOf(q) : holdWork[k] # w
    BY <1>3 DEF MayHold
  <2>4. Cardinality(HoldsOf(q)') <= MaxHolds
    BY <2>2, <2>3, PolicyAssumption
  <2>5. \A g, k \in HoldsOf(q) : holdWork[g] = holdWork[k] => g = k
    BY DEF HoldLimit
  <2> QED BY <1>2, <2>3, <2>4, <2>5
<1>4. CASE q # p
  <2>1. HoldsOf(q)' \in SUBSET HoldsOf(q)
    BY <1>2, <1>4
  <2>2. /\ Cardinality(HoldsOf(q)) \in Nat /\ Cardinality(HoldsOf(q)') \in Nat
        /\ Cardinality(HoldsOf(q)') <= Cardinality(HoldsOf(q))
    BY <1>1, <2>1, RowAssumption, FewerRows DEF HoldIds
  <2>3. Cardinality(HoldsOf(q)') <= MaxHolds
    BY <2>2, PolicyAssumption DEF HoldLimit
  <2> QED BY <1>2, <1>4, <2>3 DEF HoldLimit
<1> QED BY <1>3, <1>4

\* Offering a freed copy activates no hold.
LEMMA OfferNoNewHold ==
  ASSUME NEW c \in Copies, NEW b, NEW hs \in [HoldIds -> HoldStatuses], NEW hc,
         \A k \in HoldIds : hs[k] \in {"waiting", "ready"} => ActiveHold(k),
         UNCHANGED requestVars,
         Offer(c, b, hs, hc)
  PROVE  NoNewHold
<1>1. \A k \in HoldIds : holdStatus'[k] \in {"waiting", "ready"}
                         => hs[k] \in {"waiting", "ready"}
  <2>1. CASE \E h \in HoldIds : /\ Oldest(h, Queue(hs, hc, WorkOf[c]))
                                /\ Reserve(h, c, b, holdBranch[h], hs, hc)
    BY <2>1 DEF Oldest, Queue, Reserve, MarkReady, Ship
  <2>2. CASE holdStatus' = hs
    BY <2>2
  <2> QED BY <2>1, <2>2 DEF Offer
<1> QED BY <1>1 DEF NoNewHold, ActiveHold, requestVars

LEMMA ReturnLimits ==
  ASSUME Inv, NEW l \in LoanIds, NEW b \in Branches \cup {None}, Return(l, b)
  PROVE  NoNewLoan /\ NoNewHold
<1>1. NoNewLoan
  BY DEF Return, CloseLoan, NoNewLoan, ActiveLoan, Inv, TypeOK
<1>2. loanCopy[l] \in Copies /\ holdStatus \in [HoldIds -> HoldStatuses]
  BY DEF Return, Inv, LoanCustody, TypeOK, HoldStatuses
<1>3. NoNewHold
  BY <1>2, OfferNoNewHold DEF Return, ActiveHold
<1> QED BY <1>1, <1>3

LEMMA EndHoldLimits ==
  ASSUME Inv, NEW h \in HoldIds, NEW status \in {"cancelled", "expired"},
         EndHold(h, status)
  PROVE  NoNewLoan /\ NoNewHold
<1> DEFINE hs == [holdStatus EXCEPT ![h] = status]
           c  == holdCopy[h]
<1>1. NoNewLoan
  BY DEF EndHold, loanVars, NoNewLoan, ActiveLoan
<1>2. /\ hs \in [HoldIds -> HoldStatuses] /\ UNCHANGED requestVars
      /\ \A k \in HoldIds : hs[k] \in {"waiting", "ready"} => ActiveHold(k)
  BY DEF EndHold, Inv, TypeOK, HoldStatuses, HoldStatus, ActiveHold
<1>3. CASE c # None /\ Offer(c, copyBranch[c], hs, holdCopy)
  <2>1. c \in Copies
    BY <1>3 DEF Inv, TypeOK
  <2> HIDE DEF hs
  <2> QED BY <1>1, <1>2, <1>3, <2>1, OfferNoNewHold
<1>4. CASE holdStatus' = hs
  BY <1>1, <1>2, <1>4 DEF NoNewHold, ActiveHold, requestVars
<1> QED BY <1>3, <1>4 DEF EndHold

LEMMA LoanStepLimits == Inv /\ PatronLimits /\ LoanStep => LoanLimit' /\ HoldLimit'
<1> SUFFICES ASSUME Inv, LoanLimit, HoldLimit, LoanStep PROVE LoanLimit' /\ HoldLimit'
  BY DEF PatronLimits, LoanLimit, HoldLimit, LoansOf, HoldsOf, ActiveLoan, ActiveHold
<1>1. ASSUME NEW p \in Patrons, NEW w \in Works, NEW l \in LoanIds,
             NEW override \in BOOLEAN, NEW h \in HoldIds,
             BorrowHeld(p, w, h, l, override)
      PROVE  LoanLimit' /\ HoldLimit'
  <2>1. holdCopy[h] \in Copies
    BY <1>1 DEF BorrowHeld, Inv, TypeOK
  <2>2. LoanLimit'
    BY <1>1, <2>1, BorrowWithinLimit DEF BorrowHeld, Inv
  <2>3. NoNewHold
    BY <1>1 DEF BorrowHeld, NoNewHold, ActiveHold, requestVars, Inv, TypeOK
  <2> QED BY <2>2, <2>3, HoldsStay
<1>2. ASSUME NEW p \in Patrons, NEW w \in Works, NEW l \in LoanIds,
             NEW override \in BOOLEAN, NEW c \in Copies,
             BorrowShelf(p, w, c, l, override)
      PROVE  LoanLimit' /\ HoldLimit'
  <2>1. LoanLimit'
    BY <1>2, BorrowWithinLimit DEF BorrowShelf, Inv
  <2>2. NoNewHold
    BY <1>2 DEF BorrowShelf, NoNewHold, ActiveHold, holdVars, requestVars
  <2> QED BY <2>1, <2>2, HoldsStay
<1>3. ASSUME NEW l \in LoanIds, NEW b \in Branches \cup {None}, Return(l, b)
      PROVE  LoanLimit' /\ HoldLimit'
  BY <1>3, ReturnLimits, LoansStay, HoldsStay
<1>4. ASSUME NEW l \in LoanIds,
             Renew(l) \/ MarkLost(l) \/ ClaimsReturned(l) \/ ReturnDamaged(l)
      PROVE  LoanLimit' /\ HoldLimit'
  <2>1. NoNewHold
    BY <1>4 DEF Renew, MarkLost, ClaimsReturned, ReturnDamaged, holdVars, requestVars,
                NoNewHold, ActiveHold
  <2>2. NoNewLoan
    BY <1>4 DEF Renew, MarkLost, ClaimsReturned, ReturnDamaged, CloseLoan, NoNewLoan,
                ActiveLoan, Inv, TypeOK
  <2> QED BY <2>1, <2>2, LoansStay, HoldsStay
<1> QED BY <1>1, <1>2, <1>3, <1>4 DEF LoanStep

LEMMA HoldStepLimits == Inv /\ PatronLimits /\ HoldStep => LoanLimit' /\ HoldLimit'
<1> SUFFICES ASSUME Inv, LoanLimit, HoldLimit, HoldStep PROVE LoanLimit' /\ HoldLimit'
  BY DEF PatronLimits, LoanLimit, HoldLimit, LoansOf, HoldsOf, ActiveLoan, ActiveHold
<1>1. ASSUME NEW h \in HoldIds, NEW p \in Patrons, NEW w \in Works, NEW b \in Branches,
             NEW locked \in SUBSET Copies, PlaceHold(p, w, b, h, locked)
      PROVE  LoanLimit' /\ HoldLimit'
  <2>1. NoNewLoan
    BY <1>1 DEF PlaceHold, loanVars, NoNewLoan, ActiveLoan
  <2>2. \A k \in HoldIds \ {h} : holdStatus'[k] = holdStatus[k]
    BY <1>1 DEF PlaceHold, Reserve, MarkReady, Ship, Inv, TypeOK
  <2>3. HoldLimit'
    BY <1>1, <2>2, HoldWithinLimit DEF PlaceHold, Inv
  <2> QED BY <2>1, <2>3, LoansStay
<1>2. ASSUME NEW h \in HoldIds, CancelHold(h) PROVE LoanLimit' /\ HoldLimit'
  BY <1>2, EndHoldLimits, LoansStay, HoldsStay DEF CancelHold
<1> QED BY <1>1, <1>2 DEF HoldStep

LEMMA OtherStepLimits ==
  Inv /\ PatronLimits /\ (StockStep \/ PatronStep \/ SweepStep) => LoanLimit' /\ HoldLimit'
<1> SUFFICES ASSUME Inv, LoanLimit, HoldLimit, StockStep \/ PatronStep \/ SweepStep
             PROVE  NoNewLoan /\ NoNewHold
  BY LoansStay, HoldsStay
  DEF PatronLimits, LoanLimit, HoldLimit, LoansOf, HoldsOf, ActiveLoan, ActiveHold
<1>1. ASSUME NEW c \in Copies, Receive(c) PROVE NoNewLoan /\ NoNewHold
  BY <1>1 DEF Receive, Oldest, TransitHold, MarkReady, loanVars, requestVars,
              NoNewLoan, NoNewHold, ActiveLoan, ActiveHold, Inv, TypeOK
<1>2. ASSUME NEW c \in Copies, StaffCheckin(c) PROVE NoNewLoan /\ NoNewHold
  BY <1>1, <1>2, ReturnLimits DEF StaffCheckin
<1>3. CASE StockStep
  <2>1. CASE UNCHANGED <<loanVars, holdVars>>
    BY <2>1 DEF loanVars, holdVars, requestVars, NoNewLoan, NoNewHold, ActiveLoan, ActiveHold
  <2> QED BY <1>2, <1>3, <2>1
          DEF StockStep, Retire, Move, IllReserve, IllRelease, BulkStatus, BulkVisible, Weed
<1>4. CASE PatronStep
  <2>1. ASSUME NEW p \in Patrons, Erase(p) PROVE NoNewLoan /\ NoNewHold
    <3>1. NoNewLoan
      BY <2>1 DEF Erase, LoansOf, NoNewLoan, ActiveLoan
    <3>2. NoNewHold
      BY <2>1 DEF Erase, NoNewHold, ActiveHold
    <3> QED BY <3>1, <3>2
  <2>2. ASSUME NEW p \in Patrons, NEW s \in PatronStatus, SetPatronStatus(p, s)
        PROVE  NoNewLoan /\ NoNewHold
    BY <2>2 DEF SetPatronStatus, loanVars, holdVars, requestVars,
                NoNewLoan, NoNewHold, ActiveLoan, ActiveHold
  <2> QED BY <1>4, <2>1, <2>2 DEF PatronStep
<1>5. CASE SweepStep
  <2>1. ASSUME NEW S \in SUBSET LoanIds, FlagOverdue(S) PROVE NoNewLoan /\ NoNewHold
    BY <2>1 DEF FlagOverdue, holdVars, requestVars, NoNewLoan, NoNewHold, ActiveLoan,
                ActiveHold
  <2>2. ASSUME NEW h \in HoldIds, ExpireReady(h) PROVE NoNewLoan /\ NoNewHold
    BY <2>2, EndHoldLimits DEF ExpireReady
  <2>3. ASSUME NEW c \in Copies, NEW hc, UNCHANGED <<loanVars, requestVars>>,
               Offer(c, copyBranch[c], holdStatus, hc)
        PROVE  NoNewLoan /\ NoNewHold
    <3>1. holdStatus \in [HoldIds -> HoldStatuses]
      BY DEF Inv, TypeOK, HoldStatuses
    <3> QED BY <2>3, <3>1, OfferNoNewHold DEF loanVars, NoNewLoan, ActiveLoan, ActiveHold
  <2>4. ASSUME NEW c \in Copies, ExpireTransit(c) PROVE NoNewLoan /\ NoNewHold
    <3>1. CASE UNCHANGED holdStatus
      BY <2>4, <3>1 DEF ExpireTransit, loanVars, requestVars, NoNewLoan, NoNewHold,
                        ActiveLoan, ActiveHold
    <3>2. CASE \E hc : Offer(c, copyBranch[c], holdStatus, hc)
      BY <2>3, <2>4, <3>2 DEF ExpireTransit
    <3> QED BY <2>4, <3>1, <3>2 DEF ExpireTransit, TransitFailed
  <2>5. ASSUME NEW c \in Copies, Reconcile(c) PROVE NoNewLoan /\ NoNewHold
    BY <2>3, <2>5 DEF Reconcile
  <2> QED BY <1>5, <2>1, <2>2, <2>4, <2>5 DEF SweepStep
<1> QED BY <1>3, <1>4, <1>5

\* No sequence of calls and sweeps takes a patron over the policy's limits of
\* loans and holds, or gives two active holds on one work: borrow_work and
\* place_hold count under the work's lock what every other call only lowers.
THEOREM LimitsKept == Spec => []PatronLimits
<1>1. Init => PatronLimits
  <2> SUFFICES ASSUME Init, NEW p \in Patrons
               PROVE  LoansOf(p) = {} /\ HoldsOf(p) = {}
    BY FS_EmptySet, PolicyAssumption
    DEF PatronLimits, LoansOf, HoldsOf, ActiveLoan, ActiveHold
  <2> QED BY NoneAssumption DEF Init, LoansOf, HoldsOf
<1>2. PatronLimits /\ Inv /\ [Next]_vars => PatronLimits'
  <2> SUFFICES ASSUME PatronLimits, Inv, [Next]_vars PROVE LoanLimit' /\ HoldLimit'
    BY DEF PatronLimits, LoanLimit, HoldLimit, LoansOf, HoldsOf, ActiveLoan, ActiveHold
  <2>1. CASE UNCHANGED vars
    <3>1. LoanLimit /\ HoldLimit
      BY DEF PatronLimits, LoanLimit, HoldLimit, LoansOf, HoldsOf, ActiveLoan, ActiveHold
    <3>2. NoNewLoan /\ NoNewHold
      BY <2>1 DEF vars, loanVars, holdVars, requestVars, NoNewLoan, NoNewHold,
                  ActiveLoan, ActiveHold
    <3> QED BY <3>1, <3>2, LoansStay, HoldsStay
  <2>2. CASE Next
    BY <2>2, LoanStepLimits, HoldStepLimits, OtherStepLimits DEF Next
  <2> QED BY <2>1, <2>2
<1> QED BY <1>1, <1>2, Invariance, PTL DEF Spec
-----------------------------------------------------------------------------
(* Circulation implements Lending.                                           *)

Lent(l, c) == ActiveLoan(l) /\ loanCopy[l] = c
Reserved(h, c) == ActiveHold(h) /\ holdCopy[h] = c

\* Out and Kept, without CHOOSE: at most one loan is on a copy and one hold has it.
Views ==
  /\ Out \in [Copies -> Patrons \cup {None}]
  /\ Kept \in [Copies -> Patrons \cup {None}]
  /\ \A c \in Copies, l \in LoanIds : Lent(l, c) => Out[c] = loanPatron[l]
  /\ \A c \in Copies : Out[c] # None <=> copyStatus[c] = "loaned"
  /\ \A c \in Copies : (\A l \in LoanIds : ~Lent(l, c)) => Out[c] = None
  /\ \A c \in Copies, h \in HoldIds : Reserved(h, c) => Kept[c] = holdPatron[h]
  /\ \A c \in Copies : (\A h \in HoldIds : ~Reserved(h, c)) => Kept[c] = None

LEMMA InvViews == Inv => Views
<1> SUFFICES ASSUME Inv PROVE Views
  OBVIOUS
<1> USE DEF Inv
<1>1. ASSUME NEW c \in Copies, NEW l \in LoanIds, Lent(l, c)
      PROVE  Out[c] = loanPatron[l] /\ loanPatron[l] \in Patrons
  <2> DEFINE L == CHOOSE k \in LoanIds : ActiveLoan(k) /\ loanCopy[k] = c
  <2>1. L \in LoanIds /\ ActiveLoan(L) /\ loanCopy[L] = c
    BY <1>1 DEF Lent
  <2>2. Out[c] = loanPatron[L]
    BY <1>1 DEF Lent, Out
  <2> HIDE DEF L
  <2>3. L = l
    BY <1>1, <2>1 DEF Lent, LoanCustody
  <2> QED BY <1>1, <2>2, <2>3 DEF Lent, LoanCustody
<1>2. ASSUME NEW c \in Copies, \A l \in LoanIds : ~Lent(l, c)
      PROVE  Out[c] = None
  BY <1>2 DEF Lent, Out
<1>3. ASSUME NEW c \in Copies, NEW h \in HoldIds, Reserved(h, c)
      PROVE  Kept[c] = holdPatron[h] /\ holdPatron[h] \in Patrons
  <2> DEFINE H == CHOOSE k \in HoldIds : ActiveHold(k) /\ holdCopy[k] = c
  <2>1. H \in HoldIds /\ ActiveHold(H) /\ holdCopy[H] = c
    BY <1>3 DEF Reserved
  <2>2. Kept[c] = holdPatron[H]
    BY <1>3 DEF Reserved, Kept
  <2> HIDE DEF H
  <2>3. c # None
    BY NoneAssumption
  <2>4. H = h
    BY <1>3, <2>1, <2>3 DEF Reserved, Reservations
  <2> QED BY <1>3, <2>2, <2>4 DEF Reserved, Requests
<1>4. ASSUME NEW c \in Copies, \A h \in HoldIds : ~Reserved(h, c)
      PROVE  Kept[c] = None
  BY <1>4 DEF Reserved, Kept
<1>5. \A c \in Copies : Out[c] # None <=> copyStatus[c] = "loaned"
  BY <1>1, <1>2, NoneAssumption DEF Lent, LoanCustody
<1>6. Out = [c \in Copies |-> Out[c]] /\ Kept = [c \in Copies |-> Kept[c]]
  BY DEF Out, Kept
<1>7. \A c \in Copies : Out[c] \in Patrons \cup {None} /\ Kept[c] \in Patrons \cup {None}
  BY <1>1, <1>2, <1>3, <1>4
<1> HIDE DEF Inv
<1>8. Out \in [Copies -> Patrons \cup {None}] /\ Kept \in [Copies -> Patrons \cup {None}]
  BY <1>6, <1>7
<1> QED BY <1>1, <1>2, <1>3, <1>4, <1>5, <1>8 DEF Views

\* The step leaves the loans and the reservations of all copies but c alone.
LeavesLoansBeside(c) ==
  \A d \in Copies \ {c}, l \in LoanIds :
     /\ Lent(l, d)' <=> Lent(l, d)
     /\ Lent(l, d) => loanPatron'[l] = loanPatron[l]
LeavesHoldsBeside(c) ==
  \A d \in Copies \ {c}, h \in HoldIds :
     /\ Reserved(h, d)' <=> Reserved(h, d)
     /\ Reserved(h, d) => holdPatron'[h] = holdPatron[h]

LEMMA SameOut ==
  ASSUME NEW c, NEW d \in Copies \ {c}, Views, Views', LeavesLoansBeside(c)
  PROVE  Out'[d] = Out[d]
<1>1. CASE \E l \in LoanIds : Lent(l, d)
  BY <1>1 DEF Views, LeavesLoansBeside
<1>2. CASE \A l \in LoanIds : ~Lent(l, d)
  BY <1>2 DEF Views, LeavesLoansBeside
<1> QED BY <1>1, <1>2

LEMMA SameKept ==
  ASSUME NEW c, NEW d \in Copies \ {c}, Views, Views', LeavesHoldsBeside(c)
  PROVE  Kept'[d] = Kept[d]
<1>1. CASE \E h \in HoldIds : Reserved(h, d)
  BY <1>1 DEF Views, LeavesHoldsBeside
<1>2. CASE \A h \in HoldIds : ~Reserved(h, d)
  BY <1>2 DEF Views, LeavesHoldsBeside
<1> QED BY <1>1, <1>2

\* A step of Lending, or one it does not see.
Promised == Abstract!Next \/ UNCHANGED <<Out, Kept>>

LEMMA NothingSeen ==
  ASSUME Views, Views', LeavesLoansBeside(None), LeavesHoldsBeside(None)
  PROVE  Promised
<1>1. \A d \in Copies : Out'[d] = Out[d] /\ Kept'[d] = Kept[d]
  BY SameOut, SameKept, NoneAssumption
<1>2. Out' = Out /\ Kept' = Kept
  BY <1>1 DEF Views
<1> QED BY <1>2 DEF Promised

\* One copy comes back, or is kept for somebody else than before.
LEMMA OneCopyStays ==
  ASSUME NEW c \in Copies, Views, Views', LeavesLoansBeside(c), LeavesHoldsBeside(c),
         copyStatus'[c] # "loaned"
  PROVE  Promised
<1>1. \A d \in Copies \ {c} : Out'[d] = Out[d] /\ Kept'[d] = Kept[d]
  BY SameOut, SameKept
<1>2. Abstract!TypeOK'
  BY DEF Views, Abstract!TypeOK
<1>3. Abstract!CheckIn(c) \/ Abstract!Keep(c)
  BY DEF Views, Abstract!CheckIn, Abstract!Keep
<1> QED BY <1>1, <1>2, <1>3 DEF Abstract!Next, Promised

\* One copy goes to the patron it is kept for, or to anybody when it is not.
LEMMA OneCopyLent ==
  ASSUME NEW c \in Copies, NEW p \in Patrons, NEW l \in LoanIds,
         Views, Views', LeavesLoansBeside(c), LeavesHoldsBeside(c),
         copyStatus[c] # "loaned", Lent(l, c)', loanPatron'[l] = p,
         \A h \in HoldIds : Reserved(h, c) => holdPatron[h] = p,
         \A h \in HoldIds : ~Reserved(h, c)'
  PROVE  Promised
<1>1. \A d \in Copies \ {c} : Out'[d] = Out[d] /\ Kept'[d] = Kept[d]
  BY SameOut, SameKept
<1>2. Abstract!TypeOK'
  BY DEF Views, Abstract!TypeOK
<1>3. Out[c] = None /\ Out'[c] = p /\ Kept'[c] = None /\ Kept[c] \in {None, p}
  BY DEF Views
<1>4. Abstract!CheckOut(c)
  BY <1>3, NoneAssumption DEF Abstract!CheckOut
<1> QED BY <1>1, <1>2, <1>4 DEF Abstract!Next, Promised

\* A hold that waits is given a copy: no hold starts or ends, and no other
\* hold's copy changes.
LEMMA ReserveBeside ==
  ASSUME NEW c \in Copies, NEW b, NEW pickup, NEW h \in HoldIds,
         NEW hs \in [HoldIds -> HoldStatuses],
         NEW hc \in [HoldIds -> Copies \cup {None}],
         hs[h] = "waiting", hc[h] = None, Reserve(h, c, b, pickup, hs, hc)
  PROVE  \A k \in HoldIds :
            /\ holdStatus'[k] \in {"waiting", "ready"} <=> hs[k] \in {"waiting", "ready"}
            /\ holdCopy'[k] = hc[k] \/ (hc[k] = None /\ holdCopy'[k] = c)
<1> SUFFICES ASSUME NEW k \in HoldIds
             PROVE  /\ holdStatus'[k] \in {"waiting", "ready"} <=> hs[k] \in {"waiting", "ready"}
                    /\ holdCopy'[k] = hc[k] \/ (hc[k] = None /\ holdCopy'[k] = c)
  OBVIOUS
<1>1. holdCopy' = [hc EXCEPT ![h] = c]
  BY DEF Reserve, MarkReady, Ship
<1>2. holdStatus' = [hs EXCEPT ![h] = "ready"] \/ holdStatus' = hs
  BY DEF Reserve, MarkReady, Ship
<1>3. holdCopy'[k] = IF k = h THEN c ELSE hc[k]
  BY <1>1
<1>4. holdStatus'[k] = hs[k] \/ (k = h /\ holdStatus'[k] = "ready")
  BY <1>2
<1> QED BY <1>3, <1>4

\* An offer gives a copy to a hold that had none, and starts or ends no hold.
LEMMA OfferBeside ==
  ASSUME NEW c \in Copies, NEW b,
         NEW hs \in [HoldIds -> HoldStatuses],
         NEW hc \in [HoldIds -> Copies \cup {None}],
         Offer(c, b, hs, hc)
  PROVE  \A k \in HoldIds :
            /\ holdStatus'[k] \in {"waiting", "ready"} <=> hs[k] \in {"waiting", "ready"}
            /\ holdCopy'[k] = hc[k] \/ (hc[k] = None /\ holdCopy'[k] = c)
<1>1. CASE holdStatus' = hs /\ holdCopy' = hc
  BY <1>1
<1>2. ASSUME NEW h \in HoldIds, Oldest(h, Queue(hs, hc, WorkOf[c])),
             Reserve(h, c, b, holdBranch[h], hs, hc)
      PROVE  \A k \in HoldIds :
            /\ holdStatus'[k] \in {"waiting", "ready"} <=> hs[k] \in {"waiting", "ready"}
            /\ holdCopy'[k] = hc[k] \/ (hc[k] = None /\ holdCopy'[k] = c)
  <2>1. hs[h] = "waiting" /\ hc[h] = None
    BY <1>2 DEF Oldest, Queue
  <2> QED BY <1>2, <2>1, ReserveBeside
<1> QED BY <1>1, <1>2 DEF Offer

\* So an offer of c, whatever else the transaction did to c, is seen of c alone.
LEMMA OfferHoldsBeside ==
  ASSUME Inv, NEW c \in Copies, NEW b,
         NEW hs \in [HoldIds -> HoldStatuses],
         NEW hc \in [HoldIds -> Copies \cup {None}],
         UNCHANGED requestVars,
         \A k \in HoldIds :
            \/ hs[k] = holdStatus[k] /\ hc[k] = holdCopy[k]
            \/ holdCopy[k] = c /\ (hc[k] \in {None, c}),
         Offer(c, b, hs, hc)
  PROVE  LeavesHoldsBeside(c)
<1>1. \A k \in HoldIds :
            /\ holdStatus'[k] \in {"waiting", "ready"} <=> hs[k] \in {"waiting", "ready"}
            /\ holdCopy'[k] = hc[k] \/ (hc[k] = None /\ holdCopy'[k] = c)
  BY OfferBeside
<1>2. holdPatron' = holdPatron
  BY DEF requestVars
<1>3. c # None
  BY NoneAssumption
<1> QED BY <1>1, <1>2, <1>3, NoneAssumption DEF LeavesHoldsBeside, Reserved, ActiveHold

LEMMA LoansBesideUnchanged ==
  ASSUME NEW c, UNCHANGED loanVars
  PROVE  LeavesLoansBeside(c)
BY DEF LeavesLoansBeside, Lent, ActiveLoan, loanVars

LEMMA HoldsBesideUnchanged ==
  ASSUME NEW c, UNCHANGED <<holdStatus, holdCopy, holdPatron>>
  PROVE  LeavesHoldsBeside(c)
BY DEF LeavesHoldsBeside, Reserved, ActiveHold

\* When a loan ends only its copy comes back.
LEMMA EndBeside ==
  ASSUME Inv, NEW l \in LoanIds, NEW status \in LoanStatus \ {"active", "overdue"},
         ActiveLoan(l), loanStatus' = [loanStatus EXCEPT ![l] = status],
         loanCopy' = loanCopy, \A k \in LoanIds \ {l} : loanPatron'[k] = loanPatron[k]
  PROVE  LeavesLoansBeside(loanCopy[l])
BY DEF LeavesLoansBeside, Lent, ActiveLoan, Inv, TypeOK

-----------------------------------------------------------------------------
LEMMA BorrowPromised ==
  ASSUME Inv, Views, Views', NEW p \in Patrons, NEW w \in Works, NEW l \in LoanIds,
         NEW override \in BOOLEAN,
         \/ \E h \in HoldIds : BorrowHeld(p, w, h, l, override)
         \/ \E c \in Copies : BorrowShelf(p, w, c, l, override)
  PROVE  Promised
<1> USE DEF Inv
<1>1. ASSUME NEW c \in Copies, LendTo(p, c, l)
      PROVE  LeavesLoansBeside(c) /\ Lent(l, c)' /\ loanPatron'[l] = p
  BY <1>1 DEF LendTo, NextLoan, LeavesLoansBeside, Lent, ActiveLoan, TypeOK
<1>2. ASSUME NEW h \in HoldIds, BorrowHeld(p, w, h, l, override)
      PROVE  Promised
  <2>1. PICK c \in Copies : c = holdCopy[h]
    BY <1>2 DEF BorrowHeld, TypeOK
  <2>2. /\ LendTo(p, c, l) /\ copyStatus[c] = "on_hold"
        /\ holdStatus[h] = "ready" /\ holdPatron[h] = p
        /\ holdStatus' = [holdStatus EXCEPT ![h] = "fulfilled"]
        /\ UNCHANGED <<holdPatron, holdCopy>>
    BY <1>2, <2>1 DEF BorrowHeld, HeldFor, requestVars
  <2>3. \A k \in HoldIds : Reserved(k, c) => k = h
    BY <2>1, <2>2, NoneAssumption DEF Reserved, Reservations, ActiveHold
  <2>4. \A k \in HoldIds : ~Reserved(k, c)'
    BY <2>2, <2>3 DEF Reserved, ActiveHold, TypeOK
  <2>5. LeavesHoldsBeside(c)
    BY <2>1, <2>2 DEF LeavesHoldsBeside, Reserved, ActiveHold, TypeOK
  <2> QED BY <1>1, <2>2, <2>3, <2>4, <2>5, OneCopyLent
<1>3. ASSUME NEW c \in Copies, BorrowShelf(p, w, c, l, override)
      PROVE  Promised
  <2>1. LendTo(p, c, l) /\ copyStatus[c] = "available" /\ UNCHANGED <<holdStatus, holdPatron, holdCopy>>
    BY <1>3 DEF BorrowShelf, Shelf, holdVars, requestVars
  <2>2. \A k \in HoldIds : ~Reserved(k, c) /\ ~Reserved(k, c)'
    BY <2>1, NoneAssumption DEF Reserved, Reservations, ActiveHold
  <2> QED BY <1>1, <2>1, <2>2, OneCopyLent, HoldsBesideUnchanged
<1> QED BY <1>2, <1>3

LEMMA ReturnPromised ==
  ASSUME Inv, Views, Views', NEW l \in LoanIds, NEW settle, Return(l, settle)
  PROVE  Promised
<1> USE DEF Inv
<1>1. PICK c \in Copies : c = loanCopy[l]
  BY DEF Return, LoanCustody
<1>2. PICK b : Offer(c, b, holdStatus, holdCopy)
  BY <1>1 DEF Return
<1>3. /\ ActiveLoan(l) /\ loanStatus' = [loanStatus EXCEPT ![l] = "returned"]
      /\ loanCopy' = loanCopy /\ \A k \in LoanIds \ {l} : loanPatron'[k] = loanPatron[k]
      /\ UNCHANGED requestVars
  BY DEF Return, CloseLoan, TypeOK
<1>4. LeavesLoansBeside(c)
  BY <1>1, <1>3, EndBeside DEF LoanStatus
<1>5. LeavesHoldsBeside(c)
  BY <1>2, <1>3, OfferHoldsBeside DEF TypeOK, HoldStatuses
<1>6. copyStatus'[c] # "loaned"
  BY <1>2 DEF Offer, Reserve, MarkReady, Ship, TypeOK
<1> QED BY <1>4, <1>5, <1>6, OneCopyStays

LEMMA LoanStepPromised ==
  ASSUME Inv, Views, Views', LoanStep
  PROVE  Promised
<1> USE DEF Inv
<1>1. ASSUME NEW l \in LoanIds, NEW b, Return(l, b) PROVE Promised
  BY <1>1, ReturnPromised
<1>2. ASSUME NEW l \in LoanIds, Renew(l) PROVE Promised
  <2>1. LeavesLoansBeside(None)
    BY <1>2 DEF Renew, LeavesLoansBeside, Lent, ActiveLoan, TypeOK
  <2>2. LeavesHoldsBeside(None)
    BY <1>2, HoldsBesideUnchanged DEF Renew, holdVars, requestVars
  <2> QED BY <2>1, <2>2, NothingSeen
<1>3. ASSUME NEW l \in LoanIds, MarkLost(l) \/ ClaimsReturned(l) \/ ReturnDamaged(l)
      PROVE  Promised
  <2>1. PICK c \in Copies : c = loanCopy[l]
    BY <1>3 DEF MarkLost, ClaimsReturned, ReturnDamaged, LoanCustody
  <2>2. /\ ActiveLoan(l) /\ loanCopy' = loanCopy
        /\ \A k \in LoanIds \ {l} : loanPatron'[k] = loanPatron[k]
        /\ \E s \in {"returned", "lost", "claims_returned"} :
              loanStatus' = [loanStatus EXCEPT ![l] = s]
        /\ UNCHANGED <<holdStatus, holdCopy, holdPatron>>
    BY <1>3 DEF MarkLost, ClaimsReturned, ReturnDamaged, CloseLoan, holdVars, requestVars, TypeOK
  <2>3. LeavesLoansBeside(c)
    BY <2>1, <2>2, EndBeside DEF LoanStatus
  <2>4. copyStatus'[c] # "loaned"
    BY <1>3, <2>1 DEF MarkLost, ClaimsReturned, ReturnDamaged, TypeOK
  <2> QED BY <2>2, <2>3, <2>4, HoldsBesideUnchanged, OneCopyStays
<1> QED BY <1>1, <1>2, <1>3, BorrowPromised DEF LoanStep

LEMMA EndHoldPromised ==
  ASSUME Inv, Views, Views', NEW h \in HoldIds, ActiveHold(h),
         NEW status \in {"cancelled", "expired"}, EndHold(h, status)
  PROVE  Promised
<1> USE DEF Inv
<1> DEFINE hs == [holdStatus EXCEPT ![h] = status]
<1>1. UNCHANGED requestVars /\ UNCHANGED loanVars
  BY DEF EndHold
<1>2. hs \in [HoldIds -> HoldStatuses]
  BY DEF TypeOK, HoldStatuses, HoldStatus
<1>3. CASE holdCopy[h] # None /\ Offer(holdCopy[h], copyBranch[holdCopy[h]], hs, holdCopy)
  <2>1. PICK c \in Copies : c = holdCopy[h]
    BY <1>3 DEF TypeOK
  <2>2. PICK b : Offer(c, b, hs, holdCopy)
    BY <1>3, <2>1
  <2>3. \A k \in HoldIds : hs[k] = holdStatus[k] \/ holdCopy[k] = c
    BY <2>1 DEF TypeOK
  <2> HIDE DEF hs
  <2>4. LeavesHoldsBeside(c)
    BY <1>1, <1>2, <2>2, <2>3, OfferHoldsBeside DEF TypeOK
  <2>5. copyStatus'[c] # "loaned"
    BY <2>2 DEF Offer, Reserve, MarkReady, Ship, TypeOK
  <2> QED BY <1>1, <2>4, <2>5, LoansBesideUnchanged, OneCopyStays
<1>4. CASE holdCopy[h] = None /\ holdStatus' = hs /\ UNCHANGED <<copyStatus, holdCopy>>
  <2>1. LeavesHoldsBeside(None)
    BY <1>1, <1>4, NoneAssumption DEF LeavesHoldsBeside, Reserved, ActiveHold, TypeOK, requestVars
  <2> QED BY <1>1, <2>1, LoansBesideUnchanged, NothingSeen
<1> QED BY <1>3, <1>4 DEF EndHold

LEMMA HoldStepPromised ==
  ASSUME Inv, Views, Views', HoldStep
  PROVE  Promised
<1> USE DEF Inv
<1>1. ASSUME NEW h \in HoldIds, NEW p \in Patrons, NEW w \in Works, NEW b \in Branches,
             NEW locked \in SUBSET Copies, PlaceHold(p, w, b, h, locked)
      PROVE  Promised
  <2> DEFINE hs == [holdStatus EXCEPT ![h] = "waiting"]
  <2>1. /\ holdStatus[h] = "absent" /\ holdCopy[h] = None
        /\ UNCHANGED loanVars /\ \A k \in HoldIds \ {h} : holdPatron'[k] = holdPatron[k]
        /\ holdBranch'[h] = b
    BY <1>1 DEF PlaceHold, NextHold, Requests, TypeOK
  <2>2. hs \in [HoldIds -> HoldStatuses] /\ hs[h] = "waiting"
    BY DEF TypeOK, HoldStatuses, HoldStatus
  <2>3. CASE holdStatus' = hs /\ UNCHANGED <<copyStatus, holdCopy>>
    <3>1. LeavesHoldsBeside(None)
      BY <2>1, <2>3, NoneAssumption DEF LeavesHoldsBeside, Reserved, ActiveHold, TypeOK
    <3> QED BY <2>1, <3>1, LoansBesideUnchanged, NothingSeen
  <2>4. ASSUME NEW c \in Copies, c \in Shelf(w), Reserve(h, c, copyBranch[c], b, hs, holdCopy)
        PROVE  Promised
    <3>1. \A k \in HoldIds \ {h} : hs[k] = holdStatus[k]
      BY DEF TypeOK
    <3>5. copyStatus'[c] # "loaned"
      BY <2>4 DEF Reserve, MarkReady, Ship, TypeOK
    <3> HIDE DEF hs
    <3>2. \A k \in HoldIds :
            /\ holdStatus'[k] \in {"waiting", "ready"} <=> hs[k] \in {"waiting", "ready"}
            /\ holdCopy'[k] = holdCopy[k] \/ (holdCopy[k] = None /\ holdCopy'[k] = c)
      <4>1. holdCopy \in [HoldIds -> Copies \cup {None}]
        BY DEF TypeOK
      <4> QED BY <2>1, <2>2, <2>4, <4>1, ReserveBeside
    <3>3. c # None
      BY NoneAssumption
    <3>4. LeavesHoldsBeside(c)
      BY <2>1, <2>2, <3>1, <3>2, <3>3, NoneAssumption DEF LeavesHoldsBeside, Reserved, ActiveHold
    <3> QED BY <2>1, <3>4, <3>5, LoansBesideUnchanged, OneCopyStays
  <2>5. \A c \in PickFrom(w, b, locked) : c \in Copies /\ c \in Shelf(w)
    BY DEF PickFrom, Shelf
  <2> QED BY <1>1, <2>3, <2>4, <2>5 DEF PlaceHold
<1>2. ASSUME NEW h \in HoldIds, CancelHold(h) PROVE Promised
  BY <1>2, EndHoldPromised DEF CancelHold
<1> QED BY <1>1, <1>2 DEF HoldStep

LEMMA StockStepPromised ==
  ASSUME Inv, Views, Views', StockStep
  PROVE  Promised
<1> USE DEF Inv
<1>1. CASE UNCHANGED loanVars /\ UNCHANGED holdVars
  BY <1>1, LoansBesideUnchanged, HoldsBesideUnchanged, NothingSeen DEF holdVars, requestVars
<1>2. ASSUME NEW c \in Copies, Receive(c) PROVE Promised
  <2>1. UNCHANGED loanVars /\ UNCHANGED requestVars
    BY <1>2 DEF Receive
  <2>2. LeavesHoldsBeside(None)
    <3>1. CASE UNCHANGED <<holdStatus, holdCopy>>
      BY <2>1, <3>1, HoldsBesideUnchanged DEF requestVars
    <3>2. ASSUME NEW h \in HoldIds, TransitHold(c, h), MarkReady(h, c, holdStatus, holdCopy)
          PROVE  LeavesHoldsBeside(None)
      BY <2>1, <3>2 DEF LeavesHoldsBeside, Reserved, ActiveHold, TransitHold, MarkReady, TypeOK, requestVars
    <3> QED BY <1>2, <3>1, <3>2 DEF Receive, Oldest
  <2> QED BY <2>1, <2>2, LoansBesideUnchanged, NothingSeen
<1>3. ASSUME NEW c \in Copies, StaffCheckin(c) PROVE Promised
  BY <1>2, <1>3, ReturnPromised DEF StaffCheckin
<1> QED
  BY <1>1, <1>3 DEF StockStep, Retire, Move, IllReserve, IllRelease, BulkStatus, BulkVisible, Weed

LEMMA PatronStepPromised ==
  ASSUME Inv, Views, Views', PatronStep
  PROVE  Promised
<1> USE DEF Inv
<1>1. ASSUME NEW p \in Patrons, NEW s \in PatronStatus, SetPatronStatus(p, s)
      PROVE  Promised
  BY <1>1, LoansBesideUnchanged, HoldsBesideUnchanged, NothingSeen
  DEF SetPatronStatus, holdVars, requestVars
<1>2. ASSUME NEW p \in Patrons, Erase(p) PROVE Promised
  <2>1. \A l \in LoanIds : ActiveLoan(l) => loanPatron[l] # p
    BY <1>2 DEF Erase, LoansOf
  <2>2. LeavesLoansBeside(None)
    BY <1>2, <2>1 DEF Erase, LeavesLoansBeside, Lent, ActiveLoan, TypeOK
  <2>3. \A c \in Copies : Out'[c] = Out[c]
    BY <2>2, SameOut, NoneAssumption
  <2>4. \A c \in Copies : Out[c] # p
    <3>1. ASSUME NEW c \in Copies, NEW l \in LoanIds, Lent(l, c) PROVE Out[c] # p
      BY <2>1, <3>1 DEF Views, Lent
    <3>2. ASSUME NEW c \in Copies, \A l \in LoanIds : ~Lent(l, c) PROVE Out[c] # p
      BY <3>2, NoneAssumption DEF Views
    <3> QED BY <3>1, <3>2
  <2>5. \A c \in Copies : Kept'[c] = IF Kept[c] = p THEN None ELSE Kept[c]
    <3>1. ASSUME NEW c \in Copies, NEW h \in HoldIds, Reserved(h, c)
          PROVE  Kept'[c] = IF Kept[c] = p THEN None ELSE Kept[c]
      <4>1. Kept[c] = holdPatron[h] /\ c # None
        BY <3>1, NoneAssumption DEF Views
      <4>2. CASE holdPatron[h] = p
        <5>1. \A k \in HoldIds : Reserved(k, c) => k = h
          BY <3>1, <4>1 DEF Reserved, Reservations
        <5>2. \A k \in HoldIds : ~Reserved(k, c)'
          BY <1>2, <3>1, <4>1, <4>2, <5>1 DEF Erase, Reserved, ActiveHold, TypeOK
        <5> QED BY <4>1, <4>2, <5>2 DEF Views
      <4>3. CASE holdPatron[h] # p
        <5>1. Reserved(h, c)' /\ holdPatron'[h] = holdPatron[h]
          BY <1>2, <3>1, <4>3 DEF Erase, Reserved, ActiveHold, TypeOK
        <5> QED BY <4>1, <4>3, <5>1 DEF Views
      <4> QED BY <4>2, <4>3
    <3>2. ASSUME NEW c \in Copies, \A h \in HoldIds : ~Reserved(h, c)
          PROVE  Kept'[c] = IF Kept[c] = p THEN None ELSE Kept[c]
      <4>1. \A h \in HoldIds : ~Reserved(h, c)'
        BY <1>2, <3>2, NoneAssumption DEF Erase, Reserved, ActiveHold, TypeOK
      <4> QED BY <3>2, <4>1 DEF Views
    <3> QED BY <3>1, <3>2
  <2>6. Abstract!TypeOK'
    BY DEF Views, Abstract!TypeOK
  <2> QED BY <2>3, <2>4, <2>5, <2>6 DEF Promised, Abstract!Next, Abstract!Forget
<1> QED BY <1>1, <1>2 DEF PatronStep

LEMMA SweepStepPromised ==
  ASSUME Inv, Views, Views', SweepStep
  PROVE  Promised
<1> USE DEF Inv
<1>1. ASSUME NEW S \in SUBSET LoanIds, FlagOverdue(S) PROVE Promised
  <2>1. LeavesLoansBeside(None)
    BY <1>1 DEF FlagOverdue, LeavesLoansBeside, Lent, ActiveLoan, TypeOK
  <2> QED BY <1>1, <2>1, HoldsBesideUnchanged, NothingSeen DEF FlagOverdue, holdVars, requestVars
<1>2. ASSUME NEW h \in HoldIds, ExpireReady(h) PROVE Promised
  BY <1>2, EndHoldPromised DEF ExpireReady, ActiveHold
<1>3. ASSUME NEW c \in Copies, NEW b, UNCHANGED loanVars, UNCHANGED requestVars,
             NEW hc \in [HoldIds -> Copies \cup {None}],
             \A k \in HoldIds : hc[k] = holdCopy[k] \/ (holdCopy[k] = c /\ hc[k] = None),
             Offer(c, b, holdStatus, hc)
      PROVE  Promised
  <2>1. LeavesHoldsBeside(c)
    BY <1>3, OfferHoldsBeside DEF TypeOK, HoldStatuses
  <2>2. copyStatus'[c] # "loaned"
    BY <1>3 DEF Offer, Reserve, MarkReady, Ship, TypeOK
  <2> QED BY <1>3, <2>1, <2>2, LoansBesideUnchanged, OneCopyStays
<1>4. ASSUME NEW c \in Copies, ExpireTransit(c) PROVE Promised
  <2>1. UNCHANGED loanVars /\ UNCHANGED requestVars
    BY <1>4 DEF ExpireTransit
  <2>2. CASE Offer(c, copyBranch[c], holdStatus, holdCopy)
    <3>1. holdCopy \in [HoldIds -> Copies \cup {None}]
      BY DEF TypeOK
    <3> QED BY <1>3, <2>1, <2>2, <3>1
  <2>3. ASSUME NEW h \in HoldIds, TransitFailed(c, h) PROVE Promised
    <3> DEFINE hc == [holdCopy EXCEPT ![h] = None]
    <3>1. /\ hc \in [HoldIds -> Copies \cup {None}]
          /\ \A k \in HoldIds : hc[k] = holdCopy[k] \/ (holdCopy[k] = c /\ hc[k] = None)
      <4>1. holdCopy \in [HoldIds -> Copies \cup {None}] /\ holdCopy[h] = c
        BY <2>3 DEF TransitFailed, TransitHold, TypeOK
      <4> QED BY <4>1
    <3>2. CASE Offer(c, copyBranch[c], holdStatus, hc)
      <4> HIDE DEF hc
      <4> QED BY <1>3, <2>1, <3>1, <3>2
    <3>3. CASE /\ copyStatus' = [copyStatus EXCEPT ![c] = "repair"]
               /\ holdCopy' = hc /\ UNCHANGED holdStatus
      <4>1. LeavesHoldsBeside(c)
        BY <2>1, <3>1, <3>3, NoneAssumption DEF LeavesHoldsBeside, Reserved, ActiveHold, requestVars
      <4>2. copyStatus'[c] # "loaned"
        BY <3>3 DEF TypeOK
      <4> QED BY <2>1, <4>1, <4>2, LoansBesideUnchanged, OneCopyStays
    <3> QED BY <2>3, <3>2, <3>3 DEF TransitFailed
  <2> QED BY <1>4, <2>2, <2>3 DEF ExpireTransit
<1>5. ASSUME NEW c \in Copies, Reconcile(c) PROVE Promised
  <2>1. holdCopy \in [HoldIds -> Copies \cup {None}]
    BY DEF TypeOK
  <2>2. /\ Offer(c, copyBranch[c], holdStatus, holdCopy)
        /\ UNCHANGED loanVars /\ UNCHANGED requestVars
    BY <1>5 DEF Reconcile
  <2> QED BY <1>3, <2>1, <2>2
<1> QED BY <1>1, <1>2, <1>4, <1>5 DEF SweepStep

LEMMA StepPromised == Inv /\ Inv' /\ Views /\ Views' /\ [Next]_vars => Promised
<1> SUFFICES ASSUME Inv, Inv', Views, Views', [Next]_vars PROVE Promised
  OBVIOUS
<1>1. CASE UNCHANGED vars
  BY <1>1, LoansBesideUnchanged, HoldsBesideUnchanged, NothingSeen
  DEF vars, holdVars, requestVars
<1> QED
  BY <1>1, LoanStepPromised, HoldStepPromised, StockStepPromised, PatronStepPromised,
     SweepStepPromised
  DEF Next

\* Whatever the queue, the transfers, the sweeps and the desk do, circulation
\* keeps the promise of Lending: a copy is out with one patron or kept for one, a
\* kept copy is lent to nobody else, and nobody's copy goes to another before it
\* comes back.
THEOREM Implements == Spec => ImplementsLending
<1>1. Init => Abstract!Init
  <2> SUFFICES ASSUME Init PROVE Abstract!Init
    OBVIOUS
  <2>1. Inv /\ Views
    BY InitInv, InvViews
  <2>2. \A c \in Copies : Out[c] = None /\ Kept[c] = None
    BY <2>1 DEF Init, Views, Lent, Reserved, ActiveLoan, ActiveHold
  <2> QED BY <2>1, <2>2 DEF Views, Abstract!Init
<1>2. Inv /\ Inv' /\ Views /\ Views' /\ [Next]_vars => [Abstract!Next]_(Abstract!vars)
  BY StepPromised DEF Promised, Abstract!vars
<1> QED BY <1>1, <1>2, InvViews, Invariance, PTL DEF Spec, ImplementsLending, Abstract!Spec
=============================================================================
