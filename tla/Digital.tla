------------------------------ MODULE Digital ------------------------------
(***************************************************************************)
(* Lending of digital titles (library/digital.py): licences that allow so  *)
(* many readers at once or so many checkouts, loans that expire by         *)
(* themselves, and the queue of holds for an edition.                      *)
(*                                                                         *)
(* A service call is one step: it runs in a transaction under the          *)
(* edition's advisory lock.  (The cancelling of a waiting hold takes no    *)
(* such lock, but changes only its own row and promotes nobody.)  Time is  *)
(* left out: loans and ready holds may be past their dates at any moment.  *)
(***************************************************************************)
EXTENDS Library

CONSTANTS
  Editions,
  Licenses,    \* numbers 1 .. n, in the order of their ids
  EditionOf,   \* the edition a licence is for
  Limit,       \* concurrent_limit of a licence; None is unlimited
  Allowed,     \* checkouts_allowed of a metered licence; None if not metered
  Retaining,   \* patrons who keep their loan history
  LoanRows, HoldRows   \* bounds: how many loans and holds are ever created

LoanIds == 1 .. LoanRows
HoldIds == 1 .. HoldRows

ASSUME DigitalRowAssumption == LoanRows \in Nat /\ HoldRows \in Nat
ASSUME DigitalLicenseAssumption ==
  /\ Licenses \subseteq Nat /\ IsFiniteSet(Licenses)
  /\ EditionOf \in [Licenses -> Editions]
  /\ Limit \in [Licenses -> Nat \cup {None}]
  /\ Allowed \in [Licenses -> Nat \cup {None}]
  /\ Retaining \subseteq Patrons
ASSUME DigitalNoneAssumption == None \notin Editions

VARIABLES
  live,                                  \* DigitalLicense.active and not expired
  used,                                  \* DigitalLicense.checkouts_used
  loanStatus, loanLicense, loanPatron,   \* DigitalLoan
  holdStatus, holdPatron, holdEdition    \* DigitalHold

licenseVars == <<live, used>>
loanVars == <<loanStatus, loanLicense, loanPatron>>
holdVars == <<holdStatus, holdPatron, holdEdition>>
digitalVars == <<licenseVars, loanVars, holdVars>>

LoanStatus == {"active", "returned", "expired"}
HoldStatus == {"waiting", "ready", "fulfilled", "expired", "cancelled"}
\* Beside those: "absent" is a row not yet created, "erased" a deleted ready one.

----------------------------------------------------------------------------
(* The queries, over the statuses ls, the counters u and the holds hs that  *)
(* the calling transaction has written.                                     *)

Readers(k, ls) == {n \in LoanIds : ls[n] = "active" /\ loanLicense[n] = k}

\* Mutation: one reader too many.
RoomForOneMore(k, ls) == Limit[k] = None \/ Cardinality(Readers(k, ls)) <= Limit[k]

HasRoom(k, ls) == Limit[k] = None \/ Cardinality(Readers(k, ls)) < Limit[k]

\* license_is_available
Available(k, ls) ==
  /\ live[k]
  /\ Allowed[k] # None => used[k] < Allowed[k]
  /\ HasRoom(k, ls)

Offered(e, ls) == {k \in Licenses : EditionOf[k] = e /\ Available(k, ls)}

\* available_slots_for_edition asks only whether there is any.
SlotFree(e, ls) == Offered(e, ls) # {}

\* _pick_available_license
Pick(k, e) ==
  /\ k \in Offered(e, loanStatus)
  /\ \A j \in Offered(e, loanStatus) : k <= j

ActiveHold(h) == holdStatus[h] \in {"waiting", "ready"}

HoldsFor(e, wanted, hs) == {h \in HoldIds : hs[h] = wanted /\ holdEdition[h] = e}

Reads(p, e) == \E n \in LoanIds : /\ loanStatus[n] = "active"
                                  /\ loanPatron[n] = p
                                  /\ EditionOf[loanLicense[n]] = e

\* Mutation: last in, first out.
Newest(h, Q) == h \in Q /\ \A g \in Q : g <= h

Oldest(h, Q) == h \in Q /\ \A g \in Q : h <= g

\* _assign_next_digital_hold: the first in the queue is told, if a slot is free;
\* whether the free slot is another ready hold's is not asked.
AssignNext(e, ls, hs) ==
  LET Q == HoldsFor(e, "waiting", hs)
  IN  IF SlotFree(e, ls) /\ Q # {}
      THEN \E h \in Q : Oldest(h, Q) /\ holdStatus' = [hs EXCEPT ![h] = "ready"]
      ELSE holdStatus' = hs

----------------------------------------------------------------------------
(* Loans.                                                                  *)

\* Mutation: the loan leaves the hold it came from ready.
Unfulfilled(p, e) == holdStatus

Fulfilled(p, e) ==
  [h \in HoldIds |-> IF holdStatus[h] = "ready" /\ holdPatron[h] = p
                          /\ holdEdition[h] = e
                     THEN "fulfilled" ELSE holdStatus[h]]

\* borrow_digital: a ready hold goes before the queue, and so, when nobody
\* waits, does everybody else.
Borrow(p, e, k, n) ==
  /\ loanStatus[n] = "absent" /\ \A m \in LoanIds : m < n => loanStatus[m] # "absent"
  /\ ~Reads(p, e)
  /\ \/ \E h \in HoldsFor(e, "ready", holdStatus) : holdPatron[h] = p
     \/ HoldsFor(e, "waiting", holdStatus) = {}
  /\ Pick(k, e)
  /\ loanStatus' = [loanStatus EXCEPT ![n] = "active"]
  /\ loanLicense' = [loanLicense EXCEPT ![n] = k]
  /\ loanPatron' = [loanPatron EXCEPT ![n] = p]
  /\ used' = [used EXCEPT ![k] = IF Allowed[k] # None THEN @ + 1 ELSE @]
  /\ holdStatus' = Fulfilled(p, e)
  /\ UNCHANGED <<live, holdPatron, holdEdition>>

\* _close_digital_loan
CloseLoan(n, ended) ==
  /\ loanStatus[n] = "active"
  /\ loanStatus' = [loanStatus EXCEPT ![n] = ended]
  /\ loanPatron' = [loanPatron EXCEPT ![n] = IF @ \in Retaining THEN @ ELSE None]
  /\ AssignNext(EditionOf[loanLicense[n]], loanStatus', holdStatus)
  /\ UNCHANGED <<licenseVars, loanLicense, holdPatron, holdEdition>>

ReturnDigital(n) == CloseLoan(n, "returned")

ExpireLoan(n) == CloseLoan(n, "expired")

----------------------------------------------------------------------------
(* Holds.                                                                  *)

\* Somebody waits already.
Ahead(e) == HoldsFor(e, "waiting", holdStatus) # {}

PlaceHold(p, e, h) ==
  /\ holdStatus[h] = "absent" /\ \A g \in HoldIds : g < h => holdStatus[g] # "absent"
  /\ \A g \in HoldIds : ActiveHold(g) => ~(holdPatron[g] = p /\ holdEdition[g] = e)
  /\ ~Reads(p, e)
  /\ holdPatron' = [holdPatron EXCEPT ![h] = p]
  /\ holdEdition' = [holdEdition EXCEPT ![h] = e]
  /\ holdStatus' = [holdStatus EXCEPT ![h] = IF ~Ahead(e) /\ SlotFree(e, loanStatus)
                                             THEN "ready" ELSE "waiting"]
  /\ UNCHANGED <<licenseVars, loanVars>>

\* A ready hold that ends passes its slot on; a waiting one has none.
EndReady(h, ended) ==
  /\ holdStatus[h] = "ready"
  /\ AssignNext(holdEdition[h], loanStatus, [holdStatus EXCEPT ![h] = ended])
  /\ UNCHANGED <<licenseVars, loanVars, holdPatron, holdEdition>>

CancelHold(h) ==
  \/ EndReady(h, "cancelled")
  \/ /\ holdStatus[h] = "waiting"
     /\ holdStatus' = [holdStatus EXCEPT ![h] = "cancelled"]
     /\ UNCHANGED <<licenseVars, loanVars, holdPatron, holdEdition>>

\* Mutation: the sweep ends the hold and leaves its slot to nobody.
ExpireHoldOnly(h) ==
  /\ holdStatus[h] = "ready"
  /\ holdStatus' = [holdStatus EXCEPT ![h] = "expired"]
  /\ UNCHANGED <<licenseVars, loanVars, holdPatron, holdEdition>>

ExpireHold(h) == EndReady(h, "expired")

----------------------------------------------------------------------------
(* From outside.                                                           *)

\* A licence is withdrawn by staff, or its time runs out.
Lapse(k) ==
  /\ live[k]
  /\ live' = [live EXCEPT ![k] = FALSE]
  /\ UNCHANGED <<used, loanVars, holdVars>>

\* Mutation: a loan does not keep its reader from being erased.
EraseReader(p) ==
  /\ loanPatron' = [n \in LoanIds |-> IF loanPatron[n] = p THEN None ELSE loanPatron[n]]
  /\ UNCHANGED <<licenseVars, loanStatus, loanLicense, holdVars>>

\* erase_patron: holds are deleted by a query, and nobody is promoted.
Erase(p) ==
  /\ \A n \in LoanIds : ~(loanStatus[n] = "active" /\ loanPatron[n] = p)
  /\ loanPatron' = [n \in LoanIds |-> IF loanPatron[n] = p THEN None ELSE loanPatron[n]]
  /\ holdStatus' = [h \in HoldIds |->
                      IF holdPatron[h] # p THEN holdStatus[h]
                      ELSE IF holdStatus[h] = "ready" THEN "erased" ELSE "cancelled"]
  /\ holdPatron' = [h \in HoldIds |-> IF holdPatron[h] = p THEN None ELSE holdPatron[h]]
  /\ UNCHANGED <<licenseVars, loanStatus, loanLicense, holdEdition>>

----------------------------------------------------------------------------
DigitalInit ==
  /\ live = [k \in Licenses |-> TRUE]
  /\ used = [k \in Licenses |-> 0]
  /\ loanStatus = [n \in LoanIds |-> "absent"]
  /\ loanLicense = [n \in LoanIds |-> None]
  /\ loanPatron = [n \in LoanIds |-> None]
  /\ holdStatus = [h \in HoldIds |-> "absent"]
  /\ holdPatron = [h \in HoldIds |-> None]
  /\ holdEdition = [h \in HoldIds |-> None]

DigitalNext ==
  \/ \E p \in Patrons, e \in Editions :
        \/ \E k \in Licenses, n \in LoanIds : Borrow(p, e, k, n)
        \/ \E h \in HoldIds : PlaceHold(p, e, h)
  \/ \E n \in LoanIds : ReturnDigital(n) \/ ExpireLoan(n)
  \/ \E h \in HoldIds : CancelHold(h) \/ ExpireHold(h)
  \/ \E k \in Licenses : Lapse(k)
  \/ \E p \in Patrons : Erase(p)

DigitalSpec == DigitalInit /\ [][DigitalNext]_digitalVars

\* run_sweeps closes every loan and every ready hold that is past its date.
DigitalFairness ==
  /\ \A n \in LoanIds : WF_digitalVars(ExpireLoan(n))
  /\ \A h \in HoldIds : WF_digitalVars(ExpireHold(h))

DigitalFairSpec == DigitalSpec /\ DigitalFairness

----------------------------------------------------------------------------
(* Properties.                                                             *)

DigitalTypeOK ==
  /\ live \in [Licenses -> BOOLEAN]
  /\ used \in [Licenses -> Nat]
  /\ loanStatus \in [LoanIds -> LoanStatus \cup {"absent"}]
  /\ loanLicense \in [LoanIds -> Licenses \cup {None}]
  /\ loanPatron \in [LoanIds -> Patrons \cup {None}]
  /\ holdStatus \in [HoldIds -> HoldStatus \cup {"absent", "erased"}]
  /\ holdPatron \in [HoldIds -> Patrons \cup {None}]
  /\ holdEdition \in [HoldIds -> Editions \cup {None}]
  /\ \A n \in LoanIds : loanStatus[n] = "active" =>
        loanPatron[n] \in Patrons /\ loanLicense[n] \in Licenses
  /\ \A h \in HoldIds : ActiveHold(h) =>
        holdPatron[h] \in Patrons /\ holdEdition[h] \in Editions

\* A publisher's terms: never more readers at once than the licence has, never
\* more checkouts than it was bought with, whoever came by a hold.
WithinLicense ==
  \A k \in Licenses :
     /\ Limit[k] # None => Cardinality(Readers(k, loanStatus)) <= Limit[k]
     /\ Allowed[k] # None =>
          Cardinality({n \in LoanIds : loanLicense[n] = k}) <= Allowed[k]

\* A patron reads an edition, or is in its queue, once and not both.
OncePerEdition ==
  /\ \A m, n \in LoanIds :
        /\ loanStatus[m] = "active" /\ loanStatus[n] = "active"
        /\ loanPatron[m] = loanPatron[n]
        /\ EditionOf[loanLicense[m]] = EditionOf[loanLicense[n]]
        => m = n
  /\ \A g, h \in HoldIds :
        /\ ActiveHold(g) /\ ActiveHold(h)
        /\ holdPatron[g] = holdPatron[h] /\ holdEdition[g] = holdEdition[h]
        => g = h
  /\ \A h \in HoldIds : ActiveHold(h) => ~Reads(holdPatron[h], holdEdition[h])

\* Nobody waits beside a slot that nobody was told of: there is no sweep that
\* would notice, and while somebody waits nobody else may borrow.  (A ready
\* hold that is erased with its patron does leave its slot so.)
Slots(e) ==
  UNION {{k} \X (Cardinality(Readers(k, loanStatus)) + 1 .. Limit[k]) :
           k \in Offered(e, loanStatus)}

NoIdleSlot ==
  \A e \in Editions :
    HoldsFor(e, "waiting", holdStatus) # {} =>
      /\ \A k \in Offered(e, loanStatus) : Limit[k] # None
      /\ Cardinality(Slots(e)) <= Cardinality(HoldsFor(e, "ready", holdStatus)
                                             \cup HoldsFor(e, "erased", holdStatus))

\* First come, first served: a hold becomes ready only when no older one for
\* the edition is left waiting.
QueueOrder ==
  [][\A g, h \in HoldIds :
       holdStatus[h] # "ready" /\ holdStatus'[h] = "ready" /\ g < h
       => ~(holdStatus'[g] = "waiting" /\ holdEdition'[g] = holdEdition'[h])]_digitalVars

\* A hold does not wait for ever: with nobody returning or cancelling anything
\* the sweeps bring it to the front, unless the licences are used up or the slot
\* was lost with an erased hold.
HoldsServed ==
  \A h \in HoldIds :
    holdStatus[h] = "waiting" ~>
      \/ holdStatus[h] # "waiting"
      \/ HoldsFor(holdEdition[h], "erased", holdStatus) # {}
      \/ \A k \in Licenses : EditionOf[k] = holdEdition[h] =>
            \/ ~live[k]
            \/ Allowed[k] # None /\ used[k] >= Allowed[k]

\* A ready hold lets its holder borrow: nobody else takes the last slot.
ReadyKeepsItsSlot ==
  [][\A h \in HoldIds :
       /\ holdStatus[h] = "ready" /\ holdStatus'[h] = "ready"
       /\ SlotFree(holdEdition[h], loanStatus)
       /\ live' = live
       => SlotFree(holdEdition[h], loanStatus)']_digitalVars
=============================================================================
