--------------------------- MODULE DigitalProofs ---------------------------
(***************************************************************************)
(* A patron meets an edition once, its queue is served in order, licences  *)
(* keep their terms, and nobody waits beside a slot that was offered to    *)
(* nobody: for any licences, patrons and editions.                         *)
(***************************************************************************)
EXTENDS Digital, FiniteSetTheorems, TLAPS

DigitalInv == DigitalTypeOK /\ OncePerEdition

HoldStatuses == HoldStatus \cup {"absent", "erased"}

LEMMA InitInv == DigitalInit => DigitalInv
BY DigitalNoneAssumption, LibraryAssumption DEF DigitalInit, DigitalInv, DigitalTypeOK, OncePerEdition, ActiveHold

----------------------------------------------------------------------------
(* Promotion.                                                              *)

\* What becomes of the holds, in the order of the queue: a hold of hs stays as
\* it is, or is the oldest one waiting for its edition and becomes ready.
Promotes(hs) ==
  /\ holdStatus' \in [HoldIds -> HoldStatuses]
  /\ \A h \in HoldIds :
        \/ holdStatus'[h] = hs[h]
        \/ /\ hs[h] = "waiting" /\ holdStatus'[h] = "ready"
           /\ \A g \in HoldIds :
                 hs[g] = "waiting" /\ holdEdition[g] = holdEdition[h] => h <= g

\* _assign_next_digital_hold promotes the oldest waiting hold or none.
LEMMA AssignPromotes ==
  ASSUME NEW e, NEW ls, NEW hs \in [HoldIds -> HoldStatuses], AssignNext(e, ls, hs)
  PROVE  Promotes(hs)
<1>1. CASE holdStatus' = hs
  BY <1>1 DEF Promotes
<1>2. ASSUME NEW h \in HoldsFor(e, "waiting", hs),
             Oldest(h, HoldsFor(e, "waiting", hs)),
             holdStatus' = [hs EXCEPT ![h] = "ready"]
      PROVE  Promotes(hs)
  BY <1>2 DEF Promotes, HoldsFor, Oldest, HoldStatuses, HoldStatus
<1> QED BY <1>1, <1>2 DEF AssignNext

\* Promotion, after some active holds have ended, changes nothing of who has
\* what.
LEMMA PromotionKeeps ==
  ASSUME DigitalInv, NEW hs \in [HoldIds -> HoldStatuses], Promotes(hs),
         \A h \in HoldIds : hs[h] \in {"waiting", "ready"} => ActiveHold(h),
         holdPatron' = holdPatron, holdEdition' = holdEdition,
         licenseVars' = licenseVars, loanLicense' = loanLicense,
         loanStatus' \in [LoanIds -> LoanStatus \cup {"absent"}],
         loanPatron' \in [LoanIds -> Patrons \cup {None}],
         \A n \in LoanIds : loanStatus'[n] = "active" =>
            loanStatus[n] = "active" /\ loanPatron'[n] = loanPatron[n]
  PROVE  DigitalInv'
<1>1. \A h \in HoldIds : ActiveHold(h)' => ActiveHold(h)
  BY DEF Promotes, ActiveHold
<1>2. DigitalTypeOK'
  BY <1>1 DEF DigitalInv, DigitalTypeOK, Promotes, HoldStatuses, licenseVars
<1>3. \A p, e : Reads(p, e)' => Reads(p, e)
  BY DEF Reads
<1>4. OncePerEdition'
  BY <1>1, <1>3 DEF DigitalInv, OncePerEdition
<1> QED BY <1>2, <1>4 DEF DigitalInv

----------------------------------------------------------------------------
(* The steps.                                                              *)

LEMMA BorrowKeeps ==
  ASSUME DigitalInv, NEW p \in Patrons, NEW e \in Editions, NEW k \in Licenses,
         NEW n \in LoanIds, Borrow(p, e, k, n)
  PROVE  DigitalInv'
<1>1. EditionOf[k] = e
  BY DEF Borrow, Pick, Offered
<1>2. \A h \in HoldIds : ActiveHold(h)' =>
         ActiveHold(h) /\ holdStatus'[h] = holdStatus[h]
  BY DEF DigitalInv, DigitalTypeOK, Borrow, Fulfilled, ActiveHold
<1>3. \A h \in HoldIds : ActiveHold(h)' => ~(holdPatron[h] = p /\ holdEdition[h] = e)
  <2>1. SUFFICES ASSUME NEW h \in HoldIds, ActiveHold(h)', holdPatron[h] = p,
                        holdEdition[h] = e
                 PROVE  FALSE
    OBVIOUS
  <2>2. ActiveHold(h) /\ holdStatus[h] # "ready"
    BY <2>1, <1>2 DEF DigitalInv, DigitalTypeOK, Borrow, Fulfilled, ActiveHold
  <2>3. h \in HoldsFor(e, "waiting", holdStatus)
    BY <2>1, <2>2 DEF HoldsFor, ActiveHold
  <2>4. PICK g \in HoldsFor(e, "ready", holdStatus) : holdPatron[g] = p
    BY <2>3 DEF Borrow
  <2>5. g \in HoldIds /\ ActiveHold(g) /\ holdEdition[g] = e
    BY <2>4 DEF HoldsFor, ActiveHold
  <2> QED BY <2>1, <2>2, <2>4, <2>5 DEF DigitalInv, OncePerEdition, HoldsFor
<1>4. DigitalTypeOK'
  <2>1. used' \in [Licenses -> Nat]
    BY DEF DigitalInv, DigitalTypeOK, Borrow
  <2>2. /\ loanStatus' \in [LoanIds -> LoanStatus \cup {"absent"}]
        /\ loanLicense' \in [LoanIds -> Licenses \cup {None}]
        /\ loanPatron' \in [LoanIds -> Patrons \cup {None}]
        /\ \A m \in LoanIds : loanStatus'[m] = "active" =>
              loanPatron'[m] \in Patrons /\ loanLicense'[m] \in Licenses
    BY DEF DigitalInv, DigitalTypeOK, Borrow, LoanStatus
  <2>3. holdStatus' \in [HoldIds -> HoldStatuses]
    BY DEF DigitalInv, DigitalTypeOK, Borrow, Fulfilled, HoldStatuses, HoldStatus
  <2> QED BY <1>2, <2>1, <2>2, <2>3 DEF DigitalInv, DigitalTypeOK, Borrow, HoldStatuses
<1>5. \A m \in LoanIds \ {n} : /\ loanStatus'[m] = loanStatus[m]
                               /\ loanPatron'[m] = loanPatron[m]
                               /\ loanLicense'[m] = loanLicense[m]
  BY DEF DigitalInv, DigitalTypeOK, Borrow
<1>6. loanPatron'[n] = p /\ loanLicense'[n] = k /\ loanStatus'[n] = "active"
  BY DEF DigitalInv, DigitalTypeOK, Borrow
<1>7. OncePerEdition'
  <2>1. \A m \in LoanIds \ {n} :
           loanStatus'[m] = "active" /\ loanPatron'[m] = p =>
              EditionOf[loanLicense'[m]] # e
    BY <1>5 DEF Borrow, Reads
  <2>2. \A h \in HoldIds : ActiveHold(h)' => ~Reads(holdPatron[h], holdEdition[h])'
    <3>1. SUFFICES ASSUME NEW h \in HoldIds, ActiveHold(h)', NEW m \in LoanIds,
                          loanStatus'[m] = "active", loanPatron'[m] = holdPatron[h]',
                          EditionOf[loanLicense'[m]] = holdEdition[h]'
                   PROVE  FALSE
      BY DEF Reads
    <3>2. holdPatron' = holdPatron /\ holdEdition' = holdEdition
      BY DEF Borrow
    <3>3. CASE m = n
      BY <1>1, <1>3, <1>6, <3>1, <3>2, <3>3
    <3>4. CASE m # n
      BY <1>2, <1>5, <3>1, <3>2, <3>4 DEF DigitalInv, OncePerEdition, Reads
    <3> QED BY <3>3, <3>4
  <2>3. \A g, h \in HoldIds :
          /\ ActiveHold(g)' /\ ActiveHold(h)'
          /\ holdPatron'[g] = holdPatron'[h] /\ holdEdition'[g] = holdEdition'[h]
          => g = h
    BY <1>2 DEF DigitalInv, OncePerEdition, Borrow
  <2>4. \A l, m \in LoanIds :
          /\ loanStatus'[l] = "active" /\ loanStatus'[m] = "active"
          /\ loanPatron'[l] = loanPatron'[m]
          /\ EditionOf[loanLicense'[l]] = EditionOf[loanLicense'[m]]
          => l = m
    BY <1>1, <1>5, <1>6, <2>1 DEF DigitalInv, OncePerEdition
  <2> QED BY <2>2, <2>3, <2>4 DEF OncePerEdition, Borrow
<1> QED BY <1>4, <1>7 DEF DigitalInv

LEMMA CloseLoanKeeps ==
  ASSUME DigitalInv, NEW n \in LoanIds, NEW status \in LoanStatus \ {"active"},
         CloseLoan(n, status)
  PROVE  DigitalInv' /\ Promotes(holdStatus)
<1>1. Promotes(holdStatus)
  BY AssignPromotes DEF DigitalInv, DigitalTypeOK, CloseLoan, HoldStatuses
<1>2. /\ loanStatus' \in [LoanIds -> LoanStatus \cup {"absent"}]
      /\ loanPatron' \in [LoanIds -> Patrons \cup {None}]
      /\ \A m \in LoanIds : loanStatus'[m] = "active" =>
            loanStatus[m] = "active" /\ loanPatron'[m] = loanPatron[m]
  BY DEF DigitalInv, DigitalTypeOK, CloseLoan
<1>3. DigitalInv'
  BY <1>1, <1>2, PromotionKeeps DEF CloseLoan, ActiveHold, DigitalInv, DigitalTypeOK, HoldStatuses
<1> QED BY <1>1, <1>3

LEMMA PlaceHoldKeeps ==
  ASSUME DigitalInv, NEW p \in Patrons, NEW e \in Editions, NEW h \in HoldIds,
         PlaceHold(p, e, h)
  PROVE  DigitalInv'
<1>1. /\ holdStatus' \in [HoldIds -> HoldStatuses]
      /\ \A g \in HoldIds \ {h} : /\ holdStatus'[g] = holdStatus[g]
                                  /\ holdPatron'[g] = holdPatron[g]
                                  /\ holdEdition'[g] = holdEdition[g]
      /\ holdPatron'[h] = p /\ holdEdition'[h] = e
  BY DEF DigitalInv, DigitalTypeOK, PlaceHold, HoldStatuses, HoldStatus
<1>2. DigitalTypeOK'
  BY <1>1 DEF DigitalInv, DigitalTypeOK, PlaceHold, licenseVars, loanVars, ActiveHold, HoldStatuses
<1>3. \A g \in HoldIds \ {h} : ActiveHold(g)' => ActiveHold(g)
  BY <1>1 DEF ActiveHold
<1>4. \A q, d : Reads(q, d)' <=> Reads(q, d)
  BY DEF Reads, PlaceHold, loanVars
<1>5. OncePerEdition'
  BY <1>1, <1>3, <1>4 DEF DigitalInv, OncePerEdition, PlaceHold, loanVars
<1> QED BY <1>2, <1>5 DEF DigitalInv

\* Ending a hold, with promotion or without.
LEMMA EndHoldKeeps ==
  ASSUME DigitalInv, NEW h \in HoldIds, CancelHold(h) \/ ExpireHold(h)
  PROVE  /\ DigitalInv'
         /\ \E s \in {"cancelled", "expired"} :
               Promotes([holdStatus EXCEPT ![h] = s]) /\ ActiveHold(h)
<1>1. PICK s \in {"cancelled", "expired"} :
         /\ ActiveHold(h)
         /\ \/ AssignNext(holdEdition[h], loanStatus, [holdStatus EXCEPT ![h] = s])
            \/ holdStatus' = [holdStatus EXCEPT ![h] = s]
         /\ UNCHANGED <<licenseVars, loanVars, holdPatron, holdEdition>>
  BY DEF CancelHold, ExpireHold, EndReady, ActiveHold
<1> DEFINE hs == [holdStatus EXCEPT ![h] = s]
<1>2. /\ hs \in [HoldIds -> HoldStatuses]
      /\ \A g \in HoldIds : hs[g] \in {"waiting", "ready"} => ActiveHold(g)
  BY DEF DigitalInv, DigitalTypeOK, HoldStatuses, HoldStatus, ActiveHold
<1>3. Promotes(hs)
  BY <1>1, <1>2, AssignPromotes DEF Promotes
<1>4. DigitalInv'
  <2>1. UNCHANGED <<licenseVars, loanStatus, loanLicense, loanPatron, holdPatron,
                    holdEdition>>
    BY <1>1 DEF loanVars
  <2>2. /\ loanStatus' \in [LoanIds -> LoanStatus \cup {"absent"}]
        /\ loanPatron' \in [LoanIds -> Patrons \cup {None}]
    BY <2>1 DEF DigitalInv, DigitalTypeOK
  <2> HIDE DEF hs
  <2> QED BY <1>2, <1>3, <2>1, <2>2, PromotionKeeps
<1> QED BY <1>1, <1>3, <1>4

LEMMA LapseKeeps ==
  ASSUME DigitalInv, NEW k \in Licenses, Lapse(k)
  PROVE  DigitalInv'
<1>1. DigitalTypeOK'
  BY DEF DigitalInv, DigitalTypeOK, Lapse, loanVars, holdVars, ActiveHold
<1>2. OncePerEdition'
  BY DEF DigitalInv, OncePerEdition, Lapse, loanVars, holdVars, ActiveHold, Reads
<1> QED BY <1>1, <1>2 DEF DigitalInv

LEMMA EraseKeeps ==
  ASSUME DigitalInv, NEW p \in Patrons, Erase(p)
  PROVE  DigitalInv'
<1>1. \A n \in LoanIds : loanStatus[n] = "active" => loanPatron'[n] = loanPatron[n]
  BY DEF DigitalInv, DigitalTypeOK, Erase
<1>2. \A h \in HoldIds : ActiveHold(h)' =>
         ActiveHold(h) /\ holdPatron'[h] = holdPatron[h]
  BY DEF DigitalInv, DigitalTypeOK, Erase, ActiveHold
<1>3. DigitalTypeOK'
  BY <1>1, <1>2 DEF DigitalInv, DigitalTypeOK, Erase, licenseVars, HoldStatus
<1>4. OncePerEdition'
  BY <1>1, <1>2 DEF DigitalInv, OncePerEdition, Erase, Reads
<1> QED BY <1>3, <1>4 DEF DigitalInv

LEMMA StepKeeps == DigitalInv /\ [DigitalNext]_digitalVars => DigitalInv'
<1> SUFFICES ASSUME DigitalInv, [DigitalNext]_digitalVars PROVE DigitalInv'
  OBVIOUS
<1>1. ASSUME NEW n \in LoanIds, ReturnDigital(n) \/ ExpireLoan(n) PROVE DigitalInv'
  BY <1>1, CloseLoanKeeps DEF ReturnDigital, ExpireLoan, LoanStatus
<1>2. CASE UNCHANGED digitalVars
  BY <1>2 DEF digitalVars, licenseVars, loanVars, holdVars, DigitalInv, DigitalTypeOK, OncePerEdition,
              ActiveHold, Reads
<1> QED BY <1>1, <1>2, BorrowKeeps, PlaceHoldKeeps, EndHoldKeeps, LapseKeeps, EraseKeeps
        DEF DigitalNext

LEMMA Invariance == DigitalSpec => []DigitalInv
BY InitInv, StepKeeps, PTL DEF DigitalSpec

\* Every field keeps its type, and an active loan or hold has its patron.
THEOREM TypeCorrect == DigitalSpec => []DigitalTypeOK
<1>1. DigitalInv => DigitalTypeOK
  BY DEF DigitalInv
<1> QED BY <1>1, Invariance, PTL

\* borrow_digital and place_digital_hold let a patron read an edition once, or
\* queue for it once, and not both, whatever is promoted, expired or erased.
THEOREM OnceEach == DigitalSpec => []OncePerEdition
<1>1. DigitalInv => OncePerEdition
  BY DEF DigitalInv
<1> QED BY <1>1, Invariance, PTL

----------------------------------------------------------------------------
(* The order of the queue.                                                 *)

InOrder ==
  \A g, h \in HoldIds :
    holdStatus[h] # "ready" /\ holdStatus'[h] = "ready" /\ g < h
    => ~(holdStatus'[g] = "waiting" /\ holdEdition'[g] = holdEdition'[h])

LEMMA PromotionInOrder ==
  ASSUME NEW hs \in [HoldIds -> HoldStatuses], Promotes(hs),
         \A h \in HoldIds : hs[h] = "ready" => holdStatus[h] = "ready",
         holdEdition' = holdEdition
  PROVE  InOrder
<1>1. SUFFICES ASSUME NEW g \in HoldIds, NEW h \in HoldIds,
                      holdStatus[h] # "ready", holdStatus'[h] = "ready", g < h,
                      holdStatus'[g] = "waiting", holdEdition[g] = holdEdition[h]
               PROVE  FALSE
  BY DEF InOrder
<1>2. hs[g] = "waiting"
  BY <1>1 DEF Promotes
<1>3. h <= g
  BY <1>1, <1>2 DEF Promotes
<1>4. g \in Nat /\ h \in Nat
  BY DEF HoldIds
<1> QED BY <1>1, <1>3, <1>4

LEMMA StepInOrder == DigitalInv /\ DigitalNext => InOrder
<1> SUFFICES ASSUME DigitalInv, DigitalNext PROVE InOrder
  OBVIOUS
<1>1. ASSUME NEW n \in LoanIds, ReturnDigital(n) \/ ExpireLoan(n) PROVE InOrder
  <2>1. Promotes(holdStatus)
    BY <1>1, CloseLoanKeeps DEF ReturnDigital, ExpireLoan, LoanStatus
  <2>2. holdEdition' = holdEdition
    BY <1>1 DEF ReturnDigital, ExpireLoan, CloseLoan
  <2> QED BY <2>1, <2>2, PromotionInOrder DEF DigitalInv, DigitalTypeOK, HoldStatuses
<1>2. ASSUME NEW h \in HoldIds, CancelHold(h) \/ ExpireHold(h) PROVE InOrder
  <2>1. PICK s \in {"cancelled", "expired"} : Promotes([holdStatus EXCEPT ![h] = s])
    BY <1>2, EndHoldKeeps
  <2> DEFINE hs == [holdStatus EXCEPT ![h] = s]
  <2>2. /\ hs \in [HoldIds -> HoldStatuses]
        /\ \A g \in HoldIds : hs[g] = "ready" => holdStatus[g] = "ready"
    BY DEF DigitalInv, DigitalTypeOK, HoldStatuses, HoldStatus
  <2>3. holdEdition' = holdEdition
    BY <1>2 DEF CancelHold, ExpireHold, EndReady
  <2> HIDE DEF hs
  <2> QED BY <2>1, <2>2, <2>3, PromotionInOrder DEF hs
<1>3. ASSUME NEW p \in Patrons, NEW e \in Editions, NEW h \in HoldIds, PlaceHold(p, e, h)
      PROVE  InOrder
  <2>1. /\ \A g \in HoldIds \ {h} : /\ holdStatus'[g] = holdStatus[g]
                                    /\ holdEdition'[g] = holdEdition[g]
        /\ holdEdition'[h] = e
    BY <1>3 DEF DigitalInv, DigitalTypeOK, PlaceHold
  <2>2. holdStatus'[h] = "ready" => \A g \in HoldIds :
           ~(holdStatus[g] = "waiting" /\ holdEdition[g] = e)
    BY <1>3 DEF DigitalInv, DigitalTypeOK, PlaceHold, Ahead, HoldsFor
  <2>3. \A g \in HoldIds : g < h => g # h
    BY DEF HoldIds
  <2> QED BY <2>1, <2>2, <2>3 DEF InOrder
<1>4. CASE \A h \in HoldIds : holdStatus'[h] = "ready" => holdStatus[h] = "ready"
  BY <1>4 DEF InOrder
<1>5. ASSUME NEW p \in Patrons, NEW e \in Editions, NEW k \in Licenses,
             NEW n \in LoanIds, Borrow(p, e, k, n)
      PROVE  InOrder
  BY <1>4, <1>5 DEF Borrow, Fulfilled, DigitalInv, DigitalTypeOK
<1>6. ASSUME NEW k \in Licenses, Lapse(k) PROVE InOrder
  BY <1>4, <1>6 DEF Lapse, holdVars
<1>7. ASSUME NEW p \in Patrons, Erase(p) PROVE InOrder
  BY <1>4, <1>7 DEF Erase, DigitalInv, DigitalTypeOK
<1> QED BY <1>1, <1>2, <1>3, <1>5, <1>6, <1>7 DEF DigitalNext

\* No call and no sweep makes a hold ready while an older one for the edition
\* goes on waiting: _assign_next_digital_hold and place_digital_hold alike.
THEOREM FirstComeFirstServed == DigitalSpec => QueueOrder
<1>1. DigitalInv /\ [DigitalNext]_digitalVars => [InOrder]_digitalVars
  BY StepInOrder
<1>2. DigitalSpec => [][InOrder]_digitalVars
  BY <1>1, Invariance, PTL DEF DigitalSpec
<1> QED BY <1>2 DEF QueueOrder, InOrder

----------------------------------------------------------------------------
(* The licences.                                                           *)

Taken(k) == {n \in LoanIds : loanLicense[n] = k}

\* A metered licence counts its loans, and neither limit is passed.
LicenseInv ==
  \A k \in Licenses :
    /\ Limit[k] # None => Cardinality(Readers(k, loanStatus)) <= Limit[k]
    /\ Allowed[k] # None => Cardinality(Taken(k)) <= used[k] /\ used[k] <= Allowed[k]

LEMMA LoansFinite ==
  ASSUME NEW S \in SUBSET LoanIds
  PROVE  IsFiniteSet(S) /\ Cardinality(S) \in Nat
<1>1. IsFiniteSet(LoanIds)
  BY DigitalRowAssumption, FS_Interval DEF LoanIds
<1>2. IsFiniteSet(S)
  BY <1>1, FS_Subset
<1> QED BY <1>2, FS_CardinalityType

LEMMA OneMore ==
  ASSUME NEW S \in SUBSET LoanIds, NEW n, NEW T \in SUBSET (S \cup {n})
  PROVE  /\ Cardinality(S) \in Nat /\ Cardinality(T) \in Nat
         /\ Cardinality(T) <= Cardinality(S) + 1
<1>1. IsFiniteSet(S) /\ Cardinality(S) \in Nat
  BY LoansFinite
<1>2. IsFiniteSet(S \cup {n}) /\ Cardinality(S \cup {n}) <= Cardinality(S) + 1
  <2>1. /\ IsFiniteSet(S \cup {n})
        /\ Cardinality(S \cup {n}) = IF n \in S THEN Cardinality(S) ELSE Cardinality(S) + 1
    BY ONLY <1>1, FS_AddElement, Zenon
  <2> DEFINE c == Cardinality(S)
             d == Cardinality(S \cup {n})
  <2>2. c \in Nat /\ d = (IF n \in S THEN c ELSE c + 1)
    BY <1>1, <2>1
  <2> HIDE DEF c, d
  <2>3. d <= c + 1
    BY <2>2
  <2> QED BY <2>1, <2>3 DEF c, d
<1>3. IsFiniteSet(T) /\ Cardinality(T) <= Cardinality(S \cup {n})
  BY <1>2, FS_Subset
<1>4. Cardinality(T) \in Nat /\ Cardinality(S \cup {n}) \in Nat
  BY <1>2, <1>3, FS_CardinalityType
<1> QED BY <1>1, <1>2, <1>3, <1>4

LEMMA NoMore ==
  ASSUME NEW S \in SUBSET LoanIds, NEW T \in SUBSET S
  PROVE  /\ Cardinality(S) \in Nat /\ Cardinality(T) \in Nat
         /\ Cardinality(T) <= Cardinality(S)
BY LoansFinite, FS_Subset

\* A loan is made only of a licence with room, and is counted.
LEMMA BorrowWithin ==
  ASSUME DigitalTypeOK, LicenseInv, NEW p \in Patrons, NEW e \in Editions, NEW k \in Licenses,
         NEW n \in LoanIds, Borrow(p, e, k, n)
  PROVE  LicenseInv'
<1> SUFFICES ASSUME NEW j \in Licenses
             PROVE  /\ Limit[j] # None => Cardinality(Readers(j, loanStatus)') <= Limit[j]
                    /\ Allowed[j] # None => Cardinality(Taken(j)') <= used'[j] /\ used'[j] <= Allowed[j]
  BY DEF LicenseInv
<1>0. Limit[j] \in Nat \cup {None} /\ Allowed[j] \in Nat \cup {None} /\ used[j] \in Nat
  BY DigitalLicenseAssumption DEF DigitalTypeOK
<1>1. /\ Readers(j, loanStatus) \in SUBSET LoanIds /\ Taken(j) \in SUBSET LoanIds
      /\ Readers(j, loanStatus)' \in SUBSET (Readers(j, loanStatus) \cup {n})
      /\ Taken(j)' \in SUBSET (Taken(j) \cup {n})
  BY DEF Readers, Taken, Borrow, DigitalTypeOK
<1>2. CASE j = k
  <2>1. /\ Limit[j] # None => Cardinality(Readers(j, loanStatus)) < Limit[j]
        /\ Allowed[j] # None => used[j] < Allowed[j] /\ used'[j] = used[j] + 1
    BY <1>2 DEF Borrow, Pick, Offered, Available, HasRoom, DigitalTypeOK
  <2>2. /\ Cardinality(Readers(j, loanStatus)) \in Nat
        /\ Cardinality(Readers(j, loanStatus)') \in Nat
        /\ Cardinality(Readers(j, loanStatus)') <= Cardinality(Readers(j, loanStatus)) + 1
    BY <1>1, OneMore
  <2>3. /\ Cardinality(Taken(j)) \in Nat /\ Cardinality(Taken(j)') \in Nat
        /\ Cardinality(Taken(j)') <= Cardinality(Taken(j)) + 1
    BY <1>1, OneMore
  <2>4. Allowed[j] # None => Cardinality(Taken(j)) <= used[j]
    BY DEF LicenseInv
  <2>5. Limit[j] # None => Cardinality(Readers(j, loanStatus)') <= Limit[j]
    BY <1>0, <2>1, <2>2
  <2>6. Allowed[j] # None => Cardinality(Taken(j)') <= used'[j] /\ used'[j] <= Allowed[j]
    BY <1>0, <2>1, <2>3, <2>4
  <2> QED BY <2>5, <2>6
<1>3. CASE j # k
  <2>1. /\ Readers(j, loanStatus)' \in SUBSET Readers(j, loanStatus)
        /\ Taken(j)' \in SUBSET Taken(j) /\ used'[j] = used[j]
    BY <1>3 DEF Readers, Taken, Borrow, DigitalTypeOK
  <2>2. /\ Cardinality(Readers(j, loanStatus)) \in Nat
        /\ Cardinality(Readers(j, loanStatus)') \in Nat
        /\ Cardinality(Readers(j, loanStatus)') <= Cardinality(Readers(j, loanStatus))
    BY <1>1, <2>1, NoMore
  <2>3. /\ Cardinality(Taken(j)) \in Nat /\ Cardinality(Taken(j)') \in Nat
        /\ Cardinality(Taken(j)') <= Cardinality(Taken(j))
    BY <1>1, <2>1, NoMore
  <2>4. Limit[j] # None => Cardinality(Readers(j, loanStatus)') <= Limit[j]
    BY <1>0, <2>2 DEF LicenseInv
  <2>5. Allowed[j] # None => Cardinality(Taken(j)') <= used'[j] /\ used'[j] <= Allowed[j]
    BY <1>0, <2>1, <2>3 DEF LicenseInv
  <2> QED BY <2>4, <2>5
<1> QED BY <1>2, <1>3

\* No other step adds a reader.
LEMMA OthersWithin ==
  ASSUME DigitalTypeOK, LicenseInv, UNCHANGED <<used, loanLicense>>,
         \A n \in LoanIds : loanStatus'[n] = "active" => loanStatus[n] = "active"
  PROVE  LicenseInv'
<1> SUFFICES ASSUME NEW j \in Licenses
             PROVE  /\ Limit[j] # None => Cardinality(Readers(j, loanStatus)') <= Limit[j]
                    /\ Allowed[j] # None => Cardinality(Taken(j)') <= used'[j] /\ used'[j] <= Allowed[j]
  BY DEF LicenseInv
<1>1. /\ Readers(j, loanStatus) \in SUBSET LoanIds
      /\ Readers(j, loanStatus)' \in SUBSET Readers(j, loanStatus)
      /\ Taken(j)' = Taken(j) /\ used'[j] = used[j]
  BY DEF Readers, Taken
<1>2. /\ Cardinality(Readers(j, loanStatus)) \in Nat
      /\ Cardinality(Readers(j, loanStatus)') \in Nat
      /\ Cardinality(Readers(j, loanStatus)') <= Cardinality(Readers(j, loanStatus))
  BY <1>1, NoMore
<1>3. Limit[j] \in Nat \cup {None}
  BY DigitalLicenseAssumption
<1> QED BY <1>1, <1>2, <1>3 DEF LicenseInv

LEMMA StepWithin == DigitalTypeOK /\ LicenseInv /\ [DigitalNext]_digitalVars => LicenseInv'
<1> SUFFICES ASSUME DigitalTypeOK, LicenseInv, [DigitalNext]_digitalVars PROVE LicenseInv'
  OBVIOUS
<1>1. ASSUME NEW n \in LoanIds, NEW ended \in {"returned", "expired"}, CloseLoan(n, ended)
      PROVE  LicenseInv'
  BY <1>1, OthersWithin DEF CloseLoan, licenseVars, DigitalTypeOK
<1>2. ASSUME NEW h \in HoldIds, CancelHold(h) \/ ExpireHold(h)
      PROVE  LicenseInv'
  BY <1>2, OthersWithin DEF CancelHold, ExpireHold, EndReady, licenseVars, loanVars
<1>3. ASSUME NEW p \in Patrons, NEW e \in Editions, NEW h \in HoldIds, PlaceHold(p, e, h)
      PROVE  LicenseInv'
  BY <1>3, OthersWithin DEF PlaceHold, licenseVars, loanVars
<1>4. ASSUME NEW k \in Licenses, Lapse(k)
      PROVE  LicenseInv'
  BY <1>4, OthersWithin DEF Lapse, loanVars
<1>5. ASSUME NEW p \in Patrons, Erase(p)
      PROVE  LicenseInv'
  BY <1>5, OthersWithin DEF Erase, licenseVars
<1>6. CASE UNCHANGED digitalVars
  BY <1>6, OthersWithin DEF digitalVars, licenseVars, loanVars
<1> QED
  BY <1>1, <1>2, <1>3, <1>4, <1>5, <1>6, BorrowWithin
  DEF DigitalNext, ReturnDigital, ExpireLoan

LEMMA InitWithin == DigitalInit => LicenseInv
<1> SUFFICES ASSUME DigitalInit, NEW k \in Licenses
             PROVE  /\ Limit[k] # None => Cardinality(Readers(k, loanStatus)) <= Limit[k]
                    /\ Allowed[k] # None => Cardinality(Taken(k)) <= used[k] /\ used[k] <= Allowed[k]
  BY DEF LicenseInv
<1>1. k # None
  <2>1. k \in Int
    BY DigitalLicenseAssumption
  <2> QED BY <2>1, LibraryAssumption
<1>2. Readers(k, loanStatus) = {} /\ Taken(k) = {}
  BY <1>1 DEF DigitalInit, Readers, Taken
<1>3. used[k] = 0 /\ Limit[k] \in Nat \cup {None} /\ Allowed[k] \in Nat \cup {None}
  BY DigitalLicenseAssumption DEF DigitalInit
<1> QED BY <1>2, <1>3, FS_EmptySet

\* A publisher's terms are kept, whatever loans, holds, sweeps and erasures do:
\* borrow_digital lends no licence to more readers at once than it allows, and
\* no metered one more often.
THEOREM TermsKept == DigitalSpec => []WithinLicense
<1>1. DigitalTypeOK /\ LicenseInv => WithinLicense
  <2> SUFFICES ASSUME DigitalTypeOK, LicenseInv, NEW k \in Licenses, Allowed[k] # None
               PROVE  Cardinality(Taken(k)) <= Allowed[k]
    BY DEF WithinLicense, LicenseInv, Taken
  <2>1. Cardinality(Taken(k)) <= used[k] /\ used[k] <= Allowed[k]
    BY DEF LicenseInv
  <2>2. Cardinality(Taken(k)) \in Nat /\ used[k] \in Nat /\ Allowed[k] \in Nat
    BY LoansFinite, DigitalLicenseAssumption DEF Taken, DigitalTypeOK
  <2> QED BY <2>1, <2>2
<1> QED BY <1>1, InitWithin, StepWithin, TypeCorrect, PTL DEF DigitalSpec

----------------------------------------------------------------------------
(* The slots that nobody was told of.                                      *)

Queue(e) == HoldsFor(e, "waiting", holdStatus)

\* The ready holds, and those that were erased while they were ready.
Told(e) == HoldsFor(e, "ready", holdStatus) \cup HoldsFor(e, "erased", holdStatus)

Bounded(e) == \A k \in Offered(e, loanStatus) : Limit[k] # None

\* As long as somebody waits every free slot was offered to somebody.
AllTold(e) ==
  Queue(e) # {} => Bounded(e) /\ Cardinality(Slots(e)) <= Cardinality(Told(e))

Free(k) == {k} \X (Cardinality(Readers(k, loanStatus)) + 1 .. Limit[k])

LEMMA ReadersCount ==
  ASSUME NEW k
  PROVE  /\ Readers(k, loanStatus) \in SUBSET LoanIds
         /\ IsFiniteSet(Readers(k, loanStatus))
         /\ Cardinality(Readers(k, loanStatus)) \in Nat
<1>1. Readers(k, loanStatus) \in SUBSET LoanIds
  BY DEF Readers
<1> QED BY <1>1, LoansFinite

LEMMA FreeFinite ==
  ASSUME NEW k \in Licenses, Limit[k] # None
  PROVE  IsFiniteSet(Free(k))
<1>1. Limit[k] \in Int
  BY DigitalLicenseAssumption
<1>2. IsFiniteSet(Cardinality(Readers(k, loanStatus)) + 1 .. Limit[k])
  <2> DEFINE a == Cardinality(Readers(k, loanStatus)) + 1
  <2>1. a \in Int
    BY ReadersCount
  <2> HIDE DEF a
  <2>2. IsFiniteSet(a .. Limit[k])
    BY <1>1, <2>1, FS_Interval
  <2> QED BY <2>2 DEF a
<1> QED BY <1>2, FS_Singleton, FS_Product DEF Free

LEMMA SlotsFinite ==
  ASSUME NEW e, Bounded(e)
  PROVE  IsFiniteSet(Slots(e)) /\ Cardinality(Slots(e)) \in Nat
<1> DEFINE O == Offered(e, loanStatus)
           F == {Free(k) : k \in O}
           f == [k \in O |-> Free(k)]
<1>1. O \subseteq Licenses
  BY DEF Offered
<1>2. IsFiniteSet(O)
  BY <1>1, DigitalLicenseAssumption, FS_Subset
<1>3. f \in Surjection(O, F)
  BY DEF Surjection
<1> HIDE DEF f
<1>4. IsFiniteSet(F)
  BY <1>2, <1>3, FS_Surjection
<1>5. \A T \in F : IsFiniteSet(T)
  BY <1>1, FreeFinite DEF Bounded
<1>6. Slots(e) = UNION F
  BY DEF Slots, Free
<1>7. IsFiniteSet(Slots(e))
  BY <1>4, <1>5, <1>6, FS_UNION
<1> QED BY <1>7, FS_CardinalityType

LEMMA HoldsFinite ==
  ASSUME NEW S \in SUBSET HoldIds
  PROVE  IsFiniteSet(S) /\ Cardinality(S) \in Nat
<1>1. IsFiniteSet(HoldIds)
  BY DigitalRowAssumption, FS_Interval DEF HoldIds
<1>2. IsFiniteSet(S)
  BY <1>1, FS_Subset
<1> QED BY <1>2, FS_CardinalityType

LEMMA ToldType == ASSUME NEW e PROVE Told(e) \in SUBSET HoldIds
BY DEF Told, HoldsFor

\* A slot is a licence that is offered and one of its readers to come.
LEMMA SlotIs ==
  ASSUME NEW e, NEW s
  PROVE  s \in Slots(e) <=>
           \E k \in Offered(e, loanStatus) :
              \E i \in Cardinality(Readers(k, loanStatus)) + 1 .. Limit[k] : s = <<k, i>>
BY DEF Slots

----------------------------------------------------------------------------
\* Nothing new is offered, and no slot is freed.
LEMMA SameSlots ==
  ASSUME NEW e, Bounded(e),
         \A k \in Offered(e, loanStatus)' :
            k \in Offered(e, loanStatus) /\ Readers(k, loanStatus)' = Readers(k, loanStatus)
  PROVE  /\ Bounded(e)' /\ Slots(e)' \in SUBSET Slots(e)
         /\ Cardinality(Slots(e)') \in Nat /\ Cardinality(Slots(e)) \in Nat
         /\ Cardinality(Slots(e)') <= Cardinality(Slots(e))
<1>1. Bounded(e)'
  BY DEF Bounded
<1>2. Slots(e)' \in SUBSET Slots(e)
  BY DEF Slots
<1>3. IsFiniteSet(Slots(e)) /\ Cardinality(Slots(e)) \in Nat
  BY SlotsFinite
<1>4. IsFiniteSet(Slots(e)') /\ Cardinality(Slots(e)') <= Cardinality(Slots(e))
  BY <1>2, <1>3, FS_Subset
<1>5. Cardinality(Slots(e)') \in Nat
  BY <1>4, FS_CardinalityType
<1> QED BY <1>1, <1>2, <1>3, <1>4, <1>5

\* A step that frees nothing, takes back no offer and puts nobody into an empty
\* queue.
LEMMA QuietTold ==
  ASSUME NEW e, AllTold(e), Queue(e)' # {} => Queue(e) # {}, Told(e) \subseteq Told(e)',
         \A k \in Offered(e, loanStatus)' :
            k \in Offered(e, loanStatus) /\ Readers(k, loanStatus)' = Readers(k, loanStatus)
  PROVE  AllTold(e)'
<1> SUFFICES ASSUME Queue(e)' # {}
             PROVE  Bounded(e)' /\ Cardinality(Slots(e)') <= Cardinality(Told(e)')
  BY DEF AllTold
<1>1. Bounded(e) /\ Cardinality(Slots(e)) <= Cardinality(Told(e))
  BY DEF AllTold
<1>2. /\ Bounded(e)' /\ Cardinality(Slots(e)') \in Nat /\ Cardinality(Slots(e)) \in Nat
      /\ Cardinality(Slots(e)') <= Cardinality(Slots(e))
  BY <1>1, SameSlots
<1>3. Told(e)' \in SUBSET HoldIds
  BY DEF Told, HoldsFor
<1>4. IsFiniteSet(Told(e)') /\ Cardinality(Told(e)') \in Nat
  BY <1>3, HoldsFinite
<1>5. Cardinality(Told(e)) <= Cardinality(Told(e)') /\ Cardinality(Told(e)) \in Nat
  BY <1>4, FS_Subset, ToldType, HoldsFinite
<1> QED BY <1>1, <1>2, <1>4, <1>5

\* A step after which nothing is offered.
LEMMA NothingOffered ==
  ASSUME NEW e, Offered(e, loanStatus)' = {}
  PROVE  AllTold(e)'
<1>1. Bounded(e)' /\ Slots(e)' = {}
  BY DEF Bounded, Slots
<1>2. Told(e)' \in SUBSET HoldIds
  BY DEF Told, HoldsFor
<1>3. Cardinality(Told(e)') \in Nat
  BY <1>2, HoldsFinite
<1>4. Cardinality(Slots(e)') = 0
  BY <1>1, FS_EmptySet
<1> QED BY <1>1, <1>3, <1>4 DEF AllTold

----------------------------------------------------------------------------
\* One slot more, and one hold more that was told.
LEMMA OneSlotMore ==
  ASSUME NEW e, Bounded(e), NEW s, Slots(e)' \in SUBSET (Slots(e) \cup {s}),
         NEW g \in HoldIds, g \notin Told(e), Told(e)' = Told(e) \cup {g},
         Cardinality(Slots(e)) <= Cardinality(Told(e))
  PROVE  Cardinality(Slots(e)') <= Cardinality(Told(e)')
<1> DEFINE c == Cardinality(Slots(e))
           d == Cardinality(Slots(e) \cup {s})
           t == Cardinality(Told(e))
<1>1. IsFiniteSet(Slots(e)) /\ c \in Nat
  BY SlotsFinite
<1>2. IsFiniteSet(Slots(e) \cup {s}) /\ d = IF s \in Slots(e) THEN c ELSE c + 1
  BY <1>1, FS_AddElement, Zenon
<1>3. IsFiniteSet(Told(e)) /\ t \in Nat
  BY ToldType, HoldsFinite
<1>4. Cardinality(Told(e)') = t + 1
  BY <1>3, FS_AddElement
<1>5. Cardinality(Slots(e)') <= d /\ IsFiniteSet(Slots(e)')
  BY <1>2, FS_Subset
<1>6. Cardinality(Slots(e)') \in Nat
  BY <1>5, FS_CardinalityType
<1>7. c <= t
  OBVIOUS
<1> HIDE DEF c, d, t
<1>8. d <= t + 1 /\ d \in Nat
  BY <1>1, <1>2, <1>3, <1>7
<1> QED BY <1>3, <1>4, <1>5, <1>6, <1>8

\* One slot less, and one hold less.
LEMMA OneSlotLess ==
  ASSUME NEW e, Bounded(e), NEW s \in Slots(e), Slots(e)' \in SUBSET (Slots(e) \ {s}),
         NEW h \in Told(e), Told(e)' = Told(e) \ {h},
         Cardinality(Slots(e)) <= Cardinality(Told(e))
  PROVE  Cardinality(Slots(e)') <= Cardinality(Told(e)')
<1> DEFINE c == Cardinality(Slots(e))
           d == Cardinality(Slots(e) \ {s})
           t == Cardinality(Told(e))
<1>1. IsFiniteSet(Slots(e)) /\ c \in Nat
  BY SlotsFinite
<1>2. IsFiniteSet(Slots(e) \ {s}) /\ d = c - 1
  BY <1>1, FS_RemoveElement
<1>3. IsFiniteSet(Told(e)) /\ t \in Nat
  BY ToldType, HoldsFinite
<1>4. Cardinality(Told(e)') = t - 1
  BY <1>3, FS_RemoveElement
<1>5. Cardinality(Slots(e)') <= d /\ IsFiniteSet(Slots(e)')
  BY <1>2, FS_Subset
<1>6. Cardinality(Slots(e)') \in Nat
  BY <1>5, FS_CardinalityType
<1>7. c <= t
  OBVIOUS
<1> HIDE DEF c, d, t
<1> QED BY <1>1, <1>2, <1>3, <1>4, <1>5, <1>6, <1>7

\* A loan takes a slot and, while somebody waits, the hold the slot was offered to.
LEMMA BorrowTold ==
  ASSUME DigitalInv, NEW p \in Patrons, NEW e \in Editions, NEW k \in Licenses,
         NEW n \in LoanIds, Borrow(p, e, k, n), NEW f \in Editions, AllTold(f)
  PROVE  AllTold(f)'
<1> USE DEF DigitalInv
<1>1. EditionOf[k] = e /\ k \in Offered(e, loanStatus)
  BY DEF Borrow, Pick, Offered
<1>2. /\ \A j \in Licenses \ {k} : /\ Readers(j, loanStatus)' = Readers(j, loanStatus)
                                   /\ used'[j] = used[j]
      /\ Readers(k, loanStatus)' = Readers(k, loanStatus) \cup {n}
      /\ n \notin Readers(k, loanStatus)
      /\ live' = live
  BY DEF Borrow, Readers, DigitalTypeOK
<1>3. \A j \in Licenses \ {k} : j \in Offered(f, loanStatus)' => j \in Offered(f, loanStatus)
  BY <1>2 DEF Offered, Available, HasRoom
<1>4. CASE f # e
  <2>1. Queue(f)' = Queue(f) /\ Told(f)' = Told(f)
    BY <1>4 DEF Queue, Told, HoldsFor, Borrow, Fulfilled
  <2>2. \A j \in Offered(f, loanStatus)' : j \in Licenses \ {k}
    BY <1>1, <1>4 DEF Offered
  <2> QED BY <1>2, <1>3, <2>1, <2>2, QuietTold
<1>5. CASE f = e /\ Queue(e)' # {}
  <2>1. Queue(e) # {}
    BY <1>5 DEF Queue, HoldsFor, Borrow, Fulfilled
  <2>2. PICK h \in HoldsFor(e, "ready", holdStatus) : holdPatron[h] = p
    BY <2>1 DEF Borrow, Queue
  <2>3. Bounded(e) /\ Cardinality(Slots(e)) <= Cardinality(Told(e))
    BY <1>5, <2>1 DEF AllTold
  <2>4. h \in Told(e) /\ Told(e)' = Told(e) \ {h}
    <3>1. \A g \in HoldsFor(e, "ready", holdStatus) : holdPatron[g] = p => g = h
      BY <2>2 DEF OncePerEdition, HoldsFor, ActiveHold
    <3> QED BY <2>2, <3>1 DEF Told, HoldsFor, Borrow, Fulfilled
  <2> DEFINE c == Cardinality(Readers(k, loanStatus))
             s == <<k, c + 1>>
  <2>5. c \in Nat /\ Cardinality(Readers(k, loanStatus)') = c + 1
    BY <1>2, ReadersCount, FS_AddElement
  <2>6. Limit[k] \in Nat /\ c < Limit[k]
    BY <1>1, <2>3, DigitalLicenseAssumption DEF Bounded, Offered, Available, HasRoom
  <2>7. s \in Slots(e)
    <3>1. c + 1 \in c + 1 .. Limit[k]
      BY <2>5, <2>6
    <3> QED BY <1>1, <3>1, SlotIs
  <2>8. \A j \in Offered(e, loanStatus)' : j \in Offered(e, loanStatus)
    BY <1>1, <1>3, <1>5 DEF Offered
  <2>9. Slots(e)' \in SUBSET (Slots(e) \ {s})
    <3> SUFFICES ASSUME NEW x \in Slots(e)' PROVE x \in Slots(e) /\ x # s
      OBVIOUS
    <3>1. PICK j \in Offered(e, loanStatus)' :
             \E i \in Cardinality(Readers(j, loanStatus)') + 1 .. Limit[j] : x = <<j, i>>
      BY DEF Slots
    <3>2. PICK i \in Cardinality(Readers(j, loanStatus)') + 1 .. Limit[j] : x = <<j, i>>
      BY <3>1
    <3>3. CASE j # k
      <4>1. Readers(j, loanStatus)' = Readers(j, loanStatus)
        BY <1>2, <3>1, <3>3, <2>8 DEF Offered
      <4> QED BY <2>8, <3>1, <3>2, <3>3, <4>1, SlotIs
    <3>4. CASE j = k
      <4>1. i \in c + 1 .. Limit[k] /\ i # c + 1
        BY <2>5, <2>6, <3>2, <3>4
      <4> QED BY <1>1, <3>2, <3>4, <4>1, SlotIs
    <3> QED BY <3>3, <3>4
  <2> HIDE DEF s
  <2>10. Cardinality(Slots(e)') <= Cardinality(Told(e)')
    BY <2>3, <2>4, <2>7, <2>9, OneSlotLess
  <2>11. Bounded(e)'
    BY <2>3, <2>8 DEF Bounded
  <2> QED BY <1>5, <2>10, <2>11 DEF AllTold
<1>6. CASE f = e /\ Queue(e)' = {}
  BY <1>6 DEF AllTold
<1> QED BY <1>4, <1>5, <1>6

\* The slot that a loan leaves is offered to the first of the queue.
LEMMA CloseLoanTold ==
  ASSUME DigitalInv, NEW n \in LoanIds, NEW ended \in {"returned", "expired"},
         CloseLoan(n, ended), NEW k \in Licenses, k = loanLicense[n],
         NEW e \in Editions, e = EditionOf[k], NEW f \in Editions, AllTold(f)
  PROVE  AllTold(f)'
<1> USE DEF DigitalInv
<1> DEFINE Q == HoldsFor(e, "waiting", holdStatus)
<1>1. loanStatus[n] = "active"
  BY DEF CloseLoan
<1>2. /\ \A j \in Licenses \ {k} : Readers(j, loanStatus)' = Readers(j, loanStatus)
      /\ Readers(k, loanStatus)' = Readers(k, loanStatus) \ {n}
      /\ n \in Readers(k, loanStatus)
      /\ UNCHANGED <<live, used, holdEdition>>
  BY <1>1 DEF CloseLoan, Readers, DigitalTypeOK, licenseVars
<1>3. \A j \in Licenses : j # k => (j \in Offered(f, loanStatus)' <=> j \in Offered(f, loanStatus))
  BY <1>2 DEF Offered, Available, HasRoom
<1>4. SlotFree(e, loanStatus)' <=> Offered(e, loanStatus)' # {}
  BY DEF SlotFree
<1>5. SlotFree(e, loanStatus') <=> Offered(e, loanStatus)' # {}
  BY <1>2 DEF CloseLoan, SlotFree, Offered, Available, HasRoom, Readers
<1>6. ASSUME NEW g \in Q, holdStatus' = [holdStatus EXCEPT ![g] = "ready"]
      PROVE  AllTold(f)'
  <2>1. g \in HoldIds /\ holdStatus[g] = "waiting" /\ holdEdition[g] = e
    BY <1>6 DEF HoldsFor
  <2>2. CASE f # e
    <3>1. Queue(f)' = Queue(f) /\ Told(f)' = Told(f)
      BY <1>2, <1>6, <2>1, <2>2 DEF Queue, Told, HoldsFor, DigitalTypeOK
    <3>2. \A j \in Offered(f, loanStatus)' : j \in Licenses /\ j # k
      BY <2>2 DEF Offered
    <3> QED BY <1>2, <1>3, <3>1, <3>2, QuietTold
  <2>3. CASE f = e
    <3>1. Bounded(e) /\ Cardinality(Slots(e)) <= Cardinality(Told(e))
      BY <2>1, <2>3 DEF AllTold, Queue, HoldsFor
    <3>2. g \notin Told(e) /\ Told(e)' = Told(e) \cup {g}
      BY <1>2, <1>6, <2>1 DEF Told, HoldsFor, DigitalTypeOK
    <3> DEFINE c == Cardinality(Readers(k, loanStatus))
               s == <<k, c>>
    <3>3. c \in Nat /\ Cardinality(Readers(k, loanStatus)') = c - 1
      <4>1. IsFiniteSet(Readers(k, loanStatus)) /\ c \in Nat
        BY ReadersCount
      <4>2. Cardinality(Readers(k, loanStatus) \ {n}) = c - 1
        BY <1>2, <4>1, FS_RemoveElement
      <4> QED BY <1>2, <4>1, <4>2
    <3>4. Bounded(e)'
      <4> SUFFICES ASSUME NEW j \in Offered(e, loanStatus)', Limit[j] = None PROVE FALSE
        BY DEF Bounded
      <4>1. j \in Offered(e, loanStatus)
        BY <1>2 DEF Offered, Available, HasRoom
      <4> QED BY <3>1, <4>1 DEF Bounded
    <3>5. Slots(e)' \in SUBSET (Slots(e) \cup {s})
      <4> SUFFICES ASSUME NEW x \in Slots(e)' PROVE x \in Slots(e) \/ x = s
        OBVIOUS
      <4>1. PICK j \in Offered(e, loanStatus)' :
               \E i \in Cardinality(Readers(j, loanStatus)') + 1 .. Limit[j] : x = <<j, i>>
        BY DEF Slots
      <4>2. PICK i \in Cardinality(Readers(j, loanStatus)') + 1 .. Limit[j] : x = <<j, i>>
        BY <4>1
      <4>3. CASE j # k
        <5>1. j \in Licenses
          BY DEF Offered
        <5> QED BY <1>2, <1>3, <2>3, <4>2, <4>3, <5>1, SlotIs
      <4>4. CASE j = k /\ i # c
        <5>1. Limit[k] \in Nat
          BY <1>1, <3>4, <4>4, DigitalLicenseAssumption DEF Bounded
        <5>2. i \in c + 1 .. Limit[k] /\ c < Limit[k]
          BY <3>3, <4>2, <4>4, <5>1
        <5>3. k \in Offered(e, loanStatus)
          BY <1>2, <4>4, <5>2 DEF Offered, Available, HasRoom
        <5> QED BY <4>2, <4>4, <5>2, <5>3, SlotIs
      <4> QED BY <4>2, <4>3, <4>4
    <3> HIDE DEF s
    <3>6. Cardinality(Slots(e)') <= Cardinality(Told(e)')
      BY <2>1, <3>1, <3>2, <3>5, OneSlotMore
    <3> QED BY <2>3, <3>4, <3>6 DEF AllTold
  <2> QED BY <2>2, <2>3
<1>7. ASSUME holdStatus' = holdStatus, ~(SlotFree(e, loanStatus') /\ Q # {})
      PROVE  AllTold(f)'
  <2>1. Queue(f)' = Queue(f) /\ Told(f)' = Told(f)
    BY <1>2, <1>7 DEF Queue, Told, HoldsFor
  <2>2. CASE f # e
    <3>1. \A j \in Offered(f, loanStatus)' : j \in Licenses /\ j # k
      BY <2>2 DEF Offered
    <3> QED BY <1>2, <1>3, <2>1, <3>1, QuietTold
  <2>3. CASE f = e /\ Q = {}
    BY <2>1, <2>3 DEF AllTold, Queue
  <2>4. CASE f = e /\ Q # {}
    BY <1>5, <1>7, <2>4, NothingOffered
  <2> QED BY <2>2, <2>3, <2>4
<1>8. AssignNext(e, loanStatus', holdStatus)
  BY DEF CloseLoan
<1> QED BY <1>6, <1>7, <1>8 DEF AssignNext

\* A ready hold that ends hands its offer to the first of the queue.
LEMMA EndReadyTold ==
  ASSUME DigitalInv, NEW h \in HoldIds, NEW ended \in {"cancelled", "expired"},
         EndReady(h, ended), NEW e \in Editions, e = holdEdition[h],
         NEW f \in Editions, AllTold(f)
  PROVE  AllTold(f)'
<1> USE DEF DigitalInv
<1> DEFINE hs == [holdStatus EXCEPT ![h] = ended]
           Q == HoldsFor(e, "waiting", hs)
<1>1. /\ UNCHANGED <<live, used, loanStatus, loanLicense, holdEdition>>
      /\ holdStatus[h] = "ready" /\ AssignNext(e, loanStatus, hs)
  BY DEF EndReady, licenseVars, loanVars
<1>2. \A k : Readers(k, loanStatus)' = Readers(k, loanStatus)
  BY <1>1 DEF Readers
<1>3. /\ \A d : Offered(d, loanStatus)' = Offered(d, loanStatus)
      /\ \A d : Slots(d)' = Slots(d)
      /\ \A d : Bounded(d)' <=> Bounded(d)
  BY <1>1, <1>2 DEF Offered, Available, HasRoom, Slots, Bounded
<1>4. /\ \A g \in HoldIds \ {h} : hs[g] = holdStatus[g]
      /\ hs[h] = ended /\ hs \in [HoldIds -> HoldStatuses]
  BY DEF DigitalTypeOK, HoldStatuses, HoldStatus
<1>5. Queue(e) = Q
  BY <1>1, <1>4 DEF Queue, HoldsFor
<1> HIDE DEF hs
<1>6. CASE f # e
  <2>1. \A g \in HoldIds : holdEdition[g] = f => holdStatus'[g] = holdStatus[g]
    <3>1. CASE holdStatus' = hs
      BY <1>4, <1>6, <3>1
    <3>2. ASSUME NEW g \in Q, holdStatus' = [hs EXCEPT ![g] = "ready"]
          PROVE  \A i \in HoldIds : holdEdition[i] = f => holdStatus'[i] = holdStatus[i]
      BY <1>4, <1>6, <3>2 DEF HoldsFor
    <3> QED BY <1>1, <3>1, <3>2 DEF AssignNext
  <2>2. Queue(f)' = Queue(f) /\ Told(f)' = Told(f)
    BY <1>1, <2>1 DEF Queue, Told, HoldsFor
  <2> QED BY <1>2, <1>3, <2>2, QuietTold
<1>7. ASSUME f = e, NEW g \in Q, holdStatus' = [hs EXCEPT ![g] = "ready"]
      PROVE  AllTold(f)'
  <2>1. g \in HoldIds /\ holdStatus[g] = "waiting" /\ holdEdition[g] = e /\ g # h
    BY <1>4, <1>7 DEF HoldsFor
  <2>2. Bounded(e) /\ Cardinality(Slots(e)) <= Cardinality(Told(e))
    BY <1>5, <1>7 DEF AllTold
  <2>3. h \in Told(e) /\ g \notin Told(e) /\ Told(e)' = (Told(e) \ {h}) \cup {g}
    <3>1. h \in Told(e) /\ g \notin Told(e)
      BY <1>1, <2>1 DEF Told, HoldsFor
    <3>2. /\ holdStatus'[g] = "ready" /\ holdStatus'[h] = ended
          /\ \A i \in HoldIds \ {g, h} : holdStatus'[i] = holdStatus[i]
      BY <1>4, <1>7, <2>1
    <3>3. \A i \in HoldIds : i \in Told(e)' <=> i \in (Told(e) \ {h}) \cup {g}
      BY <1>1, <2>1, <3>1, <3>2 DEF Told, HoldsFor
    <3>4. Told(e) \in SUBSET HoldIds /\ Told(e)' \in SUBSET HoldIds
      BY DEF Told, HoldsFor
    <3> QED BY <2>1, <3>1, <3>3, <3>4
  <2> DEFINE T == Told(e) \ {h}
             t == Cardinality(Told(e))
             u == Cardinality(T)
  <2>4. IsFiniteSet(Told(e)) /\ t \in Nat
    BY ToldType, HoldsFinite
  <2>5. IsFiniteSet(T) /\ u = t - 1
    BY <2>3, <2>4, FS_RemoveElement
  <2>6. u \in Nat
    BY <2>5, FS_CardinalityType
  <2>7. g \notin T
    BY <2>3
  <2>8. Cardinality(T \cup {g}) = u + 1
    BY <2>5, <2>7, FS_AddElement
  <2>9. Cardinality(Told(e)') = Cardinality(T \cup {g})
    BY <2>3
  <2> HIDE DEF T, t, u
  <2>10. Cardinality(Told(e)') = t
    BY <2>4, <2>5, <2>6, <2>8, <2>9
  <2>11. Cardinality(Slots(e)') <= Cardinality(Told(e)')
    BY <1>3, <2>2, <2>10 DEF t
  <2> QED BY <1>3, <1>7, <2>2, <2>11 DEF AllTold
<1>8. ASSUME f = e, holdStatus' = hs, ~(SlotFree(e, loanStatus) /\ Q # {})
      PROVE  AllTold(f)'
  <2>1. CASE Q = {}
    BY <1>1, <1>8, <2>1 DEF AllTold, Queue, HoldsFor
  <2>2. CASE ~SlotFree(e, loanStatus)
    BY <1>3, <1>8, <2>2, NothingOffered DEF SlotFree
  <2> QED BY <1>8, <2>1, <2>2
<1> QED BY <1>1, <1>6, <1>7, <1>8 DEF AssignNext

\* A new hold waits only beside others, or when no slot is free.
LEMMA PlaceHoldTold ==
  ASSUME DigitalInv, NEW p \in Patrons, NEW e \in Editions, NEW h \in HoldIds,
         PlaceHold(p, e, h), NEW f \in Editions, AllTold(f)
  PROVE  AllTold(f)'
<1> USE DEF DigitalInv
<1>1. UNCHANGED <<live, used, loanStatus, loanLicense>> /\ holdStatus[h] = "absent"
  BY DEF PlaceHold, licenseVars, loanVars
<1>2. /\ \A k : Readers(k, loanStatus)' = Readers(k, loanStatus)
      /\ \A d : Offered(d, loanStatus)' = Offered(d, loanStatus)
  BY <1>1 DEF Readers, Offered, Available, HasRoom
<1>3. /\ \A g \in HoldIds \ {h} : holdStatus'[g] = holdStatus[g] /\ holdEdition'[g] = holdEdition[g]
      /\ holdEdition'[h] = e
      /\ holdStatus'[h] = IF ~Ahead(e) /\ SlotFree(e, loanStatus) THEN "ready" ELSE "waiting"
  BY DEF PlaceHold, DigitalTypeOK
<1>4. Told(f) \subseteq Told(f)'
  BY <1>1, <1>3 DEF Told, HoldsFor
<1>5. CASE Queue(f)' # {} => Queue(f) # {}
  BY <1>2, <1>4, <1>5, QuietTold
<1>6. CASE Queue(f)' # {} /\ Queue(f) = {}
  <2>1. PICK g \in Queue(f)' : TRUE
    BY <1>6
  <2>2. g \in HoldIds /\ holdStatus'[g] = "waiting" /\ holdEdition'[g] = f
    BY <2>1 DEF Queue, HoldsFor
  <2>3. g = h
    BY <1>3, <1>6, <2>2 DEF Queue, HoldsFor
  <2>4. f = e /\ ~Ahead(e) /\ holdStatus'[h] = "waiting"
    BY <1>3, <1>6, <2>2, <2>3 DEF Ahead, Queue
  <2>5. ~SlotFree(e, loanStatus)
    BY <1>3, <2>4
  <2> QED BY <1>2, <2>4, <2>5, NothingOffered DEF SlotFree
<1> QED BY <1>5, <1>6

\* What neither frees a slot nor takes a hold from those that were told.
LEMMA OthersTold ==
  ASSUME DigitalInv, NEW f \in Editions, AllTold(f),
         UNCHANGED <<used, loanStatus, loanLicense, holdEdition>>,
         \A k \in Licenses : live'[k] => live[k],
         \A h \in HoldIds :
            /\ holdStatus'[h] = "waiting" => holdStatus[h] = "waiting"
            /\ holdStatus[h] \in {"ready", "erased"} => holdStatus'[h] \in {"ready", "erased"}
  PROVE  AllTold(f)'
<1>1. \A k : Readers(k, loanStatus)' = Readers(k, loanStatus)
  BY DEF Readers
<1>2. \A k \in Offered(f, loanStatus)' : k \in Offered(f, loanStatus)
  BY <1>1 DEF Offered, Available, HasRoom
<1>3. Queue(f)' \subseteq Queue(f) /\ Told(f) \subseteq Told(f)'
  BY DEF Queue, Told, HoldsFor
<1> QED BY <1>1, <1>2, <1>3, QuietTold

\* A hold that was erased has no patron, and is not erased again.
Anonymous == \A h \in HoldIds : holdStatus[h] = "erased" => holdPatron[h] = None

LEMMA StepAnonymous ==
  ASSUME DigitalInv, [DigitalNext]_digitalVars, Anonymous
  PROVE  Anonymous'
<1> USE DEF DigitalInv
<1>1. ASSUME NEW n \in LoanIds, ReturnDigital(n) \/ ExpireLoan(n) PROVE Anonymous'
  <2>1. Promotes(holdStatus) /\ holdPatron' = holdPatron
    BY <1>1, CloseLoanKeeps DEF ReturnDigital, ExpireLoan, LoanStatus, CloseLoan
  <2> QED BY <2>1 DEF Promotes, Anonymous
<1>2. ASSUME NEW h \in HoldIds, CancelHold(h) \/ ExpireHold(h) PROVE Anonymous'
  <2>1. PICK s \in {"cancelled", "expired"} : Promotes([holdStatus EXCEPT ![h] = s])
    BY <1>2, EndHoldKeeps
  <2>2. holdPatron' = holdPatron
    BY <1>2 DEF CancelHold, ExpireHold, EndReady
  <2> QED BY <2>1, <2>2 DEF Promotes, Anonymous, DigitalTypeOK
<1>3. ASSUME NEW p \in Patrons, NEW e \in Editions, NEW h \in HoldIds, PlaceHold(p, e, h)
      PROVE  Anonymous'
  BY <1>3 DEF PlaceHold, Anonymous, DigitalTypeOK
<1>4. ASSUME NEW p \in Patrons, NEW e \in Editions, NEW k \in Licenses,
             NEW n \in LoanIds, Borrow(p, e, k, n)
      PROVE  Anonymous'
  BY <1>4 DEF Borrow, Fulfilled, Anonymous
<1>5. ASSUME NEW p \in Patrons, Erase(p) PROVE Anonymous'
  BY <1>5 DEF Erase, Anonymous
<1>6. CASE UNCHANGED <<holdStatus, holdPatron>>
  BY <1>6 DEF Anonymous
<1> QED
  BY <1>1, <1>2, <1>3, <1>4, <1>5, <1>6
  DEF DigitalNext, Lapse, digitalVars, holdVars

LEMMA StepTold ==
  ASSUME DigitalInv, Anonymous, [DigitalNext]_digitalVars, NEW f \in Editions, AllTold(f)
  PROVE  AllTold(f)'
<1>1. ASSUME NEW n \in LoanIds, NEW ended \in {"returned", "expired"}, CloseLoan(n, ended)
      PROVE  AllTold(f)'
  <2>1. PICK k \in Licenses : k = loanLicense[n]
    BY <1>1 DEF CloseLoan, DigitalInv, DigitalTypeOK
  <2>2. PICK e \in Editions : e = EditionOf[k]
    BY DigitalLicenseAssumption
  <2> QED BY <1>1, <2>1, <2>2, CloseLoanTold
<1>2. ASSUME NEW h \in HoldIds, NEW ended \in {"cancelled", "expired"}, EndReady(h, ended)
      PROVE  AllTold(f)'
  <2>1. PICK e \in Editions : e = holdEdition[h]
    BY <1>2 DEF EndReady, DigitalInv, DigitalTypeOK, ActiveHold
  <2> QED BY <1>2, <2>1, EndReadyTold
<1>3. ASSUME NEW h \in HoldIds, CancelHold(h)
      PROVE  AllTold(f)'
  <2>1. CASE EndReady(h, "cancelled")
    BY <1>2, <2>1
  <2>2. CASE ~EndReady(h, "cancelled")
    <3>1. /\ holdStatus[h] = "waiting" /\ holdStatus' = [holdStatus EXCEPT ![h] = "cancelled"]
          /\ UNCHANGED <<live, used, loanStatus, loanLicense, holdEdition>>
      BY <1>3, <2>2 DEF CancelHold, licenseVars, loanVars
    <3> QED BY <3>1, OthersTold DEF DigitalInv, DigitalTypeOK
  <2> QED BY <2>1, <2>2
<1>4. ASSUME NEW k \in Licenses, Lapse(k)
      PROVE  AllTold(f)'
  <2>1. /\ UNCHANGED <<used, loanStatus, loanLicense, holdStatus, holdEdition>>
        /\ \A j \in Licenses : live'[j] => live[j]
    BY <1>4 DEF Lapse, loanVars, holdVars, DigitalInv, DigitalTypeOK
  <2> QED BY <2>1, OthersTold
<1>5. ASSUME NEW p \in Patrons, Erase(p)
      PROVE  AllTold(f)'
  <2>1. /\ UNCHANGED <<live, used, loanStatus, loanLicense, holdEdition>>
        /\ \A h \in HoldIds :
             /\ holdStatus'[h] = "waiting" => holdStatus[h] = "waiting"
             /\ holdStatus[h] \in {"ready", "erased"} => holdStatus'[h] \in {"ready", "erased"}
    BY <1>5, LibraryAssumption DEF Erase, Anonymous, licenseVars
  <2> QED BY <2>1, OthersTold
<1>6. CASE UNCHANGED digitalVars
  BY <1>6, OthersTold DEF digitalVars, licenseVars, loanVars, holdVars
<1> QED
  BY <1>1, <1>2, <1>3, <1>4, <1>5, <1>6, BorrowTold, PlaceHoldTold
  DEF DigitalNext, ReturnDigital, ExpireLoan, ExpireHold

\* A slot that comes free is always offered to whoever waits: _close_digital_loan
\* and the end of a ready hold pass it on, borrow_digital uses up the offer with
\* the slot, and nobody starts to wait beside a free one.
THEOREM SlotsTold == DigitalSpec => []NoIdleSlot
<1> DEFINE Inv == Anonymous /\ \A e \in Editions : AllTold(e)
<1>1. DigitalInit => Inv
  BY DEF DigitalInit, Anonymous, AllTold, Queue, HoldsFor
<1>2. Inv /\ DigitalInv /\ [DigitalNext]_digitalVars => Inv'
  BY StepTold, StepAnonymous
<1>3. Inv => NoIdleSlot
  BY DEF NoIdleSlot, AllTold, Queue, Told, Bounded
<1> QED BY <1>1, <1>2, <1>3, Invariance, PTL DEF DigitalSpec
=============================================================================
