---------------------------- MODULE FrontDeskProofs ----------------------------
(***************************************************************************)
(* What readers and staff share: the seats of an event and its waitlist,   *)
(* the rooms, the copies lent between libraries, and who is let in to work *)
(* for which library.  For any number of registrations, requests, patrons, *)
(* rooms, holdings, users, libraries and tokens.                           *)
(***************************************************************************)
EXTENDS MCFrontDesk, DigitalProofs, FinanceProofs, ImportsProofs, FiniteSetTheorems, TLAPS

----------------------------------------------------------------------------
(* The least of a set of numbers.                                          *)

LEMMA MinIsLeast ==
  ASSUME NEW S \in SUBSET Nat, S # {}
  PROVE  Min(S) \in S /\ \A x \in S : Min(S) <= x
<1>1. \E x \in S : \A y \in S : x <= y
  BY LeastExists
<1> QED BY <1>1 DEF Min

----------------------------------------------------------------------------
(* Gatherings: the invariant.                                              *)

\* No more seats are taken than there are, and without a limit nobody waits.
SeatLimit ==
  /\ Capacity # 0 => Cardinality(Seated) <= Capacity
  /\ Capacity = 0 => Waiting = {}

RegisteredOnce ==
  \A q, r \in Rows :
    guest[q] # None /\ guest[q] = guest[r] /\ place[q] \in Active /\ place[r] \in Active
      => q = r

NoFreeSeat == ~met /\ Waiting # {} => Full(Seated)

\* A cancellation under way: its row is still active, and it has seen all that
\* wait unless somebody has registered since.
Cancelling ==
  \A r \in Rows :
    seen[r] # None =>
      /\ place[r] \in Active
      /\ place[r] = "waitlisted" => seen[r] = {}
      /\ ~met /\ place[r] = "registered" => Waiting \subseteq seen[r]

ActiveHasGuest == \A r \in Rows : place[r] \in Active => guest[r] \in Patrons

\* An erasure under way cancels what its patron has, but for what came since.
ErasureCancels ==
  /\ \A r \in doomed : place[r] \in Active /\ guest[r] \in erasing
  /\ \A r \in Rows : guest[r] \in erasing /\ place[r] \in Active /\ r \notin doomed => met

EventInv ==
  SeatLimit /\ RegisteredOnce /\ NoFreeSeat /\ Cancelling /\ ActiveHasGuest /\ ErasureCancels

GatheringsInv == GatheringsTypeOK /\ EventInv /\ NoDoubleBooking

----------------------------------------------------------------------------
(* Gatherings: registrations.                                              *)

LEMMA RegistrationsAreNumbers == Rows \in SUBSET Nat
BY GatheringsAssumption DEF Rows

LEMMA RegistrationsFinite ==
  ASSUME NEW S \in SUBSET Rows
  PROVE  IsFiniteSet(S) /\ Cardinality(S) \in Nat
<1>1. IsFiniteSet(Rows)
  BY GatheringsAssumption, FS_Interval DEF Rows
<1>2. IsFiniteSet(S)
  BY <1>1, FS_Subset
<1> QED BY <1>2, FS_CardinalityType

\* Whoever is next in line is one of the line, and nobody of it came before.
LEMMA NextInLineWaits ==
  ASSUME NEW S \in SUBSET Rows, S # {}
  PROVE  NextInLine(S) \in S /\ \A q \in S : NextInLine(S) <= q
BY RegistrationsAreNumbers, MinIsLeast DEF NextInLine

LEMMA SwapKeepsSize ==
  ASSUME NEW S \in SUBSET Rows, NEW r \in S, NEW m \in Rows, m \notin S
  PROVE  Cardinality((S \ {r}) \cup {m}) = Cardinality(S)
<1>1. IsFiniteSet(S) /\ Cardinality(S) \in Nat
  BY RegistrationsFinite
<1>2. IsFiniteSet(S \ {r}) /\ Cardinality(S \ {r}) = Cardinality(S) - 1
  BY <1>1, FS_RemoveElement
<1>3. Cardinality((S \ {r}) \cup {m}) = Cardinality(S \ {r}) + 1
  BY <1>2, FS_AddElement
<1> QED BY <1>1, <1>2, <1>3

----------------------------------------------------------------------------
LEMMA GatheringsFirst == GatheringsInit => GatheringsInv
<1> SUFFICES ASSUME GatheringsInit PROVE GatheringsInv
  OBVIOUS
<1>1. GatheringsTypeOK
  <2>1. met \in BOOLEAN
    BY Zenon DEF GatheringsInit
  <2> QED BY <2>1 DEF GatheringsInit, GatheringsTypeOK, RegistrationStatus
<1>2. Seated = {} /\ Waiting = {}
  BY DEF GatheringsInit, Seated, Waiting
<1>3. EventInv
  BY <1>2, FS_EmptySet, GatheringsAssumption
  DEF GatheringsInit, EventInv, SeatLimit, RegisteredOnce, NoFreeSeat, Cancelling,
      ActiveHasGuest, ErasureCancels, Active
<1>4. NoDoubleBooking
  BY DEF GatheringsInit, NoDoubleBooking, NoBooking
<1> QED BY <1>1, <1>3, <1>4 DEF GatheringsInv

----------------------------------------------------------------------------
(* Types.                                                                  *)

LEMMA PromotableType ==
  ASSUME NEW r \in Rows
  PROVE  Promotable(r) \in SUBSET Rows
BY DEF Promotable, Waiting

LEMMA EndType ==
  ASSUME GatheringsTypeOK, NEW r \in Rows, EndCancel(r)
  PROVE  /\ place' \in [Rows -> RegistrationStatus \cup {"absent"}]
         /\ seen' \in [Rows -> (SUBSET Rows) \cup {None}]
         /\ \A q \in Rows : place'[q] = "absent" => place[q] = "absent"
BY DEF GatheringsTypeOK, EndCancel, RegistrationStatus

LEMMA GatheringsType ==
  ASSUME GatheringsTypeOK, GatheringsNext
  PROVE  GatheringsTypeOK'
<1> USE DEF GatheringsTypeOK, RegistrationStatus, registrationVars, roomVars
<1>1. ASSUME NEW r \in Rows, NEW p \in Patrons, Register(r, p)
      PROVE  GatheringsTypeOK'
  <2>1. met' \in BOOLEAN
    BY <1>1, Zenon DEF Register
  <2> QED BY <1>1, <2>1 DEF Register
<1>2. ASSUME NEW r \in Rows, BeginCancelPlace(r)
      PROVE  GatheringsTypeOK'
  BY <1>2, PromotableType DEF BeginCancelPlace
<1>3. ASSUME NEW r \in Rows, CancelPlace(r)
      PROVE  GatheringsTypeOK'
  <2>1. EndCancel(r) /\ UNCHANGED <<guest, erasing, doomed, met, booking, vacating>>
    BY <1>3 DEF CancelPlace
  <2> QED BY <2>1, EndType
<1>4. ASSUME NEW v \in Reservations, NEW p \in Patrons, NEW room \in Rooms,
             NEW from \in 0 .. Hours, NEW to \in 0 .. Hours, Reserve(v, p, room, from, to)
      PROVE  GatheringsTypeOK'
  <2>1. booking' \in [Reservations -> {NoBooking} \cup
                       [room : Rooms, from : 0 .. Hours, to : 0 .. Hours, patron : Patrons]]
    BY <1>4 DEF Reserve
  <2> QED BY <1>4, <2>1 DEF Reserve
<1>5. ASSUME NEW v \in Reservations, BeginLeave(v) \/ LeaveRoom(v)
      PROVE  GatheringsTypeOK'
  BY <1>5 DEF BeginLeave, LeaveRoom
<1>6. ASSUME NEW p \in Patrons, EraseGuest(p)
      PROVE  GatheringsTypeOK'
  <2> DEFINE own == RowsOf(p)
  <2>1. /\ place' \in [Rows -> RegistrationStatus \cup {"absent"}]
        /\ seen' \in [Rows -> (SUBSET Rows) \cup {None}]
        /\ \A q \in Rows : place'[q] = "absent" => place[q] = "absent"
    <3>1. CASE \E r \in own \cap doomed : EndCancel(r)
      BY <3>1, EndType
    <3>2. CASE UNCHANGED seen /\ place' = [r \in Rows |-> IF r \in own THEN "cancelled" ELSE place[r]]
      BY <3>2
    <3> QED BY <1>6, <3>1, <3>2 DEF EraseGuest
  <2>2. /\ guest' = [r \in Rows |-> IF guest[r] = p THEN None ELSE guest[r]]
        /\ booking' = [v \in Reservations |-> IF booking[v].patron = p THEN NoBooking
                                              ELSE booking[v]]
        /\ erasing' \subseteq Patrons /\ doomed' \subseteq Rows
        /\ UNCHANGED <<met, vacating>>
    BY <1>6 DEF EraseGuest
  <2> QED BY <2>1, <2>2
<1>7. ASSUME NEW p \in Patrons, BeginErase(p)
      PROVE  GatheringsTypeOK'
  <2>1. /\ UNCHANGED <<place, guest, met, booking, vacating>>
        /\ seen' = [r \in Rows |-> IF r \in RowsOf(p) THEN Promotable(r) ELSE seen[r]]
        /\ erasing' \subseteq Patrons /\ doomed' \subseteq Rows
    BY <1>7 DEF BeginErase, RowsOf
  <2> QED BY <2>1, PromotableType
<1> QED BY <1>1, <1>2, <1>3, <1>4, <1>5, <1>6, <1>7 DEF GatheringsNext

----------------------------------------------------------------------------
(* The event.                                                              *)

\* Nobody's own seat stands in the way of who waits.
LEMMA PromotableIsWaiting ==
  ASSUME EventInv, NEW r \in Rows, place[r] = "registered"
  PROVE  Promotable(r) = Waiting
<1>1. Seated \in SUBSET Rows /\ r \in Seated
  BY DEF Seated
<1>2. Cardinality(Seated \ {r}) = Cardinality(Seated) - 1 /\ Cardinality(Seated) \in Nat
  BY <1>1, RegistrationsFinite, FS_RemoveElement
<1>3. ~Full(Seated \ {r})
  BY <1>2, GatheringsAssumption DEF Full, EventInv, SeatLimit
<1> QED BY <1>3 DEF Promotable

LEMMA RegisterKeeps ==
  ASSUME GatheringsTypeOK, EventInv, NEW r \in Rows, NEW p \in Patrons, Register(r, p)
  PROVE  EventInv'
<1> USE DEF GatheringsTypeOK, Active
<1>1. /\ place[r] = "absent" /\ UNCHANGED <<seen, erasing, doomed>>
      /\ place' = [place EXCEPT ![r] = IF Full(Seated) THEN "waitlisted" ELSE "registered"]
      /\ guest' = [guest EXCEPT ![r] = p]
  BY DEF Register
<1>2. RegisteredOnce' /\ ActiveHasGuest' /\ ErasureCancels'
  <2>1. \A q \in Rows : q # r => /\ guest'[q] = guest[q] /\ place'[q] = place[q]
                                 /\ guest[q] = p => place[q] \notin Active
    BY <1>1 DEF Register
  <2>2. guest'[r] = p /\ p \in Patrons
    BY <1>1
  <2>3. RegisteredOnce'
    BY <2>1, <2>2 DEF RegisteredOnce, EventInv
  <2>4. ActiveHasGuest'
    BY <2>1, <2>2 DEF ActiveHasGuest, EventInv
  <2>5. ErasureCancels'
    <3>1. r \notin doomed
      BY <1>1 DEF ErasureCancels, EventInv
    <3>2. (met => met') /\ (p \in erasing => met')
      BY DEF Register
    <3> QED BY <1>1, <2>1, <2>2, <3>1, <3>2 DEF ErasureCancels, EventInv
  <2> QED BY <2>3, <2>4, <2>5
<1>3. Cancelling'
  <2>1. seen[r] = None
    BY <1>1 DEF EventInv, Cancelling
  <2>2. ~met' => ~met /\ \A q \in Rows : seen[q] = None
    BY DEF Register
  <2> QED BY <1>1, <2>1, <2>2 DEF EventInv, Cancelling
<1>4. CASE Full(Seated)
  <2>1. Seated' = Seated /\ Capacity # 0
    BY <1>1, <1>4 DEF Seated, Full
  <2> QED BY <1>2, <1>3, <1>4, <2>1 DEF EventInv, SeatLimit, NoFreeSeat, Full
<1>5. CASE ~Full(Seated)
  <2>1. Seated' = Seated \cup {r} /\ r \notin Seated /\ Waiting' = Waiting
    BY <1>1, <1>5 DEF Seated, Waiting
  <2>2. IsFiniteSet(Seated) /\ Cardinality(Seated) \in Nat
    BY RegistrationsFinite DEF Seated
  <2>3. Cardinality(Seated') = Cardinality(Seated) + 1
    BY <2>1, <2>2, FS_AddElement
  <2>4. SeatLimit'
    BY <1>5, <2>1, <2>2, <2>3, GatheringsAssumption DEF EventInv, SeatLimit, Full
  <2>5. NoFreeSeat'
    <3>1. ~met' => ~met
      BY DEF Register
    <3> QED BY <1>5, <2>1, <3>1 DEF EventInv, NoFreeSeat
  <2> QED BY <1>2, <1>3, <2>4, <2>5 DEF EventInv
<1> QED BY <1>4, <1>5

LEMMA BeginCancelKeeps ==
  ASSUME GatheringsTypeOK, EventInv, NEW r \in Rows, BeginCancelPlace(r)
  PROVE  EventInv'
<1> USE DEF GatheringsTypeOK
<1>1. /\ UNCHANGED <<place, guest, met, erasing, doomed>>
      /\ seen' = [seen EXCEPT ![r] = Promotable(r)]
  BY DEF BeginCancelPlace
<1>2. /\ place[r] \in Active
      /\ place[r] = "waitlisted" => Promotable(r) = {}
      /\ place[r] = "registered" => Promotable(r) = Waiting
  BY PromotableIsWaiting DEF BeginCancelPlace, Promotable
<1>3. UNCHANGED <<Seated, Waiting>>
  BY <1>1 DEF Seated, Waiting
<1>4. Cancelling'
  BY <1>1, <1>2, <1>3 DEF EventInv, Cancelling
<1>5. SeatLimit' /\ RegisteredOnce' /\ NoFreeSeat' /\ ActiveHasGuest' /\ ErasureCancels'
  BY <1>1, <1>3 DEF EventInv, SeatLimit, RegisteredOnce, NoFreeSeat, ActiveHasGuest, ErasureCancels, Full
<1> QED BY <1>4, <1>5 DEF EventInv

\* A seat that is given up goes to one of those that wait, or stays free when
\* nobody waits: what a cancellation and an erasure have in common.
LEMMA SeatGoesOn ==
  ASSUME GatheringsTypeOK, EventInv, NEW r \in Rows, NEW S \in SUBSET Waiting,
         place[r] = "registered", UNCHANGED met,
         \A q \in Rows : place'[q] = IF q = r THEN "cancelled"
                                     ELSE IF S # {} /\ q = NextInLine(S) THEN "registered"
                                     ELSE place[q],
         ~met => S = Waiting
  PROVE  SeatLimit' /\ NoFreeSeat'
<1> USE DEF EventInv, SeatLimit, NoFreeSeat
<1>1. /\ Seated \in SUBSET Rows /\ IsFiniteSet(Seated) /\ Cardinality(Seated) \in Nat
      /\ r \in Seated /\ Waiting \in SUBSET Rows /\ r \notin Waiting
  BY RegistrationsFinite DEF Seated, Waiting
<1>2. CASE S = {}
  <2>1. Seated' = Seated \ {r} /\ Waiting' = Waiting
    BY <1>2 DEF Seated, Waiting
  <2>2. Cardinality(Seated') = Cardinality(Seated) - 1
    BY <1>1, <2>1, FS_RemoveElement
  <2> QED BY <1>1, <1>2, <2>1, <2>2, GatheringsAssumption
<1>3. CASE S # {}
  <2>1. NextInLine(S) \in S
    BY <1>1, <1>3, NextInLineWaits, RegistrationsAreNumbers
  <2> DEFINE m == NextInLine(S)
  <2>2. m \in Waiting /\ m \in Rows /\ m \notin Seated
    BY <1>1, <2>1 DEF Seated, Waiting
  <2> HIDE DEF m
  <2>3. \A q \in Rows : place'[q] = IF q = r THEN "cancelled"
                                    ELSE IF q = m THEN "registered" ELSE place[q]
    BY <1>3 DEF m
  <2>4. Seated' = (Seated \ {r}) \cup {m} /\ Waiting' \subseteq Waiting
    BY <1>1, <2>2, <2>3 DEF Seated, Waiting
  <2>5. Cardinality(Seated') = Cardinality(Seated)
    BY <1>1, <2>2, <2>4, SwapKeepsSize
  <2>6. Capacity # 0
    BY <2>2
  <2> QED BY <2>2, <2>4, <2>5, <2>6 DEF Full
<1> QED BY <1>2, <1>3

\* The end of a cancellation, on its own or in an erasure.
LEMMA EndKeeps ==
  ASSUME GatheringsTypeOK, EventInv, NEW r \in Rows, EndCancel(r), UNCHANGED met
  PROVE  /\ SeatLimit' /\ NoFreeSeat' /\ Cancelling'
         /\ \A q \in Rows : place'[q] \in Active => place[q] \in Active /\ q # r
         /\ \A q \in Rows : place[q] \in Active /\ q # r => place'[q] \in Active
<1> USE DEF GatheringsTypeOK, Active
<1>1. /\ seen[r] # None /\ seen[r] \in SUBSET Rows
      /\ Still(r) # {} => seen[NextInLine(Still(r))] = None
      /\ \A q \in Rows : place'[q] = IF q = r THEN "cancelled"
                                     ELSE IF Still(r) # {} /\ q = NextInLine(Still(r))
                                     THEN "registered" ELSE place[q]
      /\ seen' = [seen EXCEPT ![r] = None]
  BY DEF EndCancel, Promoted
<1>2. /\ Still(r) \in SUBSET Waiting
      /\ Still(r) # {} => NextInLine(Still(r)) \in Still(r)
  BY <1>1, NextInLineWaits, RegistrationsAreNumbers DEF Waiting, Still
<1>3. place[r] \in {"registered", "waitlisted"} /\ (place[r] = "waitlisted" => seen[r] = {})
  BY <1>1 DEF EventInv, Cancelling
<1>4. ~met /\ place[r] = "registered" => Still(r) = Waiting
  BY <1>1 DEF EventInv, Cancelling, Waiting, Still
<1>5. \A q \in Rows : /\ place'[q] \in Active => place[q] \in Active /\ q # r
                      /\ place[q] \in Active /\ q # r => place'[q] \in Active
                      /\ place'[q] = "waitlisted" => place[q] = "waitlisted"
  BY <1>1, <1>2 DEF Waiting
<1>7. Cancelling'
  <2>1. \A q \in Rows : seen'[q] # None => seen[q] # None /\ seen'[q] = seen[q] /\ q # r
    BY <1>1
  <2>2. \A q \in Rows : seen'[q] # None => place'[q] = place[q]
    BY <1>1, <2>1
  <2>3. Waiting' \subseteq Waiting
    BY <1>5 DEF Waiting
  <2> QED BY <1>1, <2>1, <2>2, <2>3 DEF EventInv, Cancelling
<1>8. SeatLimit' /\ NoFreeSeat'
  <2>1. CASE place[r] = "registered"
    BY <1>1, <1>2, <1>4, <2>1, SeatGoesOn
  <2>2. CASE place[r] = "waitlisted"
    <3>1. Still(r) = {}
      BY <1>3, <2>2 DEF Still
    <3>2. Seated' = Seated /\ Waiting' \subseteq Waiting
      BY <1>1, <2>2, <3>1 DEF Seated, Waiting
    <3> QED BY <1>1, <3>2 DEF EventInv, SeatLimit, NoFreeSeat, Full
  <2> QED BY <1>3, <2>1, <2>2
<1> QED BY <1>5, <1>7, <1>8

LEMMA CancelKeeps ==
  ASSUME GatheringsTypeOK, EventInv, NEW r \in Rows, CancelPlace(r)
  PROVE  EventInv'
<1>1. EndCancel(r) /\ r \notin doomed /\ UNCHANGED <<guest, met, erasing, doomed>>
  BY DEF CancelPlace
<1>2. RegisteredOnce' /\ ActiveHasGuest'
  BY <1>1, EndKeeps DEF EventInv, RegisteredOnce, ActiveHasGuest
<1>3. ErasureCancels'
  BY <1>1, EndKeeps DEF EventInv, ErasureCancels, GatheringsTypeOK
<1> QED BY <1>1, <1>2, <1>3, EndKeeps DEF EventInv

LEMMA BeginEraseKeeps ==
  ASSUME GatheringsTypeOK, EventInv, NEW p \in Patrons, BeginErase(p)
  PROVE  EventInv'
<1> USE DEF GatheringsTypeOK
<1>1. /\ UNCHANGED <<place, guest, met>>
      /\ seen' = [r \in Rows |-> IF r \in RowsOf(p) THEN Promotable(r) ELSE seen[r]]
      /\ erasing' = erasing \cup {p} /\ doomed' = doomed \cup RowsOf(p)
  BY DEF BeginErase
<1>2. \A r \in RowsOf(p) : /\ r \in Rows /\ place[r] \in Active /\ guest[r] = p
                           /\ place[r] = "waitlisted" => Promotable(r) = {}
                           /\ place[r] = "registered" => Promotable(r) = Waiting
  BY PromotableIsWaiting DEF RowsOf, Promotable
<1>3. UNCHANGED <<Seated, Waiting>>
  BY <1>1 DEF Seated, Waiting
<1>4. Cancelling'
  BY <1>1, <1>2, <1>3 DEF EventInv, Cancelling
<1>5. ErasureCancels'
  <2>1. ASSUME NEW r \in Rows, guest[r] \in erasing', place[r] \in Active, r \notin doomed'
        PROVE  met
    BY <1>1, <2>1 DEF EventInv, ErasureCancels, RowsOf
  <2> QED BY <1>1, <1>2, <2>1 DEF EventInv, ErasureCancels
<1>6. SeatLimit' /\ RegisteredOnce' /\ NoFreeSeat' /\ ActiveHasGuest'
  BY <1>1, <1>3 DEF EventInv, SeatLimit, RegisteredOnce, NoFreeSeat, ActiveHasGuest, Full
<1> QED BY <1>4, <1>5, <1>6 DEF EventInv

LEMMA ForgetKeeps ==
  ASSUME GatheringsTypeOK, EventInv, NEW p \in Patrons, EraseGuest(p)
  PROVE  EventInv'
<1> USE DEF GatheringsTypeOK
<1> DEFINE own == RowsOf(p)
<1>1. /\ p \in erasing /\ p # None
      /\ guest' = [r \in Rows |-> IF guest[r] = p THEN None ELSE guest[r]]
      /\ erasing' = erasing \ {p} /\ doomed' = doomed \ own
      /\ UNCHANGED met
  BY LibraryAssumption DEF EraseGuest
<1>2. \A q, r \in own : q = r
  BY <1>1 DEF EventInv, RegisteredOnce, RowsOf
\* What stays active is somebody else's, in either case.
<1>3. ASSUME \A q \in Rows : place'[q] \in Active => place[q] \in Active /\ q \notin own,
             \A q \in Rows : place[q] \in Active /\ q \notin own => place'[q] \in Active
      PROVE  RegisteredOnce' /\ ActiveHasGuest' /\ ErasureCancels'
  <2>1. \A q \in Rows : place'[q] \in Active => guest[q] # p /\ guest'[q] = guest[q]
    BY <1>1, <1>3 DEF RowsOf
  <2>2. RegisteredOnce' /\ ActiveHasGuest'
    BY <1>3, <2>1 DEF EventInv, RegisteredOnce, ActiveHasGuest
  <2>3. ASSUME NEW r \in doomed' PROVE place'[r] \in Active /\ guest'[r] \in erasing'
    <3>1. r \in Rows /\ place[r] \in Active /\ r \notin own /\ guest[r] \in erasing
      BY <1>1, <2>3 DEF EventInv, ErasureCancels
    <3> QED BY <1>1, <1>3, <2>1, <3>1
  <2>4. ASSUME NEW r \in Rows, guest'[r] \in erasing', place'[r] \in Active, r \notin doomed'
        PROVE  met'
    <3>1. guest[r] \in erasing /\ place[r] \in Active /\ r \notin doomed
      BY <1>1, <1>3, <2>1, <2>4
    <3> QED BY <1>1, <3>1 DEF EventInv, ErasureCancels
  <2> QED BY <2>2, <2>3, <2>4 DEF ErasureCancels
<1>4. ASSUME NEW r \in own \cap doomed, EndCancel(r)
      PROVE  EventInv'
  <2>1. r \in Rows /\ own = {r}
    BY <1>2 DEF RowsOf
  <2> HIDE DEF own
  <2>2. RegisteredOnce' /\ ActiveHasGuest' /\ ErasureCancels'
    BY <1>3, <1>4, <1>1, <2>1, EndKeeps
  <2> QED BY <1>1, <1>4, <2>1, <2>2, EndKeeps DEF EventInv
<1>5. ASSUME own \cap doomed = {}, \A r \in own : seen[r] = None, UNCHANGED seen,
             place' = [r \in Rows |-> IF r \in own THEN "cancelled" ELSE place[r]]
      PROVE  EventInv'
  <2>1. own # {} => met
    BY <1>1, <1>5 DEF EventInv, ErasureCancels, RowsOf
  <2> HIDE DEF own
  <2>2. RegisteredOnce' /\ ActiveHasGuest' /\ ErasureCancels'
    BY <1>3, <1>5 DEF Active
  <2>3. Seated' \subseteq Seated /\ Waiting' \subseteq Waiting
    BY <1>5 DEF Seated, Waiting
  <2>4. Cancelling'
    BY <1>1, <1>5, <2>3 DEF EventInv, Cancelling
  <2>5. SeatLimit'
    <3>1. /\ IsFiniteSet(Seated) /\ Cardinality(Seated) \in Nat
          /\ Cardinality(Seated') \in Nat /\ Cardinality(Seated') <= Cardinality(Seated)
      BY <2>3, RegistrationsFinite, FS_Subset, FS_CardinalityType DEF Seated
    <3> QED BY <2>3, <3>1, GatheringsAssumption DEF EventInv, SeatLimit
  <2>6. NoFreeSeat'
    <3>1. CASE own = {}
      <4>1. UNCHANGED <<Seated, Waiting>>
        BY <1>5, <3>1 DEF Seated, Waiting
      <4> QED BY <1>1, <4>1 DEF EventInv, NoFreeSeat, Full
    <3> QED BY <1>1, <2>1, <3>1 DEF NoFreeSeat
  <2> QED BY <2>2, <2>4, <2>5, <2>6 DEF EventInv
<1> QED BY <1>4, <1>5 DEF EraseGuest

LEMMA NextEvent ==
  ASSUME GatheringsTypeOK, EventInv, GatheringsNext
  PROVE  EventInv'
<1>1. ASSUME UNCHANGED registrationVars
      PROVE  EventInv'
  BY <1>1 DEF registrationVars, EventInv, SeatLimit, RegisteredOnce, NoFreeSeat, Cancelling,
              ActiveHasGuest, ErasureCancels, Seated, Waiting, Full
<1>2. ASSUME NEW v \in Reservations, NEW p \in Patrons, NEW room, NEW from, NEW to,
             Reserve(v, p, room, from, to)
      PROVE  EventInv'
  BY <1>1, <1>2 DEF Reserve
<1>3. ASSUME NEW v \in Reservations, BeginLeave(v) \/ LeaveRoom(v)
      PROVE  EventInv'
  BY <1>1, <1>3 DEF BeginLeave, LeaveRoom
<1> QED
  BY <1>2, <1>3, RegisterKeeps, BeginCancelKeeps, CancelKeeps, BeginEraseKeeps, ForgetKeeps
  DEF GatheringsNext

----------------------------------------------------------------------------
(* The rooms.                                                              *)

LEMMA NextBookings ==
  ASSUME GatheringsTypeOK, NoDoubleBooking, GatheringsNext
  PROVE  NoDoubleBooking'
<1> USE DEF NoDoubleBooking, GatheringsTypeOK
<1>1. ASSUME NEW v \in Reservations, NEW p \in Patrons, NEW room \in Rooms,
             NEW from \in 0 .. Hours, NEW to \in 0 .. Hours, Reserve(v, p, room, from, to)
      PROVE  NoDoubleBooking'
  <2>1. booking'[v] = [room |-> room, from |-> from, to |-> to, patron |-> p]
    BY <1>1 DEF Reserve
  <2>2. \A w \in Reservations : w # v => /\ booking'[w] = booking[w]
                                         /\ ~Conflict(booking[w], room, from, to)
    BY <1>1 DEF Reserve
  <2>3. \A w \in Reservations : booking[w].from \in Int /\ booking[w].to \in Int
    BY GatheringsAssumption DEF NoBooking
  <2>4. ASSUME NEW w \in Reservations, w # v, NEW h \in 0 .. Hours,
               booking[w].from <= h, h < booking[w].to, from <= h, h < to
        PROVE  booking[w].room # room
    BY <2>2, <2>3, <2>4, GatheringsAssumption DEF Conflict
  <2> QED BY <2>1, <2>2, <2>4
<1>2. ASSUME NEW v \in Reservations, BeginLeave(v)
      PROVE  NoDoubleBooking'
  BY <1>2 DEF BeginLeave
<1>3. ASSUME \A w \in Reservations : booking'[w] \in {booking[w], NoBooking}
      PROVE  NoDoubleBooking'
  BY <1>3 DEF NoBooking
<1>4. ASSUME NEW v \in Reservations, LeaveRoom(v)
      PROVE  NoDoubleBooking'
  BY <1>3, <1>4 DEF LeaveRoom
<1>5. ASSUME NEW p \in Patrons, EraseGuest(p)
      PROVE  NoDoubleBooking'
  BY <1>3, <1>5 DEF EraseGuest
<1>6. ASSUME NEW r \in Rows, BeginCancelPlace(r) \/ CancelPlace(r)
                             \/ \E p \in Patrons : Register(r, p)
      PROVE  NoDoubleBooking'
  BY <1>6 DEF BeginCancelPlace, CancelPlace, Register, roomVars
<1>7. ASSUME NEW p \in Patrons, BeginErase(p)
      PROVE  NoDoubleBooking'
  BY <1>7 DEF BeginErase, roomVars
<1> QED BY <1>1, <1>2, <1>4, <1>5, <1>6, <1>7 DEF GatheringsNext

----------------------------------------------------------------------------
(* The theorems.                                                           *)

LEMMA GatheringsStep == GatheringsInv /\ [GatheringsNext]_gatheringVars => GatheringsInv'
<1>1. CASE GatheringsNext
  BY <1>1, GatheringsType, NextEvent, NextBookings DEF GatheringsInv
<1>2. CASE UNCHANGED gatheringVars
  BY <1>2 DEF GatheringsInv, GatheringsTypeOK, EventInv, SeatLimit, RegisteredOnce,
              NoFreeSeat, Cancelling, ActiveHasGuest, ErasureCancels, Seated, Waiting, Full,
              NoDoubleBooking, gatheringVars, registrationVars, roomVars
<1> QED BY <1>1, <1>2

\* The invariant that the two theorems below rest on.
THEOREM GatheringsHold == GatheringsSpec => []GatheringsInv
<1> QED BY GatheringsFirst, GatheringsStep, PTL DEF GatheringsSpec

\* However registrations, cancellations, promotions and erasures (events.py,
\* privacy.py) cross, no more seats are taken than the event has, nobody is
\* registered twice, and no seat is free beside a waitlist unless a
\* registration crossed a cancellation, also that of an erasure, or crossed the
\* erasure of its own patron.
THEOREM SeatsHold == GatheringsSpec => []Seats
<1>1. GatheringsInv => Seats
  BY DEF GatheringsInv, EventInv, SeatLimit, RegisteredOnce, NoFreeSeat, Seats
<1> QED BY <1>1, GatheringsHold, PTL

\* reserve_room books no room twice for one hour.
THEOREM RoomsOnce == GatheringsSpec => []NoDoubleBooking
<1>1. GatheringsInv => NoDoubleBooking
  BY DEF GatheringsInv
<1> QED BY <1>1, GatheringsHold, PTL

----------------------------------------------------------------------------
(* The waitlist in its order.                                              *)

\* Rows are numbered as they come, and a cancellation has seen, of those that
\* wait, everybody who came before anybody it has seen.
InOrderSeen ==
  /\ \A q, r \in Rows : q < r /\ place[q] = "absent" => place[r] = "absent"
  /\ \A r \in Rows : seen[r] # None =>
        \A x \in seen[r] : /\ place[x] # "absent"
                           /\ \A q \in Waiting : q < x => q \in seen[r]

\* A cancellation ends, on its own or in an erasure: its row is cancelled, and the
\* first of those it saw that still wait gets the seat.
LEMMA CancelEffect ==
  ASSUME GatheringsInv, NEW r \in Rows, EndCancel(r)
  PROVE  /\ seen[r] # None /\ seen[r] \in SUBSET Rows
         /\ \A q \in Rows : \/ place'[q] = place[q]
                            \/ place[q] # "absent" /\ place'[q] = "cancelled"
                            \/ /\ q \in Still(r) /\ place'[q] = "registered"
                               /\ \A x \in Still(r) : q <= x
         /\ seen' = [seen EXCEPT ![r] = None]
<1>1. /\ seen[r] # None /\ seen[r] \in SUBSET Rows
      /\ \A q \in Rows : place'[q] = IF q = r THEN "cancelled"
                                     ELSE IF Still(r) # {} /\ q = NextInLine(Still(r))
                                     THEN "registered" ELSE place[q]
      /\ seen' = [seen EXCEPT ![r] = None]
  BY DEF EndCancel, Promoted, GatheringsInv, GatheringsTypeOK
<1>2. place[r] # "absent"
  BY <1>1 DEF GatheringsInv, EventInv, Cancelling, Active
<1>3. Still(r) \in SUBSET Rows
  BY <1>1 DEF Still
<1>4. Still(r) # {} => NextInLine(Still(r)) \in Still(r)
                      /\ \A x \in Still(r) : NextInLine(Still(r)) <= x
  BY <1>3, NextInLineWaits
<1>5. \A q \in Rows : \/ place'[q] = place[q]
                      \/ place[q] # "absent" /\ place'[q] = "cancelled"
                      \/ /\ q \in Still(r) /\ place'[q] = "registered"
                         /\ \A x \in Still(r) : q <= x
  BY <1>1, <1>2, <1>4
<1> QED BY <1>1, <1>5

\* An erasure ends with that of its cancellation, or promotes nobody.
LEMMA EraseEffect ==
  ASSUME NEW p \in Patrons, EraseGuest(p)
  PROVE  \/ \E r \in Rows : EndCancel(r)
         \/ /\ UNCHANGED seen
            /\ \A q \in Rows : \/ place'[q] = place[q]
                               \/ place[q] # "absent" /\ place'[q] = "cancelled"
BY DEF EraseGuest, RowsOf, Active

\* Steps in which nobody comes to wait and no cancellation looks.
LEMMA NobodyComes ==
  ASSUME GatheringsTypeOK, InOrderSeen,
         \A q \in Rows : /\ place'[q] = "absent" <=> place[q] = "absent"
                         /\ place'[q] = "waitlisted" => place[q] = "waitlisted",
         \A r \in Rows : seen'[r] \in {seen[r], None}
  PROVE  InOrderSeen'
<1> USE DEF GatheringsTypeOK
<1>1. \A q, r \in Rows : q < r /\ place'[q] = "absent" => place'[r] = "absent"
  BY DEF InOrderSeen
<1>2. ASSUME NEW r \in Rows, seen'[r] # None, NEW x \in seen'[r]
      PROVE  place'[x] # "absent" /\ \A q \in Waiting' : q < x => q \in seen'[r]
  <2>1. seen'[r] = seen[r] /\ seen[r] # None /\ x \in Rows
    BY <1>2
  <2>2. Waiting' \subseteq Waiting
    BY DEF Waiting
  <2> QED BY <1>2, <2>1, <2>2 DEF InOrderSeen
<1> QED BY <1>1, <1>2 DEF InOrderSeen

LEMMA NextInOrderSeen ==
  GatheringsInv /\ InOrderSeen /\ [GatheringsNext]_gatheringVars => InOrderSeen'
<1> SUFFICES ASSUME GatheringsInv, InOrderSeen, [GatheringsNext]_gatheringVars
             PROVE  InOrderSeen'
  OBVIOUS
<1>0. GatheringsTypeOK
  BY DEF GatheringsInv
<1> USE <1>0 DEF GatheringsTypeOK
<1>1. ASSUME NEW r \in Rows, NEW p \in Patrons, Register(r, p)
      PROVE  InOrderSeen'
  <2>1. /\ place[r] = "absent" /\ place'[r] # "absent" /\ UNCHANGED seen
        /\ \A q \in Rows : q < r => place[q] # "absent"
        /\ \A q \in Rows : q # r => place'[q] = place[q]
    BY <1>1 DEF Register
  <2>2. \A q, x \in Rows : q < x /\ place'[q] = "absent" => place'[x] = "absent"
    BY <2>1 DEF InOrderSeen
  <2>3. ASSUME NEW s \in Rows, seen[s] # None, NEW x \in seen[s]
        PROVE  place'[x] # "absent" /\ \A q \in Waiting' : q < x => q \in seen[s]
    <3>1. x \in Rows /\ place[x] # "absent" /\ ~(r < x)
      BY <2>1, <2>3 DEF InOrderSeen
    <3>2. Waiting' \subseteq Waiting \cup {r}
      BY <2>1 DEF Waiting
    <3> QED BY <2>1, <2>3, <3>1, <3>2 DEF InOrderSeen
  <2> QED BY <2>1, <2>2, <2>3 DEF InOrderSeen
<1>2. ASSUME NEW r \in Rows, BeginCancelPlace(r)
      PROVE  InOrderSeen'
  <2>1. UNCHANGED <<place, Waiting>> /\ seen' = [seen EXCEPT ![r] = Promotable(r)]
    BY <1>2 DEF BeginCancelPlace, Waiting
  <2>2. Promotable(r) \in {{}, Waiting} /\ \A x \in Waiting : place[x] # "absent"
    BY DEF Promotable, Waiting
  <2> QED BY <2>1, <2>2 DEF InOrderSeen
<1>3. ASSUME NEW r \in Rows, EndCancel(r)
      PROVE  InOrderSeen'
  BY <1>3, CancelEffect, NobodyComes DEF Still
<1>4. ASSUME NEW p \in Patrons, EraseGuest(p)
      PROVE  InOrderSeen'
  BY <1>3, <1>4, EraseEffect, NobodyComes
<1>7. ASSUME NEW p \in Patrons, BeginErase(p)
      PROVE  InOrderSeen'
  <2>1. /\ UNCHANGED <<place, Waiting>>
        /\ \A r \in Rows : seen'[r] = seen[r] \/ seen'[r] \in {{}, Waiting}
    BY <1>7 DEF BeginErase, Waiting, Promotable
  <2>2. \A x \in Waiting : x \in Rows /\ place[x] # "absent"
    BY DEF Waiting
  <2> QED BY <2>1, <2>2 DEF InOrderSeen
<1>5. CASE UNCHANGED registrationVars
  BY <1>5, NobodyComes DEF registrationVars
<1>6. ASSUME NEW v \in Reservations,
             \/ \E p \in Patrons, room \in Rooms, from, to \in 0 .. Hours : Reserve(v, p, room, from, to)
             \/ BeginLeave(v) \/ LeaveRoom(v)
      PROVE  InOrderSeen'
  BY <1>5, <1>6 DEF Reserve, BeginLeave, LeaveRoom
<1> QED BY <1>1, <1>2, <1>3, <1>4, <1>5, <1>6, <1>7
        DEF GatheringsNext, gatheringVars, CancelPlace

\* _promote_waitlist serves the waitlist in the order of registration, also from
\* what a cancellation or an erasure saw long ago: a seat goes past somebody who
\* waits only to a patron who has just registered, after some registration had
\* crossed a cancellation or an erasure.
THEOREM ServedInTurn == GatheringsSpec => WaitlistOrder
<1>1. GatheringsInit => InOrderSeen
  BY DEF GatheringsInit, InOrderSeen
<1>2. GatheringsInv /\ InOrderSeen /\ [GatheringsNext]_gatheringVars =>
        [\A q, r \in Rows :
           q < r /\ place[q] = "waitlisted" /\ place'[q] = "waitlisted"
                 /\ place[r] # "registered" /\ place'[r] = "registered"
             => place[r] = "absent" /\ met]_gatheringVars
  <2> SUFFICES ASSUME GatheringsInv, InOrderSeen, GatheringsNext,
                      NEW q \in Rows, NEW r \in Rows, q < r,
                      place[q] = "waitlisted", place'[q] = "waitlisted",
                      place[r] # "registered", place'[r] = "registered"
               PROVE  place[r] = "absent" /\ met
    OBVIOUS
  <2>1. q \in Waiting
    BY DEF Waiting
  <2>2. ASSUME NEW s \in Rows, NEW p \in Patrons, Register(s, p)
        PROVE  place[r] = "absent" /\ met
    <3>1. r = s /\ place[r] = "absent" /\ ~Full(Seated)
      BY <2>2 DEF Register, GatheringsInv, GatheringsTypeOK
    <3> QED BY <2>1, <3>1 DEF GatheringsInv, EventInv, NoFreeSeat
  <2>3. ASSUME NEW s \in Rows, EndCancel(s)
        PROVE  FALSE
    <3>1. /\ seen[s] # None /\ r \in seen[s]
          /\ \A x \in seen[s] : place[x] = "waitlisted" => r <= x
      BY <2>3, CancelEffect DEF Still
    <3>2. q \in seen[s]
      BY <2>1, <3>1 DEF InOrderSeen
    <3>3. r <= q
      BY <3>1, <3>2
    <3> QED BY <3>3, RegistrationsAreNumbers
  <2>4. ASSUME NEW p \in Patrons, EraseGuest(p)
        PROVE  FALSE
    BY <2>3, <2>4, EraseEffect
  <2>5. ASSUME UNCHANGED place
        PROVE  FALSE
    BY <2>5
  <2> QED BY <2>2, <2>3, <2>4, <2>5
          DEF GatheringsNext, BeginCancelPlace, CancelPlace, BeginErase, Reserve, BeginLeave,
              LeaveRoom, registrationVars
<1> QED BY <1>1, <1>2, GatheringsFirst, GatheringsStep, NextInOrderSeen, PTL
        DEF GatheringsSpec, WaitlistOrder

----------------------------------------------------------------------------
(* Interlibrary: the invariant.                                            *)

\* A request that was not made yet has no copy.
NotYet == \A r \in RequestIds : illStatus[r] = "absent" => illCopy[r] = None

InterlibraryInv == InterlibraryTypeOK /\ NotYet /\ LentOnce

LEMMA InterlibraryFirst == InterlibraryInit => InterlibraryInv
BY DEF InterlibraryInit, InterlibraryInv, InterlibraryTypeOK, NotYet, LentOnce, Out,
       IllStatus, OPEN, Shelf

----------------------------------------------------------------------------
(* Types.                                                                  *)

LEMMA RequestType ==
  ASSUME InterlibraryTypeOK, NEW r \in RequestIds, NEW p \in Patrons, NEW w \in Titles,
         RequestIll(r, p, w)
  PROVE  InterlibraryTypeOK'
BY InterlibraryAssumption DEF InterlibraryTypeOK, RequestIll, Lendable, IllStatus, Shelf

LEMMA ActionType ==
  ASSUME InterlibraryTypeOK, NEW r \in RequestIds, NEW org \in Members, IllAction(r, org)
  PROVE  InterlibraryTypeOK'
<1> USE DEF InterlibraryTypeOK, IllStatus, Shelf
<1>1. ASSUME ShipIll(r, org) \/ ReceiveIll(r, org) \/ ReturnIll(r, org),
             UNCHANGED <<illPatron, shelf, illTitle, illHome, illCopy, leaving>>
      PROVE  InterlibraryTypeOK'
  BY <1>1 DEF ShipIll, ReceiveIll, ReturnIll, Advance
<1>2. ASSUME FreeCopy(r), ScrubPatron(r), UNCHANGED <<illTitle, illHome, illCopy, leaving>>,
             NEW to \in IllStatus, illStatus' = [illStatus EXCEPT ![r] = to]
      PROVE  InterlibraryTypeOK'
  BY <1>2 DEF FreeCopy, ScrubPatron
<1> QED BY <1>1, <1>2 DEF IllAction, CheckinIll, CancelIll, Advance

LEMMA InterlibraryType ==
  ASSUME InterlibraryTypeOK, InterlibraryNext
  PROVE  InterlibraryTypeOK'
<1> USE DEF InterlibraryTypeOK, IllStatus, Shelf, illVars
<1>1. ASSUME NEW c \in Holdings, LocalUse(c) \/ RetireCopy(c)
      PROVE  InterlibraryTypeOK'
  BY <1>1 DEF LocalUse, RetireCopy
<1>2. ASSUME NEW p \in Patrons, CheckErasure(p) \/ FinishErasure(p)
      PROVE  InterlibraryTypeOK'
  BY <1>2 DEF CheckErasure, FinishErasure
<1> QED BY <1>1, <1>2, RequestType, ActionType DEF InterlibraryNext

----------------------------------------------------------------------------
(* The copies.                                                             *)

\* A copy that may be lent is promised to nobody, so a new request may have it.
LEMMA RequestLendsOnce ==
  ASSUME InterlibraryInv, NEW r \in RequestIds, NEW p \in Patrons, NEW w \in Titles,
         RequestIll(r, p, w)
  PROVE  NotYet' /\ LentOnce'
<1> USE InterlibraryAssumption DEF InterlibraryInv, InterlibraryTypeOK, NotYet, LentOnce
<1>1. illStatus[r] = "absent" /\ illCopy[r] = None
  BY DEF RequestIll
<1>2. CASE /\ illStatus' = [illStatus EXCEPT ![r] = "unfilled"]
           /\ UNCHANGED <<illCopy, shelf>>
  BY <1>1, <1>2 DEF Out, OPEN
<1>3. ASSUME NEW c \in Holdings, shelf[c] = "available",
             illStatus' = [illStatus EXCEPT ![r] = "requested"],
             illCopy' = [illCopy EXCEPT ![r] = c],
             shelf' = [shelf EXCEPT ![c] = "ill"]
      PROVE  NotYet' /\ LentOnce'
  <2>1. \A q \in RequestIds : Out(q) => illCopy[q] # c /\ illCopy[q] \in Holdings
    BY <1>3 DEF Out
  <2>2. Out(r)' /\ illCopy'[r] = c
    BY <1>3 DEF Out, OPEN
  <2>3. \A q \in RequestIds : q # r => /\ Out(q)' <=> Out(q)
                                       /\ illCopy'[q] = illCopy[q]
    BY <1>3 DEF Out
  <2>4. ~Out(r)
    BY <1>1 DEF Out
  <2>5. \A d \in Holdings : shelf'[d] = IF d = c THEN "ill" ELSE shelf[d]
    BY <1>3
  <2>6. NotYet'
    BY <1>3
  <2> QED BY <2>1, <2>2, <2>3, <2>4, <2>5, <2>6
<1> QED BY <1>2, <1>3 DEF RequestIll, Lendable

\* A step of a request keeps its copy away, or ends both.
LEMMA ActionLendsOnce ==
  ASSUME InterlibraryInv, NEW r \in RequestIds, NEW org \in Members, IllAction(r, org)
  PROVE  NotYet' /\ LentOnce'
<1> USE InterlibraryAssumption DEF InterlibraryInv, InterlibraryTypeOK, NotYet, LentOnce
<1>1. ASSUME NEW from \in OPEN, NEW to \in OPEN, Advance(r, from, to),
             UNCHANGED <<illCopy, shelf>>
      PROVE  NotYet' /\ LentOnce'
  <2>1. \A q \in RequestIds : Out(q)' <=> Out(q)
    BY <1>1 DEF Out, Advance
  <2>2. \A q \in RequestIds : illStatus'[q] = "absent" => illStatus[q] = "absent"
    BY <1>1 DEF Advance, OPEN
  <2> QED BY <1>1, <2>1, <2>2
<1>2. ASSUME NEW from \in OPEN, NEW to \in {"completed", "cancelled"}, illStatus[r] = from,
             illStatus' = [illStatus EXCEPT ![r] = to],
             FreeCopy(r), UNCHANGED illCopy
      PROVE  NotYet' /\ LentOnce'
  <2>1. ~Out(r)' /\ \A q \in RequestIds : q # r => (Out(q)' <=> Out(q))
    BY <1>2 DEF Out, OPEN
  <2>2. \A q \in RequestIds : illStatus'[q] = "absent" => illStatus[q] = "absent"
    BY <1>2
  <2>3. Out(r) \/ illCopy[r] = None
    BY <1>2 DEF Out
  <2>4. \A c \in Holdings : shelf'[c] = IF c = illCopy[r] /\ shelf[c] = "ill"
                                        THEN "available" ELSE shelf[c]
    BY <1>2 DEF FreeCopy
  <2>5. \A q \in RequestIds : Out(q)' => Out(q) /\ q # r /\ illCopy[q] # illCopy[r]
    BY <2>1, <2>3 DEF Out
  <2>6. \A q \in RequestIds : Out(q) => illCopy[q] \in Holdings
    BY DEF Out
  <2>7. \A c \in Holdings : shelf'[c] = "ill" =>
           \E q \in RequestIds : Out(q)' /\ illCopy[q] = c
    BY <2>1, <2>3, <2>4
  <2> QED BY <1>2, <2>1, <2>2, <2>4, <2>5, <2>6, <2>7
<1>3. CASE (ShipIll(r, org) \/ ReceiveIll(r, org) \/ ReturnIll(r, org)) /\ UNCHANGED <<illPatron, shelf>>
  BY <1>1, <1>3 DEF IllAction, ShipIll, ReceiveIll, ReturnIll, OPEN
<1>4. CASE CheckinIll(r, org)
  BY <1>2, <1>4 DEF IllAction, CheckinIll, Advance, OPEN
<1>5. CASE CancelIll(r, org)
  BY <1>2, <1>5 DEF IllAction, CancelIll, MayCancel, OPEN
<1> QED BY <1>3, <1>4, <1>5 DEF IllAction

LEMMA NextLentOnce ==
  ASSUME InterlibraryInv, InterlibraryNext
  PROVE  NotYet' /\ LentOnce'
<1> USE DEF InterlibraryInv, InterlibraryTypeOK, NotYet, LentOnce, Out, illVars
<1>1. ASSUME NEW c \in Holdings, LocalUse(c)
      PROVE  NotYet' /\ LentOnce'
  BY <1>1 DEF LocalUse
<1>2. ASSUME NEW c \in Holdings, RetireCopy(c)
      PROVE  NotYet' /\ LentOnce'
  BY <1>2 DEF RetireCopy
<1>3. ASSUME NEW p \in Patrons, CheckErasure(p) \/ FinishErasure(p)
      PROVE  NotYet' /\ LentOnce'
  BY <1>3 DEF CheckErasure, FinishErasure
<1> QED
  BY <1>1, <1>2, <1>3, RequestLendsOnce, ActionLendsOnce DEF InterlibraryNext

----------------------------------------------------------------------------
LEMMA InterlibraryHolds == InterlibrarySpec => []InterlibraryInv
<1>1. InterlibraryInv /\ [InterlibraryNext]_interlibraryVars => InterlibraryInv'
  <2>1. CASE InterlibraryNext
    BY <2>1, InterlibraryType, NextLentOnce DEF InterlibraryInv
  <2>2. CASE UNCHANGED interlibraryVars
    BY <2>2 DEF InterlibraryInv, InterlibraryTypeOK, NotYet, LentOnce, Out,
                interlibraryVars, illVars
  <2> QED BY <2>1, <2>2
<1> QED BY InterlibraryFirst, <1>1, PTL DEF InterlibrarySpec

\* A copy that consortia.py promised, mailed or lent to another library is away
\* from local circulation, is promised to one request, and comes back with it.
THEOREM CopyLentOnce == InterlibrarySpec => []LentOnce
<1>1. InterlibraryInv => LentOnce
  BY DEF InterlibraryInv
<1> QED BY <1>1, InterlibraryHolds, PTL

----------------------------------------------------------------------------
(* Access: types.                                                          *)

LEMMA AccessFirst == AccessInit => AccessTypeOK
BY DEF AccessInit, AccessTypeOK

LEMMA FirstIsLeast ==
  ASSUME NEW S \in SUBSET Libraries
  PROVE  /\ First(S) \in Libraries \cup {None}
         /\ S = {} <=> First(S) = None
         /\ S # {} => First(S) \in S /\ \A l \in S : First(S) <= l
<1>1. CASE S = {}
  BY <1>1 DEF First
<1>2. CASE S # {}
  <2>1. S \in SUBSET Nat /\ None \notin S
    BY AccessAssumption
  <2>2. Min(S) \in S /\ \A l \in S : Min(S) <= l
    BY <1>2, <2>1, MinIsLeast
  <2> QED BY <1>2, <2>1, <2>2 DEF First
<1> QED BY <1>1, <1>2

LEMMA SessionTypes ==
  ASSUME AccessTypeOK, NEW u \in Users, NEW sel \in Libraries \cup {None}
  PROVE  /\ CurrentLibrary(u, sel) \in Libraries \cup {None}
         /\ StaffLibrary(u, sel) \in Libraries \cup {None}
         /\ StaffLibraries(u) \in SUBSET Libraries
         /\ StaffLibrary(u, sel) # None => StaffLibrary(u, sel) \in StaffLibraries(u)
         /\ StaffLibrary(u, sel) = None => StaffLibraries(u) = {}
<1>1. StaffLibraries(u) \in SUBSET Libraries /\ openLibs \in SUBSET Libraries
  BY DEF AccessTypeOK, StaffLibraries
<1>2. None \notin StaffLibraries(u)
  BY <1>1, AccessAssumption
<1>3. UserLibrary(u) \in Libraries \cup {None}
  BY <1>1, FirstIsLeast DEF UserLibrary
<1>4. CurrentLibrary(u, sel) \in Libraries \cup {None}
  <2>1. CASE sel = None
    BY <1>1, <1>3, <2>1, FirstIsLeast DEF CurrentLibrary
  <2>2. CASE sel # None
    BY <1>1, <1>3, <2>2, FirstIsLeast DEF CurrentLibrary
  <2> QED BY <2>1, <2>2
<1>5. CASE sel \in StaffLibraries(u)
  <2>1. StaffLibrary(u, sel) = sel
    BY <1>5 DEF StaffLibrary
  <2> QED BY <1>1, <1>2, <1>4, <1>5, <2>1
<1>6. CASE sel \notin StaffLibraries(u)
  <2>1. StaffLibrary(u, sel) = First(StaffLibraries(u))
    BY <1>6 DEF StaffLibrary
  <2> QED BY <1>1, <1>4, <2>1, FirstIsLeast
<1> QED BY <1>5, <1>6

LEMMA SessionLibraryType ==
  ASSUME AccessTypeOK, NEW u \in Users
  PROVE  /\ SessionLibrary(u) \in Libraries \cup {None}
         /\ CurrentLibrary(u, selected[u]) \in Libraries \cup {None}
<1>1. selected[u] \in Libraries \cup {None}
  BY DEF AccessTypeOK
<1> QED BY <1>1, SessionTypes DEF SessionLibrary, CheckedLibrary, OrElse

\* A staff request as it is asked.
LEMMA AskedType ==
  ASSUME AccessTypeOK, NEW u \in Users, NEW t \in ApiTokens \cup {None}, AskStaff(u, t)
  PROVE  /\ request' \in [Users -> StaffRequests \cup {None}]
         /\ request'[u] \in StaffRequests
<1>1. selected[u] \in Libraries \cup {None}
  BY DEF AccessTypeOK
<1>2. /\ CurrentLibrary(u, selected[u]) \in Libraries \cup {None}
      /\ StaffLibraries(u) \in SUBSET Libraries
      /\ CheckedLibrary(u, t, selected[u]) \in Libraries \cup {None}
  BY <1>1, SessionTypes, AccessAssumption DEF CheckedLibrary, OrElse
<1> DEFINE q == [token |-> t, selected |-> selected[u],
                 current |-> IF t # None \/ StaffLibrary(u, selected[u]) # None THEN None
                             ELSE CurrentLibrary(u, selected[u]),
                 lib |-> CheckedLibrary(u, t, selected[u]),
                 staffed |-> StaffLibraries(u), as |-> None]
<1>3. q \in StaffRequests
  BY <1>1, <1>2 DEF StaffRequests
<1>4. request' = [request EXCEPT ![u] = q]
  BY DEF AskStaff
<1> HIDE DEF q
<1> QED BY <1>3, <1>4 DEF AccessTypeOK

\* The role that it is let in with is known.
LEMMA AdmittedType ==
  ASSUME AccessTypeOK, NEW u \in Users, Admit(u)
  PROVE  /\ request' \in [Users -> StaffRequests \cup {None}]
         /\ request[u] # None /\ \A v \in Users : v # u => request'[v] = request[v]
         /\ request'[u] = [request[u] EXCEPT !.as = request'[u].as]
         /\ request'[u] \in StaffRequests
<1> DEFINE q == request[u]
<1>1. q \in StaffRequests /\ IsStaff(u, q.lib)
  BY DEF Admit, AccessTypeOK
<1>2. q.lib \in Libraries
  BY <1>1 DEF StaffRequests, IsStaff
<1>3. role[u][q.lib] \in StaffRoles
  BY <1>1, <1>2 DEF AccessTypeOK, IsStaff
<1>4. [q EXCEPT !.as = role[u][q.lib]] \in StaffRequests
  BY <1>1, <1>3 DEF StaffRequests
<1>5. request' = [request EXCEPT ![u] = [q EXCEPT !.as = role[u][q.lib]]] /\ q # None
  BY DEF Admit
<1>6. [q EXCEPT !.as = role[u][q.lib]].as = role[u][q.lib]
  BY <1>1 DEF StaffRequests
<1> HIDE DEF q
<1> QED BY <1>4, <1>5, <1>6 DEF AccessTypeOK, q

LEMMA AccessStep ==
  ASSUME AccessTypeOK, [AccessNext]_accessVars
  PROVE  AccessTypeOK'
<1> USE DEF AccessTypeOK, sessionVars
<1>1. ASSUME NEW u \in Users PROVE MarkVerified(u) => stamp' \in [Users -> Libraries \cup {None}]
  <2>1. OrElse(SessionLibrary(u), CurrentLibrary(u, selected[u])) \in Libraries \cup {None}
    BY SessionLibraryType DEF OrElse
  <2> QED BY <2>1 DEF MarkVerified
<1>2. ASSUME NEW u \in Users, BeginEnrollment(u) PROVE AccessTypeOK'
  BY <1>2 DEF BeginEnrollment
<1>3. ASSUME NEW u \in Users, ConfirmEnrollment(u) \/ VerifyLogin(u) PROVE AccessTypeOK'
  BY <1>1, <1>3 DEF ConfirmEnrollment, VerifyLogin
<1>4. ASSUME NEW u \in Users, DisableMfa(u) \/ StampExpires(u) \/ ForgetLibrary(u)
      PROVE  AccessTypeOK'
  BY <1>4 DEF DisableMfa, StampExpires, ForgetLibrary
<1>5. ASSUME NEW u \in Users, NEW lib \in Libraries \cup {None}, SignIn(u, lib)
      PROVE  AccessTypeOK'
  BY <1>5 DEF SignIn
<1>6. ASSUME NEW u \in Users, NEW lib \in Libraries, SelectLibrary(u, lib)
      PROVE  AccessTypeOK'
  BY <1>6 DEF SelectLibrary
<1>7. ASSUME NEW u \in Users, NEW lib \in Libraries, NEW r \in StaffRoles \cup {None},
             SetRole(u, lib, r)
      PROVE  AccessTypeOK'
  <2>1. role' = [role EXCEPT ![u][lib] = r]
    BY <1>7 DEF SetRole
  <2>2. role' \in [Users -> [Libraries -> StaffRoles \cup {None}]]
    BY <2>1
  <2> QED BY <1>7, <2>2 DEF SetRole
<1>8. ASSUME NEW lib \in Libraries, SetLibrary(lib) PROVE AccessTypeOK'
  BY <1>8 DEF SetLibrary
<1>9. ASSUME NEW t \in ApiTokens, RevokeToken(t) PROVE AccessTypeOK'
  BY <1>9 DEF RevokeToken
<1>10. ASSUME UNCHANGED accessVars PROVE AccessTypeOK'
  BY <1>10 DEF accessVars
<1>11. ASSUME NEW u \in Users, NEW t \in ApiTokens \cup {None}, AskStaff(u, t)
       PROVE  AccessTypeOK'
  BY <1>11, AskedType DEF AskStaff
<1>12. ASSUME NEW u \in Users, Admit(u) PROVE AccessTypeOK'
  BY <1>12, AdmittedType DEF Admit
<1>13. ASSUME NEW u \in Users, Answered(u) PROVE AccessTypeOK'
  BY <1>13 DEF Answered
<1> QED
  BY <1>2, <1>3, <1>4, <1>5, <1>6, <1>7, <1>8, <1>9, <1>10, <1>11, <1>12, <1>13
  DEF AccessNext, SessionStep

----------------------------------------------------------------------------
(* Access: the library that the gate checks, and the one a handler serves. *)

\* The library that a request was checked for is its token's; or the one that
\* was selected, if its caller was staff there when it asked, or the first where
\* they were.
AsAsked(q) ==
  IF q.token # None THEN q.lib = TokenLibrary[q.token]
  ELSE q.staffed # {} =>
         q.lib = IF q.selected \in q.staffed THEN q.selected ELSE First(q.staffed)

RequestsAsAsked == \A u \in Users : request[u] # None => AsAsked(request[u])

AccessInv == AccessTypeOK /\ RequestsAsAsked

LEMMA RequestsStep ==
  ASSUME AccessInv, [AccessNext]_accessVars
  PROVE  RequestsAsAsked'
<1> USE DEF AccessInv
<1>1. ASSUME NEW u \in Users, NEW t \in ApiTokens \cup {None}, AskStaff(u, t)
      PROVE  RequestsAsAsked'
  <2>1. /\ \A v \in Users : v # u => request'[v] = request[v]
        /\ request'[u].token = t /\ request'[u].selected = selected[u]
        /\ request'[u].staffed = StaffLibraries(u)
        /\ request'[u].lib = CheckedLibrary(u, t, selected[u])
    BY <1>1 DEF AskStaff, AccessTypeOK
  <2>2. selected[u] \in Libraries \cup {None}
    BY DEF AccessTypeOK
  <2>3. AsAsked(request'[u])
    <3>1. CASE t # None
      BY <2>1, <3>1 DEF AsAsked, CheckedLibrary
    <3>2. ASSUME t = None, StaffLibraries(u) # {}
          PROVE  CheckedLibrary(u, t, selected[u]) = StaffLibrary(u, selected[u])
      BY <2>2, <3>2, SessionTypes DEF CheckedLibrary, OrElse
    <3>3. CASE t = None
      BY <2>1, <3>2, <3>3 DEF AsAsked, StaffLibrary
    <3> QED BY <3>1, <3>3
  <2> QED BY <2>1, <2>3 DEF RequestsAsAsked, AsAsked
<1>2. ASSUME NEW u \in Users, Admit(u) PROVE RequestsAsAsked'
  <2>1. /\ request[u] \in StaffRequests /\ request[u] # None
        /\ \A v \in Users : v # u => request'[v] = request[v]
        /\ request'[u] = [request[u] EXCEPT !.as = request'[u].as]
    BY <1>2, AdmittedType DEF AccessTypeOK
  <2>2. /\ request'[u].token = request[u].token /\ request'[u].staffed = request[u].staffed
        /\ request'[u].selected = request[u].selected /\ request'[u].lib = request[u].lib
    BY <2>1 DEF StaffRequests
  <2> QED BY <2>1, <2>2 DEF RequestsAsAsked, AsAsked
<1>3. ASSUME NEW u \in Users, Answered(u) PROVE RequestsAsAsked'
  BY <1>3 DEF Answered, RequestsAsAsked, AccessTypeOK, AsAsked
<1>4. CASE UNCHANGED request
  BY <1>4 DEF RequestsAsAsked, AsAsked
<1> QED
  BY <1>1, <1>2, <1>3, <1>4
  DEF AccessNext, SessionStep, BeginEnrollment, ConfirmEnrollment, VerifyLogin, DisableMfa,
      StampExpires, ForgetLibrary, SignIn, SelectLibrary, SetRole, SetLibrary, RevokeToken,
      accessVars

\* What only asks for permission to report or to support reads.
LEMMA ReportersRead ==
  \A h \in Handlers : h.gate = "staff" /\ h.permission \in {"reports", "support"} => h.calls = "read"
<1> USE DEF Patron, Staff
<1> DEFINE OnlyReads(H) == \A h \in H : h.gate = "staff" /\ h.permission \in {"reports", "support"}
                                          => h.calls = "read"
<1>1. OnlyReads(ReadingRoom) /\ OnlyReads(DigitalDesk) /\ OnlyReads(ReaderServices) /\ OnlyReads(SharedRooms)
  BY DEF ReadingRoom, DigitalDesk, ReaderServices, SharedRooms
<1>2. OnlyReads(CirculationDesk) /\ OnlyReads(ImportDesk) /\ OnlyReads(CataloguingDesk)
  BY DEF CirculationDesk, ImportDesk, CataloguingDesk
<1>3. OnlyReads(FeeDesk) /\ OnlyReads(BillingOffice) /\ OnlyReads(AcquisitionsOffice) /\ OnlyReads(SupportDesk)
  BY DEF FeeDesk, BillingOffice, AcquisitionsOffice, SupportDesk
<1>4. OnlyReads(InterlibraryDesk) /\ OnlyReads(StackWork)
  BY DEF InterlibraryDesk, StackWork
<1>5. OnlyReads(FinanceOffice) /\ OnlyReads(ReportingDesk)
  BY DEF FinanceOffice, ReportingDesk
<1>6. OnlyReads(Preferences) /\ OnlyReads(AssistantDesk)
  BY DEF Preferences, AssistantDesk
<1> QED BY <1>1, <1>2, <1>3, <1>4, <1>5, <1>6 DEF Handlers

\* The handler chooses another library of the caller's than the gate did only if
\* the caller has left the gate's, or was not staff of the other when they asked.
LEMMA OtherLibrary ==
  ASSUME AccessInv, NEW u \in Users, request[u] # None, request[u].token = None,
         request[u].lib \in StaffLibraries(u)
  PROVE  LET lib == HandlersLibrary(u, request[u])
         IN  lib = request[u].lib \/ lib \in StaffLibraries(u) \ request[u].staffed
<1> DEFINE q == request[u]
           lib == HandlersLibrary(u, q)
<1>1. q \in StaffRequests /\ q.selected \in Libraries \cup {None} /\ q.staffed \in SUBSET Libraries
  BY DEF AccessInv, AccessTypeOK, StaffRequests
<1>2. /\ StaffLibraries(u) \in SUBSET Libraries /\ StaffLibraries(u) # {}
      /\ StaffLibrary(u, q.selected) \in StaffLibraries(u)
  BY <1>1, SessionTypes DEF AccessInv
<1>3. None \notin Libraries /\ Libraries \in SUBSET Nat
  BY AccessAssumption
<1>4. lib = StaffLibrary(u, q.selected) /\ lib \in StaffLibraries(u)
  BY <1>2, <1>3 DEF HandlersLibrary
<1>5. q.staffed # {} => q.lib = IF q.selected \in q.staffed THEN q.selected ELSE First(q.staffed)
  BY DEF AccessInv, RequestsAsAsked, AsAsked
<1> SUFFICES ASSUME lib \in q.staffed PROVE lib = q.lib
  BY <1>4
<1>6. CASE q.selected \in StaffLibraries(u)
  BY <1>4, <1>5, <1>6 DEF StaffLibrary
<1>7. CASE q.selected \notin StaffLibraries(u)
  <2>1. lib = First(StaffLibraries(u)) /\ lib <= q.lib
    BY <1>2, <1>4, <1>7, FirstIsLeast DEF StaffLibrary
  <2>2. q.lib = First(q.staffed) /\ q.lib <= lib
    BY <1>1, <1>5, <1>7, FirstIsLeast
  <2>3. lib \in Nat /\ q.lib \in Nat
    BY <1>2, <1>3, <1>4
  <2> QED BY <2>1, <2>2, <2>3
<1> QED BY <1>6, <1>7

LEMMA ServedLibrary == AccessInv => CheckedIsServed
<1> SUFFICES ASSUME AccessInv, NEW u \in Users, request[u] # None, request[u].as # None
             PROVE  LET q   == request[u]
                        lib == HandlersLibrary(u, q)
                    IN  /\ \/ lib \in {q.lib, None}
                           \/ /\ q.token = None
                              /\ q.lib \notin StaffLibraries(u) \/ lib \in StaffLibraries(u) \ q.staffed
                        /\ \A h \in Permitted(q.token, q.as) :
                             /\ q.as = "support" => h.calls = "read"
                             /\ h.permission \in {"billing", "webhooks"} => q.as = "admin"
  BY DEF CheckedIsServed
<1> DEFINE q == request[u]
<1>1. q \in StaffRequests /\ q.as \in StaffRoles
  BY DEF AccessInv, AccessTypeOK, StaffRequests
<1>2. q.token # None => HandlersLibrary(u, q) = q.lib
  BY DEF HandlersLibrary, AccessInv, RequestsAsAsked, AsAsked
<1>3. ASSUME NEW h \in Permitted(q.token, q.as)
      PROVE  /\ q.as = "support" => h.calls = "read"
             /\ h.permission \in {"billing", "webhooks"} => q.as = "admin"
  <2>1. /\ h \in Handlers /\ h.gate = "staff"
        /\ RolePermissions[q.as] \cap {"*", h.permission} # {}
    BY <1>3 DEF Permitted
  <2>2. q.as = "support" => h.permission \in {"reports", "support"}
    BY <2>1 DEF RolePermissions
  <2>3. h.permission \in {"billing", "webhooks"} => q.as = "admin"
    BY <1>1, <2>1 DEF RolePermissions, StaffRoles
  <2> QED BY <2>1, <2>2, <2>3, ReportersRead
<1>4. q.token = None /\ q.lib \in StaffLibraries(u) =>
        HandlersLibrary(u, q) = q.lib \/ HandlersLibrary(u, q) \in StaffLibraries(u) \ q.staffed
  BY OtherLibrary
<1> QED BY <1>2, <1>3, <1>4

----------------------------------------------------------------------------
(* Access: the second factor.                                              *)

LEMMA CodeSuffices ==
  ASSUME AccessTypeOK, NEW u \in Users, VerifyLogin(u), SessionLibrary(u) \in demanding
  PROVE  ~Challenged(u)'
<1>1. PICK lib \in demanding : lib = SessionLibrary(u)
  OBVIOUS
<1>2. lib \in Libraries /\ lib # None /\ selected[u] \in Libraries \cup {None}
  BY <1>1, AccessAssumption DEF AccessTypeOK
<1>3. UNCHANGED <<role, openLibs, demanding, selected>> /\ stamp'[u] = lib
  <2>1. stamp' = [stamp EXCEPT ![u] = lib]
    BY <1>1, <1>2 DEF VerifyLogin, MarkVerified, OrElse
  <2> QED BY <2>1 DEF VerifyLogin, AccessTypeOK
<1>4. ChallengeLibrary(u)' = ChallengeLibrary(u)
  BY <1>3 DEF ChallengeLibrary, SessionLibrary, CheckedLibrary, OrElse, StaffLibrary,
              CurrentLibrary, UserLibrary, StaffLibraries, DemandingLibraries, IsStaff, First
<1>5. ChallengeLibrary(u) \in {lib, None}
  <2>1. CASE IsStaff(u, lib)
    BY <1>1, <1>2, <2>1 DEF ChallengeLibrary
  <2>2. CASE ~IsStaff(u, lib)
    <3> DEFINE own == StaffLibrary(u, selected[u])
    <3>1. own = None
      <4>1. SUFFICES ASSUME own # None PROVE FALSE
        OBVIOUS
      <4>2. lib = own /\ lib \in StaffLibraries(u)
        BY <1>1, <1>2, <4>1, SessionTypes DEF SessionLibrary, CheckedLibrary, OrElse
      <4> QED BY <1>2, <2>2, <4>2 DEF StaffLibraries, IsStaff
    <3>2. DemandingLibraries(u) = {}
      BY <1>2, <3>1, SessionTypes DEF DemandingLibraries
    <3>3. ChallengeLibrary(u) = First(DemandingLibraries(u))
      BY <1>1, <2>2 DEF ChallengeLibrary
    <3> QED BY <3>2, <3>3 DEF First
  <2> QED BY <2>1, <2>2
<1> QED BY <1>3, <1>4, <1>5 DEF Challenged

----------------------------------------------------------------------------
\* Roles, libraries, sessions, verifications, devices, tokens and requests have
\* their types, whatever administrators edit meanwhile.
THEOREM AccessTyped == AccessSpec => []AccessTypeOK
<1>1. AccessTypeOK /\ [AccessNext]_accessVars => AccessTypeOK'
  BY AccessStep
<1> QED BY AccessFirst, <1>1, PTL DEF AccessSpec

\* Whatever a user selected, joined and left between the queries of the gate
\* (permissions.py) and that of the handler (api.py): a request with a token is
\* served at the library that the gate looked at, and one without at another
\* only if its caller has left the first or has joined the other since.  Support
\* staff only read, and billing and webhooks are for administrators.
THEOREM GateAndHandlerAgree == AccessSpec => []CheckedIsServed
<1>1. AccessInit => AccessInv
  BY AccessFirst DEF AccessInv, AccessInit, RequestsAsAsked
<1>2. AccessInv /\ [AccessNext]_accessVars => AccessInv'
  BY AccessStep, RequestsStep DEF AccessInv
<1> QED BY <1>1, <1>2, ServedLibrary, PTL DEF AccessSpec

\* After the right code the middleware challenges nobody again for the library
\* they work for.
THEOREM CodeIsEnough == AccessSpec => CodeAdmits
<1>1. AccessTypeOK /\ [AccessNext]_accessVars =>
        [\A u \in Users :
           VerifyLogin(u) /\ SessionLibrary(u) \in demanding => ~Challenged(u)']_accessVars
  BY CodeSuffices
<1> QED BY AccessTyped, <1>1, PTL DEF AccessSpec, CodeAdmits

----------------------------------------------------------------------------
(* All that readers and staff do.                                          *)

KnownComponent ==
  component \in {"digital", "acquisitions", "events", "rooms", "imports", "ill", "access", "calls"}

\* What is proved of each component is proved of the instance that is searched.
THEOREM FrontDeskIsAll ==
  FrontDesk => /\ DigitalSpec /\ AcquisitionsSpec /\ GatheringsSpec
               /\ ImportsSpec /\ InterlibrarySpec /\ AccessSpec
<1>1. Init => /\ DigitalInit /\ AcquisitionsInit /\ GatheringsInit
              /\ ImportsInit /\ InterlibraryInit /\ AccessInit
  BY DEF Init
<1>2. [Next]_vars => /\ [DigitalNext]_digitalVars /\ [AcquisitionsNext]_orderVars
                     /\ [GatheringsNext]_gatheringVars /\ [ImportsNext]_importVars
                     /\ [InterlibraryNext]_interlibraryVars /\ [AccessNext]_accessVars
  BY DEF Next, vars
<1> QED BY <1>1, <1>2, PTL
        DEF FrontDesk, DigitalSpec, AcquisitionsSpec, GatheringsSpec, ImportsSpec,
            InterlibrarySpec, AccessSpec

\* Every field of the six components has its type, whichever of them runs.
THEOREM FrontDeskTypeCorrect == FrontDesk => []FrontDeskTypeOK
<1>1. GatheringsInv => GatheringsTypeOK
  BY DEF GatheringsInv
<1>2. ImportsInv => ImportsTypeOK
  BY DEF ImportsInv
<1>3. InterlibraryInv => InterlibraryTypeOK
  BY DEF InterlibraryInv
<1>4. Init => KnownComponent
  BY DEF Init, KnownComponent
<1>5. KnownComponent /\ [Next]_vars => KnownComponent'
  BY DEF KnownComponent, Next, vars
<1>6. /\ DigitalTypeOK /\ AcquisitionsTypeOK /\ GatheringsTypeOK
      /\ ImportsTypeOK /\ InterlibraryTypeOK /\ AccessTypeOK /\ KnownComponent
      => FrontDeskTypeOK
  BY DEF FrontDeskTypeOK, KnownComponent
<1> QED BY <1>1, <1>2, <1>3, <1>4, <1>5, <1>6, FrontDeskIsAll, TypeCorrect, FundTyped,
           GatheringsHold, ImportsHold, InterlibraryHolds, AccessTyped, PTL DEF FrontDesk
=============================================================================
