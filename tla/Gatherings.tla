----------------------------- MODULE Gatherings -----------------------------
(***************************************************************************)
(* One event with its waitlist, and the reservations of rooms              *)
(* (library/events.py), with what the erasure of a patron does to both     *)
(* (library/privacy.py).                                                   *)
(*                                                                         *)
(* A registration locks the event, so registrations come one after the     *)
(* other.  A cancellation locks only its own row: it counts the seats and  *)
(* sees the waitlist as they were committed when it looked, and then takes *)
(* the first of those it saw that is still waiting.  It is two steps.  So  *)
(* is an erasure, which cancels what the patron has registered for and     *)
(* deletes the patron in the end, with all rows that name it by then.  The *)
(* cancellation of a room's reservation looks at an object that the caller *)
(* read before, and saves it: two steps too.                               *)
(***************************************************************************)
EXTENDS Library, FiniteSetsExt

CONSTANTS
  Registrations,    \* bound: EventRegistration rows ever created, 1 .. n
  Capacity,         \* of the event; 0: no limit
  Rooms, Hours,     \* a reservation covers an interval of hours
  Reservations      \* bound: RoomReservation rows ever created

Rows == 1 .. Registrations

ASSUME GatheringsAssumption ==
  /\ Registrations \in Nat /\ Capacity \in Nat /\ Hours \in Nat

VARIABLES
  place,        \* EventRegistration.status
  guest,        \* and its patron
  seen,         \* the waitlist that a cancellation has seen; None: none under way
  erasing,      \* patrons that are being erased
  doomed,       \* the registrations that their erasures cancel
  met,          \* a registration crossed a cancellation, or its patron's erasure
  booking,      \* RoomReservation
  vacating      \* a cancellation of a reservation is under way

registrationVars == <<place, guest, seen, erasing, doomed, met>>
roomVars == <<booking, vacating>>
gatheringVars == <<registrationVars, roomVars>>

RegistrationStatus == {"registered", "waitlisted", "cancelled"}
Active == {"registered", "waitlisted"}

NoBooking == [room |-> None, from |-> 0, to |-> 0, patron |-> None]

----------------------------------------------------------------------------
(* The event.                                                              *)

\* _registered_count
Seated == {r \in Rows : place[r] = "registered"}
Waiting == {r \in Rows : place[r] = "waitlisted"}

\* Mutation: one seat too many.
FullLate(S) == Capacity # 0 /\ Cardinality(S) > Capacity

Full(S) == Capacity # 0 /\ Cardinality(S) >= Capacity

\* register_for_event
Register(r, p) ==
  /\ place[r] = "absent" /\ \A q \in Rows : q < r => place[q] # "absent"
  /\ \A q \in Rows : guest[q] = p => place[q] \notin Active
  /\ place' = [place EXCEPT ![r] = IF Full(Seated) THEN "waitlisted" ELSE "registered"]
  /\ guest' = [guest EXCEPT ![r] = p]
  /\ met' = (met \/ p \in erasing \/ \E q \in Rows : seen[q] # None)
  /\ UNCHANGED <<seen, erasing, doomed, roomVars>>

\* Mutation: the latest first.
LastInLine(S) == Max(S)

\* order_by("created_at", "id"): rows are numbered as they are created.
NextInLine(S) == Min(S)

\* _promote_waitlist: those it may promote.
Promotable(r) ==
  IF place[r] = "waitlisted" \/ Full(Seated \ {r}) THEN {} ELSE Waiting

\* cancel_registration locks the row and looks round ...
BeginCancelPlace(r) ==
  /\ place[r] \in Active /\ seen[r] = None
  /\ seen' = [seen EXCEPT ![r] = Promotable(r)]
  /\ UNCHANGED <<place, guest, erasing, doomed, met, roomVars>>

\* Of those that the cancellation of r has seen, who waits still.
Still(r) == {q \in seen[r] : place[q] = "waitlisted"}

\* Whom it promotes: the first.
Promoted(r) == IF Still(r) = {} THEN {} ELSE {NextInLine(Still(r))}

\* ... and ends.  It does not pass one whose own cancellation is under way, but
\* waits for it.
EndCancel(r) ==
  /\ seen[r] # None
  /\ \A q \in Promoted(r) : seen[q] = None
  /\ place' = [q \in Rows |-> IF q = r THEN "cancelled"
                              ELSE IF q \in Promoted(r) THEN "registered" ELSE place[q]]
  /\ seen' = [seen EXCEPT ![r] = None]

CancelPlace(r) ==
  /\ r \notin doomed
  /\ EndCancel(r)
  /\ UNCHANGED <<guest, erasing, doomed, met, roomVars>>

----------------------------------------------------------------------------
(* Rooms.                                                                  *)

\* Mutation: only a reservation that begins within another is a conflict.
BeginsWithin(b, room, from, to) ==
  b.room = room /\ b.from <= from /\ from < b.to

\* _has_conflict, with a reservation that is booked.
Conflict(b, room, from, to) ==
  b.room = room /\ b.from < to /\ b.to > from

\* reserve_room, with the room's lock.
Reserve(v, p, room, from, to) ==
  /\ booking[v] = NoBooking
  /\ from < to
  /\ \A w \in Reservations : ~Conflict(booking[w], room, from, to)
  /\ booking' = [booking EXCEPT ![v] = [room |-> room, from |-> from, to |-> to,
                                        patron |-> p]]
  /\ UNCHANGED <<vacating, registrationVars>>

\* cancel_reservation: of a reservation that was booked when the caller read it.
BeginLeave(v) ==
  /\ booking[v] # NoBooking
  /\ vacating' = [vacating EXCEPT ![v] = TRUE]
  /\ UNCHANGED <<booking, registrationVars>>

LeaveRoom(v) ==
  /\ vacating[v]
  /\ vacating' = [vacating EXCEPT ![v] = FALSE]
  /\ booking' = [booking EXCEPT ![v] = NoBooking]
  /\ UNCHANGED registrationVars

----------------------------------------------------------------------------
(* Erasure.                                                                *)

\* What the patron p is registered for: one row at most.
RowsOf(p) == {r \in Rows : guest[r] = p /\ place[r] \in Active}

\* erase_patron runs cancel_registration for what the patron has ...
BeginErase(p) ==
  /\ p \notin erasing
  /\ \A r \in RowsOf(p) : seen[r] = None
  /\ erasing' = erasing \cup {p}
  /\ doomed' = doomed \cup RowsOf(p)
  /\ seen' = [r \in Rows |-> IF r \in RowsOf(p) THEN Promotable(r) ELSE seen[r]]
  /\ UNCHANGED <<place, guest, met, roomVars>>

\* ... and deletes the patron, with every row that names it by now.  One that it
\* has not cancelled, since it came later, goes without a look at the waitlist.
EraseGuest(p) ==
  LET own == RowsOf(p)
  IN  /\ p \in erasing
      /\ \/ \E r \in own \cap doomed : EndCancel(r)
         \/ /\ own \cap doomed = {}
            /\ \A r \in own : seen[r] = None
            /\ place' = [r \in Rows |-> IF r \in own THEN "cancelled" ELSE place[r]]
            /\ UNCHANGED seen
      /\ guest' = [r \in Rows |-> IF guest[r] = p THEN None ELSE guest[r]]
      /\ booking' = [v \in Reservations |-> IF booking[v].patron = p THEN NoBooking
                                            ELSE booking[v]]
      /\ erasing' = erasing \ {p}
      /\ doomed' = doomed \ own
      /\ UNCHANGED <<met, vacating>>

GatheringsInit ==
  /\ place = [r \in Rows |-> "absent"] /\ guest = [r \in Rows |-> None]
  /\ seen = [r \in Rows |-> None] /\ met = FALSE
  /\ erasing = {} /\ doomed = {}
  /\ booking = [v \in Reservations |-> NoBooking]
  /\ vacating = [v \in Reservations |-> FALSE]

GatheringsNext ==
  \/ \E r \in Rows : \/ \E p \in Patrons : Register(r, p)
                     \/ BeginCancelPlace(r) \/ CancelPlace(r)
  \/ \E v \in Reservations :
        \/ \E p \in Patrons, room \in Rooms, from, to \in 0 .. Hours :
              Reserve(v, p, room, from, to)
        \/ BeginLeave(v) \/ LeaveRoom(v)
  \/ \E p \in Patrons : BeginErase(p) \/ EraseGuest(p)

GatheringsSpec == GatheringsInit /\ [][GatheringsNext]_gatheringVars

----------------------------------------------------------------------------
(* Properties.                                                             *)

GatheringsTypeOK ==
  /\ place \in [Rows -> RegistrationStatus \cup {"absent"}]
  /\ guest \in [Rows -> Patrons \cup {None}]
  /\ \A r \in Rows : place[r] = "absent" => guest[r] = None
  /\ seen \in [Rows -> (SUBSET Rows) \cup {None}]
  /\ erasing \subseteq Patrons /\ doomed \subseteq Rows
  /\ met \in BOOLEAN
  /\ booking \in [Reservations -> {NoBooking} \cup
                    [room : Rooms, from : 0 .. Hours, to : 0 .. Hours, patron : Patrons]]
  /\ vacating \in [Reservations -> BOOLEAN]

\* However registrations, cancellations, promotions and erasures cross: no more
\* seats are taken than the event has; nobody is registered twice; and no seat
\* is free beside a waitlist, unless a registration crossed a cancellation, also
\* that of an erasure, which then does not see who came to wait, or crossed the
\* erasure of its own patron, which then deletes a seat that it has not cancelled.
Seats ==
  /\ Capacity # 0 => Cardinality(Seated) <= Capacity
  /\ \A q, r \in Rows :
        guest[q] # None /\ guest[q] = guest[r] /\ place[q] \in Active /\ place[r] \in Active
          => q = r
  /\ ~met /\ Waiting # {} => Full(Seated)

\* The waitlist is served in order: whoever gets a seat while somebody who came
\* before still waits has just registered, and found a seat that was left free
\* because a registration had crossed a cancellation or an erasure.  Neither of
\* these passes anybody, however long ago it saw the waitlist.
WaitlistOrder ==
  [][\A q, r \in Rows :
       q < r /\ place[q] = "waitlisted" /\ place'[q] = "waitlisted"
             /\ place[r] # "registered" /\ place'[r] = "registered"
         => place[r] = "absent" /\ met]_gatheringVars

\* No room is booked twice for one hour.
NoDoubleBooking ==
  \A v, w \in Reservations, h \in 0 .. Hours :
    LET covers(b) == b.room # None /\ b.from <= h /\ h < b.to
    IN  v # w /\ covers(booking[v]) /\ covers(booking[w])
          => booking[v].room # booking[w].room
=============================================================================
