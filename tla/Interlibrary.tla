----------------------------- MODULE Interlibrary -----------------------------
(***************************************************************************)
(* Inter-library loans (library/consortia.py and the API in front of it):  *)
(* a patron of one member library asks for a title, the copy of another    *)
(* member is reserved, shipped, lent, sent back and checked in.            *)
(*                                                                         *)
(* A service call is one transaction that locks the request and the copy;  *)
(* erasing a patron (library/privacy.py) looks at the open requests first  *)
(* and deletes later, without a lock on the patron.                        *)
(***************************************************************************)
EXTENDS Library

CONSTANTS
  Members, HomeOf,           \* libraries of the consortium; a patron's own
  Lending, Borrowing,        \* ConsortiumMembership.lends, .borrows
  Titles, Holdings,          \* works, and the copies the members hold of them
  TitleOf, OwnerOf,
  Keeping,                   \* patrons who keep their loan history
  Requests                   \* bound: how many requests are ever made

ASSUME InterlibraryAssumption ==
  /\ Requests \in Nat
  /\ HomeOf \in [Patrons -> Members] /\ OwnerOf \in [Holdings -> Members]
  /\ TitleOf \in [Holdings -> Titles]
  /\ Lending \subseteq Members /\ Borrowing \subseteq Members
  /\ Keeping \subseteq Patrons
  /\ None \notin Holdings /\ None \notin Members

RequestIds == 1 .. Requests

VARIABLES
  illStatus, illPatron, illTitle, illHome, illCopy,   \* IllRequest
  shelf,         \* Copy.status, as far as inter-library loans see it
  leaving        \* PatronProfile: None, an erasure has made its checks, deleted

illVars == <<illStatus, illPatron, illTitle, illHome, illCopy>>
interlibraryVars == <<illVars, shelf, leaving>>

IllStatus == {"unfilled", "requested", "shipped", "on_loan", "returning",
              "completed", "cancelled"}
OPEN == {"unfilled", "requested", "shipped", "on_loan", "returning"}

\* "local": lent, held, in repair or hidden by its own library.
Shelf == {"available", "ill", "local", "retired"}

----------------------------------------------------------------------------
\* What a patron has under way for a title.
OpenRequests(p, w) ==
  {r \in RequestIds : illStatus[r] \in OPEN /\ illPatron[r] = p /\ illTitle[r] = w}

\* Mutation: the status of the copy is not looked at.
LendableEver(w, home) ==
  {c \in Holdings : TitleOf[c] = w /\ OwnerOf[c] \in Lending \ {home} /\ shelf[c] # "retired"}

\* _reserve_lender_copy: copies that other members may lend.
Lendable(w, home) ==
  {c \in Holdings : TitleOf[c] = w /\ OwnerOf[c] \in Lending \ {home} /\ shelf[c] = "available"}

\* request_ill.  A copy that another transaction has locked is skipped, so any
\* of them may be taken, or none although some could be lent.
RequestIll(r, p, w) ==
  LET home == HomeOf[p]
  IN  /\ illStatus[r] = "absent" /\ \A q \in RequestIds : q < r => illStatus[q] # "absent"
      /\ leaving[p] # "gone"
      /\ home \in Borrowing
      /\ OpenRequests(p, w) = {}
      /\ ~\E c \in Holdings : OwnerOf[c] = home /\ TitleOf[c] = w /\ shelf[c] = "available"
      /\ illPatron' = [illPatron EXCEPT ![r] = p]
      /\ illTitle' = [illTitle EXCEPT ![r] = w]
      /\ illHome' = [illHome EXCEPT ![r] = home]
      /\ \/ /\ illStatus' = [illStatus EXCEPT ![r] = "unfilled"]
            /\ UNCHANGED <<illCopy, shelf>>
         \/ \E c \in Lendable(w, home) :
              /\ illStatus' = [illStatus EXCEPT ![r] = "requested"]
              /\ illCopy' = [illCopy EXCEPT ![r] = c]
              /\ shelf' = [shelf EXCEPT ![c] = "ill"]
      /\ UNCHANGED leaving

\* The library that acts on r: the lender ships and checks in, the requester
\* receives and returns, either cancels.
Lender(r) == IF illCopy[r] = None THEN None ELSE OwnerOf[illCopy[r]]

Advance(r, from, to) ==
  /\ illStatus[r] = from
  /\ illStatus' = [illStatus EXCEPT ![r] = to]

\* ship_ill, receive_ill and return_ill.
ShipIll(r, org) == org = Lender(r) /\ Advance(r, "requested", "shipped")
ReceiveIll(r, org) == org = illHome[r] /\ Advance(r, "shipped", "on_loan")
ReturnIll(r, org) == org = illHome[r] /\ Advance(r, "on_loan", "returning")

\* _scrub_patron.
ScrubPatron(r) == illPatron' = [illPatron EXCEPT ![r] = IF @ \in Keeping THEN @ ELSE None]

\* The copy goes back to the shelf, unless it was given another status.
FreeCopy(r) ==
  shelf' = [c \in Holdings |->
              IF c = illCopy[r] /\ shelf[c] = "ill" THEN "available" ELSE shelf[c]]

\* checkin_ill.
CheckinIll(r, org) ==
  /\ org = Lender(r) /\ Advance(r, "returning", "completed")
  /\ FreeCopy(r) /\ ScrubPatron(r)

\* Statuses from which cancel_ill starts.
MayCancel == {"unfilled", "requested", "shipped"}

\* cancel_ill: also of a copy that is in the mail.
CancelIll(r, org) ==
  /\ org \in {Lender(r), illHome[r]}
  /\ illStatus[r] \in MayCancel
  /\ illStatus' = [illStatus EXCEPT ![r] = "cancelled"]
  /\ FreeCopy(r) /\ ScrubPatron(r)

\* IllActionAPI: staff of a library that is party to the request.
IllAction(r, org) ==
  /\ \/ (ShipIll(r, org) \/ ReceiveIll(r, org) \/ ReturnIll(r, org)) /\ UNCHANGED <<illPatron, shelf>>
     \/ CheckinIll(r, org)
     \/ CancelIll(r, org)
  /\ UNCHANGED <<illTitle, illHome, illCopy, leaving>>

----------------------------------------------------------------------------
\* The copy's own library lends it, holds it, mends it or shelves it again.
LocalUse(c) ==
  /\ shelf[c] \in {"available", "local"}
  /\ shelf' = [shelf EXCEPT ![c] = IF @ = "local" THEN "available" ELSE "local"]
  /\ UNCHANGED <<illVars, leaving>>

\* retire_copy, which does not mind an inter-library loan.
RetireCopy(c) ==
  /\ shelf[c] # "retired"
  /\ shelf' = [shelf EXCEPT ![c] = "retired"]
  /\ UNCHANGED <<illVars, leaving>>

\* erase_patron: it makes sure that no request is open, ...
CheckErasure(p) ==
  /\ leaving[p] = None
  /\ \A w \in Titles : OpenRequests(p, w) = {}
  /\ leaving' = [leaving EXCEPT ![p] = "checked"]
  /\ UNCHANGED <<illVars, shelf>>

\* ... and takes the patron off all of them.
FinishErasure(p) ==
  /\ leaving[p] = "checked"
  /\ leaving' = [leaving EXCEPT ![p] = "gone"]
  /\ illPatron' = [r \in RequestIds |-> IF illPatron[r] = p THEN None ELSE illPatron[r]]
  /\ UNCHANGED <<illStatus, illTitle, illHome, illCopy, shelf>>

InterlibraryInit ==
  /\ illStatus = [r \in RequestIds |-> "absent"]
  /\ illPatron = [r \in RequestIds |-> None]
  /\ illTitle = [r \in RequestIds |-> None]
  /\ illHome = [r \in RequestIds |-> None]
  /\ illCopy = [r \in RequestIds |-> None]
  /\ shelf = [c \in Holdings |-> "available"]
  /\ leaving = [p \in Patrons |-> None]

InterlibraryNext ==
  \/ \E r \in RequestIds : \/ \E p \in Patrons, w \in Titles : RequestIll(r, p, w)
                           \/ \E org \in Members : IllAction(r, org)
  \/ \E c \in Holdings : LocalUse(c) \/ RetireCopy(c)
  \/ \E p \in Patrons : CheckErasure(p) \/ FinishErasure(p)

InterlibrarySpec == InterlibraryInit /\ [][InterlibraryNext]_interlibraryVars

----------------------------------------------------------------------------
(* Properties.                                                             *)

InterlibraryTypeOK ==
  /\ illStatus \in [RequestIds -> IllStatus \cup {"absent"}]
  /\ illPatron \in [RequestIds -> Patrons \cup {None}]
  /\ illTitle \in [RequestIds -> Titles \cup {None}]
  /\ illHome \in [RequestIds -> Members \cup {None}]
  /\ illCopy \in [RequestIds -> Holdings \cup {None}]
  /\ shelf \in [Holdings -> Shelf]
  /\ leaving \in [Patrons -> {None, "checked", "gone"}]

Out(r) == illStatus[r] \in OPEN /\ illCopy[r] # None

\* A copy that was promised, mailed or lent to another library is kept out of
\* local circulation until it is checked in, is promised to one request only,
\* and no copy stays away when its request is over.
LentOnce ==
  /\ \A r \in RequestIds : Out(r) => shelf[illCopy[r]] \in {"ill", "retired"}
  /\ \A q, r \in RequestIds : Out(q) /\ Out(r) /\ illCopy[q] = illCopy[r] => q = r
  /\ \A c \in Holdings : shelf[c] = "ill" => \E r \in RequestIds : Out(r) /\ illCopy[r] = c
=============================================================================
