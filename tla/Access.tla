-------------------------------- MODULE Access --------------------------------
(***************************************************************************)
(* Who may do what over the API (library/permissions.py, tenancy.py,       *)
(* auth.py, middleware.py, mfa.py and the handlers of api.py): the library *)
(* a staff request is for, the permissions of the caller's roles there,    *)
(* the scopes of an API token, and the second factor that a library may    *)
(* ask of its staff.                                                       *)
(*                                                                         *)
(* A handler is the gate it stands behind and the service it calls; what   *)
(* the services do is the business of the other modules.  The gate works   *)
(* out the library of a staff request, then looks up the permission there, *)
(* and the handler works out the library again: three queries, and three   *)
(* steps, between which roles and libraries change.                        *)
(*                                                                         *)
(* A user has one session and one request at a time.  Time is left out: a  *)
(* verification may grow old at any moment.                                *)
(* Superusers and explicit grants beside the roles are left out, and so    *)
(* are the codes: a user either knows the current one or does not.         *)
(***************************************************************************)
EXTENDS Library, FiniteSetsExt

CONSTANTS
  Users,
  PatronHome,                   \* the library a user is a patron of, or None
  Libraries,                    \* numbers, in the order of their names
  ApiTokens, TokenUser, TokenLibrary, TokenScopes

ASSUME AccessAssumption ==
  /\ Libraries \subseteq Nat /\ IsFiniteSet(Libraries) /\ None \notin Libraries
  /\ PatronHome \in [Users -> Libraries \cup {None}]
  /\ TokenUser \in [ApiTokens -> Users] /\ TokenLibrary \in [ApiTokens -> Libraries]
  /\ None \notin ApiTokens

VARIABLES
  role,        \* StaffMembership: the active role of a user at a library, or None
  openLibs,    \* Organization.active
  demanding,   \* Organization.require_staff_mfa
  selected,    \* the session's organization_slug, or None
  stamp,       \* the session's fresh mfa_verified: its library, or None
  device,      \* StaffTotpDevice: none, pending (not yet confirmed), confirmed
  revoked,     \* tokens with a revoked_at
  request      \* the staff request that a user has under way, or None

sessionVars == <<selected, stamp, device>>
accessVars == <<role, openLibs, demanding, sessionVars, revoked, request>>

----------------------------------------------------------------------------
(* The handlers.                                                           *)

Patron(name, scope, calls) ==
  [name |-> name, gate |-> "patron", scope |-> scope, permission |-> "", calls |-> calls]
Staff(name, scope, permission, calls) ==
  [name |-> name, gate |-> "staff", scope |-> scope, permission |-> permission, calls |-> calls]

ReadingRoom ==
  {Patron("Account", "patron:read", "read"),
   Patron("Borrow", "circulation:write", "borrow_work"),
   Patron("PlaceHold", "circulation:write", "place_hold"),
   Patron("RenewLoan", "circulation:write", "renew_loan"),
   Patron("ReturnLoan", "circulation:write", "return_loan"),
   Patron("CancelHold", "circulation:write", "cancel_hold")}

CirculationDesk ==
  {Staff("StaffCheckout", "staff:write", "circulation", "borrow_work"),
   Staff("StaffCheckin", "staff:write", "circulation", "staff_checkin"),
   Staff("CopyRetire", "staff:write", "copies", "retire_copy"),
   Staff("CopyMove", "staff:write", "copies", "move_copy")}

ImportDesk ==
  {Staff("LibrarianDashboard", "staff:read", "reports", "read"),
   Staff("LibrarianImports", "staff:write", "imports", "stage_import"),
   Staff("LibrarianImportCommit", "staff:write", "imports", "commit_import"),
   Staff("LibrarianImportRollback", "staff:write", "imports", "rollback_import"),
   Staff("LibrarianExport", "staff:read", "reports", "read")}

CataloguingDesk ==
  {Staff("LibrarianMarcImport", "staff:write", "imports", "import_marc"),
   Staff("MarcExport", "staff:read", "reports", "read"),
   Staff("EditionEnrich", "staff:write", "catalog", "enrich_edition"),
   Staff("LibrarianReports", "staff:read", "reports", "read"),
   Staff("CirculationPolicies", "staff:read", "reports", "read")}

FeeDesk ==
  {Patron("AccountFees", "patron:read", "read"),
   Patron("PayFees", "circulation:write", "charge_online_amount"),
   Staff("WaiveFee", "staff:write", "circulation", "waive_fee")}

BillingOffice ==
  {Staff("Billing", "staff:read", "billing", "read"),
   Staff("ChangePlan", "staff:write", "billing", "change_plan"),
   Staff("CancelSubscription", "staff:write", "billing", "cancel_subscription"),
   Staff("Checkout", "staff:write", "billing", "create_checkout_session"),
   Staff("CheckoutComplete", "staff:write", "billing", "complete_checkout"),
   Staff("PaymentMethod", "staff:write", "billing", "add_payment_method")}

DigitalDesk ==
  {Patron("BorrowDigital", "circulation:write", "borrow_digital"),
   Patron("ReturnDigital", "circulation:write", "return_digital"),
   Patron("PlaceDigitalHold", "circulation:write", "place_digital_hold"),
   Patron("CancelDigitalHold", "circulation:write", "cancel_digital_hold"),
   Patron("AccessDigital", "patron:read", "access_digital_loan"),
   Patron("DigitalReader", "patron:read", "access_digital_loan"),
   Patron("DigitalProgress", "circulation:write", "save_progress"),
   Patron("DigitalAccount", "patron:read", "read")}

AcquisitionsOffice ==
  {Staff("AcquisitionOrders", "staff:write", "acquisitions", "create_purchase_order"),
   Staff("AcquisitionLines", "staff:write", "acquisitions", "add_line"),
   Staff("AcquisitionPlace", "staff:write", "acquisitions", "place_order"),
   Staff("AcquisitionReceive", "staff:write", "acquisitions", "receive_line")}

ReaderServices ==
  {Patron("WorkReviews", "circulation:write", "add_review"),
   Patron("ReadingLists", "patron:read", "create_list"),
   Patron("ReadingListItems", "circulation:write", "add_item"),
   Patron("AccountExport", "patron:read", "read"),
   Patron("AccountErase", "circulation:write", "erase_patron")}

SupportDesk ==
  {Staff("SupportPatronLookup", "staff:read", "support", "read"),
   Staff("WebhookEndpoints", "staff:write", "webhooks", "create_endpoint")}

SharedRooms ==
  {Patron("EventRegister", "circulation:write", "register_for_event"),
   Patron("RoomReserve", "circulation:write", "reserve_room")}

InterlibraryDesk ==
  {Patron("IllRequest", "circulation:write", "request_ill"),
   Staff("IllList", "staff:read", "circulation", "read"),
   Staff("IllAction", "staff:write", "circulation", "advance_ill")}

StackWork ==
  {Staff("BulkCopy", "staff:write", "copies", "bulk_update_copies"),
   Staff("WeedCopies", "staff:write", "copies", "weed_copies"),
   Staff("InventoryStart", "staff:write", "copies", "start_inventory"),
   Staff("InventoryScan", "staff:write", "copies", "scan_inventory"),
   Staff("InventoryClose", "staff:write", "copies", "close_inventory"),
   Staff("LoanException", "staff:write", "circulation", "mark_loan_lost")}

FinanceOffice ==
  {Staff("Refund", "staff:write", "billing", "refund_payment"),
   Staff("PaymentPlan", "staff:write", "billing", "create_payment_plan"),
   Staff("PaymentPlanPay", "staff:write", "billing", "record_plan_payment"),
   Staff("Amnesty", "staff:write", "billing", "run_amnesty"),
   Staff("GlExport", "staff:read", "billing", "read")}

ReportingDesk ==
  {Staff("Analytics", "staff:read", "reports", "read"),
   Staff("AuditLog", "staff:read", "reports", "read")}

Preferences ==
  {Patron("NotificationPrefs", "patron:read", "read"),
   Patron("NotificationPrefs", "patron:write", "set_preferences")}

AssistantDesk ==
  {Patron("Recommendations", "patron:read", "read"),
   Staff("CatalogAssist", "staff:read", "catalog", "read")}

Handlers ==
  ReadingRoom \cup CirculationDesk \cup ImportDesk \cup CataloguingDesk \cup FeeDesk
  \cup BillingOffice \cup DigitalDesk \cup AcquisitionsOffice \cup ReaderServices
  \cup SupportDesk \cup SharedRooms \cup InterlibraryDesk \cup StackWork
  \cup FinanceOffice \cup ReportingDesk \cup Preferences \cup AssistantDesk

----------------------------------------------------------------------------
(* Roles.                                                                  *)

StaffRoles == {"admin", "branch_manager", "librarian", "support"}

\* STAFF_ROLE_PERMISSIONS.
RolePermissions ==
  [admin |-> {"*"},
   branch_manager |-> {"circulation", "copies", "catalog", "imports", "reports", "acquisitions"},
   librarian |-> {"circulation", "copies", "catalog", "reports"},
   support |-> {"reports", "support"}]

\* user_is_staff_for_org.
IsStaff(u, lib) == lib # None /\ role[u][lib] # None

----------------------------------------------------------------------------
(* The library of a request.  A request without a token goes by the        *)
(* session, with the library sel selected; a token carries its library.    *)

First(S) == IF S = {} THEN None ELSE Min(S)

StaffLibraries(u) == {l \in openLibs : role[u][l] # None}

\* organization_for_user: the patron's library before a staff member's.
UserLibrary(u) ==
  IF PatronHome[u] \in openLibs THEN PatronHome[u] ELSE First(StaffLibraries(u))

\* staff_organization_for_user: the library selected, or the first of theirs.
StaffLibrary(u, sel) ==
  IF sel \in StaffLibraries(u) THEN sel ELSE First(StaffLibraries(u))

\* get_current_organization: the library selected, if the user belongs there;
\* None where a closed one is answered "not found".
CurrentLibrary(u, sel) ==
  CASE sel = None -> IF UserLibrary(u) # None THEN UserLibrary(u) ELSE First(openLibs)
    [] sel # None /\ sel \notin openLibs -> None
    [] OTHER -> IF PatronHome[u] = sel \/ role[u][sel] # None THEN sel
                ELSE IF UserLibrary(u) # None THEN UserLibrary(u) ELSE First(openLibs)

OrElse(x, y) == IF x # None THEN x ELSE y

\* resolve_staff_request_organization: the library the gate looks at.
CheckedLibrary(u, t, sel) ==
  IF t # None THEN TokenLibrary[t] ELSE OrElse(StaffLibrary(u, sel), CurrentLibrary(u, sel))

\* The library of the user's session.
SessionLibrary(u) == CheckedLibrary(u, None, selected[u])

\* What get_current_organization answers to the request q: a request that has
\* asked before is given the same answer.
Current(u, q) == OrElse(q.current, CurrentLibrary(u, q.selected))

\* api_organization.  Mutation: staff handlers use it too.
PatronsLibrary(u, q) == IF q.token # None THEN TokenLibrary[q.token] ELSE Current(u, q)

\* staff_api_organization: the library a staff handler works on, or None.
HandlersLibrary(u, q) ==
  IF q.token # None THEN TokenLibrary[q.token]
  ELSE IF StaffLibrary(u, q.selected) # None THEN StaffLibrary(u, q.selected)
  ELSE IF Current(u, q) # None /\ IsStaff(u, Current(u, q)) THEN Current(u, q) ELSE None

----------------------------------------------------------------------------
(* The gates.                                                              *)

\* staff_mfa_satisfied.
SecondFactor(u, t, lib) ==
  \/ lib = None \/ lib \notin demanding \/ ~IsStaff(u, lib)
  \/ IF t # None THEN TokenScopes[t] \cap {"*", "mfa:verified"} # {} ELSE stamp[u] = lib

\* TokenHasScope.
TokenAllows(t, scope) == t # None => TokenScopes[t] \cap {"*", scope} # {}

\* The staff handlers that a role admits, with a token or without.
Permitted(t, r) ==
  {h \in Handlers : /\ h.gate = "staff"
                    /\ TokenAllows(t, h.scope)
                    /\ RolePermissions[r] \cap {"*", h.permission} # {}}

\* A staff request: ScopedTokenAuthentication accepts its token, if it has one,
\* and the gate works out its library.
AskStaff(u, t) ==
  /\ request[u] = None
  /\ t # None => TokenUser[t] = u /\ t \notin revoked
  /\ request' = [request EXCEPT ![u] =
       [token |-> t, selected |-> selected[u],
        current |-> IF t # None \/ StaffLibrary(u, selected[u]) # None THEN None
                    ELSE CurrentLibrary(u, selected[u]),
        lib |-> CheckedLibrary(u, t, selected[u]),
        staffed |-> StaffLibraries(u),   \* seen by nobody; for the property
        as |-> None]]
  /\ UNCHANGED <<role, openLibs, demanding, sessionVars, revoked>>

\* HasStaffPermission looks up the role that the user has there by now.
Admit(u) ==
  LET q == request[u]
  IN  /\ q # None /\ q.as = None
      /\ IsStaff(u, q.lib) /\ SecondFactor(u, q.token, q.lib)
      /\ Permitted(q.token, role[u][q.lib]) # {}
      /\ request' = [request EXCEPT ![u].as = role[u][q.lib]]
      /\ UNCHANGED <<role, openLibs, demanding, sessionVars, revoked>>

\* The request is refused, or its handler has worked for HandlersLibrary.
Answered(u) ==
  /\ request[u] # None
  /\ request' = [request EXCEPT ![u] = None]
  /\ UNCHANGED <<role, openLibs, demanding, sessionVars, revoked>>

\* Libraries that may ask a second factor of u, for whom the request is not.
DemandingLibraries(u) == StaffLibraries(u) \cap demanding

\* StaffMfaMiddleware: the library whose second factor a session request for a
\* staff area needs, or None.
ChallengeLibrary(u) ==
  LET lib == SessionLibrary(u)
  IN  IF lib # None /\ lib \in demanding /\ IsStaff(u, lib) THEN lib
      ELSE First(DemandingLibraries(u))

Challenged(u) == ChallengeLibrary(u) # None /\ stamp[u] # ChallengeLibrary(u)

----------------------------------------------------------------------------
(* The second factor.                                                      *)

\* Mutation: the stamp is for the library the user would see as a patron.
MarkPatronsLibrary(u) ==
  stamp' = [stamp EXCEPT ![u] = OrElse(CurrentLibrary(u, selected[u]), StaffLibrary(u, selected[u]))]

\* mark_session_verified, for the library of the request.
MarkVerified(u) ==
  stamp' = [stamp EXCEPT ![u] = OrElse(SessionLibrary(u), CurrentLibrary(u, selected[u]))]

\* begin_enrollment: with a confirmed device only for who knows its code.
BeginEnrollment(u) ==
  /\ device' = [device EXCEPT ![u] = "pending"]
  /\ UNCHANGED <<role, openLibs, demanding, selected, stamp, revoked, request>>

\* confirm_enrollment, with the right code.
ConfirmEnrollment(u) ==
  /\ device[u] # "none"
  /\ device' = [device EXCEPT ![u] = "confirmed"]
  /\ MarkVerified(u)
  /\ UNCHANGED <<role, openLibs, demanding, selected, revoked, request>>

\* verify_login, with the right code.
VerifyLogin(u) ==
  /\ device[u] = "confirmed"
  /\ MarkVerified(u)
  /\ UNCHANGED <<role, openLibs, demanding, selected, device, revoked, request>>

\* disable_mfa.
DisableMfa(u) ==
  /\ device' = [device EXCEPT ![u] = "none"]
  /\ stamp' = [stamp EXCEPT ![u] = None]
  /\ UNCHANGED <<role, openLibs, demanding, selected, revoked, request>>

\* The verification is more than twelve hours old.
StampExpires(u) ==
  /\ stamp[u] # None
  /\ stamp' = [stamp EXCEPT ![u] = None]
  /\ UNCHANGED <<role, openLibs, demanding, selected, device, revoked, request>>

----------------------------------------------------------------------------
\* Signing in: a new session, for a library when it is by single sign-on.
SignIn(u, lib) ==
  /\ lib = None \/ lib \in openLibs
  /\ selected' = [selected EXCEPT ![u] = lib]
  /\ stamp' = [stamp EXCEPT ![u] = None]
  /\ UNCHANGED <<role, openLibs, demanding, device, revoked, request>>

\* A page asked for with ?org=: remembered if the user belongs there.
SelectLibrary(u, lib) ==
  /\ lib \in openLibs
  /\ PatronHome[u] = lib \/ role[u][lib] # None
  /\ selected' = [selected EXCEPT ![u] = lib]
  /\ UNCHANGED <<role, openLibs, demanding, stamp, device, revoked, request>>

\* A page that finds the user no longer belongs to the library selected.
ForgetLibrary(u) ==
  /\ selected[u] \in openLibs /\ PatronHome[u] # selected[u] /\ role[u][selected[u]] = None
  /\ selected' = [selected EXCEPT ![u] = None]
  /\ UNCHANGED <<role, openLibs, demanding, stamp, device, revoked, request>>

\* Administrators edit memberships, libraries and tokens as they like.
SetRole(u, lib, r) ==
  /\ role' = [role EXCEPT ![u][lib] = r]
  /\ UNCHANGED <<openLibs, demanding, selected, stamp, device, revoked, request>>

SetLibrary(lib) ==
  /\ \/ /\ openLibs' = (openLibs \ {lib}) \cup ({lib} \ openLibs)
        /\ UNCHANGED demanding
     \/ /\ demanding' = (demanding \ {lib}) \cup ({lib} \ demanding)
        /\ UNCHANGED openLibs
  /\ UNCHANGED <<role, selected, stamp, device, revoked, request>>

RevokeToken(t) ==
  /\ revoked' = revoked \cup {t}
  /\ UNCHANGED <<role, openLibs, demanding, selected, stamp, device, request>>

AccessInit ==
  /\ role = [u \in Users |-> [l \in Libraries |-> None]]
  /\ openLibs = Libraries /\ demanding = {}
  /\ selected = [u \in Users |-> None]
  /\ stamp = [u \in Users |-> None]
  /\ device = [u \in Users |-> "none"]
  /\ revoked = {} /\ request = [u \in Users |-> None]

SessionStep(u) ==
  \/ BeginEnrollment(u) \/ ConfirmEnrollment(u) \/ VerifyLogin(u) \/ DisableMfa(u)
  \/ StampExpires(u) \/ ForgetLibrary(u) \/ SignIn(u, None)
  \/ \E lib \in Libraries : SignIn(u, lib) \/ SelectLibrary(u, lib)

AccessNext ==
  \/ \E u \in Users : \/ SessionStep(u)
                      \/ \E t \in ApiTokens \cup {None} : AskStaff(u, t)
                      \/ Admit(u) \/ Answered(u)
                      \/ \E lib \in Libraries, r \in StaffRoles \cup {None} : SetRole(u, lib, r)
  \/ \E lib \in Libraries : SetLibrary(lib)
  \/ \E t \in ApiTokens : RevokeToken(t)

AccessSpec == AccessInit /\ [][AccessNext]_accessVars

----------------------------------------------------------------------------
(* Properties.                                                             *)

StaffRequests ==
  [token : ApiTokens \cup {None}, selected : Libraries \cup {None},
   current : Libraries \cup {None}, lib : Libraries \cup {None},
   staffed : SUBSET Libraries, as : StaffRoles \cup {None}]

AccessTypeOK ==
  /\ role \in [Users -> [Libraries -> StaffRoles \cup {None}]]
  /\ openLibs \subseteq Libraries /\ demanding \subseteq Libraries
  /\ selected \in [Users -> Libraries \cup {None}]
  /\ stamp \in [Users -> Libraries \cup {None}]
  /\ device \in [Users -> {"none", "pending", "confirmed"}]
  /\ revoked \subseteq ApiTokens
  /\ request \in [Users -> StaffRequests \cup {None}]

\* The gate and the handler each work out the library of a staff request, at
\* different times and by functions of their own.  With a token it is the same
\* library.  Without one the handler of a request that was let in works for
\* another library than the gate had checked only if meanwhile the caller has
\* ceased to be staff of an open library there, or has become staff of the other
\* one; whatever else was joined, left, opened and closed between, and also for
\* a patron of another library.  As the comments on the roles have it, support
\* staff only ever read, and billing and webhooks are for administrators.
CheckedIsServed ==
  \A u \in Users : request[u] # None /\ request[u].as # None =>
    LET q   == request[u]
        lib == HandlersLibrary(u, q)
    IN  /\ \/ lib \in {q.lib, None}
           \/ /\ q.token = None
              /\ q.lib \notin StaffLibraries(u) \/ lib \in StaffLibraries(u) \ q.staffed
        /\ \A h \in Permitted(q.token, q.as) :
             /\ q.as = "support" => h.calls = "read"
             /\ h.permission \in {"billing", "webhooks"} => q.as = "admin"

\* Once the code was right the middleware challenges nobody again for it, if the
\* library that they work for is one that asks.
CodeAdmits ==
  [][\A u \in Users :
       VerifyLogin(u) /\ SessionLibrary(u) \in demanding => ~Challenged(u)']_accessVars
=============================================================================
