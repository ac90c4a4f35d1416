---------------------------- MODULE Acquisitions ----------------------------
(***************************************************************************)
(* Purchase orders on one fund (library/acquisitions.py) and the fund's    *)
(* encumbrance (library/finance.py).  A fund has its money spent,          *)
(* encumbered for what is on order, or available.                          *)
(*                                                                         *)
(* A call is one transaction, but three of them read what they do not      *)
(* lock, and are two steps: add_line reads the status of its order before, *)
(* receive_line locks its line and not the order, and cancel_order locks   *)
(* the order and not its lines.  From the lock of the fund to the commit a *)
(* transaction is one step.  Where the database would roll back one of two *)
(* transactions that wait for each other, neither step is taken.           *)
(***************************************************************************)
EXTENDS Library, Functions

CONSTANTS
  Orders, Lines,
  LineOrder, Quantity, Cost,   \* of a line
  Budget,
  CopyCap                      \* copies that the library's plan allows

ASSUME AcquisitionsAssumption ==
  /\ IsFiniteSet(Orders) /\ IsFiniteSet(Lines)
  /\ LineOrder \in [Lines -> Orders]
  /\ Quantity \in [Lines -> Nat \ {0}] /\ Cost \in [Lines -> Nat]
  /\ Budget \in Nat /\ CopyCap \in Nat

VARIABLES
  orderStatus,          \* PurchaseOrder.status
  added,                \* PurchaseOrderLine: "absent", "asked" (add_line is under way), "added"
  got,                  \* received_quantity
  receiving,            \* how many receive_line is about to receive
  cancelling,           \* what cancel_order is about to release, or None
  encumbered, spent,    \* Fund
  copies,
  crossed               \* a line came late, or a receipt met a cancellation

fundVars == <<encumbered, spent>>
orderVars == <<orderStatus, added, got, receiving, cancelling, fundVars, copies, crossed>>

OrderStatus == {"absent", "draft", "ordered", "received", "cancelled"}

LinesOf(o) == {l \in Lines : LineOrder[l] = o /\ added[l] = "added"}

Outstanding(l) == Quantity[l] - got[l]

\* order_total_cents
Total(o) ==
  SumFunctionOnSet([l \in Lines |-> Quantity[l] * Cost[l]], LinesOf(o))

OutstandingCost(o) ==
  SumFunctionOnSet([l \in Lines |-> Outstanding(l) * Cost[l]], LinesOf(o))

\* finance.spend_encumbered and release_encumbrance: never below zero.
Less(amount) == IF encumbered > amount THEN encumbered - amount ELSE 0

CreateOrder(o) ==
  /\ orderStatus[o] = "absent"
  /\ orderStatus' = [orderStatus EXCEPT ![o] = "draft"]
  /\ UNCHANGED <<added, got, receiving, cancelling, fundVars, copies, crossed>>

\* add_line looks at the order ...
AskLine(l) ==
  /\ added[l] = "absent" /\ orderStatus[LineOrder[l]] = "draft"
  /\ added' = [added EXCEPT ![l] = "asked"]
  /\ UNCHANGED <<orderStatus, got, receiving, cancelling, fundVars, copies, crossed>>

\* ... and adds the line, whatever the order is by then.
AddLine(l) ==
  /\ added[l] = "asked"
  /\ added' = [added EXCEPT ![l] = "added"]
  /\ crossed' = (crossed \/ orderStatus[LineOrder[l]] # "draft")
  /\ UNCHANGED <<orderStatus, got, receiving, cancelling, fundVars, copies>>

\* place_order encumbers the total: finance.encumber.
PlaceOrder(o) ==
  /\ orderStatus[o] = "draft" /\ cancelling[o] = None
  /\ LinesOf(o) # {}
  /\ Total(o) <= Budget - spent - encumbered
  /\ encumbered' = encumbered + Total(o)
  /\ orderStatus' = [orderStatus EXCEPT ![o] = "ordered"]
  /\ UNCHANGED <<added, got, receiving, cancelling, spent, copies, crossed>>

\* receive_line locks the line and reads the order.
BeginReceipt(l, n) ==
  /\ added[l] = "added" /\ receiving[l] = 0
  /\ orderStatus[LineOrder[l]] \in {"ordered", "received"}
  /\ n \in 1 .. Outstanding(l)
  /\ copies + n <= CopyCap
  /\ receiving' = [receiving EXCEPT ![l] = n]
  /\ UNCHANGED <<orderStatus, added, got, cancelling, fundVars, copies, crossed>>

\* Mutation: only what is available may be spent, and no one looks.
AlwaysAffordable(l) == TRUE

\* The budget is looked at again on receipt.
Affordable(l) == spent + receiving[l] * Cost[l] <= Budget

\* With the fund's lock: the copies are there, the money is spent, and an order
\* of which nothing is outstanding is received.
Receive(l) ==
  LET o    == LineOrder[l]
      cost == receiving[l] * Cost[l]
  IN  /\ receiving[l] > 0
      /\ Affordable(l)
      /\ copies' = copies + receiving[l]
      /\ encumbered' = Less(cost) /\ spent' = spent + cost
      /\ got' = [got EXCEPT ![l] = @ + receiving[l]]
      /\ receiving' = [receiving EXCEPT ![l] = 0]
      /\ IF \A m \in LinesOf(o) : got'[m] = Quantity[m]
         THEN /\ cancelling[o] = None
              /\ orderStatus' = [orderStatus EXCEPT ![o] = "received"]
         ELSE UNCHANGED orderStatus
      /\ crossed' = (crossed \/ orderStatus[o] = "cancelled" \/ cancelling[o] # None)
      /\ UNCHANGED <<added, cancelling>>

\* The receipt is rolled back: the budget is insufficient, or a crash.
AbandonReceipt(l) ==
  /\ receiving[l] > 0
  /\ receiving' = [receiving EXCEPT ![l] = 0]
  /\ UNCHANGED <<orderStatus, added, got, cancelling, fundVars, copies, crossed>>

\* Mutation: the whole order is released, what has come of it too.
ReleaseTotal(o) == IF orderStatus[o] = "ordered" THEN Total(o) ELSE 0

\* What is still encumbered for an order.
Releasable(o) == IF orderStatus[o] = "ordered" THEN OutstandingCost(o) ELSE 0

\* cancel_order locks the order and adds up what is outstanding ...
BeginCancel(o) ==
  /\ orderStatus[o] \in {"draft", "ordered", "cancelled"} /\ cancelling[o] = None
  /\ cancelling' = [cancelling EXCEPT ![o] = Releasable(o)]
  /\ UNCHANGED <<orderStatus, added, got, receiving, fundVars, copies, crossed>>

\* ... and releases as much: finance.release_encumbrance.
CancelOrder(o) ==
  /\ cancelling[o] # None
  /\ encumbered' = Less(cancelling[o])
  /\ orderStatus' = [orderStatus EXCEPT ![o] = "cancelled"]
  /\ cancelling' = [cancelling EXCEPT ![o] = None]
  /\ UNCHANGED <<added, got, receiving, spent, copies, crossed>>

AcquisitionsInit ==
  /\ orderStatus = [o \in Orders |-> "absent"]
  /\ added = [l \in Lines |-> "absent"]
  /\ got = [l \in Lines |-> 0]
  /\ receiving = [l \in Lines |-> 0]
  /\ cancelling = [o \in Orders |-> None]
  /\ encumbered = 0 /\ spent = 0
  /\ copies = 0
  /\ crossed = FALSE

AcquisitionsNext ==
  \/ \E o \in Orders : CreateOrder(o) \/ PlaceOrder(o) \/ BeginCancel(o) \/ CancelOrder(o)
  \/ \E l \in Lines :
        \/ AskLine(l) \/ AddLine(l) \/ Receive(l) \/ AbandonReceipt(l)
        \/ \E n \in 1 .. Quantity[l] : BeginReceipt(l, n)

AcquisitionsSpec == AcquisitionsInit /\ [][AcquisitionsNext]_orderVars

----------------------------------------------------------------------------
(* Properties.                                                             *)

AcquisitionsTypeOK ==
  /\ orderStatus \in [Orders -> OrderStatus]
  /\ added \in [Lines -> {"absent", "asked", "added"}]
  /\ got \in [Lines -> Nat] /\ receiving \in [Lines -> Nat]
  /\ \A l \in Lines : got[l] + receiving[l] <= Quantity[l]
  /\ cancelling \in [Orders -> Nat \cup {None}]
  /\ encumbered \in Nat /\ spent \in Nat
  /\ copies \in Nat
  /\ crossed \in BOOLEAN

\* The fund never promises or spends more than its budget, although lines may
\* come to be received for which nothing was encumbered.
WithinBudget == spent + encumbered <= Budget

\* The fund's books: what was spent is the price of what was received, and what
\* is encumbered is the price of what open orders still wait for, unless a line
\* came late or a receipt crossed a cancellation.
FundBooks ==
  /\ spent = SumFunctionOnSet([l \in Lines |-> got[l] * Cost[l]], Lines)
  /\ ~crossed => encumbered = SumFunctionOnSet([o \in Orders |-> OutstandingCost(o)],
                                               {o \in Orders : orderStatus[o] = "ordered"})
=============================================================================
