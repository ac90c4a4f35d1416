-------------------------- MODULE CirculationRaces --------------------------
(***************************************************************************)
(* Circulation with the overdue sweep as it runs.  flag_overdue_loans      *)
(* holds no transaction and no lock between the SELECT that lists the      *)
(* loans past due and the UPDATE by primary key, so any service call may   *)
(* come between the two.  (The other sweeps also list ids first, but lock  *)
(* each row and look at its status again before they act.)                 *)
(***************************************************************************)
EXTENDS Circulation

VARIABLE overdueIds   \* the ids the sweep has read and not yet updated

raceVars == <<vars, overdueIds>>

SelectOverdue(S) ==
  /\ overdueIds = {}
  /\ \A l \in S : loanStatus[l] = "active"
  /\ overdueIds' = S
  /\ UNCHANGED vars

UpdateOverdue ==
  /\ overdueIds # {}
  /\ loanStatus' = [l \in LoanIds |-> IF l \in overdueIds THEN "overdue"
                                      ELSE loanStatus[l]]
  /\ overdueIds' = {}
  /\ UNCHANGED <<copyVars, loanCopy, loanPatron, renewals, holdVars, patronStatus>>

\* The database refuses a second active or overdue loan of a copy: the statement
\* fails, its transaction is rolled back, and a failed sweep forgets its list.
UniqActiveLoanPerCopy ==
  \A k, l \in LoanIds :
    ActiveLoan(k) /\ ActiveLoan(l) /\ loanCopy[k] = loanCopy[l] => k = l

SweepFails == /\ overdueIds # {}
              /\ overdueIds' = {}
              /\ UNCHANGED vars

ServiceStep == /\ LoanStep \/ HoldStep \/ StockStep \/ PatronStep
               /\ UNCHANGED overdueIds

RaceInit == Init /\ overdueIds = {}

RaceNext ==
  \/ /\ \/ ServiceStep
        \/ \E S \in SUBSET LoanIds : SelectOverdue(S)
        \/ UpdateOverdue
     /\ UniqActiveLoanPerCopy'
  \/ SweepFails

RaceSpec == RaceInit /\ [][RaceNext]_raceVars
=============================================================================
