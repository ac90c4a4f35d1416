--------------------------- MODULE MCCirculation ---------------------------
(***************************************************************************)
(* Instances of Circulation for TLC.                                       *)
(***************************************************************************)
EXTENDS Circulation, TLC

CONSTANTS p1, p2, c1, c2, w1, w2, b1, b2

OneWork == [c \in Copies |-> w1]
TwoWorks == [c \in Copies |-> IF c = c1 THEN w1 ELSE w2]

\* Patrons, the copies of a single work and the branches are interchangeable.
Symmetry ==
  Permutations(Patrons) \cup Permutations(Copies) \cup Permutations(Branches)

\* Two states that differ only in what a closed loan or an ended hold still
\* says behave alike: no service reads such a row again (Erase rewrites it, to
\* another closed row), and the properties checked under this view ask of it at
\* most the copy an erased hold had reserved.
LoanView(l) ==
  IF ActiveLoan(l)
  THEN <<loanStatus[l], loanCopy[l], loanPatron[l], renewals[l]>>
  ELSE <<loanStatus[l] = "absent">>

HoldView(h) ==
  CASE holdStatus[h] = "waiting" ->
         <<"waiting", holdPatron[h], holdWork[h], holdBranch[h], holdCopy[h],
           attempts[h]>>
    [] holdStatus[h] = "ready" ->
         <<"ready", holdPatron[h], holdWork[h], holdBranch[h], holdCopy[h]>>
    [] holdStatus[h] = "erased" -> <<holdCopy[h]>>
    [] OTHER -> <<holdStatus[h] = "absent">>

OpenRows == <<copyVars, patronStatus, [l \in LoanIds |-> LoanView(l)],
              [h \in HoldIds |-> HoldView(h)]>>
=============================================================================
