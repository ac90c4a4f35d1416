------------------------------ MODULE MCDigital ------------------------------
(* Instances of Digital for TLC: the licences of a run by their number.      *)
EXTENDS Digital, TLC

CONSTANTS e1

OneEdition == [k \in Licenses |-> e1]

\* One reader at a time; two at a time, and two checkouts in all.
OneThenTwo == [k \in Licenses |-> k]
SecondMetered == [k \in Licenses |-> IF k = 1 THEN None ELSE 2]

\* One reader at a time; any number of them, and one checkout in all.
OneThenAll == [k \in Licenses |-> IF k = 1 THEN 1 ELSE None]
SecondOnce == [k \in Licenses |-> IF k = 1 THEN None ELSE 1]

Symmetry == Permutations(Patrons)

\* Nothing reads more of a closed loan than its licence, and of an ended hold
\* nothing, but that a ready one was erased.
LoanView(n) == IF loanStatus[n] = "active"
               THEN <<"active", loanLicense[n], loanPatron[n]>>
               ELSE <<loanStatus[n] = "absent", loanLicense[n]>>
HoldView(h) == CASE holdStatus[h] \in {"waiting", "ready"} ->
                      <<holdStatus[h], holdPatron[h], holdEdition[h]>>
                 [] holdStatus[h] = "erased" -> <<"erased", holdEdition[h]>>
                 [] OTHER -> <<holdStatus[h] = "absent">>
OpenRows == <<licenseVars, [n \in LoanIds |-> LoanView(n)],
              [h \in HoldIds |-> HoldView(h)]>>
=============================================================================
