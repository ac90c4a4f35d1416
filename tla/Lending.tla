------------------------------ MODULE Lending ------------------------------
(***************************************************************************)
(* What circulation promises of each physical copy, whatever queues,       *)
(* transfers, sweeps and overrides do behind it: at any time a copy is out *)
(* with one patron, kept for one patron, or neither; a copy that is kept   *)
(* is lent to nobody but the patron it is kept for; and nobody takes a     *)
(* copy from the patron it is out with before it comes back.               *)
(***************************************************************************)
CONSTANTS Patrons, Copies, None

VARIABLES
  out,    \* the patron each copy is out with, or None
  kept    \* the patron each copy is kept for, or None

vars == <<out, kept>>

TypeOK == /\ out \in [Copies -> Patrons \cup {None}]
          /\ kept \in [Copies -> Patrons \cup {None}]

Init == /\ out = [c \in Copies |-> None]
        /\ kept = [c \in Copies |-> None]

\* The copy goes to a patron, who is the one it was kept for, if it was.
CheckOut(c) ==
  /\ out[c] = None /\ out'[c] # None
  /\ kept[c] \in {None, out'[c]}
  /\ kept'[c] = None

\* The copy comes back, or is given up for lost; it may be kept for the next.
CheckIn(c) == out[c] # None /\ out'[c] = None

\* A copy nobody has out is kept for a patron, passed on to another, or let go.
Keep(c) == out[c] = None /\ out'[c] = None

\* A patron is forgotten, with everything that was kept for them.
Forget(p) ==
  /\ \A c \in Copies : out[c] # p /\ out'[c] = out[c]
  /\ \A c \in Copies : kept'[c] = IF kept[c] = p THEN None ELSE kept[c]

\* One copy changes hands at a time.
Next ==
  /\ TypeOK'
  /\ \/ \E c \in Copies :
          /\ CheckOut(c) \/ CheckIn(c) \/ Keep(c)
          /\ \A d \in Copies \ {c} : out'[d] = out[d] /\ kept'[d] = kept[d]
     \/ \E p \in Patrons : Forget(p)

Spec == Init /\ [][Next]_vars
=============================================================================
