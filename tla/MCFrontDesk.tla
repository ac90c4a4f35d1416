------------------------------ MODULE MCFrontDesk ------------------------------
(***************************************************************************)
(* What readers and staff do beside the circulation of copies, in one      *)
(* instance for TLC: digital titles, purchase orders, events and rooms,    *)
(* imports, inter-library loans and access.  They share no state, so they  *)
(* are searched side by side and not interleaved.  Two of them are divided *)
(* for the search: the event ("events") and the rooms ("rooms"), which     *)
(* only an erasure touches together, and access without staff requests     *)
(* ("access") and with them, with no second factor asked for ("calls").    *)
(***************************************************************************)
EXTENDS MCDigital, Acquisitions, Gatherings, Imports, Interlibrary, Access

CONSTANTS o1, o2, ln1, ln2, ln3, b1, b2, wk1, wk2, ed1, ed2, cp1, cp2, au1,
          m1, m2, h1, h2, u1, t1

VARIABLE component

\* Two orders, the first of two lines.
OrderOf == (ln1 :> o1) @@ (ln2 :> o1) @@ (ln3 :> o2)
Quantities == (ln1 :> 2) @@ (ln2 :> 1) @@ (ln3 :> 1)
Costs == (ln1 :> 1) @@ (ln2 :> 2) @@ (ln3 :> 2)

\* Two batches that name the same work and the same edition.
BatchOfRow == 1 :> b1 @@ 2 :> b1 @@ 3 :> b2
WorkOfRow == 1 :> wk1 @@ 2 :> wk2 @@ 3 :> wk1
EditionOfRow == 1 :> ed1 @@ 2 :> ed2 @@ 3 :> ed1
CopyOfRow == 1 :> cp1 @@ 2 :> None @@ 3 :> cp2
AuthorOfRow == 1 :> au1 @@ 2 :> au1 @@ 3 :> au1

\* A library whose patrons ask for a title, and one that lends it: each has a copy.
Home == [p \in Patrons |-> m1]
Owner == h1 :> m1 @@ h2 :> m2
Title == [c \in Holdings |-> "w"]

\* A patron of the first library, with a token for the second.
Homes == u1 :> 1
TokensUser == t1 :> u1
TokensLibrary == t1 :> 2
TokensScopes == t1 :> {"staff:read", "staff:write"}

Init ==
  /\ component \in {"digital", "acquisitions", "events", "rooms", "imports", "ill", "access", "calls"}
  /\ DigitalInit /\ AcquisitionsInit /\ GatheringsInit
  /\ ImportsInit /\ InterlibraryInit /\ AccessInit

vars == <<component, digitalVars, orderVars, gatheringVars, importVars,
          interlibraryVars, accessVars>>

Next ==
  /\ UNCHANGED component
  /\ IF component = "digital" THEN DigitalNext ELSE UNCHANGED digitalVars
  /\ IF component = "acquisitions" THEN AcquisitionsNext ELSE UNCHANGED orderVars
  /\ IF component \in {"events", "rooms"} THEN GatheringsNext ELSE UNCHANGED gatheringVars
  /\ IF component = "imports" THEN ImportsNext ELSE UNCHANGED importVars
  /\ IF component = "ill" THEN InterlibraryNext ELSE UNCHANGED interlibraryVars
  /\ IF component \in {"access", "calls"} THEN AccessNext ELSE UNCHANGED accessVars
  /\ component = "events" => UNCHANGED roomVars
  /\ component = "rooms" => UNCHANGED place
  /\ component = "access" => UNCHANGED request
  /\ component = "calls" => UNCHANGED <<demanding, stamp, device>>

FrontDesk == Init /\ [][Next]_vars

\* The state of the component that runs: the others stay as they began.
State ==
  CASE component = "digital" -> <<1, OpenRows>>
    [] component = "acquisitions" -> <<2, orderVars>>
    [] component = "events" -> <<3, gatheringVars>>
    [] component = "rooms" -> <<8, gatheringVars>>
    [] component = "imports" -> <<4, importVars>>
    [] component = "ill" -> <<5, interlibraryVars>>
    [] component = "access" -> <<6, accessVars>>
    [] component = "calls" -> <<7, accessVars>>

\* Every field of the six components has its type: among them, that an active
\* loan or hold of a digital title is somebody's, and that no more of a line is
\* received than was ordered.
FrontDeskTypeOK ==
  CASE component = "digital" -> DigitalTypeOK
    [] component = "acquisitions" -> AcquisitionsTypeOK
    [] component \in {"events", "rooms"} -> GatheringsTypeOK
    [] component = "imports" -> ImportsTypeOK
    [] component = "ill" -> InterlibraryTypeOK
    [] component \in {"access", "calls"} -> AccessTypeOK
=============================================================================
