------------------------------- MODULE Library -------------------------------
(***************************************************************************)
(* What the components of one library (one Organization) have in common:   *)
(* its patrons, and the null of a nullable column.                         *)
(***************************************************************************)
EXTENDS Naturals, Integers, FiniteSets

CONSTANTS Patrons, None

ASSUME LibraryAssumption == None \notin Patrons /\ None \notin Int
=============================================================================
