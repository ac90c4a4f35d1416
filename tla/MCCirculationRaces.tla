------------------------- MODULE MCCirculationRaces -------------------------
(* The small instance of CirculationRaces that TLC searches.               *)
EXTENDS CirculationRaces

CONSTANTS w1

OneWork == [c \in Copies |-> w1]
=============================================================================
