------------------------------ MODULE MCTrack ------------------------------
(* Finite instances of Track for TLC: a neighbour is inside the radius of  *)
(* 15 m and the next one is not, and 600 m take two ticks at 220 km/h.     *)
EXTENDS Track, TLC
=============================================================================
