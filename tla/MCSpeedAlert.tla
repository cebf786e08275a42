---------------------------- MODULE MCSpeedAlert ----------------------------
(* Finite instances of SpeedAlert for TLC. *)
EXTENDS SpeedAlert, TLC

Symmetry == Permutations(Sockets)
=============================================================================
