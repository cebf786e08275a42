------------------------------ MODULE MCLiveView ------------------------------
(* Finite instances of LiveView for TLC. *)
EXTENDS LiveView, TLC
=============================================================================
