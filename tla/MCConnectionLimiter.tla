------------------------ MODULE MCConnectionLimiter ------------------------
(* Finite instance of ConnectionLimiter for TLC. *)
EXTENDS ConnectionLimiter
=============================================================================
