----------------------------- MODULE MCTrackView -----------------------------
(* Finite instance of TrackView for TLC. *)
EXTENDS TrackView
=============================================================================
