------------------------------ MODULE MCIdentity ------------------------------
(* Finite instances of Identity for TLC. *)
EXTENDS Identity, TLC

Symmetry == Permutations(Sockets) \cup Permutations(Imeis)
=============================================================================
