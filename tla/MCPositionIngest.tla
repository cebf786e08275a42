-------------------------- MODULE MCPositionIngest --------------------------
(* Finite instances of PositionIngest for TLC.  The sockets of a device    *)
(* are interchangeable.                                                    *)
EXTENDS PositionIngest, TLC

(* A position with a legible time and one without, or one sent twice.      *)
BatchesOfTwo == {<<1, NoTime>>, <<NoTime, 1>>, <<1, 1>>}

SocketSymmetry == Permutations(Sockets)
=============================================================================
