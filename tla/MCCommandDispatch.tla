------------------------- MODULE MCCommandDispatch -------------------------
(* Finite instances of CommandDispatch for TLC. *)
EXTENDS CommandDispatch

CONSTANTS d1, d2, s1, s2

(* One tracker on one connection, and one tracker that reconnects.         *)
OneConnection == {<<s1, d1>>}
Reconnection  == {s1, s2} \X {d1}
=============================================================================
