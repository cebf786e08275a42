-------------------------- MODULE CommandLifecycle --------------------------
(***************************************************************************)
(* What the command channel promises of every remote command, whatever the *)
(* sockets, the HTTP requests and the restarts do (docs/COMANDOS_S11L.md,  *)
(* MEJORAS_GPS.md "Comandos remotos S11L"): the states of a row of         *)
(* device_commands and when each may be entered.  CommandDispatch is shown *)
(* to implement it.                                                        *)
(***************************************************************************)
CONSTANT Cmds

VARIABLES status,       \* the status column; "none" before the INSERT
          transmitted   \* the commands written to some device socket

vars == <<status, transmitted>>

Pending  == {"queued", "sent"}
Terminal == {"acknowledged", "failed", "expired"}

Init == status = [c \in Cmds |-> "none"] /\ transmitted = {}

Create(c) == /\ status[c] = "none"
             /\ status' = [status EXCEPT ![c] = "queued"]
             /\ UNCHANGED transmitted

(* Delivery is at least once: a command may be written again, even after   *)
(* its row has reached a terminal state.                                   *)
Transmit(c) == /\ status[c] # "none"
               /\ transmitted' = transmitted \cup {c}
               /\ UNCHANGED status

MarkSent(c) == /\ status[c] = "queued" /\ c \in transmitted
               /\ status' = [status EXCEPT ![c] = "sent"]
               /\ UNCHANGED transmitted

(* Only a command the device was sent can have an answer.                  *)
Answer(c) == /\ status[c] \in Pending /\ c \in transmitted
             /\ \E result \in {"acknowledged", "failed"} :
                    status' = [status EXCEPT ![c] = result]
             /\ UNCHANGED transmitted

Expire(S) == /\ \A c \in S : status[c] \in Pending
             /\ status' = [c \in Cmds |-> IF c \in S THEN "expired" ELSE status[c]]
             /\ UNCHANGED transmitted

Next == \/ \E c \in Cmds : Create(c) \/ Transmit(c) \/ MarkSent(c) \/ Answer(c)
        \/ \E S \in SUBSET Cmds : Expire(S)

Spec == Init /\ [][Next]_vars
=============================================================================
