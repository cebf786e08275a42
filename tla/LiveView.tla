------------------------------- MODULE LiveView -------------------------------
(***************************************************************************)
(* What an operator sees of one device: the WebSocket broadcast            *)
(* (web/ws.js), the list of equipment and its refreshes in the browser     *)
(* (public/app.js), and the archiving and restoring of the device          *)
(* (web/routes.js).  PositionIngest publishes what is broadcast here.      *)
(*                                                                         *)
(* A position is its number; one without a fix is stored and broadcast but *)
(* is nobody's last position.                                              *)
(***************************************************************************)
EXTENDS Naturals, Sequences

CONSTANTS MaxPositions,  \* bound: positions the device sends
          MaxDrops,      \* bound: times the WebSocket drops
          MaxFails,      \* bound: requests that fail
          MaxChanges     \* bound: archivings and restorations

VARIABLES listed,   \* devices.archived_at IS NULL
          last,     \* the last usable position in the table, 0 for none
          sent,     \* positions stored
          frame,    \* the frame between its INSERT and its publication, or NoFrame
          ws,       \* estado.ws: "boot" before conectarWs, "closed" or "open"
          wire,     \* the messages on their way to the browser
          list,     \* GET /api/devices: "none", "asked" or "answered"
          read,     \* the rows of that answer
          form,     \* the operator's own request: "none", "delete", "post"
          view,     \* estado.equipos: is the device shown, and its last_position
          drops, fails, changes

vars == <<listed, last, sent, frame, ws, wire, list, read, form, view, drops, fails, changes>>

Hidden == [shown |-> FALSE, last |-> 0]
Rows == [shown : BOOLEAN, last : 0 .. MaxPositions]
NoFrame == [pos |-> 0, usable |-> FALSE, listed |-> FALSE]
Messages == [pos : 0 .. MaxPositions, usable : BOOLEAN, listed : BOOLEAN]

(* iniciar: the list is asked for, and conectarWs waits for its answer.    *)
Init == /\ listed = TRUE /\ last = 0 /\ sent = 0
        /\ frame = NoFrame
        /\ ws = "boot" /\ wire = <<>> /\ list = "asked" /\ read = Hidden /\ form = "none"
        /\ view = Hidden
        /\ drops = 0 /\ fails = 0 /\ changes = 0

-----------------------------------------------------------------------------
(* The server. *)

(* processDecoded: the device is read by touchDevice, the row inserted.    *)
Store == /\ frame = NoFrame /\ sent < MaxPositions
         /\ sent' = sent + 1
         /\ \E usable \in BOOLEAN :
               /\ frame' = [pos |-> sent', usable |-> usable, listed |-> listed]
               /\ last' = IF usable THEN sent' ELSE last
         /\ UNCHANGED <<listed, ws, wire, list, read, form, view, drops, fails, changes>>

(* difundir: only to the clients that are connected now.                   *)
Publish == /\ frame # NoFrame
           /\ wire' = IF ws = "open" THEN Append(wire, frame) ELSE wire
           /\ frame' = NoFrame
           /\ UNCHANGED <<listed, last, sent, ws, list, read, form, view, drops, fails, changes>>

(* listDevicesWithLastPosition: the archived are left out.                 *)
AnswerList == /\ list = "asked"
              /\ list' = "answered"
              /\ read' = IF listed THEN [shown |-> TRUE, last |-> last] ELSE Hidden
              /\ UNCHANGED <<listed, last, sent, frame, ws, wire, form, view, drops, fails, changes>>

-----------------------------------------------------------------------------
(* The browser's WebSocket. *)

(* conectarWs: the handshake ends, and nothing is asked for again.         *)
Open == /\ ws = "closed"
        /\ ws' = "open"
        /\ UNCHANGED <<listed, last, sent, frame, wire, list, read, form, view, drops, fails, changes>>

(* The connection is lost with what was on its way.                        *)
Drop == /\ ws = "open" /\ drops < MaxDrops
        /\ ws' = "closed" /\ wire' = <<>> /\ drops' = drops + 1
        /\ UNCHANGED <<listed, last, sent, frame, list, read, form, view, fails, changes>>

(* The message 'posicion'.                                                 *)
Updated(m) == IF ~m.listed THEN Hidden
              ELSE [shown |-> TRUE, last |-> IF m.usable THEN m.pos ELSE view.last]

Deliver == /\ wire # <<>>
           /\ view' = Updated(Head(wire))
           /\ wire' = Tail(wire)
           /\ UNCHANGED <<listed, last, sent, frame, ws, list, read, form, drops, fails, changes>>

-----------------------------------------------------------------------------
(* The browser's requests. *)

(* The refresh of every minute, only while the WebSocket is not open.      *)
Refresh == /\ ws = "closed" /\ list = "none"
           /\ list' = "asked"
           /\ UNCHANGED <<listed, last, sent, frame, ws, wire, read, form, view, drops, fails, changes>>

(* Mutant: the rows of the answer are merged into the map. *)
ListedMerging == IF read.shown THEN read ELSE view

(* cargarEquipos replaces the whole map.                                   *)
Listed == read

ShowList == /\ list = "answered"
            /\ view' = Listed
            /\ list' = "none" /\ read' = Hidden
            /\ ws' = IF ws = "boot" THEN "closed" ELSE ws
            /\ UNCHANGED <<listed, last, sent, frame, wire, form, drops, fails, changes>>

(* The request fails: the view stays, and iniciar goes on.                 *)
ListFails == /\ list # "none" /\ fails < MaxFails
             /\ fails' = fails + 1
             /\ list' = "none" /\ read' = Hidden
             /\ ws' = IF ws = "boot" THEN "closed" ELSE ws
             /\ UNCHANGED <<listed, last, sent, frame, wire, form, view, drops, changes>>

(* quitarEquipo and agregarEquipo, up to what the server does.             *)
Delete == /\ view.shown /\ listed /\ form = "none" /\ changes < MaxChanges
          /\ listed' = FALSE /\ form' = "delete" /\ changes' = changes + 1
          /\ UNCHANGED <<last, sent, frame, ws, wire, list, read, view, drops, fails>>

Post == /\ ~listed /\ form = "none" /\ changes < MaxChanges
        /\ listed' = TRUE /\ form' = "post" /\ changes' = changes + 1
        /\ UNCHANGED <<last, sent, frame, ws, wire, list, read, view, drops, fails>>

Deleted == /\ form = "delete"
           /\ view' = Hidden
           /\ form' = "none"
           /\ UNCHANGED <<listed, last, sent, frame, ws, wire, list, read, drops, fails, changes>>

(* e.currentTarget is null once an await has passed: reset() throws, and   *)
(* the catch keeps cargarEquipos from being reached.                       *)
Posted == /\ form = "post"
          /\ form' = "none"
          /\ UNCHANGED <<listed, last, sent, frame, ws, wire, list, read, view, drops, fails, changes>>

Idle == /\ sent = MaxPositions /\ frame = NoFrame /\ wire = <<>> /\ list = "none"
        /\ ws = "open" /\ form = "none" /\ UNCHANGED vars

Next == Store \/ Publish \/ AnswerList \/ Open \/ Drop \/ Deliver \/ Refresh \/ ShowList
        \/ ListFails \/ Delete \/ Post \/ Deleted \/ Posted \/ Idle

Spec == Init /\ [][Next]_vars

(* The pipeline finishes its frames, the network delivers, requests are    *)
(* answered, and the browser's timers run.  Nothing makes a WebSocket open *)
(* again: a proxy may let the requests through and not it.                 *)
Fairness == /\ WF_vars(Publish) /\ WF_vars(Deliver) /\ WF_vars(AnswerList)
            /\ WF_vars(ShowList) /\ WF_vars(Refresh)
            /\ WF_vars(Deleted) /\ WF_vars(Posted)
FairSpec == Spec /\ Fairness

-----------------------------------------------------------------------------
(* Types of the variables.                                                 *)
TypeOK == /\ listed \in BOOLEAN
          /\ last \in 0 .. MaxPositions /\ sent \in 0 .. MaxPositions
          /\ frame \in Messages
          /\ ws \in {"boot", "closed", "open"}
          /\ wire \in Seq(Messages)
          /\ list \in {"none", "asked", "answered"} /\ read \in Rows
          /\ form \in {"none", "delete", "post"}
          /\ view \in Rows
          /\ drops \in 0 .. MaxDrops /\ fails \in 0 .. MaxFails /\ changes \in 0 .. MaxChanges

(* "si el WebSocket se cae, la lista no se queda vieja" (app.js:1160): if  *)
(* it stays down, the list ends as the table has it, with the last usable  *)
(* position, or without the device if it is archived: whatever was stored, *)
(* archived or added meanwhile, whichever answers were old when they came, *)
(* and though requests failed.  It says nothing of a WebSocket that comes  *)
(* back: what was stored before that is then not asked for.                *)
ListFollowsWhileDown ==
    <>[](ws = "closed") => <>[](view = IF listed THEN [shown |-> TRUE, last |-> last] ELSE Hidden)
=============================================================================
