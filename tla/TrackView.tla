------------------------------ MODULE TrackView ------------------------------
(***************************************************************************)
(* The track (estela) that the panel draws for the selected device         *)
(* (public/app.js): the requests that a selection, a button or a live      *)
(* position leads to, their answers in any order, and the positions that   *)
(* the WebSocket brings meanwhile.                                         *)
(*                                                                         *)
(* A position has a fix and is its number in the table; its minute is the  *)
(* one it is stamped with: the tracker's, which may be past when it comes  *)
(* from a buffer, and ahead when its clock is, or else the server's.       *)
(* "hasta" has minutes, so a request asks for what is stamped before the   *)
(* minute it was filled in.  No position is older than "desde", nor are    *)
(* there more than the 5000 that a request asks for.                       *)
(* A device that is archived is deselected by the answer to the DELETE and *)
(* by its own messages; the list itself is in LiveView.                    *)
(***************************************************************************)
EXTENDS Naturals, Sequences

CONSTANTS Devices,
          None,           \* nothing is selected
          Unread,         \* the server has not run the query of a request
          AdjustAtFirst,  \* is the box "Ajustar estela a calles" checked
          Ahead,          \* the minutes that a tracker's clock may be ahead
          MaxPositions,   \* bound: positions that the devices send
          MaxMinute,      \* bound: minutes that begin
          MaxClicks,      \* bound: what the operator does
          MaxFails        \* bound: requests that fail

ASSUME PanelAssumption == None \notin Devices /\ AdjustAtFirst \in BOOLEAN
ASSUME BoundsAssumption == {Ahead, MaxPositions, MaxMinute, MaxClicks, MaxFails} \subseteq Nat

VARIABLES shown,      \* estado.equipos
          table,      \* the positions: of which device, stamped with which minute,
                      \* archived or not, and was the minute over when it came
          archived,   \* the devices with archived_at
          fresh,      \* inserted and not yet published, one per device
          wire,       \* the messages on their way to the browser
          now,        \* the minute
          selected,   \* estado.seleccionado
          adjust,     \* the box is checked
          hasta,      \* the minute in the field
          removals,   \* requests to archive a device that have not been answered
          chains,     \* selections that wait for the packets and the commands
          timer,      \* estado.timerAjusteVivo is set
          requestId,  \* estado.recorridoRequestId
          requests,   \* in flight
          line,       \* the points of estado.recorrido, {} for null
          loading,    \* info-recorrido says "Cargando…"
          fate,       \* what became of the line: "none", "drawn", or "failed" to load
          known,      \* the positions in the table when what is drawn was read
          clicks, fails

trail == <<line, fate, known>>
server == <<table, archived, fresh, now>>
panel == <<shown, selected, adjust, hasta, removals, chains, timer, requestId, requests,
           trail, loading>>
viewVars == <<server, wire, panel, clicks, fails>>

Positions == 1 .. MaxPositions
Entries == [dev : Devices, minute : 0 .. MaxMinute, gone : BOOLEAN, late : BOOLEAN]
LinePoints == [pos : Positions, asked : BOOLEAN]
Requests == [id : Nat, dev : Devices, until : 0 .. MaxMinute, adjust : BOOLEAN,
             read : {Unread} \cup 0 .. MaxPositions]

ViewInit == /\ shown = Devices /\ table = <<>> /\ archived = {} /\ fresh = {} /\ wire = <<>> /\ now = 0
            /\ selected = None /\ adjust = AdjustAtFirst /\ hasta = 0
            /\ removals = {} /\ chains = 0 /\ timer = FALSE /\ requestId = 0 /\ requests = {}
            /\ line = {} /\ loading = FALSE /\ fate = "none" /\ known = 0
            /\ clicks = 0 /\ fails = 0

-----------------------------------------------------------------------------
(* The server. *)

Tick == /\ now < MaxMinute
        /\ now' = now + 1
        /\ UNCHANGED <<table, archived, fresh, wire, panel, clicks, fails>>

(* savePosition inserts the row, awaits the movement state and publishes.  *)
Store(d) == /\ Len(table) < MaxPositions
            /\ \A k \in fresh : table[k].dev # d
            /\ \E minute \in {m \in 0 .. MaxMinute : m <= now + Ahead} :
                  table' = Append(table, [dev |-> d, minute |-> minute, gone |-> d \in archived,
                                          late |-> minute < now])
            /\ fresh' = fresh \cup {Len(table')}
            /\ UNCHANGED <<archived, wire, now, panel, clicks, fails>>

Publish(k) == /\ k \in fresh
              /\ fresh' = fresh \ {k}
              /\ wire' = Append(wire, k)
              /\ UNCHANGED <<table, archived, now, panel, clicks, fails>>

(* listPositions: of the device, and stamped before the minute hasta.      *)
RowsOf(r) == {k \in 1 .. r.read : table[k].dev = r.dev /\ table[k].minute < r.until}

Read(r) == /\ r \in requests /\ r.read = Unread
           /\ requests' = (requests \ {r}) \cup {[r EXCEPT !.read = Len(table)]}
           /\ UNCHANGED <<server, wire, shown, selected, adjust, hasta, removals, chains,
                          timer, requestId, trail, loading, clicks, fails>>

-----------------------------------------------------------------------------
(* The panel. *)

(* fechaLocalAInput(new Date()): down to the minute.                       *)
ThisMinute == now

(* cargarRecorrido up to its await; quiet is silencioso.                   *)
Load(until, box, quiet) ==
    /\ requestId' = requestId + 1
    /\ IF selected = None
       THEN loading' = FALSE /\ UNCHANGED requests
       ELSE /\ loading' = (loading \/ ~quiet)
            /\ requests' = requests \cup {[id |-> requestId', dev |-> selected, until |-> until,
                                           adjust |-> box, read |-> Unread]}

Click == clicks < MaxClicks /\ clicks' = clicks + 1

(* seleccionar up to its first await; the line of before stays.            *)
Select(d) == /\ Click /\ d \in shown
             /\ selected' = d /\ chains' = chains + 1
             /\ UNCHANGED <<server, wire, shown, adjust, hasta, removals, timer,
                            requestId, requests, trail, loading, fails>>

(* seleccionar after the packets and the commands, whose errors it skips:  *)
(* it fills the range in and loads whatever is selected by then.           *)
SelectionLoads == /\ chains > 0
                  /\ chains' = chains - 1
                  /\ hasta' = ThisMinute /\ Load(hasta', adjust, FALSE)
                  /\ UNCHANGED <<server, wire, shown, selected, adjust, removals, timer,
                                 trail, clicks, fails>>

(* quitarEquipo of the selected device, and the server's part of it.       *)
RemoveDevice == /\ Click /\ selected # None /\ selected \notin archived
          /\ archived' = archived \cup {selected}
          /\ removals' = removals \cup {selected}
          /\ UNCHANGED <<table, fresh, now, wire, shown, selected, adjust, hasta, chains,
                         timer, requestId, requests, trail, loading, fails>>

(* Its answer deselects whatever is selected by then.                      *)
Removed == /\ removals # {} /\ \E d \in removals : removals' = removals \ {d} /\ shown' = shown \ {d}
           /\ selected' = None /\ line' = {}
           /\ UNCHANGED <<server, wire, adjust, hasta, chains, timer, requestId, requests,
                          loading, fate, known, clicks, fails>>

RemovalFails == /\ removals # {} /\ fails < MaxFails /\ fails' = fails + 1
                /\ \E d \in removals : removals' = removals \ {d}
                /\ UNCHANGED <<server, wire, shown, selected, adjust, hasta, chains,
                               timer, requestId, requests, trail, loading, clicks>>

(* The buttons of a range, and the one that loads the range in the fields. *)
LoadRange == /\ Click
         /\ hasta' \in {ThisMinute, hasta} /\ Load(hasta', adjust, FALSE)
         /\ UNCHANGED <<server, wire, shown, selected, adjust, removals, chains, timer,
                        trail, fails>>

ToggleAdjust == /\ Click
                /\ adjust' = ~adjust
                /\ IF selected = None THEN UNCHANGED <<requestId, requests, loading>>
                                      ELSE Load(hasta, adjust', FALSE)
                /\ UNCHANGED <<server, wire, shown, selected, hasta, removals, chains,
                               timer, trail, fails>>

Clear == /\ Click
         /\ line' = {} /\ fate' = "none" /\ known' = 0 /\ loading' = FALSE
         /\ UNCHANGED <<server, wire, shown, selected, adjust, hasta, removals, chains,
                        timer, requestId, requests, fails>>

(* Mutant: any answer for the selected device is drawn. *)
IsCurrentDevice(r) == r.dev = selected

(* Is it the last request, and for the device still selected?              *)
IsCurrent(r) == r.id = requestId /\ r.dev = selected

(* Mutant: the line of before stays when the answer is empty. *)
DrawKeeping(r) == /\ line' = IF RowsOf(r) = {} THEN line
                             ELSE {[pos |-> k, asked |-> r.adjust] : k \in RowsOf(r)}
                  /\ fate' = "drawn" /\ known' = r.read /\ loading' = FALSE

(* limpiarRecorrido, and the answer's points if there are any; of those    *)
(* asked for along the roads some may still come as they were stored.      *)
Draw(r) == /\ line' = {[pos |-> k, asked |-> r.adjust] : k \in RowsOf(r)}
           /\ fate' = "drawn" /\ known' = r.read /\ loading' = FALSE

Receive(r) == /\ r \in requests /\ r.read # Unread
              /\ requests' = requests \ {r}
              /\ IF IsCurrent(r) THEN Draw(r) ELSE UNCHANGED <<trail, loading>>
              /\ UNCHANGED <<server, wire, shown, selected, adjust, hasta, removals,
                             chains, timer, requestId, clicks, fails>>

(* Mutant: a silent catch. *)
FailedSilently == fate' = "failed" /\ known' = 0 /\ UNCHANGED loading

(* The text of the error.                                                  *)
Failed == fate' = "failed" /\ known' = 0 /\ loading' = FALSE

(* catch: the message appears even if the request was not the latest.      *)
RequestFails(r) == /\ r \in requests /\ fails < MaxFails
                   /\ fails' = fails + 1
                   /\ requests' = requests \ {r}
                   /\ Failed
                   /\ UNCHANGED <<server, wire, shown, selected, adjust, hasta, removals,
                                  chains, timer, requestId, line, clicks>>

(* With the box the line is asked for again, without it it grows at once.  *)
Extend(k) == IF adjust THEN timer' = TRUE /\ UNCHANGED line
                       ELSE line' = line \cup {[pos |-> k, asked |-> FALSE]} /\ UNCHANGED timer

(* A 'posicion' message: of an archived device, of another than the one    *)
(* selected, without a line, or live.                                      *)
Message == LET k == Head(wire) IN
           /\ wire # <<>>
           /\ wire' = Tail(wire)
           /\ shown' = IF table[k].gone THEN shown \ {table[k].dev}
                                         ELSE shown \cup {table[k].dev}
           /\ selected' = IF table[k].gone /\ table[k].dev = selected THEN None ELSE selected
           /\ IF table[k].dev = selected /\ line # {} /\ ~table[k].gone
              THEN Extend(k)
              ELSE UNCHANGED <<line, timer>>
           /\ UNCHANGED <<server, adjust, hasta, removals, chains, requestId, requests,
                          loading, fate, known, clicks, fails>>

(* programarAjusteRecorridoVivo, 1.2 s after the last live position.       *)
TimerFires == /\ timer
              /\ timer' = FALSE
              /\ IF selected = None \/ line = {}
                 THEN UNCHANGED <<hasta, requestId, requests, loading>>
                 ELSE hasta' = ThisMinute /\ Load(hasta', adjust, TRUE)
              /\ UNCHANGED <<server, wire, shown, selected, adjust, removals, chains,
                             trail, clicks, fails>>

(* An alert (app.js:1092) writes over the text, whatever it says.          *)
Alert == /\ loading
         /\ loading' = FALSE
         /\ UNCHANGED <<server, wire, shown, selected, adjust, hasta, removals, chains, timer,
                        requestId, requests, trail, clicks, fails>>

AtRest == fresh = {} /\ wire = <<>> /\ requests = {} /\ removals = {} /\ chains = 0 /\ ~timer
Idle == AtRest /\ Len(table) = MaxPositions /\ now = MaxMinute /\ clicks = MaxClicks /\ UNCHANGED viewVars

Server == Tick \/ (\E d \in Devices : Store(d)) \/ (\E k \in fresh : Publish(k))
Operator == (\E d \in Devices : Select(d)) \/ RemoveDevice \/ LoadRange \/ ToggleAdjust \/ Clear
Network == \E r \in requests : Read(r) \/ Receive(r) \/ RequestFails(r)
Browser == SelectionLoads \/ Removed \/ RemovalFails \/ Message \/ TimerFires

Next == Server \/ Operator \/ Network \/ Browser \/ Alert \/ Idle

Spec == ViewInit /\ [][Next]_viewVars

(* The event loop and the timer of the browser, and a server that answers. *)
FairSpec == Spec /\ WF_viewVars(Browser) /\ WF_viewVars(Network)

-----------------------------------------------------------------------------
(* Types of the variables.                                                 *)
ViewTypeOK == /\ table \in Seq(Entries) /\ Len(table) <= MaxPositions
              /\ shown \subseteq Devices /\ archived \subseteq Devices /\ removals \subseteq Devices
              /\ fresh \subseteq 1 .. Len(table)
              /\ wire \in Seq(1 .. Len(table))
              /\ selected \in Devices \cup {None}
              /\ requests \subseteq Requests
              /\ line \subseteq LinePoints /\ \A p \in line : p.pos <= Len(table)
              /\ loading \in BOOLEAN /\ fate \in {"none", "drawn", "failed"}
              /\ known \in 0 .. Len(table)
              /\ now \in 0 .. MaxMinute /\ hasta \in 0 .. MaxMinute
              /\ adjust \in BOOLEAN /\ timer \in BOOLEAN
              /\ requestId \in Nat /\ chains \in Nat /\ clicks \in Nat /\ fails \in Nat

(* The line of the device selected before stays, and may grow with points  *)
(* of the new one (app.js:1042), but only until its own arrives: at rest,  *)
(* unless loading it failed, every point is the selected device's.         *)
LineIsOfTheSelected == AtRest /\ selected # None /\ fate # "failed" =>
                           \A p \in line : table[p.pos].dev = selected

(* "no se anexan temporalmente como una línea cruda fuera del camino"      *)
(* (MEJORAS_GPS.md:105): with the box checked every point at rest came in  *)
(* an answer that was asked for along the roads, none as a live position   *)
(* or in an answer from before the box was checked, whatever was under way *)
(* then.  What the router could not adjust is in such an answer as it was. *)
AllAskedOnRoads == AtRest /\ selected # None /\ adjust /\ fate # "failed" =>
                       \A p \in line : p.asked

(* The end of the range has no seconds (app.js:979), so what a reload is   *)
(* for may fall outside it; no more than the minute under way is missing   *)
(* of what came before it was over: whichever answers and messages         *)
(* overlapped, the line at rest, or its absence, has all the positions of  *)
(* its device before that end which came in time, and those from a buffer  *)
(* that were there when it was read.  One that is sent late and comes      *)
(* after that may be missing until the next load: while there is no line   *)
(* it does not ask for one (app.js:1042), and an answer that was read      *)
(* before replaces a line that has it.                                     *)
PastMinutesAreDrawn == AtRest /\ fate = "drawn" =>
    \A k \in 1 .. Len(table) :
        table[k].dev = selected /\ table[k].minute < hasta /\ (table[k].late => k <= known)
        => \E p \in line : p.pos = k

(* A selection, and every live position after it, comes to rest: no answer *)
(* asks for the next one, and none is awaited for ever, unless the answer  *)
(* to a removal has deselected the device that was loading (app.js:1273).  *)
PanelComesToRest == <>[](chains = 0 /\ requests = {} /\ removals = {} /\ ~timer
                         /\ (loading => selected = None))
=============================================================================
