---------------------------- MODULE PositionIngest ----------------------------
(***************************************************************************)
(* From the bytes of a tracker to the positions table and the bus: the     *)
(* queue of each socket (tcp/server.js), processDecoded and savePosition   *)
(* (ingest/pipeline.js), the device cache and the inserts (db/repo.js),    *)
(* for one device.                                                         *)
(*                                                                         *)
(* A frame is a task of its socket's promise chain; every await of it is   *)
(* the end of a step, so the steps of different sockets, of the operator   *)
(* who archives the device and of the cache's clock interleave.            *)
(* CommandDispatch has what a login and a text answer do to commands, and  *)
(* SpeedAlert what follows the publication of a position.                  *)
(***************************************************************************)
EXTENDS Naturals, Sequences, FiniteSets

CONSTANTS Sockets,     \* connections of the device, each used once
          Times,       \* device times it stamps on its positions, NoTime among them or not
          NoTime,      \* a position without a legible time (device_time NULL)
          Kinds,       \* kinds of frame it sends
          Batches,     \* the times of the two positions of a batch
          MaxFrames,   \* bound: frames received
          MaxEvents    \* bound: failed queries, crashes, archivings and restorations

ASSUME KindsAssumption == Kinds \subseteq {"login", "status", "fix", "alarm", "batch"}
ASSUME BatchesAssumption == Batches \subseteq Times \X Times
ASSUME BoundsAssumption == MaxFrames \in Nat /\ MaxEvents \in Nat

VARIABLES socket,    \* "open" or "gone"
          session,   \* session.device: the row as last read, or "none"
          task,      \* the frames, in the order they were received
          row,       \* the row of the device in the table: its visibility
          cache,     \* deviceCache: for each key the row it holds, or "none"
          clearing,  \* an archiving or restoration has yet to clear the cache
          rows,      \* the positions table, in id order
          lost,      \* history: positions whose INSERT failed: <<frame, item>>
          bus,       \* what was published, in order
          changes, faults

vars == <<socket, session, task, row, cache, clearing, rows, lost, bus, changes, faults>>

(* GT06 names the device only in its login; every JT808 frame does.        *)
Named     == {"login", "batch"}
Answered  == {"login", "status", "alarm", "batch"}
Reporting == {"status", "alarm", "fix"}   \* frames that carry telemetry: of a batch
                                          \* only the items have attributes
Keys      == {"imei", "terminal"}   \* getOrCreateDevice, resolveDeviceByTerminalId
Keeping(kind) == IF kind = "batch" THEN "terminal" ELSE "imei"

(* A 0x0704 carries several positions, a fix or an alarm one.              *)
Stamps(kind) == CASE kind = "batch" -> Batches
                  [] kind \in {"fix", "alarm"} -> {<<t>> : t \in Times}
                  [] OTHER -> {<<>>}

(* An empty database: the device is registered by its first frame.         *)
Init == /\ socket = [s \in Sockets |-> "open"]
        /\ session = [s \in Sockets |-> "none"]
        /\ task = <<>>
        /\ row = "absent"
        /\ cache = [k \in Keys |-> "none"]
        /\ clearing = FALSE
        /\ rows = <<>> /\ lost = {} /\ bus = <<>>
        /\ changes = 0 /\ faults = 0

(* One of the MaxEvents is still to happen.                                *)
Disturbable == changes + faults < MaxEvents

-----------------------------------------------------------------------------
(* Sockets. *)

(* A complete frame of the socket joins its queue.                         *)
Receive(s) ==
    /\ socket[s] = "open" /\ Len(task) < MaxFrames
    /\ \E kind \in Kinds : \E stamps \in Stamps(kind) :
          task' = Append(task, [socket |-> s, kind |-> kind, stamps |-> stamps,
                                pc |-> "waiting", item |-> 1, device |-> "none",
                                touched |-> FALSE, began |-> 0, acked |-> FALSE])
    /\ UNCHANGED <<socket, session, row, cache, clearing, rows, lost, bus, changes, faults>>

(* Timeout, error or the peer: what is queued is still processed.          *)
Disconnect(s) == /\ socket[s] = "open"
                 /\ socket' = [socket EXCEPT ![s] = "gone"]
                 /\ UNCHANGED <<session, task, row, cache, clearing, rows, lost, bus, changes, faults>>

-----------------------------------------------------------------------------
(* One frame. *)

Settled == {"done", "failed", "lost"}

(* Mutant: a rejected frame is not caught and the chain stops there. *)
FinishedWithoutCatch(i) == task[i].pc \in {"done", "lost"}

Finished(i) == task[i].pc \in Settled

(* Mutant: the frames of a socket are handled as they come. *)
AnyTurn(i) == i > 0

(* The promise chain: the frames before it on its socket have finished.    *)
Turn(i) == \A j \in 1 .. i - 1 : task[j].socket = task[i].socket => Finished(j)

At(i, pc) == task[i].pc = pc
Goto(i, pc) == task' = [task EXCEPT ![i].pc = pc]

(* The positions, then the event of an alarm, then the reply.              *)
AfterItem(i, n) == IF n <= Len(task[i].stamps) THEN "store"
                   ELSE IF task[i].kind = "alarm" THEN "alarm" ELSE "reply"
Positions(i) == AfterItem(i, task[i].item)
AfterTouch(i) == IF task[i].kind \in Reporting THEN "telemetry" ELSE Positions(i)

(* decodeFrame, and the start of processDecoded up to its first await.     *)
Attribute(i, d) ==
    /\ task' = [task EXCEPT ![i].pc = "touch", ![i].device = d, ![i].began = changes]
    /\ session' = [session EXCEPT ![task[i].socket] = d]

BeginNamed(i) ==
    /\ At(i, "waiting") /\ Turn(i) /\ task[i].kind \in Named
    /\ \/ cache[Keeping(task[i].kind)] # "none" /\ Attribute(i, cache[Keeping(task[i].kind)])
       \/ /\ cache[Keeping(task[i].kind)] = "none"
          /\ task' = [task EXCEPT ![i].pc = IF task[i].kind = "batch" THEN "lookup" ELSE "select",
                                  ![i].began = changes]
          /\ UNCHANGED session
    /\ UNCHANGED <<socket, row, cache, clearing, rows, lost, bus, changes, faults>>

(* A frame without an identity belongs to the device of its session; with  *)
(* none it is recorded as trama_sin_identificar and only answered.         *)
BeginUnnamed(i) ==
    /\ At(i, "waiting") /\ Turn(i) /\ task[i].kind \notin Named
    /\ LET d == session[task[i].socket]
       IN task' = [task EXCEPT ![i].pc = IF d = "none" THEN "reply" ELSE "touch",
                               ![i].device = d, ![i].began = changes]
    /\ UNCHANGED <<socket, session, row, cache, clearing, rows, lost, bus, changes, faults>>

(* The row was read or created under these keys of the cache.              *)
Found(i, d, keys) ==
    /\ cache' = [k \in Keys |-> IF k \in keys THEN d ELSE cache[k]]
    /\ task' = [task EXCEPT ![i].pc = "touch", ![i].device = d]
    /\ session' = [session EXCEPT ![task[i].socket] = d]

(* resolveDeviceByTerminalId: the exact match and the suffix search.       *)
Lookup(i) ==
    /\ At(i, "lookup")
    /\ \/ row # "absent" /\ Found(i, row, {"terminal"})
       \/ row = "absent" /\ Goto(i, "select") /\ UNCHANGED <<cache, session>>
    /\ UNCHANGED <<socket, row, clearing, rows, lost, bus, changes, faults>>

(* getOrCreateDevice: the SELECT and, without a row, the upsert.           *)
Select(i) ==
    /\ At(i, "select")
    /\ \/ row # "absent" /\ Found(i, row, {"imei", Keeping(task[i].kind)})
       \/ row = "absent" /\ Goto(i, "register") /\ UNCHANGED <<cache, session>>
    /\ UNCHANGED <<socket, row, clearing, rows, lost, bus, changes, faults>>

Register(i) ==
    /\ At(i, "register")
    /\ row' = IF row = "absent" THEN "listed" ELSE row
    /\ Found(i, row', {"imei", Keeping(task[i].kind)})
    /\ UNCHANGED <<socket, clearing, rows, lost, bus, changes, faults>>

(* The resolution fails: the frame is abandoned, without a reply.          *)
ResolveFails(i) ==
    /\ task[i].pc \in {"lookup", "select", "register"}
    /\ Disturbable
    /\ faults' = faults + 1
    /\ Goto(i, "failed")
    /\ UNCHANGED <<socket, session, row, cache, clearing, rows, lost, bus, changes>>

(* Mutant: the row that touchDevice returns is not taken. *)
RefreshedDiscarded(i) == task[i].device

(* touchDevice returns the row as it is now.                               *)
Refreshed(i) == row

Touch(i) ==
    /\ At(i, "touch")
    /\ task' = [task EXCEPT ![i].pc = AfterTouch(i), ![i].device = Refreshed(i),
                            ![i].touched = TRUE]
    /\ session' = [session EXCEPT ![task[i].socket] = Refreshed(i)]
    /\ UNCHANGED <<socket, row, cache, clearing, rows, lost, bus, changes, faults>>

(* A failed touch is logged; the frame goes on with the row it had.        *)
TouchFails(i) ==
    /\ At(i, "touch")
    /\ Disturbable
    /\ faults' = faults + 1
    /\ Goto(i, AfterTouch(i))
    /\ UNCHANGED <<socket, session, row, cache, clearing, rows, lost, bus, changes>>

Message(i, tipo, r) == [tipo |-> tipo, frame |-> i, row |-> r, device |-> task[i].device]

Telemetry(i) ==
    /\ At(i, "telemetry")
    /\ bus' = Append(bus, Message(i, "telemetry", 0))
    /\ Goto(i, Positions(i))
    /\ UNCHANGED <<socket, session, row, cache, clearing, rows, lost, changes, faults>>

(* A failed update is logged: nothing is published.                        *)
TelemetryFails(i) ==
    /\ At(i, "telemetry")
    /\ Disturbable
    /\ faults' = faults + 1
    /\ Goto(i, Positions(i))
    /\ UNCHANGED <<socket, session, row, cache, clearing, rows, lost, bus, changes>>

-----------------------------------------------------------------------------
(* savePosition. *)

Stamp(i) == task[i].stamps[task[i].item]

(* Mutant: without the unique index on (device_id, device_time). *)
NeverDuplicate(i) == i = 0

(* ON CONFLICT (device_id, device_time): NULL conflicts with nothing.      *)
Duplicate(i) == Stamp(i) # NoTime /\ \E r \in 1 .. Len(rows) : rows[r].stamp = Stamp(i)

Insert(i) == rows' = Append(rows, [stamp |-> Stamp(i), frame |-> i, item |-> task[i].item])

(* Mutant: the last item of a batch is left out. *)
NextItemOffByOne(i) ==
    task' = [task EXCEPT ![i].item = @ + 1, ![i].pc = AfterItem(i, task[i].item + 2)]

NextItem(i) ==
    task' = [task EXCEPT ![i].item = @ + 1, ![i].pc = AfterItem(i, task[i].item + 1)]

(* Mutant: a position is announced only while its connection is there. *)
AfterInsertIfOpen(i) ==
    IF socket[task[i].socket] = "open" THEN "publish" ELSE "reply"

AfterInsert(i) == "publish"

StorePosition(i) ==
    /\ At(i, "store")
    /\ \/ Duplicate(i) /\ NextItem(i) /\ UNCHANGED rows
       \/ ~Duplicate(i) /\ Insert(i) /\ Goto(i, AfterInsert(i))
    /\ UNCHANGED <<socket, session, row, cache, clearing, lost, bus, changes, faults>>

(* The INSERT fails, before or after its effect was committed: it is       *)
(* logged and the frame goes on.                                           *)
StoreFails(i) ==
    /\ At(i, "store")
    /\ Disturbable
    /\ faults' = faults + 1
    /\ lost' = lost \cup {<<i, task[i].item>>}
    /\ UNCHANGED rows \/ (~Duplicate(i) /\ Insert(i))
    /\ NextItem(i)
    /\ UNCHANGED <<socket, session, row, cache, clearing, bus, changes>>

(* Mutant: of a batch the first row is announced each time. *)
InsertedFirst(i) == {r \in 1 .. Len(rows) :
                       /\ rows[r].frame = i
                       /\ \A q \in 1 .. Len(rows) : rows[q].frame = i => r <= q}

(* The row that this frame has just inserted.                              *)
Inserted(i) == {r \in 1 .. Len(rows) : rows[r].frame = i /\ rows[r].item = task[i].item}

(* After getCurrentMovementState, which never fails here: 'position'.      *)
PublishPosition(i) ==
    /\ At(i, "publish")
    /\ \E r \in Inserted(i) : bus' = Append(bus, Message(i, "position", r))
    /\ NextItem(i)
    /\ UNCHANGED <<socket, session, row, cache, clearing, rows, lost, changes, faults>>

(* guardadas[0]: the position of the alarm, when it was stored.            *)
Saved(i) == {r \in 1 .. Len(rows) : rows[r].frame = i /\ <<i, rows[r].item>> \notin lost}

(* insertEvent, whose failure is logged, and the alert.                    *)
RaiseAlarm(i) ==
    /\ At(i, "alarm")
    /\ \E r \in IF Saved(i) = {} THEN {0} ELSE Saved(i) :
          bus' = Append(bus, Message(i, "alert", r))
    /\ Goto(i, "reply")
    /\ UNCHANGED <<socket, session, row, cache, clearing, rows, lost, changes, faults>>

(* The reply, unless there is none or the socket was destroyed.  A write   *)
(* that fails is logged.                                                   *)
Reply(i) ==
    /\ At(i, "reply")
    /\ \E written \in BOOLEAN :
          /\ written => task[i].kind \in Answered /\ socket[task[i].socket] = "open"
          /\ task' = [task EXCEPT ![i].pc = "done", ![i].acked = written]
    /\ UNCHANGED <<socket, session, row, cache, clearing, rows, lost, bus, changes, faults>>

-----------------------------------------------------------------------------
(* The operator, the cache's clock, and the process. *)

(* DELETE /devices/:imei: archiveDevice's UPDATE.                          *)
Archive == /\ row = "listed" /\ ~clearing /\ Disturbable
           /\ row' = "archived" /\ clearing' = TRUE /\ changes' = changes + 1
           /\ UNCHANGED <<socket, session, task, cache, rows, lost, bus, faults>>

(* POST /devices: createOrRestoreDevice's upsert.                          *)
Restore == /\ row # "listed" /\ ~clearing /\ Disturbable
           /\ row' = "listed" /\ clearing' = TRUE /\ changes' = changes + 1
           /\ UNCHANGED <<socket, session, task, cache, rows, lost, bus, faults>>

(* clearDeviceCache, when the query has returned.                          *)
ClearCache == /\ clearing
              /\ clearing' = FALSE
              /\ cache' = [k \in Keys |-> "none"]
              /\ UNCHANGED <<socket, session, task, row, rows, lost, bus, changes, faults>>

(* CACHE_TTL_MS has passed for an entry.                                   *)
CacheExpires(k) == /\ cache[k] # "none"
                   /\ cache' = [cache EXCEPT ![k] = "none"]
                   /\ UNCHANGED <<socket, session, task, row, clearing, rows, lost, bus, changes, faults>>

(* The process dies and starts again: the sockets in use are gone.         *)
Crash ==
    /\ Disturbable
    /\ faults' = faults + 1
    /\ socket' = [s \in Sockets |-> IF \E i \in 1 .. Len(task) : task[i].socket = s
                                  THEN "gone" ELSE socket[s]]
    /\ session' = [s \in Sockets |-> "none"]
    /\ task' = [i \in 1 .. Len(task) |->
                  IF Finished(i) THEN task[i] ELSE [task[i] EXCEPT !.pc = "lost"]]
    /\ cache' = [k \in Keys |-> "none"]
    /\ clearing' = FALSE
    /\ UNCHANGED <<row, rows, lost, bus, changes>>

Step(i) == \/ BeginNamed(i) \/ BeginUnnamed(i) \/ Lookup(i) \/ Select(i) \/ Register(i)
           \/ Touch(i) \/ Telemetry(i) \/ StorePosition(i) \/ PublishPosition(i)
           \/ RaiseAlarm(i) \/ Reply(i)

Fault(i) == ResolveFails(i) \/ TouchFails(i) \/ TelemetryFails(i) \/ StoreFails(i)

Next == \/ \E s \in Sockets : Receive(s) \/ Disconnect(s)
        \/ \E i \in 1 .. Len(task) : Step(i) \/ Fault(i)
        \/ Archive \/ Restore \/ ClearCache \/ Crash
        \/ \E k \in Keys : CacheExpires(k)

Spec == Init /\ [][Next]_vars

-----------------------------------------------------------------------------
(* Properties. *)

Visibility == {"listed", "archived"}
Places == {"waiting", "lookup", "select", "register", "touch", "telemetry", "store",
           "publish", "alarm", "reply"} \cup Settled

Tasks == [socket : Sockets, kind : Kinds, stamps : Seq(Times), pc : Places, item : 1 .. 3,
          device : Visibility \cup {"none"}, touched : BOOLEAN, began : 0 .. MaxEvents,
          acked : BOOLEAN]
Rows == [stamp : Times, frame : 1 .. MaxFrames, item : 1 .. 2]
Messages == [tipo : {"telemetry", "position", "alert"}, frame : 1 .. MaxFrames,
             row : Nat, device : Visibility]

(* Types of the variables.                                                 *)
TypeOK ==
    /\ socket \in [Sockets -> {"open", "gone"}]
    /\ session \in [Sockets -> Visibility \cup {"none"}]
    /\ task \in Seq(Tasks) /\ Len(task) <= MaxFrames
    /\ row \in Visibility \cup {"absent"}
    /\ cache \in [Keys -> Visibility \cup {"none"}]
    /\ clearing \in BOOLEAN
    /\ rows \in Seq(Rows)
    /\ lost \subseteq (1 .. MaxFrames) \X (1 .. 2)
    /\ bus \in Seq(Messages)
    /\ changes \in Nat /\ faults \in Nat /\ changes + faults <= MaxEvents

(* "las tramas de un mismo socket se procesan en orden ... Sin esto, dos   *)
(* posiciones seguidas podrían escribirse invertidas" (server.js:43): the  *)
(* positions of one socket are in the table in the order it sent them.     *)
RowsInOrder ==
    \A p, q \in 1 .. Len(rows) :
        p < q /\ task[rows[p].frame].socket = task[rows[q].frame].socket
        => \/ rows[p].frame < rows[q].frame
           \/ rows[p].frame = rows[q].frame /\ rows[p].item < rows[q].item

(* The retransmission of the offline buffer, on whichever socket it comes, *)
(* never makes a second row of one device time.                            *)
NoDuplicateRows ==
    \A p, q \in 1 .. Len(rows) :
        rows[p].stamp = rows[q].stamp /\ rows[p].stamp # NoTime => p = q

(* A frame that was attributed and answered left each of its positions in  *)
(* the table, in this frame or an earlier one, unless that INSERT failed:  *)
(* the reply is no promise about a failing database, and nothing else is   *)
(* dropped.                                                                *)
AckedIsStored ==
    \A i \in 1 .. Len(task) : task[i].acked /\ task[i].device # "none" =>
        \A n \in 1 .. Len(task[i].stamps) :
            \/ <<i, n>> \in lost
            \/ \E r \in 1 .. Len(rows) : rows[r].stamp = task[i].stamps[n]

Announcements(r) == {m \in 1 .. Len(bus) : bus[m].tipo = "position" /\ bus[m].row = r}

(* Every row is announced to the interface once and, when no query failed  *)
(* and the process did not die, all of them are.                           *)
RowsArePublishedOnce ==
    \A r \in 1 .. Len(rows) :
        /\ Cardinality(Announcements(r)) <= 1
        /\ faults = 0 /\ Announcements(r) = {} => task[rows[r].frame].pc = "publish"

(* "Así un equipo recién archivado no reaparece en la interfaz al mandar   *)
(* su siguiente posición, aunque conserve abierta la misma sesión TCP"     *)
(* (pipeline.js:62): what a frame publishes carries the visibility the     *)
(* device has, if the touch did not fail and nobody changed it since the   *)
(* frame began; the sessions and the cache may be older than that.         *)
ArchivedStaysHidden ==
    [][bus' # bus =>
         LET m == bus'[Len(bus')] IN
         task[m.frame].touched /\ task[m.frame].began = changes => m.device = row]_vars

(* A frame whose query fails does not stop the queue of its socket         *)
(* (server.js:76): as long as a frame is unfinished, some frame of its     *)
(* socket can go on.                                                       *)
SocketNeverStalls ==
    \A i \in 1 .. Len(task) : task[i].pc \notin Settled =>
        \E j \in 1 .. Len(task) : task[j].socket = task[i].socket /\ ENABLED Step(j)
-----------------------------------------------------------------------------
(* The frames, their positions and the announcements behave as             *)
(* PositionJournal promises: what the answer to the tracker is worth.      *)
Received  == [i \in 1 .. Len(task) |-> [socket |-> task[i].socket, stamps |-> task[i].stamps]]
Announced == {bus[m].row : m \in {k \in 1 .. Len(bus) : bus[k].tipo = "position"}}
Replied   == {i \in 1 .. Len(task) : task[i].acked /\ task[i].device # "none"}

Journal == INSTANCE PositionJournal
              WITH MaxItems <- 2, received <- Received, journal <- rows, missed <- lost,
                   announced <- Announced, answered <- Replied
ImplementsJournal == Journal!Spec
=============================================================================
