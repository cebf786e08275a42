-------------------------- MODULE CommandDispatch --------------------------
(***************************************************************************)
(* The remote command channel: commands/dispatcher.js, the queries of      *)
(* db/repo.js it runs, the POST handler that queues a command              *)
(* (web/routes.js), and the part of tcp/server.js that answers a login,    *)
(* registers the socket and forgets it when it closes.                     *)
(*                                                                         *)
(* Everything runs on one event loop, so a step is what happens between    *)
(* two awaits.  Two kinds of actors call flushDeviceCommands: a socket     *)
(* (its frame queue `cola', after a login) and the HTTP request that       *)
(* created a command, named by the row it inserted.  A row is its id; the  *)
(* random unique server_flag is as good as the id.  The INSERT and the     *)
(* visibility of its id are one step.                                      *)
(*                                                                         *)
(* `overdue' stands for the clock: it holds the rows for which             *)
(* expireDeviceCommands' condition is true (seven days since created, or   *)
(* ten minutes since sent).                                                *)
(***************************************************************************)
EXTENDS Naturals, FiniteSets, Sequences

CONSTANTS Devices,     \* IMEIs
          Sockets,     \* TCP connections, each used once
          Cmds,        \* ids of device_commands, in INSERT order
          Logins,      \* <<socket, IMEI>>: who may log in over which socket
          BatchLimit,  \* LIMIT of getQueuedDeviceCommands
          Expirable,   \* bound: the rows whose deadline may pass
          MaxFrames,   \* bound: frames a device sends over one socket
          MaxFaults,   \* bound: crashes and failed queries
          NoDevice, NoSocket

ASSUME CmdsAssumption == Cmds \subseteq Nat
ASSUME ActorsAssumption == Sockets \cap Cmds = {}
ASSUME LoginsAssumption == Logins \subseteq Sockets \X Devices
ASSUME BoundsAssumption == /\ BatchLimit \in Nat
                           /\ MaxFrames \in Nat
                           /\ MaxFaults \in Nat
ASSUME NoneAssumption == NoDevice \notin Devices /\ NoSocket \notin Sockets

VARIABLES sock,         \* life of each socket, as `socket.destroyed' sees it
          cola,         \* frames received and not fully handled, per socket
          received,     \* frames received so far, per socket
          imeiOf,       \* session.imei of each socket
          wire,         \* what was written to each socket, in order
          connections,  \* the dispatcher's Map: IMEI -> socket
          pc,           \* where each actor is waiting
          target,       \* connection.socket captured by a running flush
          batch,        \* rows selected by a running flush and not yet done
          cmdDev,       \* device_commands.device_id
          status,       \* device_commands.status, "none" before the INSERT
          overdue,
          lostMark,     \* history: written rows whose mark was never applied
          faults

vars == <<sock, cola, received, imeiOf, wire, connections, pc, target, batch,
          cmdDev, status, overdue, lostMark, faults>>
socketVars == <<sock, cola, received, imeiOf, wire, connections>>
flushVars  == <<pc, target, batch>>
rowVars    == <<cmdDev, status, overdue>>

Actors == Sockets \cup Cmds

Login(d)     == [type |-> "login", imei |-> d]
Answer(c, r) == [type |-> "answer", cmd |-> c, result |-> r]
Results      == {"acknowledged", "failed"}
Frames == {Login(d) : d \in Devices} \cup {Answer(c, r) : c \in Cmds, r \in Results}

Ack       == [type |-> "ack"]
Command(c) == [type |-> "command", cmd |-> c]
Outgoing  == {Ack} \cup {Command(c) : c \in Cmds}

Pending  == {"queued", "sent"}
Terminal == {"acknowledged", "failed", "expired"}

Written(s, c) == \E i \in 1 .. Len(wire[s]) : wire[s][i] = Command(c)
Transmitted   == {c \in Cmds : \E s \in Sockets : Written(s, c)}

Init == /\ sock = [s \in Sockets |-> "new"]
        /\ cola = [s \in Sockets |-> <<>>]
        /\ received = [s \in Sockets |-> 0]
        /\ imeiOf = [s \in Sockets |-> NoDevice]
        /\ wire = [s \in Sockets |-> <<>>]
        /\ connections = [d \in Devices |-> NoSocket]
        /\ pc = [a \in Actors |-> "idle"]
        /\ target = [a \in Actors |-> NoSocket]
        /\ batch = [a \in Actors |-> {}]
        /\ cmdDev = [c \in Cmds |-> NoDevice]
        /\ status = [c \in Cmds |-> "none"]
        /\ overdue = {}
        /\ lostMark = {}
        /\ faults = 0

-----------------------------------------------------------------------------
(* The devices and the network. *)

Connect(s) ==
    /\ sock[s] = "new"
    /\ sock' = [sock EXCEPT ![s] = "open"]
    /\ UNCHANGED <<cola, received, imeiOf, wire, connections, flushVars, rowVars,
                   lostMark, faults>>

Receive(s, frame) ==
    /\ sock[s] = "open"
    /\ received[s] < MaxFrames
    /\ received' = [received EXCEPT ![s] = @ + 1]
    /\ cola' = [cola EXCEPT ![s] = Append(@, frame)]
    /\ UNCHANGED <<sock, imeiOf, wire, connections, flushVars, rowVars, lostMark, faults>>

(* A device logs in, or answers a command it was ever sent, on any of its  *)
(* connections and as often as it likes.                                   *)
ReceiveLogin(s) == \E d \in Devices : <<s, d>> \in Logins /\ Receive(s, Login(d))
ReceiveAnswer(s) ==
    \E c \in Transmitted, r \in Results :
        <<s, cmdDev[c]>> \in Logins /\ Receive(s, Answer(c, r))

(* The peer resets, or the socket times out: `socket.destroyed' is true    *)
(* from now on and the 'close' event is still to come.                     *)
Destroy(s) ==
    /\ sock[s] = "open"
    /\ sock' = [sock EXCEPT ![s] = "destroyed"]
    /\ UNCHANGED <<cola, received, imeiOf, wire, connections, flushVars, rowVars,
                   lostMark, faults>>

(* Mutant: the registry forgets the device whichever socket closed. *)
CloseEventForgetsDevice(s) ==
    LET d == imeiOf[s] IN
    /\ sock[s] = "destroyed"
    /\ sock' = [sock EXCEPT ![s] = "closed"]
    /\ connections' = IF d # NoDevice THEN [connections EXCEPT ![d] = NoSocket]
                                      ELSE connections
    /\ UNCHANGED <<cola, received, imeiOf, wire, flushVars, rowVars, lostMark, faults>>

(* The 'close' event: unregisterDeviceConnection(session.imei, socket).    *)
CloseEvent(s) ==
    LET d == imeiOf[s] IN
    /\ sock[s] = "destroyed"
    /\ sock' = [sock EXCEPT ![s] = "closed"]
    /\ connections' = IF d # NoDevice /\ connections[d] = s
                      THEN [connections EXCEPT ![d] = NoSocket] ELSE connections
    /\ UNCHANGED <<cola, received, imeiOf, wire, flushVars, rowVars, lostMark, faults>>

(* The condition of expireDeviceCommands becomes true of a pending row.    *)
DeadlinePasses(c) ==
    /\ status[c] \in Pending
    /\ c \in Expirable \ overdue
    /\ overdue' = overdue \cup {c}
    /\ UNCHANGED <<socketVars, flushVars, cmdDev, status, lostMark, faults>>

-----------------------------------------------------------------------------
(* An actor leaves its handler: a socket takes the next frame of its queue *)
(* and a request has answered its client.                                  *)
Finish(a) ==
    /\ pc' = [pc EXCEPT ![a] = IF a \in Sockets THEN "idle" ELSE "done"]
    /\ target' = [target EXCEPT ![a] = NoSocket]
    /\ batch' = [batch EXCEPT ![a] = {}]
    /\ cola' = [s \in Sockets |-> IF s = a THEN Tail(cola[s]) ELSE cola[s]]

(* The synchronous head of flushDeviceCommands: `connections.get(imei)' is *)
(* captured and the first query is on its way.                             *)
StartFlush(a, s) ==
    /\ pc' = [pc EXCEPT ![a] = "expire"]
    /\ target' = [target EXCEPT ![a] = s]
    /\ UNCHANGED <<batch, cola>>

(* The device whose queue an actor flushes. *)
DeviceOf(a) == IF a \in Sockets THEN Head(cola[a]).imei ELSE cmdDev[a]

(* Mutant: the socket is registered as soon as the login is decoded. *)
ProcessLoginRegistering(s) ==
    /\ pc[s] = "idle"
    /\ cola[s] # <<>> /\ Head(cola[s]).type = "login"
    /\ imeiOf' = [imeiOf EXCEPT ![s] = Head(cola[s]).imei]
    /\ connections' = [connections EXCEPT ![Head(cola[s]).imei] = s]
    /\ pc' = [pc EXCEPT ![s] = "ack"]
    /\ UNCHANGED <<sock, cola, received, wire, target, batch, rowVars, lostMark, faults>>

(* manejarTrama, login: processDecoded has resolved the device and set     *)
(* session.imei.  This goes on after the socket has been destroyed.        *)
ProcessLogin(s) ==
    /\ pc[s] = "idle"
    /\ cola[s] # <<>> /\ Head(cola[s]).type = "login"
    /\ imeiOf' = [imeiOf EXCEPT ![s] = Head(cola[s]).imei]
    /\ pc' = [pc EXCEPT ![s] = "ack"]
    /\ UNCHANGED <<sock, cola, received, wire, connections, target, batch, rowVars,
                   lostMark, faults>>

(* The reply is written if the socket is still there; a write error is     *)
(* only logged.                                                            *)
WriteAck(s) ==
    /\ pc[s] = "ack"
    /\ wire' = IF sock[s] = "open" THEN [wire EXCEPT ![s] = Append(@, Ack)] ELSE wire
    /\ pc' = [pc EXCEPT ![s] = "register"]
    /\ UNCHANGED <<sock, cola, received, imeiOf, connections, target, batch, rowVars,
                   lostMark, faults>>

(* Mutant: the socket is registered and its queue is not looked at. *)
RegisterOnly(s) ==
    /\ pc[s] = "register"
    /\ connections' = IF sock[s] = "open"
                      THEN [connections EXCEPT ![Head(cola[s]).imei] = s] ELSE connections
    /\ Finish(s)
    /\ UNCHANGED <<sock, received, imeiOf, wire, rowVars, lostMark, faults>>

(* registerDeviceConnection, after the reply's callback. *)
Register(s) ==
    /\ pc[s] = "register"
    /\ IF sock[s] = "open"
       THEN /\ connections' = [connections EXCEPT ![Head(cola[s]).imei] = s]
            /\ StartFlush(s, s)
       ELSE Finish(s) /\ UNCHANGED connections
    /\ UNCHANGED <<sock, received, imeiOf, wire, rowVars, lostMark, faults>>

(* Mutant: the answer is applied whatever the state of the row. *)
ResolveAny(c, r) == r

(* resolveDeviceCommand on a row: only a pending one takes the answer. *)
Resolve(c, r) == IF status[c] \in Pending THEN r ELSE status[c]

(* A text frame carries no IMEI: without a login before it on the same     *)
(* socket it is not attributed and its answer is dropped.  The row is      *)
(* found by its flag alone.                                                *)
ProcessAnswer(s) ==
    LET frame == Head(cola[s]) IN
    /\ pc[s] = "idle"
    /\ cola[s] # <<>> /\ frame.type = "answer"
    /\ status' = IF imeiOf[s] = NoDevice THEN status
                 ELSE [status EXCEPT ![frame.cmd] = Resolve(frame.cmd, frame.result)]
    /\ cola' = [cola EXCEPT ![s] = Tail(@)]
    /\ UNCHANGED <<sock, received, imeiOf, wire, connections, flushVars, cmdDev, overdue,
                   lostMark, faults>>

-----------------------------------------------------------------------------
(* The HTTP request that creates row c. *)

(* createWithUniqueFlag: rows get their ids in order. *)
CreateCommand(c) ==
    /\ pc[c] = "idle"
    /\ \A b \in Cmds : b < c => status[b] # "none"
    /\ \E d \in Devices : cmdDev' = [cmdDev EXCEPT ![c] = d]
    /\ status' = [status EXCEPT ![c] = "queued"]
    /\ pc' = [pc EXCEPT ![c] = "created"]
    /\ UNCHANGED <<socketVars, target, batch, overdue, lostMark, faults>>

IsDeviceOnline(d) == connections[d] # NoSocket /\ sock[connections[d]] = "open"

(* queueDeviceCommand after the INSERT: flush only if the device is online *)
(* now; the final read of the row is left out.                             *)
FlushIfOnline(c) ==
    /\ pc[c] = "created"
    /\ IF IsDeviceOnline(cmdDev[c]) THEN StartFlush(c, connections[cmdDev[c]])
                                    ELSE Finish(c)
    /\ UNCHANGED <<sock, received, imeiOf, wire, connections, rowVars, lostMark, faults>>

-----------------------------------------------------------------------------
(* flushDeviceCommands, by any actor. *)

Expired == [c \in Cmds |-> IF c \in overdue /\ status[c] \in Pending
                           THEN "expired" ELSE status[c]]

FlushExpire(a) ==
    /\ pc[a] = "expire"
    /\ status' = Expired
    /\ pc' = [pc EXCEPT ![a] = "select"]
    /\ UNCHANGED <<socketVars, target, batch, cmdDev, overdue, lostMark, faults>>

(* Mutant: the queue of every device. *)
QueuedOfAnyDevice(d) == {c \in Cmds : status[c] = "queued" /\ c \notin overdue}

Queued(d) == {c \in Cmds : cmdDev[c] = d /\ status[c] = "queued" /\ c \notin overdue}

(* ORDER BY id ASC LIMIT BatchLimit. *)
Oldest(S) == {c \in S : Cardinality({b \in S : b < c}) < BatchLimit}

FlushSelect(a) ==
    /\ pc[a] = "select"
    /\ batch' = [batch EXCEPT ![a] = Oldest(Queued(DeviceOf(a)))]
    /\ pc' = [pc EXCEPT ![a] = "send"]
    /\ UNCHANGED <<socketVars, target, rowVars, lostMark, faults>>

(* Mutant: ORDER BY id DESC. *)
Newest(S) == CHOOSE c \in S : \A b \in S : b <= c

First(S) == CHOOSE c \in S : \A b \in S : c <= b

(* The next row of the batch is written, unless the captured socket died.  *)
FlushWrite(a) ==
    /\ pc[a] = "send"
    /\ batch[a] # {} /\ sock[target[a]] = "open"
    /\ wire' = [wire EXCEPT ![target[a]] = Append(@, Command(First(batch[a])))]
    /\ pc' = [pc EXCEPT ![a] = "mark"]
    /\ UNCHANGED <<sock, cola, received, imeiOf, connections, target, batch, rowVars,
                   lostMark, faults>>

FlushEnd(a) ==
    /\ pc[a] = "send"
    /\ batch[a] = {} \/ sock[target[a]] # "open"
    /\ Finish(a)
    /\ UNCHANGED <<sock, received, imeiOf, wire, connections, rowVars, lostMark, faults>>

(* Mutant: the mark skipped. *)
MarkForgotten(c) == status[c]

(* markDeviceCommandSent: only a row that is still queued becomes sent. *)
Mark(c) == IF status[c] = "queued" THEN "sent" ELSE status[c]

FlushMark(a) ==
    LET c == First(batch[a]) IN
    /\ pc[a] = "mark"
    /\ status' = [status EXCEPT ![c] = Mark(c)]
    /\ batch' = [batch EXCEPT ![a] = @ \ {c}]
    /\ pc' = [pc EXCEPT ![a] = "send"]
    /\ UNCHANGED <<socketVars, target, cmdDev, overdue, lostMark, faults>>

(* The write callback reports an error: the flush throws, its row stays.   *)
FlushWriteFails(a) ==
    /\ pc[a] = "mark"
    /\ sock[target[a]] # "open"
    /\ lostMark' = lostMark \cup {First(batch[a])}
    /\ Finish(a)
    /\ UNCHANGED <<sock, received, imeiOf, wire, connections, rowVars, faults>>

(* A query fails: the flush throws, and the request answers 500 although   *)
(* its row is queued.                                                      *)
QueryFails(a) ==
    /\ pc[a] \in {"expire", "select", "mark"}
    /\ faults < MaxFaults
    /\ faults' = faults + 1
    /\ lostMark' = IF pc[a] = "mark" THEN lostMark \cup {First(batch[a])} ELSE lostMark
    /\ Finish(a)
    /\ UNCHANGED <<sock, received, imeiOf, wire, connections, rowVars>>

(* GET /devices/:imei/commands runs expireDeviceCommands before it lists.  *)
ListCommands ==
    /\ status' = Expired
    /\ UNCHANGED <<socketVars, flushVars, cmdDev, overdue, lostMark, faults>>

(* The process dies and restarts: the rows survive and nothing else does.  *)
Crash ==
    /\ faults < MaxFaults
    /\ faults' = faults + 1
    /\ lostMark' = lostMark \cup {First(batch[a]) : a \in {b \in Actors : pc[b] = "mark"}}
    /\ sock' = [s \in Sockets |-> IF sock[s] = "new" THEN "new" ELSE "closed"]
    /\ cola' = [s \in Sockets |-> <<>>]
    /\ connections' = [d \in Devices |-> NoSocket]
    /\ pc' = [a \in Actors |-> IF a \in Cmds /\ pc[a] # "idle" THEN "done" ELSE "idle"]
    /\ target' = [a \in Actors |-> NoSocket]
    /\ batch' = [a \in Actors |-> {}]
    /\ UNCHANGED <<received, imeiOf, wire, rowVars>>

-----------------------------------------------------------------------------
Flush(a) == \/ FlushExpire(a) \/ FlushSelect(a) \/ FlushWrite(a) \/ FlushEnd(a)
            \/ FlushMark(a)

Handle(s) == \/ ProcessLogin(s) \/ WriteAck(s) \/ Register(s) \/ ProcessAnswer(s)

Environment == \/ \E s \in Sockets : \/ Connect(s) \/ ReceiveLogin(s)
                                     \/ ReceiveAnswer(s) \/ Destroy(s)
               \/ \E c \in Cmds : DeadlinePasses(c) \/ CreateCommand(c)
               \/ ListCommands
               \/ \E a \in Actors : FlushWriteFails(a) \/ QueryFails(a)
               \/ Crash

Server == \/ \E s \in Sockets : Handle(s) \/ CloseEvent(s)
          \/ \E c \in Cmds : FlushIfOnline(c)
          \/ \E a \in Actors : Flush(a)

Next == Environment \/ Server

Spec == Init /\ [][Next]_vars

(* The event loop runs every callback and every query that does not fail   *)
(* comes back; nothing obliges a device, an operator or a fault to happen. *)
Fairness == /\ \A s \in Sockets : WF_vars(Handle(s)) /\ WF_vars(CloseEvent(s))
            /\ \A c \in Cmds : WF_vars(FlushIfOnline(c))
            /\ \A a \in Actors : WF_vars(Flush(a))

FairSpec == Spec /\ Fairness

-----------------------------------------------------------------------------
Flushing == {"expire", "select", "send", "mark"}

(* Types; a running flush has captured a socket and knows its device.      *)
TypeOK ==
    /\ sock \in [Sockets -> {"new", "open", "destroyed", "closed"}]
    /\ cola \in [Sockets -> Seq(Frames)]
    /\ received \in [Sockets -> 0 .. MaxFrames]
    /\ imeiOf \in [Sockets -> Devices \cup {NoDevice}]
    /\ wire \in [Sockets -> Seq(Outgoing)]
    /\ connections \in [Devices -> Sockets \cup {NoSocket}]
    /\ pc \in [Actors -> {"idle", "ack", "register", "created", "done"} \cup Flushing]
    /\ target \in [Actors -> Sockets \cup {NoSocket}]
    /\ batch \in [Actors -> SUBSET Cmds]
    /\ cmdDev \in [Cmds -> Devices \cup {NoDevice}]
    /\ status \in [Cmds -> {"none"} \cup Pending \cup Terminal]
    /\ overdue \in SUBSET Cmds
    /\ lostMark \in SUBSET Cmds
    /\ faults \in 0 .. MaxFaults
    /\ \A a \in Actors : pc[a] \in Flushing => target[a] \in Sockets

(* "Después de reconectar y recibir el ACK de login, salen los pendientes" *)
(* (COMANDOS_S11L.md:16): no command is the first thing a connection       *)
(* carries, whichever flush writes it.                                     *)
AckFirst == \A s \in Sockets : wire[s] # <<>> => wire[s][1] = Ack

(* A row is `sent', or answered, only if its command was written to a      *)
(* socket: the mark never runs ahead of the write (dispatcher.js:40-41).   *)
SentWasTransmitted ==
    \A c \in Cmds : status[c] \in {"sent"} \cup Results => c \in Transmitted

(* A command is only ever written to a connection its own device logged in *)
(* on, although a flush captures its socket two awaits before it uses it.  *)
WrittenToItsDevice ==
    \A s \in Sockets, c \in Cmds : Written(s, c) => <<s, cmdDev[c]>> \in Logins

(* A written command that is still `queued' (so it will be written again)  *)
(* has its mark under way, or lost it to a fault or a write error: without *)
(* those the double write needs two overlapping flushes.                   *)
MarkInFlight ==
    \A c \in Transmitted : status[c] = "queued" =>
        \/ c \in lostMark
        \/ \E a \in Actors : pc[a] = "mark" /\ First(batch[a]) = c

(* ORDER BY id (repo.js:345): no command reaches its device before an      *)
(* older one that still waits in the same queue, whichever flushes overlap. *)
NotOvertaken ==
    \A b, c \in Cmds :
        /\ b < c /\ cmdDev[b] = cmdDev[c] /\ c \in Transmitted
        /\ status[b] = "queued" /\ b \notin overdue
        => b \in Transmitted

(* acknowledged, failed and expired are final: an answer, a mark and a     *)
(* sweep that arrive late change nothing (repo.js:352, 360, 369).          *)
TerminalForever ==
    [][\A c \in Cmds : status[c] \in Terminal => status'[c] = status[c]]_vars

(* A device goes offline in the registry only when the socket registered   *)
(* for it dies: the late close of an older connection does not take a      *)
(* newer one away (dispatcher.js:21).                                      *)
EntryDropsWithItsSocket ==
    [][\A d \in Devices :
          connections[d] # NoSocket /\ connections'[d] = NoSocket
          => sock'[connections[d]] = "closed"]_vars

(* Nobody is going to look at the queue of d again without a new login or  *)
(* a new command.                                                          *)
Quiet(d) == /\ \A s \in Sockets : cola[s] = <<>>
            /\ \A c \in Cmds : cmdDev[c] = d => pc[c] = "done"

(* "Si el equipo está online, se envía por su socket activo"               *)
(* (COMANDOS_S11L.md:15): once the handlers have run, a device that is     *)
(* online has nothing waiting.  No wake-up is lost between the INSERT and  *)
(* the online check on one side, the registration and the SELECT on the    *)
(* other.                                                                  *)
NothingLeftBehind ==
    \A d \in Devices : Quiet(d) /\ IsDeviceOnline(d) => Queued(d) = {}

(* A queued command of a device that stays online is eventually sent or    *)
(* answered, unless its deadline passes first (the row then waits for the  *)
(* next sweep, which only a flush or a listing runs).                      *)
QueuedLeavesWhileOnline ==
    \A c \in Cmds, d \in Devices :
        (c \in Queued(d) /\ IsDeviceOnline(d))
        ~> (c \notin Queued(d) \/ ~IsDeviceOnline(d))

(* The rows behave as CommandLifecycle promises.                           *)
Lifecycle == INSTANCE CommandLifecycle WITH transmitted <- Transmitted
ImplementsLifecycle == Lifecycle!Spec
=============================================================================
