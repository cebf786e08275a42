----------------------------- MODULE SpeedAlert -----------------------------
(***************************************************************************)
(* The overspeed alert of one device: savePosition's tail                  *)
(* (ingest/pipeline.js) around evaluateSpeedAlert (db/repo.js) and the     *)
(* PATCH that changes the limit.                                           *)
(*                                                                         *)
(* evaluateSpeedAlert is one SQL statement, and still two steps: its       *)
(* `settings' and `previous' are read in the snapshot taken when it        *)
(* starts, while ON CONFLICT DO UPDATE applies to the row committed last.  *)
(* A socket handles its positions one after another; two sockets of a      *)
(* device that reconnects run side by side.  Only positions that           *)
(* evaluateSpeedAlert does not skip appear here: stored, valid, with a     *)
(* speed.                                                                  *)
(***************************************************************************)
EXTENDS Naturals, Sequences, FiniteSets

CONSTANTS Sockets,    \* connections of the device
          Speeds,     \* speeds it reports
          Limits,     \* limits an operator may set
          NoLimit,    \* speed_limit_kmh IS NULL
          MaxPulses,  \* bound: positions stored
          MaxChanges, \* bound: changes of the limit
          MaxFaults   \* bound: failed queries and crashes

ASSUME SpeedsAssumption == Speeds \subseteq Nat /\ Limits \subseteq Nat /\ NoLimit \notin Nat
ASSUME BoundsAssumption == {MaxPulses, MaxChanges, MaxFaults} \subseteq Nat

VARIABLES limit,      \* devices.speed_limit_kmh
          speeding,   \* device_alert_state.speeding, "none" without a row
          pc,         \* where each socket is in savePosition
          speed,      \* the speed of the position it handles
          seen,       \* the snapshot its statement reads
          events,     \* the speed events inserted, in order
          wasOver,    \* history: the last position compared with a limit exceeded it
          overlaps,   \* history: evaluations begun before another had its event stored
          pulses, changes, faults

vars == <<limit, speeding, pc, speed, seen, events, wasOver, overlaps, pulses, changes, faults>>

Rows == {"none", "normal", "speeding"}
NoSnapshot == [limit |-> NoLimit, row |-> "none"]

Init == /\ limit \in Limits \cup {NoLimit}
        /\ speeding = "none"
        /\ pc = [s \in Sockets |-> "idle"]
        /\ speed = [s \in Sockets |-> 0]
        /\ seen = [s \in Sockets |-> NoSnapshot]
        /\ events = <<>>
        /\ wasOver = FALSE
        /\ overlaps = 0 /\ pulses = 0 /\ changes = 0 /\ faults = 0

(* A position has been stored and published; its statement starts.         *)
StartEvaluation(s) ==
    /\ pc[s] = "idle" /\ pulses < MaxPulses
    /\ pulses' = pulses + 1
    /\ \E v \in Speeds : speed' = [speed EXCEPT ![s] = v]
    /\ seen' = [seen EXCEPT ![s] = [limit |-> limit, row |-> speeding]]
    /\ pc' = [pc EXCEPT ![s] = "statement"]
    /\ overlaps' = IF \E o \in Sockets : pc[o] # "idle" THEN overlaps + 1 ELSE overlaps
    /\ UNCHANGED <<limit, speeding, events, wasOver, changes, faults>>

Over(s) == seen[s].limit # NoLimit /\ speed[s] > seen[s].limit

(* Mutant: every position above the limit enters. *)
EnteredEveryPulse(s) == Over(s)

(* u.speeding AND NOT COALESCE(p.speeding, false), and its opposite.       *)
Entered(s) == Over(s) /\ seen[s].row # "speeding"
Cleared(s) == seen[s].limit # NoLimit /\ ~Over(s) /\ seen[s].row = "speeding"

(* Mutant: a position below the limit leaves the row as it was. *)
UpsertKeepingTheRow(s) ==
    speeding' = IF Over(s) THEN "speeding" ELSE speeding

(* The upsert: no row is written without a limit.                          *)
Upsert(s) ==
    speeding' = IF seen[s].limit = NoLimit THEN speeding
                ELSE IF Over(s) THEN "speeding" ELSE "normal"

(* The statement commits and its verdict comes back.                       *)
Evaluate(s) ==
    /\ pc[s] = "statement"
    /\ Upsert(s)
    /\ wasOver' = IF seen[s].limit = NoLimit THEN wasOver ELSE Over(s)
    /\ pc' = [pc EXCEPT ![s] = IF Entered(s) THEN "entered"
                               ELSE IF Cleared(s) THEN "cleared" ELSE "idle"]
    /\ UNCHANGED <<limit, speed, seen, events, overlaps, pulses, changes, faults>>

(* insertEvent.  The broadcast of an entry is left out.                    *)
RecordEvent(s) ==
    /\ pc[s] \in {"entered", "cleared"}
    /\ events' = Append(events, IF pc[s] = "entered" THEN "exceso" ELSE "normalizada")
    /\ pc' = [pc EXCEPT ![s] = "idle"]
    /\ UNCHANGED <<limit, speeding, speed, seen, wasOver, overlaps, pulses, changes, faults>>

(* insertEvent fails, or the process dies before it: the row keeps what    *)
(* the statement wrote and the event is lost.                              *)
EventFails(s) ==
    /\ pc[s] \in {"entered", "cleared"} /\ faults < MaxFaults
    /\ faults' = faults + 1
    /\ pc' = [pc EXCEPT ![s] = "idle"]
    /\ UNCHANGED <<limit, speeding, speed, seen, events, wasOver, overlaps, pulses, changes>>

(* evaluateSpeedAlert fails, before or after its effect was committed: it  *)
(* is logged and the position counts as stored.                            *)
EvaluationFails(s) ==
    /\ pc[s] = "statement" /\ faults < MaxFaults
    /\ faults' = faults + 1
    /\ Upsert(s) \/ UNCHANGED speeding
    /\ pc' = [pc EXCEPT ![s] = "idle"]
    /\ UNCHANGED <<limit, speed, seen, events, wasOver, overlaps, pulses, changes>>

(* PATCH /devices/:imei/settings; an empty field removes the limit.        *)
SetLimit ==
    /\ changes < MaxChanges
    /\ changes' = changes + 1
    /\ \E l \in (Limits \cup {NoLimit}) \ {limit} : limit' = l
    /\ UNCHANGED <<speeding, pc, speed, seen, events, wasOver, overlaps, pulses, faults>>

(* The device reports no more.                                             *)
Silence == /\ pulses = MaxPulses /\ \A s \in Sockets : pc[s] = "idle"
           /\ UNCHANGED vars

Next == \/ \E s \in Sockets : \/ StartEvaluation(s) \/ Evaluate(s) \/ RecordEvent(s)
                              \/ EventFails(s) \/ EvaluationFails(s)
        \/ SetLimit
        \/ Silence

Spec == Init /\ [][Next]_vars

-----------------------------------------------------------------------------
(* Types of the variables.                                                 *)
TypeOK == /\ limit \in Limits \cup {NoLimit}
          /\ speeding \in Rows
          /\ pc \in [Sockets -> {"idle", "statement", "entered", "cleared"}]
          /\ speed \in [Sockets -> Speeds \cup {0}]
          /\ seen \in [Sockets -> [limit : Limits \cup {NoLimit}, row : Rows]]
          /\ events \in Seq({"exceso", "normalizada"})
          /\ wasOver \in BOOLEAN /\ overlaps \in 0 .. pulses
          /\ pulses \in 0 .. MaxPulses /\ changes \in 0 .. MaxChanges
          /\ faults \in 0 .. MaxFaults

(* The events that repeat the one before them; before the first one the    *)
(* speed was normal.                                                       *)
Repeated == {i \in 1 .. Len(events) :
               events[i] = IF i = 1 THEN "normalizada" ELSE events[i - 1]}

(* "El servidor crea un evento al cruzar de velocidad normal a exceso y    *)
(* otro al normalizarse; no genera una alerta repetida en cada pulsación   *)
(* mientras continúa excedido" (MEJORAS_GPS.md:38): the events alternate,  *)
(* a failed query costs at most one alternation, and an evaluation that    *)
(* overlaps another's, on two sockets of the device, at most two.          *)
AlertsAlternate == Cardinality(Repeated) <= faults + 2 * overlaps

(* The same sentence the other way: unless a query was lost or two         *)
(* evaluations ran side by side, on whichever sockets, going from a        *)
(* position within its limit to one that exceeds it makes an excess event, *)
(* whatever the limits of the two were and whatever was reported between   *)
(* them without one.                                                       *)
CrossingIsReported ==
    [][\A s \in Sockets :
          faults' = 0 /\ overlaps = 0 /\ pc[s] = "statement" /\ pc'[s] # "statement" /\ Over(s) /\ ~wasOver
          => pc'[s] = "entered"]_vars
=============================================================================
