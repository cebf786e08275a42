---------------------------- MODULE DeviceSettings ----------------------------
(***************************************************************************)
(* The settings of one device: PATCH /devices/:imei/settings and the       *)
(* set_interval command of POST /devices/:imei/commands (web/routes.js),   *)
(* with the two columns they both write (db/repo.js) and their CHECKs      *)
(* (migrations/003).  Requests run concurrently; each await of a handler   *)
(* ends a step.  What becomes of a queued command is CommandDispatch's.    *)
(***************************************************************************)
EXTENDS Naturals, FiniteSets

CONSTANTS Requests,   \* HTTP requests, each used once
          Limits,     \* values asked for speed_limit_kmh
          Seconds,    \* values asked for the interval
          Null,       \* an empty field, a NULL column
          MaxFaults   \* bound: failed queries

VARIABLES limit,      \* devices.speed_limit_kmh
          interval,   \* devices.report_interval_seconds
          pc,         \* where each request is
          ask,        \* what it asks for: [limit, seconds]
          seen,       \* the speed limit in the row that POST has read
          answer,     \* its HTTP status, 0 before
          queued,     \* requests whose command is in device_commands
          faults

vars == <<limit, interval, pc, ask, seen, answer, queued, faults>>

Empty == [limit |-> Null, seconds |-> Null]

LimitRange    == 1 .. 300        \* nullableNumber, and the CHECK
IntervalRange == 10 .. 86400     \* nullableInteger, and the CHECK
CatalogRange  == 5 .. 18000      \* buildAllowedCommand

Nullable(v, range) == v = Null \/ v \in range

Init == /\ limit \in (Limits \cap LimitRange) \cup {Null}
        /\ interval = Null
        /\ pc = [r \in Requests |-> "free"]
        /\ ask = [r \in Requests |-> Empty]
        /\ seen = [r \in Requests |-> Null]
        /\ answer = [r \in Requests |-> 0]
        /\ queued = {} /\ faults = 0

Answer(r, status) == /\ pc' = [pc EXCEPT ![r] = "answered"]
                     /\ answer' = [answer EXCEPT ![r] = status]

(* The CHECK constraints of devices.                                       *)
Check(l, i) == Nullable(l, LimitRange) /\ Nullable(i, IntervalRange)

(* updateDeviceSettings writes both columns, or the constraint refuses.    *)
Update(r, l, i, status) ==
    \/ Check(l, i) /\ limit' = l /\ interval' = i /\ Answer(r, status)
    \/ ~Check(l, i) /\ UNCHANGED <<limit, interval>> /\ Answer(r, 500)

-----------------------------------------------------------------------------
(* PATCH: getDeviceByImei, the two validations, updateDeviceSettings.      *)

Patch(r) ==
    /\ pc[r] = "free"
    /\ \E l \in Limits \cup {Null}, s \in Seconds \cup {Null} :
          ask' = [ask EXCEPT ![r] = [limit |-> l, seconds |-> s]]
    /\ pc' = [pc EXCEPT ![r] = "validate"]
    /\ UNCHANGED <<limit, interval, seen, answer, queued, faults>>

Valid(l, s) == Nullable(l, LimitRange) /\ Nullable(s, IntervalRange)

Validate(r) ==
    /\ pc[r] = "validate"
    /\ \/ ~Valid(ask[r].limit, ask[r].seconds) /\ Answer(r, 400)
       \/ Valid(ask[r].limit, ask[r].seconds) /\ pc' = [pc EXCEPT ![r] = "patch"] /\ UNCHANGED answer
    /\ UNCHANGED <<limit, interval, ask, seen, queued, faults>>

WritePatch(r) ==
    /\ pc[r] = "patch"
    /\ Update(r, ask[r].limit, ask[r].seconds, 200)
    /\ UNCHANGED <<ask, seen, queued, faults>>

-----------------------------------------------------------------------------
(* POST set_interval. *)

(* getDeviceByImei: the row whose speed limit will be written back.        *)
Post(r) ==
    /\ pc[r] = "free"
    /\ \E s \in Seconds : ask' = [ask EXCEPT ![r] = [limit |-> Null, seconds |-> s]]
    /\ seen' = [seen EXCEPT ![r] = limit]
    /\ pc' = [pc EXCEPT ![r] = "build"]
    /\ UNCHANGED <<limit, interval, answer, queued, faults>>

(* buildAllowedCommand.                                                    *)
Allowed(s) == s \in CatalogRange

(* The command, and createDeviceCommand.                                   *)
Queue(r) ==
    /\ pc[r] = "build"
    /\ \/ ~Allowed(ask[r].seconds) /\ Answer(r, 400) /\ UNCHANGED queued
       \/ /\ Allowed(ask[r].seconds)
          /\ queued' = queued \cup {r}
          /\ pc' = [pc EXCEPT ![r] = "flush"] /\ UNCHANGED answer
    /\ UNCHANGED <<limit, interval, ask, seen, faults>>

(* The flush of an online device has returned.                             *)
Flushed(r) == /\ pc[r] = "flush"
              /\ pc' = [pc EXCEPT ![r] = "settings"]
              /\ UNCHANGED <<limit, interval, ask, seen, answer, queued, faults>>

(* command.settings: the interval with the limit as it was read.           *)
WriteInterval(r) ==
    /\ pc[r] = "settings"
    /\ Update(r, seen[r], ask[r].seconds, 202)
    /\ UNCHANGED <<ask, seen, queued, faults>>

(* next(err): any of the queries fails.                                    *)
Fails(r) ==
    /\ pc[r] \notin {"free", "answered"} /\ faults < MaxFaults
    /\ faults' = faults + 1
    /\ Answer(r, 500)
    /\ UNCHANGED <<limit, interval, ask, seen, queued>>

Done == (\A r \in Requests : pc[r] = "answered") /\ UNCHANGED vars

Next == \/ \E r \in Requests : \/ Patch(r) \/ Validate(r) \/ WritePatch(r)
                               \/ Post(r) \/ Queue(r) \/ Flushed(r) \/ WriteInterval(r)
                               \/ Fails(r)
        \/ Done

Spec == Init /\ [][Next]_vars

-----------------------------------------------------------------------------
Places == {"free", "validate", "patch", "build", "flush", "settings", "answered"}

(* Types of the variables; the columns stay in the range of their CHECKs   *)
(* whatever the two handlers let through.                                  *)
TypeOK == /\ Nullable(limit, LimitRange)
          /\ Nullable(interval, IntervalRange)
          /\ pc \in [Requests -> Places]
          /\ ask \in [Requests -> [limit : Limits \cup {Null}, seconds : Seconds \cup {Null}]]
          /\ seen \in [Requests -> Limits \cup {Null}]
          /\ answer \in [Requests -> {0, 200, 202, 400, 500}]
          /\ queued \subseteq Requests
          /\ faults \in 0 .. MaxFaults

(* "PATCH /api/devices/:imei/settings configura speed_limit_kmh y          *)
(* report_interval_seconds" and "POST /api/devices/:imei/commands valida y *)
(* encola un comando permitido" (API.md:65,68): a command leaves the speed *)
(* limit as it is.                                                         *)
LimitChangesOnlyByPatch ==
    [][\A r \in Requests : pc[r] = "settings" /\ pc'[r] = "answered" => limit' = limit]_vars
=============================================================================
