------------------------------ MODULE Migrations ------------------------------
(***************************************************************************)
(* The migrations at start-up (db/migrate.js) of one or more instances of  *)
(* the service over one database, with crashes, failed statements and lost *)
(* connections.                                                            *)
(*                                                                         *)
(* The advisory lock belongs to the PostgreSQL session of the client that  *)
(* migrates: holder = i says that this session lives and has the lock, and *)
(* a session that ends gives the lock back and rolls its transaction back. *)
(***************************************************************************)
EXTENDS Naturals, Sequences, FiniteSets

CONSTANTS Instances,
          NoOne,       \* the lock is free
          NFiles,      \* migrations/*.sql, numbered in their order
          MaxFaults    \* bound: crashes, failed statements, lost connections

ASSUME InstancesAssumption == NoOne \notin Instances
ASSUME FilesAssumption == NFiles \in Nat

VARIABLES holder,     \* the session that has the advisory lock
          effects,    \* the files whose changes are committed, in order
          recorded,   \* the names in schema_migrations
          pc,         \* where each instance is
          applied,    \* the names it read
          from,       \* its loop goes on from this file
          faults

vars == <<holder, effects, recorded, pc, applied, from, faults>>

Files == 1 .. NFiles
Working == {"loop", "apply", "record", "commit"}

Init == /\ holder = NoOne
        /\ effects = <<>> /\ recorded = {}
        /\ pc = [i \in Instances |-> "down"]
        /\ applied = [i \in Instances |-> {}]
        /\ from = [i \in Instances |-> 1]
        /\ faults = 0

Goto(i, place) == pc' = [pc EXCEPT ![i] = place]
Released(i) == IF holder = i THEN NoOne ELSE holder

(* waitForDatabase, CREATE TABLE IF NOT EXISTS, pool.connect.              *)
Start(i) == /\ pc[i] = "down"
            /\ Goto(i, "lock")
            /\ UNCHANGED <<holder, effects, recorded, applied, from, faults>>

(* pg_advisory_lock waits until the lock is free.                          *)
Lock(i) == /\ pc[i] = "lock" /\ holder = NoOne
           /\ holder' = i
           /\ Goto(i, "read")
           /\ UNCHANGED <<effects, recorded, applied, from, faults>>

(* readdir, and the names in schema_migrations.                            *)
Read(i) == /\ pc[i] = "read" /\ holder = i
           /\ applied' = [applied EXCEPT ![i] = recorded]
           /\ from' = [from EXCEPT ![i] = 1]
           /\ Goto(i, "loop")
           /\ UNCHANGED <<holder, effects, recorded, faults>>

(* Mutant: the loop looks one file too far. *)
PendingButFirst(i) == {f \in Files : f > from[i] /\ f \notin applied[i]}

(* The files that the loop has yet to apply, and the first of them.        *)
Pending(i) == {f \in Files : f >= from[i] /\ f \notin applied[i]}
Current(i) == CHOOSE f \in Pending(i) : \A g \in Pending(i) : f <= g

(* BEGIN; the file; the INSERT of its name: nothing is visible outside.    *)
Statement(i) == /\ pc[i] \in {"loop", "apply", "record"} /\ holder = i /\ Pending(i) # {}
                /\ Goto(i, CASE pc[i] = "loop" -> "apply"
                             [] pc[i] = "apply" -> "record"
                             [] pc[i] = "record" -> "commit")
                /\ UNCHANGED <<holder, effects, recorded, applied, from, faults>>

(* Mutant: the name is not recorded in the same transaction. *)
TakeEffectUnrecorded(i) == effects' = Append(effects, Current(i)) /\ UNCHANGED recorded

TakeEffect(i) == /\ effects' = Append(effects, Current(i))
                 /\ recorded' = recorded \cup {Current(i)}

Commit(i) == /\ pc[i] = "commit" /\ holder = i
             /\ TakeEffect(i)
             /\ from' = [from EXCEPT ![i] = Current(i) + 1]
             /\ Goto(i, "loop")
             /\ UNCHANGED <<holder, applied, faults>>

(* Mutant: the session goes back to the pool with its lock. *)
FinishLocked(i) == /\ pc[i] = "loop" /\ Pending(i) = {}
                   /\ Goto(i, "up")
                   /\ UNCHANGED <<holder, effects, recorded, applied, from, faults>>

(* No file is left: the lock is given back, if the session still has it,   *)
(* and the service starts.                                                 *)
Finish(i) == /\ pc[i] = "loop" /\ Pending(i) = {}
             /\ holder' = Released(i)
             /\ Goto(i, "up")
             /\ UNCHANGED <<effects, recorded, applied, from, faults>>

(* A statement is refused, or its session is gone: ROLLBACK, the lock is   *)
(* given back and the process exits.                                       *)
StatementFails(i) == /\ pc[i] \in {"lock", "read"} \cup Working
                     /\ pc[i] = "loop" => Pending(i) # {}
                     /\ \/ holder = i /\ faults < MaxFaults /\ faults' = faults + 1
                        \/ holder # i /\ pc[i] # "lock" /\ UNCHANGED faults
                     /\ holder' = Released(i)
                     /\ Goto(i, "down")
                     /\ UNCHANGED <<effects, recorded, applied, from>>

(* The connection is lost; what was committed and what was not is decided  *)
(* by the server, the instance finds out at its next statement.            *)
ConnectionLost(i) == /\ holder = i /\ faults < MaxFaults
                     /\ faults' = faults + 1
                     /\ holder' = NoOne
                     /\ UNCHANGED <<pc, applied, from>>
                     /\ \/ UNCHANGED <<effects, recorded>>
                        \/ pc[i] = "commit" /\ TakeEffect(i)

(* The process dies, or is replaced by a deployment, and starts again.     *)
Crash(i) == /\ pc[i] # "down" /\ faults < MaxFaults
            /\ faults' = faults + 1
            /\ holder' = Released(i)
            /\ Goto(i, "down")
            /\ UNCHANGED <<effects, recorded, applied, from>>

Step(i) == \/ Start(i) \/ Lock(i) \/ Read(i) \/ Statement(i) \/ Commit(i) \/ Finish(i)
           \/ StatementFails(i)

(* An instance that has started goes on serving.                           *)
Serving == (\E i \in Instances : pc[i] = "up") /\ UNCHANGED vars

Next == (\E i \in Instances : Step(i) \/ ConnectionLost(i) \/ Crash(i)) \/ Serving

Spec == Init /\ [][Next]_vars

(* The database answers and the container is restarted.                    *)
FairSpec == Spec /\ \A i \in Instances : WF_vars(Step(i))

-----------------------------------------------------------------------------
(* Types of the variables.                                                 *)
TypeOK == /\ holder \in Instances \cup {NoOne}
          /\ effects \in Seq(Files)
          /\ recorded \subseteq Files
          /\ pc \in [Instances -> {"down", "lock", "read", "up"} \cup Working]
          /\ applied \in [Instances -> SUBSET Files]
          /\ from \in [Instances -> 1 .. NFiles + 1]
          /\ faults \in Nat

(* "Los archivos se aplican en orden alfabético" and "para no repetirlo"   *)
(* (migrate.js:10): every file has its effect once, after all those before *)
(* it, whichever instances applied them and died on the way.               *)
InOrder == \A k \in 1 .. Len(effects) : effects[k] = k

(* "Cada archivo corre dentro de una transacción; si falla, no queda a     *)
(* medias" (migrate.js:11): the names recorded are those whose changes are *)
(* in the database.                                                        *)
RecordedIsApplied == recorded = {effects[k] : k \in 1 .. Len(effects)}

(* An instance serves only over a database with every migration, though    *)
(* its session may have been lost on the way.                              *)
UpMeansMigrated == \A i \in Instances : pc[i] = "up" => Len(effects) = NFiles

(* "solo una aplica las migraciones y la otra espera" (migrate.js:24): it  *)
(* does not wait for ever.                                                 *)
EveryInstanceComesUp == \A i \in Instances : <>(pc[i] = "up")
=============================================================================
