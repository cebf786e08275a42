--------------------------- MODULE MigrationsProofs ---------------------------
(***************************************************************************)
(* The migrations take effect once and in order, and an instance serves    *)
(* only over a migrated database: for any number of instances and of       *)
(* files, and any crashes, failed statements and lost sessions.            *)
(***************************************************************************)
EXTENDS Migrations, TLAPS

(* What the loop of every instance knows about the database.  An instance  *)
(* that has lost the lock may believe that an applied file is pending, but *)
(* never that a pending file is applied; the holder is right about both.   *)
Locked == \A i \in Instances : holder = i => pc[i] \in {"read"} \cup Working
NoneMissed == \A i \in Instances : pc[i] \in Working =>
                  \A f \in Files : f > Len(effects) => f \in Pending(i)
NoneTwice == \A i \in Instances : holder = i /\ pc[i] \in Working =>
                  \A f \in Pending(i) : f > Len(effects)
OneInHand == \A i \in Instances :
                  pc[i] \in {"apply", "record", "commit"} => Pending(i) # {}

MigrationInv == /\ TypeOK /\ InOrder /\ RecordedIsApplied /\ UpMeansMigrated
                /\ Locked /\ NoneMissed /\ NoneTwice /\ OneInHand

(* What is recorded is a prefix of the files.                              *)
LEMMA RecordedPrefix == MigrationInv => /\ recorded = 1 .. Len(effects)
                                        /\ Len(effects) \in 0 .. NFiles
<1> SUFFICES ASSUME MigrationInv PROVE /\ recorded = 1 .. Len(effects)
                                       /\ Len(effects) \in 0 .. NFiles
    OBVIOUS
<1>1. effects \in Seq(Files) /\ Len(effects) \in Nat
    BY DEF MigrationInv, TypeOK
<1>2. \A k \in 1 .. Len(effects) : effects[k] = k /\ k \in Files
  <2>1. \A k \in 1 .. Len(effects) : effects[k] \in Files
      BY <1>1
  <2> QED BY <2>1 DEF MigrationInv, InOrder
<1>3. recorded = 1 .. Len(effects)
    BY <1>2 DEF MigrationInv, RecordedIsApplied
<1>4. Len(effects) <= NFiles
  <2>1. CASE Len(effects) = 0
      BY <2>1, FilesAssumption
  <2>2. CASE Len(effects) > 0
      BY <2>2, <1>1, <1>2, FilesAssumption DEF Files
  <2> QED BY <2>1, <2>2, <1>1
<1> QED BY <1>1, <1>3, <1>4, FilesAssumption

(* The holder always works on the first file without effect.               *)
LEMMA CurrentIsNext ==
    ASSUME MigrationInv, NEW i \in Instances, holder = i,
           pc[i] \in {"apply", "record", "commit"}
    PROVE  Current(i) = Len(effects) + 1 /\ Current(i) \in Files
<1>1. Len(effects) \in Nat
    BY RecordedPrefix, FilesAssumption
<1>2. PICK f \in Pending(i) : TRUE
    BY DEF MigrationInv, OneInHand
<1>3. pc[i] \in Working
    BY DEF Working
<1>4. \A g \in Pending(i) : g \in Files /\ g >= Len(effects) + 1
    BY <1>1, <1>3 DEF MigrationInv, NoneTwice, Pending, Files
<1>5. Len(effects) + 1 \in Files
    BY <1>1, <1>2, <1>4, FilesAssumption DEF Files
<1>6. Len(effects) + 1 \in Pending(i)
    BY <1>1, <1>3, <1>5 DEF MigrationInv, NoneMissed
<1>7. /\ Current(i) \in Pending(i)
      /\ \A g \in Pending(i) : Current(i) <= g
    BY <1>4, <1>6 DEF Current
<1> QED BY <1>1, <1>4, <1>5, <1>6, <1>7 DEF Files

(* The commit by the holder, whether or not it hears of it.                *)
LEMMA TakingEffect ==
    ASSUME MigrationInv, NEW i \in Instances, holder = i, pc[i] = "commit", TakeEffect(i)
    PROVE  /\ effects' \in Seq(Files) /\ Len(effects') = Len(effects) + 1
           /\ recorded' \subseteq Files
           /\ InOrder' /\ RecordedIsApplied'
           /\ \A j \in Instances : pc[j] = "up" => Len(effects') = NFiles
<1>1. Current(i) = Len(effects) + 1 /\ Current(i) \in Files
    BY CurrentIsNext
<1>2. effects \in Seq(Files) /\ Len(effects) \in Nat /\ recorded = 1 .. Len(effects)
    BY RecordedPrefix, FilesAssumption DEF MigrationInv, TypeOK
<1>3. effects' = Append(effects, Len(effects) + 1) /\ recorded' = recorded \cup {Len(effects) + 1}
    BY <1>1 DEF TakeEffect
<1>4. effects' \in Seq(Files) /\ Len(effects') = Len(effects) + 1
    BY <1>1, <1>2, <1>3
<1>5. recorded' \subseteq Files
    BY <1>1, <1>3 DEF MigrationInv, TypeOK
<1>6. \A k \in 1 .. Len(effects') : effects'[k] = k
    BY <1>2, <1>3, <1>4 DEF MigrationInv, InOrder
<1>7. recorded' = 1 .. Len(effects')
    BY <1>2, <1>3, <1>4
<1>8. RecordedIsApplied'
    BY <1>6, <1>7 DEF RecordedIsApplied
<1>9. \A j \in Instances : pc[j] # "up"
    BY <1>1, <1>2 DEF MigrationInv, UpMeansMigrated, Files
<1> QED BY <1>4, <1>5, <1>6, <1>8, <1>9 DEF InOrder

LEMMA InitInv == Init => MigrationInv
<1> SUFFICES ASSUME Init PROVE MigrationInv
    OBVIOUS
<1>1. TypeOK
    BY FilesAssumption DEF Init, TypeOK, Files
<1>2. InOrder /\ RecordedIsApplied
    BY DEF Init, InOrder, RecordedIsApplied
<1>3. UpMeansMigrated /\ NoneMissed /\ NoneTwice /\ OneInHand
    BY DEF Init, UpMeansMigrated, NoneMissed, NoneTwice, OneInHand, Working
<1>4. Locked
    BY InstancesAssumption DEF Init, Locked
<1> QED BY <1>1, <1>2, <1>3, <1>4 DEF MigrationInv

(* One step of the loops and of their failures.                            *)
LEMMA StepInv == MigrationInv /\ [Next]_vars => MigrationInv'
<1> SUFFICES ASSUME MigrationInv, [Next]_vars PROVE MigrationInv'
    OBVIOUS
<1> USE DEF Goto
<1>0. /\ TypeOK /\ InOrder /\ RecordedIsApplied /\ UpMeansMigrated
      /\ Locked /\ NoneMissed /\ NoneTwice /\ OneInHand
    BY DEF MigrationInv
<1>a. recorded = 1 .. Len(effects) /\ Len(effects) \in Nat /\ Len(effects) <= NFiles
    BY RecordedPrefix, FilesAssumption
<1>1. ASSUME NEW i \in Instances, Start(i) PROVE MigrationInv'
  <2>1. TypeOK'
      BY <1>0, <1>1 DEF Start, TypeOK
  <2>2. InOrder' /\ RecordedIsApplied' /\ UpMeansMigrated'
      BY <1>0, <1>1 DEF Start, TypeOK, InOrder, RecordedIsApplied, UpMeansMigrated
  <2>3. Locked'
      BY <1>0, <1>1 DEF Start, TypeOK, Locked, Working
  <2>4. NoneMissed' /\ NoneTwice' /\ OneInHand'
      BY <1>0, <1>1 DEF Start, TypeOK, NoneMissed, NoneTwice, OneInHand, Working, Pending
  <2> QED BY <2>1, <2>2, <2>3, <2>4 DEF MigrationInv
<1>2. ASSUME NEW i \in Instances, Lock(i) PROVE MigrationInv'
  <2>1. TypeOK'
      BY <1>0, <1>2 DEF Lock, TypeOK
  <2>2. InOrder' /\ RecordedIsApplied' /\ UpMeansMigrated'
      BY <1>0, <1>2 DEF Lock, TypeOK, InOrder, RecordedIsApplied, UpMeansMigrated
  <2>3. Locked'
      BY <1>0, <1>2 DEF Lock, TypeOK, Locked
  <2>4. NoneMissed' /\ NoneTwice' /\ OneInHand'
      BY <1>0, <1>2 DEF Lock, TypeOK, NoneMissed, NoneTwice, OneInHand, Working, Pending
  <2> QED BY <2>1, <2>2, <2>3, <2>4 DEF MigrationInv
<1>3. ASSUME NEW i \in Instances, Read(i) PROVE MigrationInv'
  <2>1. TypeOK'
      BY <1>0, <1>3, FilesAssumption DEF Read, TypeOK, Working
  <2>2. InOrder' /\ RecordedIsApplied' /\ UpMeansMigrated'
      BY <1>0, <1>3 DEF Read, TypeOK, InOrder, RecordedIsApplied, UpMeansMigrated
  <2>3. Locked'
      BY <1>0, <1>3 DEF Read, TypeOK, Locked, Working
  <2>4. /\ \A f \in Files : f > Len(effects) => f \in Pending(i)'
        /\ \A f \in Pending(i)' : f > Len(effects)
      BY <1>0, <1>a, <1>3 DEF Read, TypeOK, Pending, Files
  <2>5. \A j \in Instances : j # i => pc'[j] = pc[j] /\ Pending(j)' = Pending(j)
      BY <1>0, <1>3 DEF Read, TypeOK, Pending
  <2>6. NoneMissed'
      BY <1>0, <1>3, <2>4, <2>5 DEF Read, NoneMissed
  <2>7. NoneTwice'
      BY <1>0, <1>3, <2>4, <2>5 DEF Read, NoneTwice
  <2>8. OneInHand'
      BY <1>0, <1>3, <2>5 DEF Read, TypeOK, OneInHand
  <2> QED BY <2>1, <2>2, <2>3, <2>6, <2>7, <2>8 DEF MigrationInv
<1>4. ASSUME NEW i \in Instances, Statement(i) PROVE MigrationInv'
  <2>1. /\ pc'[i] \in {"apply", "record", "commit"} /\ pc[i] \in Working
        /\ \A j \in Instances : j # i => pc'[j] = pc[j]
      BY <1>0, <1>4 DEF Statement, TypeOK, Working
  <2>2. \A j \in Instances : Pending(j)' = Pending(j)
      BY <1>4 DEF Statement, Pending
  <2>3. TypeOK'
      BY <1>0, <1>4 DEF Statement, TypeOK, Working
  <2>4. InOrder' /\ RecordedIsApplied' /\ UpMeansMigrated'
      BY <1>0, <1>4, <2>1 DEF Statement, InOrder, RecordedIsApplied, UpMeansMigrated
  <2>5. Locked'
      BY <1>0, <1>4, <2>1 DEF Statement, Locked, Working
  <2>6. NoneMissed'
      BY <1>0, <1>4, <2>1, <2>2 DEF Statement, NoneMissed
  <2>7. NoneTwice'
      BY <1>0, <1>4, <2>1, <2>2 DEF Statement, NoneTwice
  <2>8. OneInHand'
      BY <1>0, <1>4, <2>1, <2>2 DEF Statement, OneInHand
  <2> QED BY <2>3, <2>4, <2>5, <2>6, <2>7, <2>8 DEF MigrationInv
<1>5. ASSUME NEW i \in Instances, Commit(i) PROVE MigrationInv'
  <2>1. holder = i /\ pc[i] = "commit" /\ TakeEffect(i)
      BY <1>5 DEF Commit
  <2>2. Current(i) = Len(effects) + 1 /\ Current(i) \in Files
      BY <2>1, <1>0, CurrentIsNext DEF MigrationInv
  <2>3. /\ effects' \in Seq(Files) /\ Len(effects') = Len(effects) + 1
        /\ recorded' \subseteq Files
        /\ InOrder' /\ RecordedIsApplied'
        /\ \A j \in Instances : pc[j] = "up" => Len(effects') = NFiles
      BY <2>1, TakingEffect
  <2>4. /\ pc'[i] = "loop" /\ from'[i] = Len(effects) + 2
        /\ \A j \in Instances : j # i => pc'[j] = pc[j] /\ Pending(j)' = Pending(j)
        /\ holder' = i /\ applied' = applied
      BY <1>0, <1>5, <2>1, <2>2, <1>a DEF Commit, TypeOK, Pending
  <2>5. TypeOK'
      BY <1>0, <1>5, <2>2, <2>3, <1>a, FilesAssumption DEF Commit, TypeOK, Working, Files
  <2>6. UpMeansMigrated'
      BY <2>3, <2>4 DEF UpMeansMigrated
  <2>7. Locked'
      BY <2>4 DEF Locked, Working
  <2>8. NoneMissed'
    <3>1. \A f \in Files : f > Len(effects) + 1 => f \in Pending(i)'
        BY <1>0, <2>1, <2>4, <1>a DEF NoneMissed, Pending, Working, Files
    <3>2. \A j \in Instances \ {i} : pc[j] \in Working =>
              \A f \in Files : f > Len(effects) + 1 => f \in Pending(j)
        BY <1>0, <1>a DEF NoneMissed, Files
    <3> QED BY <3>1, <3>2, <2>3, <2>4 DEF NoneMissed
  <2>9. NoneTwice'
    <3>1. \A f \in Pending(i)' : f > Len(effects) + 1
        BY <2>4, <1>a DEF Pending, Files
    <3> QED BY <3>1, <2>3, <2>4 DEF NoneTwice
  <2>10. OneInHand'
      BY <1>0, <2>4 DEF OneInHand
  <2> QED BY <2>3, <2>5, <2>6, <2>7, <2>8, <2>9, <2>10 DEF MigrationInv
<1>6. ASSUME NEW i \in Instances, Finish(i) PROVE MigrationInv'
  <2>1. /\ pc'[i] = "up" /\ pc[i] = "loop" /\ Pending(i) = {}
        /\ \A j \in Instances : j # i => pc'[j] = pc[j]
        /\ holder' \in {holder, NoOne} /\ holder' # i
      BY <1>0, <1>6, InstancesAssumption DEF Finish, TypeOK, Released
  <2>2. \A j \in Instances : Pending(j)' = Pending(j)
      BY <1>6 DEF Finish, Pending
  <2>3. Len(effects) = NFiles
    <3>1. \A f \in Files : ~ f > Len(effects)
        BY <1>0, <2>1 DEF NoneMissed, Working
    <3> QED BY <3>1, <1>a, FilesAssumption DEF Files
  <2>4. TypeOK'
      BY <1>0, <1>6, <2>1 DEF Finish, TypeOK
  <2>5. InOrder' /\ RecordedIsApplied' /\ UpMeansMigrated'
      BY <1>0, <1>6, <2>1, <2>3 DEF Finish, InOrder, RecordedIsApplied, UpMeansMigrated
  <2>6. Locked'
      BY <1>0, <2>1, InstancesAssumption DEF Locked
  <2>7. NoneMissed'
      BY <1>0, <1>6, <2>1, <2>2 DEF Finish, NoneMissed, Working
  <2>8. NoneTwice'
      BY <1>0, <1>6, <2>1, <2>2, InstancesAssumption DEF Finish, NoneTwice, Working
  <2>9. OneInHand'
      BY <1>0, <2>1, <2>2 DEF OneInHand
  <2> QED BY <2>4, <2>5, <2>6, <2>7, <2>8, <2>9 DEF MigrationInv
<1>7. ASSUME NEW i \in Instances, StatementFails(i) \/ Crash(i) PROVE MigrationInv'
  <2>1. /\ pc'[i] = "down"
        /\ \A j \in Instances : j # i => pc'[j] = pc[j]
        /\ holder' \in {holder, NoOne} /\ holder' # i
        /\ faults' \in Nat
        /\ UNCHANGED <<effects, recorded, applied, from>>
      BY <1>0, <1>7, InstancesAssumption DEF StatementFails, Crash, TypeOK, Released
  <2>2. \A j \in Instances : Pending(j)' = Pending(j)
      BY <2>1 DEF Pending
  <2>3. pc' = [pc EXCEPT ![i] = "down"]
      BY <1>7 DEF StatementFails, Crash
  <2>4. TypeOK'
      BY <1>0, <2>1, <2>3 DEF TypeOK
  <2>5. InOrder' /\ RecordedIsApplied' /\ UpMeansMigrated'
      BY <1>0, <2>1 DEF InOrder, RecordedIsApplied, UpMeansMigrated
  <2>6. Locked'
      BY <1>0, <2>1, InstancesAssumption DEF Locked
  <2>7. NoneMissed'
      BY <1>0, <2>1, <2>2 DEF NoneMissed, Working
  <2>8. NoneTwice'
      BY <1>0, <2>1, <2>2, InstancesAssumption DEF NoneTwice, Working
  <2>9. OneInHand'
      BY <1>0, <2>1, <2>2 DEF OneInHand
  <2> QED BY <2>4, <2>5, <2>6, <2>7, <2>8, <2>9 DEF MigrationInv
<1>8. ASSUME NEW i \in Instances, ConnectionLost(i) PROVE MigrationInv'
  <2>1. /\ holder = i /\ holder' = NoOne /\ faults' \in Nat
        /\ UNCHANGED <<pc, applied, from>>
      BY <1>0, <1>8 DEF ConnectionLost, TypeOK
  <2>2. \A j \in Instances : holder' # j
      BY <2>1, InstancesAssumption
  <2>3. \A j \in Instances : Pending(j)' = Pending(j)
      BY <2>1 DEF Pending
  <2>4. Locked' /\ NoneTwice'
      BY <2>2 DEF Locked, NoneTwice
  <2>5. OneInHand'
      BY <1>0, <2>1, <2>3 DEF OneInHand
  <2>6. CASE UNCHANGED <<effects, recorded>>
    <3>1. TypeOK'
        BY <1>0, <2>1, <2>6 DEF TypeOK
    <3>2. InOrder' /\ RecordedIsApplied' /\ UpMeansMigrated'
        BY <1>0, <2>1, <2>6 DEF InOrder, RecordedIsApplied, UpMeansMigrated
    <3>3. NoneMissed'
        BY <1>0, <2>1, <2>3, <2>6 DEF NoneMissed
    <3> QED BY <2>4, <2>5, <3>1, <3>2, <3>3 DEF MigrationInv
  <2>7. CASE pc[i] = "commit" /\ TakeEffect(i)
    <3>1. /\ effects' \in Seq(Files) /\ Len(effects') = Len(effects) + 1
          /\ recorded' \subseteq Files
          /\ InOrder' /\ RecordedIsApplied'
          /\ \A j \in Instances : pc[j] = "up" => Len(effects') = NFiles
        BY <2>1, <2>7, TakingEffect
    <3>2. TypeOK'
        BY <1>0, <2>1, <3>1 DEF TypeOK
    <3>3. UpMeansMigrated'
        BY <2>1, <3>1 DEF UpMeansMigrated
    <3>4. NoneMissed'
        BY <1>0, <1>a, <2>1, <2>3, <3>1 DEF NoneMissed, Files
    <3> QED BY <2>4, <2>5, <3>1, <3>2, <3>3, <3>4 DEF MigrationInv
  <2> QED BY <1>8, <2>6, <2>7 DEF ConnectionLost
<1>9. CASE Serving \/ UNCHANGED vars
  <2>1. UNCHANGED vars
      BY <1>9 DEF Serving
  <2> QED BY <1>0, <2>1 DEF vars, MigrationInv, TypeOK, InOrder, RecordedIsApplied,
             UpMeansMigrated, Locked, NoneMissed, NoneTwice, OneInHand, Pending
<1> QED BY <1>1, <1>2, <1>3, <1>4, <1>5, <1>6, <1>7, <1>8, <1>9 DEF Next, Step

LEMMA Invariance == Spec => []MigrationInv
BY InitInv, StepInv, PTL DEF Spec

-----------------------------------------------------------------------------
(* The variables keep their types, whatever fails.                         *)
THEOREM TypeCorrect == Spec => []TypeOK
<1>1. MigrationInv => TypeOK
    BY DEF MigrationInv
<1> QED BY <1>1, Invariance, PTL

(* Every migration has its effect once, after all those before it: for any *)
(* number of instances that start, die and start again (migrate.js:10).    *)
THEOREM AppliedInOrder == Spec => []InOrder
<1>1. MigrationInv => InOrder
    BY DEF MigrationInv
<1> QED BY <1>1, Invariance, PTL

(* The recorded names are those of the applied files (migrate.js:11).      *)
THEOREM RecordsAgree == Spec => []RecordedIsApplied
<1>1. MigrationInv => RecordedIsApplied
    BY DEF MigrationInv
<1> QED BY <1>1, Invariance, PTL

(* An instance opens its ports (index.js:25) only over a database with all *)
(* the migrations, though its session was lost and others took over.       *)
THEOREM ServesMigrated == Spec => []UpMeansMigrated
<1>1. MigrationInv => UpMeansMigrated
    BY DEF MigrationInv
<1> QED BY <1>1, Invariance, PTL
=============================================================================
