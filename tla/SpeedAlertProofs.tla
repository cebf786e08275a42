-------------------------- MODULE SpeedAlertProofs --------------------------
(***************************************************************************)
(* While no query is lost and no two evaluations run side by side, each    *)
(* crossing is reported and the events alternate; otherwise a failure      *)
(* costs one alternation and an overlap two: for any sockets, speeds,      *)
(* limits and changes of the limit.                                        *)
(***************************************************************************)
EXTENDS SpeedAlert, FiniteSetTheorems, TLAPS

Calm == faults = 0 /\ overlaps = 0

(* The row remembers the last position that was compared.                  *)
RowRemembers == faults = 0 => (speeding = "speeding" <=> wasOver)

(* One socket at a time is past the INSERT of its position.                *)
OneAtATime == Calm => \A s, o \in Sockets : pc[s] # "idle" /\ pc[o] # "idle" => s = o

(* So nobody writes the row between the snapshot and the statement.        *)
SnapshotIsFresh == Calm => \A s \in Sockets : pc[s] = "statement" => seen[s].row = speeding

Reported == IF events = <<>> THEN "normalizada" ELSE events[Len(events)]

(* The verdict that has no event yet is the opposite of the last event.    *)
VerdictsAreNews == Calm => \A s \in Sockets :
    /\ pc[s] = "entered" => speeding = "speeding" /\ Reported = "normalizada"
    /\ pc[s] = "cleared" => speeding # "speeding" /\ Reported = "exceso"

(* When there is none, the last event is what the row says.                *)
EventsFollowTheRow ==
    Calm /\ (\A s \in Sockets : pc[s] \notin {"entered", "cleared"}) =>
        (speeding = "speeding" <=> Reported = "exceso")

Alternates == Calm => Repeated = {}

AlertInv == /\ TypeOK /\ RowRemembers /\ OneAtATime /\ SnapshotIsFresh
            /\ VerdictsAreNews /\ EventsFollowTheRow /\ Alternates

(* An event that differs from the last one repeats nothing.                *)
LEMMA AppendAlternates ==
    ASSUME events \in Seq({"exceso", "normalizada"}), Repeated = {},
           NEW e \in {"exceso", "normalizada"}, e # Reported, events' = Append(events, e)
    PROVE  Repeated' = {} /\ Reported' = e
<1>1. /\ Len(events) \in Nat /\ Len(events') = Len(events) + 1
      /\ events'[Len(events')] = e /\ events' # <<>>
      /\ \A i \in 1 .. Len(events) : events'[i] = events[i]
    OBVIOUS
<1>2. \A i \in 1 .. Len(events) : events[i] # IF i = 1 THEN "normalizada" ELSE events[i - 1]
    BY DEF Repeated
<1>3. ASSUME NEW i \in 1 .. Len(events')
      PROVE  events'[i] # IF i = 1 THEN "normalizada" ELSE events'[i - 1]
  <2>1. CASE i \in 1 .. Len(events)
    <3>1. i # 1 => i - 1 \in 1 .. Len(events)
        BY <1>1, <2>1
    <3> QED BY <1>1, <1>2, <2>1, <3>1
  <2>2. CASE i = Len(events) + 1 /\ events = <<>>
      BY <1>1, <2>2 DEF Reported
  <2>3. CASE i = Len(events) + 1 /\ events # <<>>
    <3>1. i # 1 /\ i - 1 = Len(events) /\ Len(events) \in 1 .. Len(events)
        BY <1>1, <2>3
    <3>2. events'[i - 1] = Reported
        BY <1>1, <2>3, <3>1 DEF Reported
    <3> QED BY <1>1, <2>3, <3>1, <3>2
  <2> QED BY <1>1, <2>1, <2>2, <2>3
<1> QED BY <1>1, <1>3 DEF Repeated, Reported

(* Before the first position.                                              *)
LEMMA Beginning == Init => AlertInv
<1> SUFFICES ASSUME Init PROVE AlertInv
    OBVIOUS
<1>1. events = <<>> /\ Len(events) = 0 /\ events \in Seq({"exceso", "normalizada"})
    BY DEF Init
<1>2. TypeOK
  <2>1. NoSnapshot \in [limit : Limits \cup {NoLimit}, row : Rows]
      BY DEF NoSnapshot, Rows
  <2>2. /\ pc \in [Sockets -> {"idle", "statement", "entered", "cleared"}]
        /\ speed \in [Sockets -> Speeds \cup {0}]
        /\ seen \in [Sockets -> [limit : Limits \cup {NoLimit}, row : Rows]]
        /\ speeding \in Rows /\ wasOver \in BOOLEAN
      BY <2>1 DEF Init, Rows
  <2>3. /\ overlaps \in 0 .. pulses /\ pulses \in 0 .. MaxPulses
        /\ changes \in 0 .. MaxChanges /\ faults \in 0 .. MaxFaults
      BY BoundsAssumption DEF Init
  <2> QED BY <1>1, <2>2, <2>3 DEF Init, TypeOK
<1>3. Repeated = {}
    BY <1>1 DEF Repeated
<1> QED BY <1>1, <1>2, <1>3 DEF Init, AlertInv, RowRemembers, OneAtATime, SnapshotIsFresh,
                                VerdictsAreNews, EventsFollowTheRow, Alternates, Reported

(* A position's statement starts.                                          *)
LEMMA StartKeeps ==
    ASSUME AlertInv, NEW s \in Sockets, StartEvaluation(s)
    PROVE  AlertInv'
<1>1. /\ faults' = faults /\ speeding' = speeding /\ events' = events /\ wasOver' = wasOver
      /\ pc \in [Sockets -> {"idle", "statement", "entered", "cleared"}]
      /\ pc' = [pc EXCEPT ![s] = "statement"] /\ pc[s] = "idle"
      /\ seen' = [seen EXCEPT ![s] = [limit |-> limit, row |-> speeding]]
      /\ overlaps \in Nat /\ overlaps' \in {overlaps, overlaps + 1}
    BY BoundsAssumption DEF StartEvaluation, AlertInv, TypeOK
<1>2. TypeOK'
  <2>1. pulses' \in 0 .. MaxPulses /\ overlaps' \in 0 .. pulses'
      BY <1>1, BoundsAssumption DEF StartEvaluation, AlertInv, TypeOK
  <2>2. speed' \in [Sockets -> Speeds \cup {0}]
      BY DEF StartEvaluation, AlertInv, TypeOK
  <2>3. seen' \in [Sockets -> [limit : Limits \cup {NoLimit}, row : Rows]]
      BY <1>1 DEF AlertInv, TypeOK
  <2> QED BY <1>1, <2>1, <2>2, <2>3 DEF StartEvaluation, AlertInv, TypeOK
<1>3. Calm' => Calm /\ \A o \in Sockets : pc[o] = "idle"
    BY <1>1 DEF Calm, StartEvaluation
<1>4. \A o \in Sockets : pc'[o] = IF o = s THEN "statement" ELSE pc[o]
    BY <1>1
<1>5. SnapshotIsFresh'
    BY <1>1, <1>3, <1>4 DEF SnapshotIsFresh, AlertInv, TypeOK
<1>6. OneAtATime' /\ VerdictsAreNews'
    BY <1>3, <1>4 DEF OneAtATime, VerdictsAreNews
<1>7. EventsFollowTheRow'
    BY <1>1, <1>3 DEF AlertInv, EventsFollowTheRow, Reported
<1>8. RowRemembers' /\ Alternates'
    BY <1>1, <1>3 DEF AlertInv, RowRemembers, Alternates, Repeated
<1> QED BY <1>2, <1>5, <1>6, <1>7, <1>8 DEF AlertInv

(* The statement commits.                                                  *)
LEMMA EvaluateKeeps ==
    ASSUME AlertInv, NEW s \in Sockets, Evaluate(s)
    PROVE  AlertInv'
<1>1. /\ pc[s] = "statement" /\ pc' \in [Sockets -> {"idle", "statement", "entered", "cleared"}]
      /\ \A o \in Sockets \ {s} : pc'[o] = pc[o]
      /\ pc'[s] = IF Entered(s) THEN "entered" ELSE IF Cleared(s) THEN "cleared" ELSE "idle"
      /\ UNCHANGED <<seen, events, overlaps, faults>>
    BY DEF Evaluate, AlertInv, TypeOK
<1>2. /\ Upsert(s) /\ speeding' \in Rows
      /\ wasOver' = IF seen[s].limit = NoLimit THEN wasOver ELSE Over(s)
      /\ wasOver' \in BOOLEAN
    BY DEF Evaluate, Upsert, AlertInv, TypeOK, Rows, Over
<1>3. TypeOK'
    BY <1>1, <1>2 DEF Evaluate, AlertInv, TypeOK
<1>4. RowRemembers'
    BY <1>1, <1>2 DEF Upsert, AlertInv, RowRemembers
<1>5. (Calm' <=> Calm) /\ (Calm => \A o \in Sockets \ {s} : pc'[o] = "idle")
    BY <1>1 DEF Calm, AlertInv, OneAtATime
<1>6. OneAtATime' /\ SnapshotIsFresh'
    BY <1>1, <1>5 DEF OneAtATime, SnapshotIsFresh
<1>7. Calm => seen[s].row = speeding /\ (speeding = "speeding" <=> Reported = "exceso")
  <2>1. Calm => \A o \in Sockets : pc[o] \notin {"entered", "cleared"}
      BY <1>1, <1>5
  <2> QED BY <1>1, <2>1 DEF AlertInv, SnapshotIsFresh, EventsFollowTheRow
<1>8. Reported \in {"exceso", "normalizada"} /\ Reported' = Reported /\ Repeated' = Repeated
    BY <1>1 DEF Reported, Repeated, AlertInv, TypeOK
<1>9. VerdictsAreNews'
    BY <1>1, <1>2, <1>5, <1>7, <1>8 DEF VerdictsAreNews, Entered, Cleared, Over, Upsert
<1>10. EventsFollowTheRow'
    BY <1>1, <1>2, <1>5, <1>7, <1>8 DEF EventsFollowTheRow, Entered, Cleared, Over, Upsert
<1>11. Alternates'
    BY <1>5, <1>8 DEF AlertInv, Alternates
<1> QED BY <1>3, <1>4, <1>6, <1>9, <1>10, <1>11 DEF AlertInv

(* The event of a verdict is stored.                                       *)
LEMMA RecordKeeps ==
    ASSUME AlertInv, NEW s \in Sockets, RecordEvent(s)
    PROVE  AlertInv'
<1> PICK e : e = IF pc[s] = "entered" THEN "exceso" ELSE "normalizada"
    OBVIOUS
<1>1. /\ pc[s] \in {"entered", "cleared"} /\ e \in {"exceso", "normalizada"}
      /\ events' = Append(events, e)
      /\ pc' \in [Sockets -> {"idle", "statement", "entered", "cleared"}]
      /\ pc'[s] = "idle" /\ \A o \in Sockets \ {s} : pc'[o] = pc[o]
      /\ UNCHANGED <<seen, speeding, wasOver, overlaps, faults>>
    BY DEF RecordEvent, AlertInv, TypeOK
<1>2. TypeOK'
    BY <1>1 DEF RecordEvent, AlertInv, TypeOK
<1>3. (Calm' <=> Calm) /\ (Calm => \A o \in Sockets \ {s} : pc'[o] = "idle")
    BY <1>1 DEF Calm, AlertInv, OneAtATime
<1>4. Calm => e # Reported /\ (speeding = "speeding" <=> e = "exceso")
    BY <1>1 DEF AlertInv, VerdictsAreNews
<1>5. Calm => Repeated' = {} /\ Reported' = e
  <2>1. events \in Seq({"exceso", "normalizada"}) /\ (Calm => Repeated = {})
      BY DEF AlertInv, TypeOK, Alternates
  <2> QED BY <1>1, <1>4, <2>1, AppendAlternates
<1>6. OneAtATime' /\ SnapshotIsFresh' /\ VerdictsAreNews'
    BY <1>1, <1>3 DEF OneAtATime, SnapshotIsFresh, VerdictsAreNews
<1>7. EventsFollowTheRow' /\ Alternates' /\ RowRemembers'
    BY <1>1, <1>3, <1>4, <1>5 DEF AlertInv, EventsFollowTheRow, Alternates, RowRemembers
<1> QED BY <1>2, <1>6, <1>7 DEF AlertInv

(* After a failure nothing more is claimed than the types.                 *)
LEMMA FailureKeeps ==
    ASSUME AlertInv, NEW s \in Sockets, EventFails(s) \/ EvaluationFails(s)
    PROVE  AlertInv'
<1>1. faults' = faults + 1 /\ faults \in Nat /\ faults' \in 0 .. MaxFaults
    BY BoundsAssumption DEF EventFails, EvaluationFails, AlertInv, TypeOK
<1>2. pc' \in [Sockets -> {"idle", "statement", "entered", "cleared"}] /\ speeding' \in Rows
    BY DEF EventFails, EvaluationFails, Upsert, AlertInv, TypeOK, Rows
<1>3. TypeOK'
    BY <1>1, <1>2 DEF EventFails, EvaluationFails, AlertInv, TypeOK
<1>4. faults' # 0
    BY <1>1
<1> QED BY <1>3, <1>4 DEF AlertInv, Calm, RowRemembers, OneAtATime, SnapshotIsFresh,
                          VerdictsAreNews, EventsFollowTheRow, Alternates

(* The limit changes, or nothing does.                                     *)
LEMMA OthersKeep ==
    ASSUME AlertInv, SetLimit \/ UNCHANGED vars
    PROVE  AlertInv'
<1>1. /\ UNCHANGED <<speeding, pc, speed, seen, events, wasOver, overlaps, pulses, faults>>
      /\ limit' \in Limits \cup {NoLimit}
    BY DEF SetLimit, vars, AlertInv, TypeOK
<1>2. changes' \in 0 .. MaxChanges
    BY BoundsAssumption DEF SetLimit, vars, AlertInv, TypeOK
<1>3. TypeOK'
    BY <1>1, <1>2 DEF AlertInv, TypeOK
<1> QED BY <1>1, <1>3 DEF AlertInv, Calm, RowRemembers, OneAtATime, SnapshotIsFresh,
                          VerdictsAreNews, EventsFollowTheRow, Alternates, Repeated, Reported

-----------------------------------------------------------------------------
(* The types, the row and the events.                                      *)
LEMMA InvariantHolds == Spec => []AlertInv
<1>1. AlertInv /\ [Next]_vars => AlertInv'
    BY StartKeeps, EvaluateKeeps, RecordKeeps, FailureKeeps, OthersKeep DEF Next, Silence
<1> QED BY <1>1, Beginning, PTL DEF Spec

(* The variables have their types.                                         *)
THEOREM TypeCorrect == Spec => []TypeOK
<1>1. AlertInv => TypeOK
    BY DEF AlertInv
<1> QED BY <1>1, InvariantHolds, PTL

(* Without failures and overlaps AlertsAlternate holds in its strict form: *)
(* no event repeats the one before it.                                     *)
THEOREM CalmAlertsAlternate == Spec => []Alternates
<1>1. AlertInv => Alternates
    BY DEF AlertInv
<1> QED BY <1>1, InvariantHolds, PTL

(* Going from within the limit to above it makes an event, whatever limits *)
(* were set and whatever was reported between the two without one.         *)
THEOREM EveryCrossingIsReported == Spec => CrossingIsReported
<1>1. ASSUME AlertInv, [Next]_vars, NEW s \in Sockets, faults' = 0, overlaps = 0,
             pc[s] = "statement", pc'[s] # "statement", Over(s), ~wasOver
      PROVE  pc'[s] = "entered"
  <2>1. faults \in Nat /\ pc \in [Sockets -> {"idle", "statement", "entered", "cleared"}]
    <3>1. faults \in 0 .. MaxFaults
        BY <1>1 DEF AlertInv, TypeOK
    <3>2. faults \in Nat
        BY <3>1
    <3>3. pc \in [Sockets -> {"idle", "statement", "entered", "cleared"}]
        BY <1>1 DEF AlertInv, TypeOK
    <3> QED BY <3>2, <3>3
  <2>2. Evaluate(s)
    <3>1. ~EvaluationFails(s)
        BY <1>1, <2>1 DEF EvaluationFails
    <3>2. \A o \in Sockets \ {s} : ~(StartEvaluation(o) \/ Evaluate(o) \/ RecordEvent(o)
                                    \/ EventFails(o) \/ EvaluationFails(o))
        BY <1>1, <2>1 DEF StartEvaluation, Evaluate, RecordEvent, EventFails, EvaluationFails
    <3>3. ~(StartEvaluation(s) \/ RecordEvent(s) \/ EventFails(s))
        BY <1>1 DEF StartEvaluation, RecordEvent, EventFails
    <3>4. ~SetLimit /\ ~(UNCHANGED vars)
        BY <1>1 DEF SetLimit, vars
    <3> QED BY <1>1, <3>1, <3>2, <3>3, <3>4 DEF Next, Silence
  <2>3. faults = 0 /\ speeding # "speeding" /\ seen[s].row = speeding
    <3>1. faults' = faults
        BY <2>2 DEF Evaluate
    <3> QED BY <1>1, <3>1 DEF AlertInv, RowRemembers, SnapshotIsFresh, Calm
  <2> QED BY <1>1, <2>1, <2>2, <2>3 DEF Evaluate, Entered
<1>2. AlertInv /\ [Next]_vars =>
        [\A s \in Sockets : faults' = 0 /\ overlaps = 0 /\ pc[s] = "statement"
                            /\ pc'[s] # "statement" /\ Over(s) /\ ~wasOver
            => pc'[s] = "entered"]_vars
    BY <1>1
<1> QED BY <1>2, InvariantHolds, PTL DEF Spec, CrossingIsReported

-----------------------------------------------------------------------------
(* With failures and overlaps: what is repeated is paid for.               *)

(* The sockets with a position under way.                                  *)
Active == {s \in Sockets : pc[s] # "idle"}

(* What the row or a snapshot says, as the event that it would be.         *)
Says(row) == IF row = "speeding" THEN "exceso" ELSE "normalizada"

(* The event of a verdict.                                                 *)
Verdict(s) == IF pc[s] = "entered" THEN "exceso" ELSE "normalizada"

(* The repetition that is to come when the row contradicts the last event. *)
Debt == IF Says(speeding) = Reported THEN 0 ELSE 1

(* The repetitions that the only position under way may still lead to: a   *)
(* fresh snapshot adds none, and a verdict may repeat the last event and   *)
(* be contradicted by the row.                                             *)
Owed(s) == IF pc[s] = "statement"
           THEN IF Says(seen[s].row) = Says(speeding) THEN Debt ELSE 1
           ELSE (IF Verdict(s) = Reported THEN 1 ELSE 0)
                + (IF Verdict(s) = Says(speeding) THEN 0 ELSE 1)

(* Two verdicts that both repeat the last event, against the row.          *)
BothRepeat(s, o) == /\ pc[s] # "statement" /\ pc[o] # "statement"
                    /\ Verdict(s) = Reported /\ Verdict(o) = Reported
                    /\ Says(speeding) # Reported

(* A failure pays for one repetition and an overlap for two.               *)
Paid == faults + 2 * overlaps
Within(n) == Cardinality(Repeated) + n <= Paid

(* What is repeated and what is owed is paid for, by the number of         *)
(* positions under way: of three or more, each may repeat an event and the *)
(* row contradict the last; of two it takes BothRepeat.                    *)
OwesNothing == Active = {} => Within(Debt)
OwesForOne == \A s \in Sockets : Active = {s} => Within(Owed(s))
OwesForTwo == \A s, o \in Sockets : s # o /\ Active = {s, o} =>
                 Within(2) /\ (BothRepeat(s, o) => Within(3))
OwesForMore == Cardinality(Active) >= 3 => Within(Cardinality(Active) + 1)

RepeatsArePaid == /\ IsFiniteSet(Active)
                  /\ OwesNothing /\ OwesForOne /\ OwesForTwo /\ OwesForMore

(* The numbers are numbers.                                                *)
LEMMA Counts ==
    ASSUME TypeOK
    PROVE  /\ IsFiniteSet(Repeated) /\ Cardinality(Repeated) \in Nat /\ Paid \in Nat
           /\ faults \in Nat /\ overlaps \in Nat
           /\ Reported \in {"exceso", "normalizada"}
<1>1. events \in Seq({"exceso", "normalizada"}) /\ faults \in Nat /\ overlaps \in Nat
  <2>1. pulses \in Nat
      BY BoundsAssumption DEF TypeOK
  <2> QED BY <2>1, BoundsAssumption DEF TypeOK
<1>2. IsFiniteSet(1 .. Len(events))
    BY <1>1, FS_Interval
<1>3. Repeated \in SUBSET (1 .. Len(events))
    BY DEF Repeated
<1>4. IsFiniteSet(Repeated) /\ Cardinality(Repeated) \in Nat
    BY <1>2, <1>3, FS_Subset, FS_CardinalityType
<1>5. Reported \in {"exceso", "normalizada"}
    BY <1>1 DEF Reported
<1> QED BY <1>1, <1>4, <1>5 DEF Paid

(* An event repeats at most the one before it.                             *)
LEMMA AppendCounts ==
    ASSUME TypeOK, NEW e \in {"exceso", "normalizada"}, events' = Append(events, e)
    PROVE  /\ Reported' = e
           /\ IsFiniteSet(Repeated') /\ Cardinality(Repeated') \in Nat
           /\ Cardinality(Repeated') <= Cardinality(Repeated) + IF e = Reported THEN 1 ELSE 0
<1> DEFINE n == Len(events) + 1
<1>1. /\ events \in Seq({"exceso", "normalizada"})
      /\ IsFiniteSet(Repeated) /\ Cardinality(Repeated) \in Nat
    BY Counts DEF TypeOK
<1>2. /\ Len(events) \in Nat /\ Len(events') = n /\ n \in Nat
      /\ events'[n] = e /\ events' # <<>>
      /\ \A i \in 1 .. Len(events) : events'[i] = events[i]
    BY <1>1
<1>3. Reported' = e
    BY <1>2 DEF Reported
<1>4. ASSUME NEW i \in Repeated', i # n PROVE i \in Repeated
  <2>1. i \in 1 .. Len(events) /\ (i # 1 => i - 1 \in 1 .. Len(events))
      BY <1>2, <1>4 DEF Repeated
  <2> QED BY <1>2, <1>4, <2>1 DEF Repeated
<1>5. n \in Repeated' => e = Reported
  <2>1. CASE events = <<>>
      BY <1>2, <2>1 DEF Repeated, Reported
  <2>2. CASE events # <<>>
    <3>1. n # 1 /\ n - 1 = Len(events) /\ Len(events) \in 1 .. Len(events)
        BY <1>1, <2>2
    <3> QED BY <1>2, <2>2, <3>1 DEF Repeated, Reported
  <2> QED BY <2>1, <2>2
<1> HIDE DEF n
<1>6. /\ IsFiniteSet(Repeated \cup {n})
      /\ Cardinality(Repeated \cup {n}) \in Nat
      /\ Cardinality(Repeated \cup {n}) <= Cardinality(Repeated) + 1
  <2>1. /\ IsFiniteSet(Repeated \cup {n})
        /\ Cardinality(Repeated \cup {n})
              = IF n \in Repeated THEN Cardinality(Repeated) ELSE Cardinality(Repeated) + 1
      BY <1>1, FS_AddElement
  <2> QED BY <1>1, <2>1
<1>7. CASE e = Reported
  <2>1. Repeated' \in SUBSET (Repeated \cup {n})
      BY <1>4
  <2>2. /\ IsFiniteSet(Repeated') /\ Cardinality(Repeated') \in Nat
        /\ Cardinality(Repeated') <= Cardinality(Repeated \cup {n})
      BY <1>6, <2>1, FS_Subset, FS_CardinalityType
  <2> QED BY <1>1, <1>3, <1>6, <1>7, <2>2
<1>8. CASE e # Reported
  <2>1. Repeated' \in SUBSET Repeated
      BY <1>4, <1>5, <1>8
  <2>2. /\ IsFiniteSet(Repeated') /\ Cardinality(Repeated') \in Nat
        /\ Cardinality(Repeated') <= Cardinality(Repeated)
      BY <1>1, <2>1, FS_Subset, FS_CardinalityType
  <2> QED BY <1>1, <1>3, <1>8, <2>2
<1> QED BY <1>7, <1>8

(* Sets of at most two elements.                                           *)
LEMMA TwoElements ==
    ASSUME NEW S, IsFiniteSet(S)
    PROVE  /\ Cardinality(S) \in Nat
           /\ Cardinality(S) = 0 <=> S = {}
           /\ Cardinality(S) = 1 <=> \E x : S = {x}
           /\ Cardinality(S) = 2 => \E x, y : x # y /\ S = {x, y}
<1>1. /\ Cardinality(S) \in Nat
      /\ Cardinality(S) = 0 <=> S = {}
      /\ Cardinality(S) = 1 <=> \E x : S = {x}
    BY FS_CardinalityType, FS_EmptySet, FS_Singleton
<1>2. ASSUME Cardinality(S) = 2 PROVE \E x, y : x # y /\ S = {x, y}
  <2>1. PICK x : x \in S
      BY <1>1, <1>2
  <2>2. IsFiniteSet(S \ {x}) /\ Cardinality(S \ {x}) = 1
      BY <1>2, <2>1, FS_RemoveElement
  <2>3. PICK y : S \ {x} = {y}
      BY <2>2, FS_Singleton
  <2>4. y \in S \ {x}
      BY <2>3
  <2>5. S = (S \ {x}) \cup {x}
      BY <2>1
  <2>6. S = {x, y} /\ x # y
      BY <2>3, <2>4, <2>5
  <2> QED BY <2>6
<1> QED BY <1>1, <1>2

(* Two different elements are two.                                         *)
LEMMA PairIsTwo ==
    ASSUME NEW x, NEW y, x # y
    PROVE  Cardinality({x, y}) = 2
<1>1. IsFiniteSet({x}) /\ Cardinality({x}) = 1
    BY FS_Singleton
<1>2. Cardinality({x} \cup {y}) = 2
    BY <1>1, FS_AddElement
<1>3. {x, y} = {x} \cup {y}
    OBVIOUS
<1> QED BY <1>2, <1>3

(* A position is done with: what has to be shown of those that are left.   *)
LEMMA OneLeaves ==
    ASSUME RepeatsArePaid, NEW s \in Sockets, s \in Active, Active' = Active \ {s},
           Cardinality(Repeated') \in Nat, Paid' \in Nat,
           Active = {s} => Within(Debt)',
           \A o \in Sockets \ {s} : Active = {s, o} => Within(Owed(o))',
           Cardinality(Active) >= 3 => Cardinality(Repeated') + Cardinality(Active) <= Paid'
    PROVE  RepeatsArePaid'
<1>1. IsFiniteSet(Active)
    BY DEF RepeatsArePaid
<1>2. /\ IsFiniteSet(Active') /\ Cardinality(Active') = Cardinality(Active) - 1
      /\ Cardinality(Active) \in Nat
    BY <1>1, FS_RemoveElement, FS_CardinalityType
<1>3. OwesNothing'
  <2>1. Active' = {} => Active = {s}
      OBVIOUS
  <2> QED BY <2>1 DEF OwesNothing
<1>4. OwesForOne'
  <2> SUFFICES ASSUME NEW o \in Sockets, Active' = {o} PROVE Within(Owed(o))'
      BY DEF OwesForOne
  <2>1. o # s /\ Active = {s, o}
      OBVIOUS
  <2> QED BY <2>1
<1>5. OwesForTwo'
  <2> SUFFICES ASSUME NEW a \in Sockets, NEW o \in Sockets, a # o, Active' = {a, o}
               PROVE  Within(2)' /\ Within(3)'
      BY DEF OwesForTwo
  <2>1. Cardinality(Active') = 2
      <3>1. Cardinality({a, o}) = 2
        BY PairIsTwo
    <3> QED BY <3>1
  <2>2. Cardinality(Active) = 3
      BY <1>2, <2>1
  <2> QED BY <2>2 DEF Within
<1>6. OwesForMore'
  <2>1. Cardinality(Active') >= 3 => Cardinality(Active) >= 3 /\ Cardinality(Active') + 1 = Cardinality(Active)
      BY <1>2
  <2> QED BY <2>1 DEF OwesForMore, Within
<1> QED BY <1>2, <1>3, <1>4, <1>5, <1>6 DEF RepeatsArePaid

(* A position's statement starts: an overlap pays for what it may bring.   *)
LEMMA StartIsPaid ==
    ASSUME AlertInv, RepeatsArePaid, NEW s \in Sockets, StartEvaluation(s)
    PROVE  RepeatsArePaid'
<1>0. /\ IsFiniteSet(Active)
      /\ OwesNothing /\ OwesForOne /\ OwesForTwo /\ OwesForMore
    BY DEF RepeatsArePaid
<1>1. /\ TypeOK /\ pc[s] = "idle" /\ pc' = [pc EXCEPT ![s] = "statement"]
      /\ pc \in [Sockets -> {"idle", "statement", "entered", "cleared"}]
      /\ seen \in [Sockets -> [limit : Limits \cup {NoLimit}, row : Rows]]
      /\ seen' = [seen EXCEPT ![s] = [limit |-> limit, row |-> speeding]]
      /\ speeding' = speeding /\ events' = events /\ faults' = faults
      /\ overlaps' = IF Active = {} THEN overlaps ELSE overlaps + 1
    BY DEF StartEvaluation, AlertInv, TypeOK, Active
<1>2. /\ pc'[s] = "statement" /\ \A o \in Sockets \ {s} : pc'[o] = pc[o]
      /\ seen'[s].row = speeding
    BY <1>1
<1>3. s \notin Active /\ Active' = Active \cup {s}
    BY <1>1, <1>2 DEF Active
<1>4. /\ IsFiniteSet(Active') /\ Cardinality(Active') = Cardinality(Active) + 1
      /\ Cardinality(Active) \in Nat
    BY <1>0, <1>3, FS_AddElement, FS_CardinalityType
<1>5. /\ Reported' = Reported /\ Repeated' = Repeated
      /\ Cardinality(Repeated) \in Nat /\ faults \in Nat /\ overlaps \in Nat
    BY <1>1, Counts DEF Reported, Repeated
<1>6. Paid \in Nat /\ Paid' = IF Active = {} THEN Paid ELSE Paid + 2
    BY <1>1, <1>5 DEF Paid
<1>7. OwesNothing'
    BY <1>3 DEF OwesNothing
<1>8. OwesForOne'
  <2> SUFFICES ASSUME NEW o \in Sockets, Active' = {o} PROVE Within(Owed(o))'
      BY DEF OwesForOne
  <2>1. o = s /\ Active = {}
      BY <1>3
  <2>2. Owed(s)' = Debt
      BY <1>1, <1>2, <1>5 DEF Owed, Debt, Says
  <2> QED BY <1>0, <1>5, <1>6, <2>1, <2>2 DEF OwesNothing, Within
<1>9. OwesForTwo'
  <2> SUFFICES ASSUME NEW a \in Sockets, NEW o \in Sockets, a # o, Active' = {a, o}
               PROVE  Within(2)' /\ ~BothRepeat(a, o)'
      BY DEF OwesForTwo
  <2>1. PICK b \in Sockets : Active = {b}
      BY <1>3
  <2>2. Owed(b) \in Nat
      BY DEF Owed, Debt
  <2>3. Within(0)
      BY <1>0, <1>5, <1>6, <2>1, <2>2 DEF OwesForOne, Within
  <2>4. s = a \/ s = o
      BY <1>3
  <2> QED BY <1>2, <1>5, <1>6, <2>1, <2>3, <2>4 DEF Within, BothRepeat
<1>10. OwesForMore'
  <2> SUFFICES ASSUME Cardinality(Active') >= 3
               PROVE  Cardinality(Repeated') + (Cardinality(Active) + 2) <= Paid'
    <3>1. Cardinality(Active') + 1 = Cardinality(Active) + 2
        BY <1>4
    <3> QED BY <3>1 DEF OwesForMore, Within
  <2>3. Cardinality(Active) >= 2 /\ Active # {}
    <3>1. Cardinality(Active) >= 2
        BY <1>4
    <3> QED BY <3>1, FS_EmptySet
  <2>4. Cardinality(Repeated) + (Cardinality(Active) + 2) <= Paid + 2
    <3>1. CASE Cardinality(Active) = 2
      <4>1. PICK a, b : a # b /\ Active = {a, b}
          BY <1>0, <3>1, TwoElements
      <4>2. a \in Sockets /\ b \in Sockets
          BY <4>1 DEF Active
      <4> QED BY <1>0, <1>5, <1>6, <3>1, <4>1, <4>2 DEF OwesForTwo, Within
    <3>2. CASE Cardinality(Active) >= 3
        BY <1>0, <1>4, <1>5, <1>6, <3>2 DEF OwesForMore, Within
    <3> QED BY <1>4, <3>1, <3>2
  <2> QED BY <1>5, <1>6, <2>3, <2>4
<1> QED BY <1>4, <1>7, <1>8, <1>9, <1>10 DEF RepeatsArePaid

(* The statement commits: a verdict is what the row says from then on, so  *)
(* two that repeat the last event do not contradict the row.               *)
LEMMA EvaluateIsPaid ==
    ASSUME AlertInv, RepeatsArePaid, NEW s \in Sockets, Evaluate(s)
    PROVE  RepeatsArePaid'
<1>1. /\ TypeOK /\ pc[s] = "statement" /\ s \in Active
      /\ pc \in [Sockets -> {"idle", "statement", "entered", "cleared"}]
      /\ pc' \in [Sockets -> {"idle", "statement", "entered", "cleared"}]
      /\ \A o \in Sockets \ {s} : pc'[o] = pc[o]
      /\ seen' = seen /\ events' = events /\ faults' = faults /\ overlaps' = overlaps
    BY DEF Evaluate, AlertInv, TypeOK, Active
<1>2. \/ /\ pc'[s] = "idle" /\ Says(speeding') \in {Says(speeding), Says(seen[s].row)}
      \/ /\ pc'[s] \in {"entered", "cleared"}
         /\ Verdict(s)' = Says(speeding') /\ Says(speeding') # Says(seen[s].row)
  <2>1. /\ Upsert(s)
        /\ pc'[s] = IF Entered(s) THEN "entered" ELSE IF Cleared(s) THEN "cleared" ELSE "idle"
      BY <1>1 DEF Evaluate
  <2>2. CASE Entered(s)
      BY <2>1, <2>2 DEF Entered, Over, Upsert, Says, Verdict
  <2>3. CASE ~Entered(s) /\ Cleared(s)
      BY <2>1, <2>3 DEF Cleared, Upsert, Says, Verdict
  <2>4. CASE ~Entered(s) /\ ~Cleared(s)
      BY <2>1, <2>4 DEF Entered, Cleared, Upsert, Says
  <2> QED BY <2>2, <2>3, <2>4
<1>3. /\ Reported' = Reported /\ Repeated' = Repeated /\ Paid' = Paid
      /\ Cardinality(Repeated) \in Nat /\ Paid \in Nat
      /\ Reported \in {"exceso", "normalizada"}
    BY <1>1, Counts DEF Reported, Repeated, Paid
<1>4. IsFiniteSet(Active) /\ Cardinality(Active) \in Nat
    BY FS_CardinalityType DEF RepeatsArePaid
<1>5. \A row : Says(row) \in {"exceso", "normalizada"}
    BY DEF Says
<1>6. Active = {s} => Within(IF Says(seen[s].row) = Says(speeding) THEN Debt ELSE 1)
    BY <1>1 DEF RepeatsArePaid, OwesForOne, Owed
<1>7. CASE pc'[s] = "idle" /\ Says(speeding') \in {Says(speeding), Says(seen[s].row)}
  <2>1. Active' = Active \ {s}
      BY <1>1, <1>7 DEF Active
  <2>2. Active = {s} => Within(Debt)'
      BY <1>3, <1>6, <1>7 DEF Within, Debt
  <2>3. ASSUME NEW o \in Sockets \ {s}, Active = {s, o} PROVE Within(Owed(o))'
    <3>1. Within(2)
        BY <2>3 DEF RepeatsArePaid, OwesForTwo
    <3>2. Owed(o)' \in {0, 1, 2}
        BY DEF Owed, Debt
    <3> QED BY <1>3, <3>1, <3>2 DEF Within
  <2>4. Cardinality(Active) >= 3 => Cardinality(Repeated') + Cardinality(Active) <= Paid'
      BY <1>3, <1>4 DEF RepeatsArePaid, OwesForMore, Within
  <2> QED BY <1>1, <1>3, <2>1, <2>2, <2>3, <2>4, OneLeaves
<1>8. CASE /\ pc'[s] \in {"entered", "cleared"}
           /\ Verdict(s)' = Says(speeding') /\ Says(speeding') # Says(seen[s].row)
  <2>1. Active' = Active
      BY <1>1, <1>8 DEF Active
  <2>2. OwesNothing'
      BY <1>1, <2>1 DEF OwesNothing
  <2>3. OwesForOne'
    <3> SUFFICES ASSUME NEW o \in Sockets, Active' = {o} PROVE Within(Owed(o))'
        BY DEF OwesForOne
    <3>1. o = s /\ Active = {s}
        BY <1>1, <2>1
    <3>2. Owed(s)' = IF Verdict(s)' = Reported THEN 1 ELSE 0
        BY <1>3, <1>8 DEF Owed
    <3>3. Within(IF Verdict(s)' = Reported THEN 1 ELSE 0)
        BY <1>3, <1>5, <1>6, <1>8, <3>1 DEF Within, Debt
    <3> QED BY <1>3, <3>1, <3>2, <3>3 DEF Within
  <2>4. OwesForTwo'
    <3> SUFFICES ASSUME NEW a \in Sockets, NEW o \in Sockets, a # o, Active' = {a, o}
                 PROVE  Within(2)' /\ ~BothRepeat(a, o)'
        BY DEF OwesForTwo
    <3>1. Within(2)
        BY <2>1 DEF RepeatsArePaid, OwesForTwo
    <3>2. s = a \/ s = o
        BY <1>1, <2>1
    <3> QED BY <1>3, <1>8, <3>1, <3>2 DEF Within, BothRepeat
  <2>5. OwesForMore'
      BY <1>3, <2>1 DEF RepeatsArePaid, OwesForMore, Within
  <2> QED BY <1>4, <2>1, <2>2, <2>3, <2>4, <2>5 DEF RepeatsArePaid
<1> QED BY <1>2, <1>7, <1>8

(* The event of a verdict is stored.                                       *)
LEMMA RecordIsPaid ==
    ASSUME AlertInv, RepeatsArePaid, NEW s \in Sockets, RecordEvent(s)
    PROVE  RepeatsArePaid'
<1> DEFINE e == Verdict(s)
           r == IF e = Reported THEN 1 ELSE 0
<1>1. /\ TypeOK /\ pc[s] \in {"entered", "cleared"} /\ s \in Active
      /\ events' = Append(events, e) /\ pc' = [pc EXCEPT ![s] = "idle"]
      /\ pc \in [Sockets -> {"idle", "statement", "entered", "cleared"}]
      /\ seen' = seen /\ speeding' = speeding /\ faults' = faults /\ overlaps' = overlaps
    BY DEF RecordEvent, AlertInv, TypeOK, Active, Verdict
<1>2. e \in {"exceso", "normalizada"} /\ \A row : Says(row) \in {"exceso", "normalizada"}
    BY DEF Verdict, Says
<1>3. /\ Reported' = e /\ Cardinality(Repeated') \in Nat
      /\ Cardinality(Repeated') <= Cardinality(Repeated) + r
    BY <1>1, <1>2, AppendCounts
<1>4. /\ Cardinality(Repeated) \in Nat /\ Paid' = Paid /\ Paid \in Nat
      /\ Reported \in {"exceso", "normalizada"}
    BY <1>1, Counts DEF Paid
<1>5. Active' = Active \ {s}
    BY <1>1 DEF Active
<1>6. Debt' = (IF e = Says(speeding) THEN 0 ELSE 1)
    BY <1>1, <1>3 DEF Debt
<1>7. ASSUME Active = {s} PROVE Within(Debt)'
  <2>1. Within(r + (IF e = Says(speeding) THEN 0 ELSE 1))
      BY <1>1, <1>7 DEF RepeatsArePaid, OwesForOne, Owed
  <2> QED BY <1>3, <1>4, <1>6, <2>1 DEF Within
<1>8. ASSUME NEW o \in Sockets \ {s}, Active = {s, o} PROVE Within(Owed(o))'
  <2>1. Within(2) /\ (BothRepeat(s, o) => Within(3))
      BY <1>8 DEF RepeatsArePaid, OwesForTwo
  <2>2. pc'[o] = pc[o] /\ Verdict(o)' = Verdict(o)
      BY <1>1 DEF Verdict
  <2>3. CASE pc[o] = "statement"
    <3>1. Owed(o)' \in {0, 1}
        BY <2>2, <2>3 DEF Owed, Debt
    <3> QED BY <1>3, <1>4, <2>1, <3>1 DEF Within
  <2>4. CASE pc[o] # "statement"
    <3>1. Owed(o)' = (IF Verdict(o) = e THEN 1 ELSE 0)
                     + (IF Verdict(o) = Says(speeding) THEN 0 ELSE 1)
        BY <1>1, <1>3, <2>2, <2>4 DEF Owed
    <3>2. BothRepeat(s, o) <=> e = Reported /\ Verdict(o) = Reported /\ Says(speeding) # Reported
        BY <1>1, <2>4 DEF BothRepeat
    <3> QED BY <1>3, <1>4, <2>1, <3>1, <3>2 DEF Within
  <2> QED BY <2>3, <2>4
<1>9. Cardinality(Active) >= 3 => Cardinality(Repeated') + Cardinality(Active) <= Paid'
  <2>1. Cardinality(Active) \in Nat
      BY FS_CardinalityType DEF RepeatsArePaid
  <2>2. Cardinality(Active) >= 3 => Cardinality(Repeated) + (Cardinality(Active) + 1) <= Paid
      BY DEF RepeatsArePaid, OwesForMore, Within
  <2> QED BY <1>3, <1>4, <2>1, <2>2
<1>10. Paid' \in Nat
    BY <1>4
<1> QED BY <1>1, <1>3, <1>5, <1>7, <1>8, <1>9, <1>10, OneLeaves

(* A failure pays for the event it loses and for the row it may leave.     *)
LEMMA FailureIsPaid ==
    ASSUME AlertInv, RepeatsArePaid, NEW s \in Sockets, EventFails(s) \/ EvaluationFails(s)
    PROVE  RepeatsArePaid'
<1>1. /\ TypeOK /\ s \in Active /\ pc' = [pc EXCEPT ![s] = "idle"]
      /\ pc \in [Sockets -> {"idle", "statement", "entered", "cleared"}]
      /\ events' = events /\ faults' = faults + 1 /\ overlaps' = overlaps
    BY DEF EventFails, EvaluationFails, AlertInv, TypeOK, Active
<1>2. /\ Repeated' = Repeated /\ Paid' = Paid + 1
      /\ Cardinality(Repeated) \in Nat /\ Paid \in Nat
    BY <1>1, Counts DEF Repeated, Paid
<1>3. Active' = Active \ {s}
    BY <1>1 DEF Active
<1>4. ASSUME Active = {s} PROVE Within(Debt)'
  <2>1. Within(Owed(s)) /\ Owed(s) \in Nat /\ Debt' \in {0, 1}
      BY <1>4 DEF RepeatsArePaid, OwesForOne, Owed, Debt
  <2> QED BY <1>2, <2>1 DEF Within
<1>5. ASSUME NEW o \in Sockets \ {s}, Active = {s, o} PROVE Within(Owed(o))'
  <2>1. Within(2) /\ Owed(o)' \in {0, 1, 2}
      BY <1>5 DEF RepeatsArePaid, OwesForTwo, Owed, Debt
  <2> QED BY <1>2, <2>1 DEF Within
<1>6. Cardinality(Active) >= 3 => Cardinality(Repeated') + Cardinality(Active) <= Paid'
  <2>1. Cardinality(Active) \in Nat
      BY FS_CardinalityType DEF RepeatsArePaid
  <2>2. Cardinality(Active) >= 3 => Cardinality(Repeated) + (Cardinality(Active) + 1) <= Paid
      BY DEF RepeatsArePaid, OwesForMore, Within
  <2> QED BY <1>2, <2>1, <2>2
<1>7. Paid' \in Nat /\ Cardinality(Repeated') \in Nat
    BY <1>2
<1> QED BY <1>1, <1>3, <1>4, <1>5, <1>6, <1>7, OneLeaves

(* A failed query costs one alternation and an overlap two, for any        *)
(* sockets, however many overlap at a time.                                *)
THEOREM AlertsAlternateHolds == Spec => []AlertsAlternate
<1>1. Init => RepeatsArePaid
  <2> SUFFICES ASSUME Init PROVE RepeatsArePaid
      OBVIOUS
  <2>1. Active = {} /\ Repeated = {} /\ faults = 0 /\ overlaps = 0
      BY DEF Init, Active, Repeated
  <2>2. Debt = 0
      BY DEF Init, Debt, Says, Reported
  <2>3. IsFiniteSet({}) /\ Cardinality({}) = 0
      BY FS_EmptySet
  <2> QED BY <2>1, <2>2, <2>3 DEF RepeatsArePaid, OwesNothing, OwesForOne, OwesForTwo,
                                  OwesForMore, Within, Paid
<1>2. AlertInv /\ RepeatsArePaid /\ [Next]_vars => RepeatsArePaid'
  <2> SUFFICES ASSUME AlertInv, RepeatsArePaid, [Next]_vars PROVE RepeatsArePaid'
      OBVIOUS
  <2>1. CASE SetLimit \/ UNCHANGED vars
    <3>1. UNCHANGED <<speeding, pc, seen, events, overlaps, faults>>
        BY <2>1 DEF SetLimit, vars
    <3> QED BY <3>1 DEF RepeatsArePaid, OwesNothing, OwesForOne, OwesForTwo, OwesForMore,
                        Within, Paid, Active, Debt, Owed, BothRepeat, Verdict, Repeated, Reported
  <2> QED BY <2>1, StartIsPaid, EvaluateIsPaid, RecordIsPaid, FailureIsPaid DEF Next, Silence
<1>3. AlertInv /\ RepeatsArePaid => AlertsAlternate
  <2> SUFFICES ASSUME AlertInv, RepeatsArePaid PROVE AlertsAlternate
      OBVIOUS
  <2>1. Cardinality(Repeated) \in Nat /\ Paid \in Nat
      BY Counts DEF AlertInv
  <2>2. Within(0)
    <3>1. IsFiniteSet(Active) /\ Cardinality(Active) \in Nat /\ Debt \in Nat
        BY FS_CardinalityType DEF RepeatsArePaid, Debt
    <3>2. CASE Cardinality(Active) = 0
      <4>1. Within(Debt)
          BY <3>1, <3>2, TwoElements DEF RepeatsArePaid, OwesNothing
      <4> QED BY <2>1, <3>1, <4>1 DEF Within
    <3>3. CASE Cardinality(Active) = 1
      <4>1. PICK s : Active = {s}
          BY <3>1, <3>3, TwoElements
      <4>2. s \in Sockets /\ Owed(s) \in Nat
          BY <4>1 DEF Active, Owed, Debt
      <4>3. Within(Owed(s))
          BY <4>1, <4>2 DEF RepeatsArePaid, OwesForOne
      <4> QED BY <2>1, <4>2, <4>3 DEF Within
    <3>4. CASE Cardinality(Active) = 2
      <4>1. PICK a, b : a # b /\ Active = {a, b}
          BY <3>1, <3>4, TwoElements
      <4>2. a \in Sockets /\ b \in Sockets
          BY <4>1 DEF Active
      <4>3. Within(2)
          BY <4>1, <4>2 DEF RepeatsArePaid, OwesForTwo
      <4> QED BY <2>1, <4>3 DEF Within
    <3>5. CASE Cardinality(Active) >= 3
        BY <2>1, <3>1, <3>5 DEF RepeatsArePaid, OwesForMore, Within
    <3> QED BY <3>1, <3>2, <3>3, <3>4, <3>5
  <2> QED BY <2>1, <2>2 DEF AlertsAlternate, Within, Paid
<1> QED BY <1>1, <1>2, <1>3, InvariantHolds, PTL DEF Spec
=============================================================================
