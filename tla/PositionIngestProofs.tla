------------------------- MODULE PositionIngestProofs -------------------------
(***************************************************************************)
(* The positions table keeps the order of each socket and no duplicates,   *)
(* what is answered is stored, each row is announced once and an archived  *)
(* device stays hidden: for any number of sockets, frames, failed queries, *)
(* archivings and crashes.                                                 *)
(***************************************************************************)
EXTENDS PositionIngest, FiniteSetTheorems, TLAPS

Frames == 1 .. Len(task)

(* Before the device of the frame is known.                                *)
Resolution == {"waiting", "lookup", "select", "register"}

(* What the place of a frame implies of it, with the row of the device r.  *)
Fits(t, r) ==
    /\ Len(t.stamps) <= 2
    /\ t.pc \in {"store", "publish"} => t.item <= Len(t.stamps)
    /\ t.pc \in {"touch", "telemetry", "store", "publish", "alarm"} => t.device # "none"
    /\ t.pc = "alarm" => t.item > Len(t.stamps)
    /\ (t.pc = "reply" \/ t.acked) /\ t.device # "none" => t.item > Len(t.stamps)
    /\ t.acked => t.pc \in Settled
    /\ t.device # "none" => r # "absent"
    /\ t.pc \in Resolution \cup {"touch"} => ~t.touched
    /\ t.touched => t.device # "none"

TypeInv == /\ TypeOK
           /\ \A i \in Frames : Fits(task[i], row)
           /\ \A s \in Sockets : session[s] # "none" => row # "absent"
           /\ \A k \in Keys : cache[k] # "none" => row # "absent"

(* One frame becomes t and the others stay.                                *)
LEMMA Replace ==
    ASSUME NEW S, NEW q \in Seq(S), NEW i \in 1 .. Len(q), NEW t \in S
    PROVE  LET r == [q EXCEPT ![i] = t] IN
           /\ r \in Seq(S) /\ Len(r) = Len(q) /\ r[i] = t
           /\ \A j \in 1 .. Len(q) : j # i => r[j] = q[j]
OBVIOUS

(* One more element, and the others stay.                                  *)
LEMMA Extend ==
    ASSUME NEW S, NEW q \in Seq(S), NEW t \in S
    PROVE  /\ Append(q, t) \in Seq(S) /\ Len(Append(q, t)) = Len(q) + 1
           /\ Append(q, t)[Len(q) + 1] = t
           /\ \A j \in 1 .. Len(q) : Append(q, t)[j] = q[j]
OBVIOUS

(* The frame i becomes t, which was not finished, and keeps what arrived.  *)
Becomes(i, t) ==
    /\ t \in Tasks /\ task' = [task EXCEPT ![i] = t]
    /\ t.socket = task[i].socket /\ t.kind = task[i].kind /\ t.stamps = task[i].stamps
    /\ task[i].pc \notin Settled /\ t.pc # "waiting"
    /\ task[i].pc = "waiting" => Turn(i)

(* Where a frame goes from any place with positions to store.              *)
LEMMA PlaceAfter ==
    ASSUME TypeInv, NEW i \in Frames, NEW n \in 1 .. 3
    PROVE  /\ AfterItem(i, n) \in {"store", "alarm", "reply"}
           /\ AfterItem(i, n) = "store" <=> n <= Len(task[i].stamps)
BY DEF AfterItem, TypeInv, TypeOK, Tasks, Frames

(* What the type invariant says of one frame.                              *)
LEMMA FrameType ==
    ASSUME TypeInv, NEW i \in Frames
    PROVE  /\ task[i] \in Tasks /\ Fits(task[i], row) /\ i \in 1 .. MaxFrames
           /\ Len(task[i].stamps) \in Nat
<1>1. task[i] \in Tasks
    BY DEF TypeInv, TypeOK, Frames
<1>2. i \in 1 .. MaxFrames
    BY BoundsAssumption DEF TypeInv, TypeOK, Frames
<1>3. Len(task[i].stamps) \in Nat
    BY <1>1 DEF Tasks
<1> QED BY <1>1, <1>2, <1>3 DEF TypeInv

(* A step of one frame keeps the types, if the frame fits where it goes.   *)
LEMMA BecomesKeeps ==
    ASSUME TypeInv, NEW i \in Frames, NEW t, Becomes(i, t), Fits(t, row'),
           row = "absent" \/ row' # "absent"
    PROVE  /\ task' \in Seq(Tasks) /\ Len(task') = Len(task) /\ Frames' = Frames
           /\ \A j \in Frames' : Fits(task'[j], row')
<1>1. task \in Seq(Tasks) /\ i \in 1 .. Len(task) /\ t \in Tasks
    BY DEF TypeInv, TypeOK, Frames, Becomes
<1>2. /\ task' \in Seq(Tasks) /\ Len(task') = Len(task) /\ task'[i] = t
      /\ \A j \in 1 .. Len(task) : j # i => task'[j] = task[j]
    BY <1>1, Replace DEF Becomes
<1>3. ASSUME NEW j \in Frames, j # i PROVE Fits(task'[j], row')
  <2>1. Fits(task[j], row) /\ task'[j] = task[j]
      BY <1>2, <1>3 DEF TypeInv, Frames
  <2> QED BY <2>1 DEF Fits
<1> QED BY <1>2, <1>3 DEF Frames

Early == Resolution \cup {"touch", "telemetry"}

(* A step of a frame that stores and announces no position.                *)
Quiet(i, t) ==
    /\ rows' = rows /\ lost' = lost /\ t.item = task[i].item
    /\ task[i].pc \notin {"store", "publish"} /\ t.pc # "publish"
    /\ t.pc \in Early \cup {"store"} => task[i].pc \in Early
    /\ row' # row => row = "absent"
    /\ t.began \in {task[i].began, changes}
    /\ t.acked => task[i].pc = "reply" /\ t.device = task[i].device
    /\ t.touched => \/ t.device = row'
                    \/ task[i].touched /\ t.device = task[i].device /\ t.began = task[i].began
    /\ \/ bus' = bus
       \/ \E m \in Messages : /\ m.tipo # "position" /\ m.frame = i /\ m.device = task[i].device
                              /\ task[i].pc \notin Resolution \cup {"touch"}
                              /\ bus' = Append(bus, m)

(* What such a step keeps, apart from the frame itself.                    *)
Rest == /\ socket' = socket
        /\ session' \in [Sockets -> Visibility \cup {"none"}]
        /\ \A s \in Sockets : session'[s] # "none" => row' # "absent"
        /\ cache' \in [Keys -> Visibility \cup {"none"}]
        /\ \A k \in Keys : cache'[k] # "none" => row' # "absent"
        /\ row' \in Visibility \cup {"absent"} /\ (row = "absent" \/ row' # "absent")
        /\ clearing' = clearing /\ changes' = changes
        /\ faults' \in Nat /\ changes' + faults' <= MaxEvents /\ faults' >= faults

(* A step that touches neither the device nor its copies.                  *)
LEMMA RestOfSame ==
    ASSUME TypeInv, socket' = socket, session' = session, cache' = cache, row' = row,
           clearing' = clearing, changes' = changes,
           faults' = faults \/ (Disturbable /\ faults' = faults + 1)
    PROVE  Rest
<1>1. faults' \in Nat /\ changes' + faults' <= MaxEvents /\ faults' >= faults
    BY BoundsAssumption DEF TypeInv, TypeOK, Disturbable
<1> QED BY <1>1 DEF Rest, TypeInv, TypeOK

(* The types after a step without a position in hand.                      *)
LEMMA QuietKeeps ==
    ASSUME TypeInv, NEW i \in Frames, NEW t, Becomes(i, t), Fits(t, row'), Quiet(i, t), Rest
    PROVE  TypeInv'
<1>1. /\ task' \in Seq(Tasks) /\ Len(task') = Len(task)
      /\ \A j \in Frames' : Fits(task'[j], row')
    BY BecomesKeeps DEF Rest
<1>2. bus' \in Seq(Messages)
  <2>1. bus \in Seq(Messages)
      BY DEF TypeInv, TypeOK
  <2> QED BY <2>1, Extend DEF Quiet
<1> QED BY <1>1, <1>2 DEF TypeInv, TypeOK, Quiet, Rest

(* The resolution of the device.                                           *)
LEMMA Resolving ==
    ASSUME TypeInv, NEW i \in Frames,
           \/ BeginNamed(i) \/ BeginUnnamed(i) \/ Lookup(i) \/ Select(i) \/ Register(i)
           \/ ResolveFails(i)
    PROVE  \E t : Becomes(i, t) /\ Fits(t, row') /\ Quiet(i, t) /\ Rest
<1>1. /\ task[i] \in Tasks /\ Fits(task[i], row) /\ task[i].socket \in Sockets
      /\ changes \in 0 .. MaxEvents
    BY FrameType, BoundsAssumption DEF Tasks, TypeInv, TypeOK
<1>2. ASSUME NEW t \in Tasks, task' = [task EXCEPT ![i] = t], task[i].pc \in Resolution,
             task[i].pc = "waiting" => Turn(i),
             t.socket = task[i].socket, t.kind = task[i].kind, t.stamps = task[i].stamps,
             t.pc \in (Early \ {"waiting"}) \cup {"reply", "failed"}, t.item = task[i].item,
             t.touched = task[i].touched, t.began \in {task[i].began, changes},
             t.acked = task[i].acked, row' # row => row = "absent",
             rows' = rows, lost' = lost, bus' = bus
      PROVE  Becomes(i, t) /\ Quiet(i, t)
    BY <1>1, <1>2 DEF Becomes, Quiet, Early, Settled, Resolution, Fits, Tasks
<1>3. ASSUME NEW pc \in (Early \ {"waiting"}) \cup {"reply", "failed"},
             NEW d \in Visibility \cup {"none"}, NEW b \in 0 .. MaxEvents
      PROVE  [task[i] EXCEPT !.pc = pc, !.device = d, !.began = b] \in Tasks
    BY <1>1 DEF Tasks, Places, Early, Resolution, Settled
<1>4. CASE BeginNamed(i)
  <2> USE DEF Resolution
  <2>1. CASE Attribute(i, cache[Keeping(task[i].kind)]) /\ cache[Keeping(task[i].kind)] # "none"
    <3> DEFINE d == cache[Keeping(task[i].kind)]
               t == [task[i] EXCEPT !.pc = "touch", !.device = d, !.began = changes]
    <3>1. d \in Visibility /\ row # "absent"
        BY <2>1 DEF TypeInv, TypeOK, Keys, Keeping
    <3>2. t \in Tasks
        BY <1>1, <1>3, <3>1 DEF Resolution, Early, Resolution
    <3>3. Becomes(i, t) /\ Quiet(i, t)
        BY <1>1, <1>2, <1>4, <2>1, <3>2 DEF BeginNamed, Attribute, At, Early, Tasks
    <3>4. Fits(t, row')
        BY <1>1, <1>4, <3>1 DEF Fits, BeginNamed, At, Tasks, Resolution, Settled, Visibility
    <3>5. Rest
        BY <1>1, <1>4, <2>1, <3>1 DEF Rest, BeginNamed, Attribute, TypeInv, TypeOK, Visibility
    <3> QED BY <3>3, <3>4, <3>5
  <2>2. CASE session' = session /\ cache[Keeping(task[i].kind)] = "none"
    <3> DEFINE t == [task[i] EXCEPT !.pc = IF task[i].kind = "batch" THEN "lookup" ELSE "select",
                                    !.began = changes]
    <3>1. t \in Tasks
        BY <1>1 DEF Tasks, Places
    <3>2. task' = [task EXCEPT ![i] = t]
        BY <1>4, <2>2 DEF BeginNamed, Attribute
    <3>3. Becomes(i, t) /\ Quiet(i, t)
        BY <1>1, <1>2, <1>4, <3>1, <3>2 DEF BeginNamed, At, Early, Tasks
    <3>4. Fits(t, row')
        BY <1>1, <1>4 DEF Fits, BeginNamed, At, Tasks, Settled, Resolution
    <3>5. Rest
        BY <1>4, <2>2, RestOfSame DEF BeginNamed
    <3> QED BY <3>3, <3>4, <3>5
  <2> QED BY <1>4, <2>1, <2>2 DEF BeginNamed
<1>5. CASE BeginUnnamed(i)
  <2> DEFINE d == session[task[i].socket]
             t == [task[i] EXCEPT !.pc = IF d = "none" THEN "reply" ELSE "touch",
                                  !.device = d, !.began = changes]
  <2>1. d \in Visibility \cup {"none"} /\ (d # "none" => row # "absent")
      BY <1>1 DEF TypeInv, TypeOK
  <2>2. t \in Tasks
      BY <1>1, <1>3, <2>1 DEF Resolution, Early, Resolution
  <2>3. Becomes(i, t) /\ Quiet(i, t)
    <3>1. /\ task[i].pc = "waiting" /\ Turn(i) /\ task' = [task EXCEPT ![i] = t]
          /\ rows' = rows /\ lost' = lost /\ bus' = bus /\ row' = row
        BY <1>5 DEF BeginUnnamed, At
    <3>2. /\ t.socket = task[i].socket /\ t.kind = task[i].kind /\ t.stamps = task[i].stamps
          /\ t.item = task[i].item /\ t.pc \in {"reply", "touch"} /\ t.touched = task[i].touched
          /\ t.began = changes /\ t.acked = task[i].acked
        BY <1>1 DEF Tasks
    <3> QED BY <1>2, <2>2, <3>1, <3>2 DEF Resolution, Early, Resolution
  <2>4. Fits(t, row')
      BY <1>1, <1>5, <2>1 DEF Fits, BeginUnnamed, At, Tasks, Settled, Resolution
  <2>5. Rest
      BY <1>5, RestOfSame DEF BeginUnnamed
  <2> QED BY <2>3, <2>4, <2>5
<1>6. ASSUME NEW d \in Visibility, NEW keys, Found(i, d, keys), row' # "absent",
             row' \in Visibility, row' # row => row = "absent", faults' = faults,
             changes' = changes, rows' = rows, lost' = lost,
             bus' = bus, socket' = socket, clearing' = clearing,
             task[i].pc \in Resolution \ {"waiting"}
      PROVE  \E t : Becomes(i, t) /\ Fits(t, row') /\ Quiet(i, t) /\ Rest
  <2> DEFINE t == [task[i] EXCEPT !.pc = "touch", !.device = d]
  <2>1. t \in Tasks
      BY <1>1 DEF Tasks, Places
  <2>2. Becomes(i, t) /\ Quiet(i, t)
      BY <1>1, <1>2, <1>6, <2>1 DEF Found, Early, Resolution, Tasks
  <2>3. Fits(t, row')
      BY <1>1, <1>6 DEF Fits, Tasks, Resolution, Settled, Visibility
  <2>4. Rest
      BY <1>1, <1>6 DEF Found, Rest, TypeInv, TypeOK
  <2> QED BY <2>2, <2>3, <2>4
<1>7. ASSUME NEW pc \in {"select", "register", "failed"}, Goto(i, pc),
             session' = session, cache' = cache, row' = row, changes' = changes,
             rows' = rows, lost' = lost, bus' = bus, socket' = socket, clearing' = clearing,
             faults' = faults \/ (Disturbable /\ faults' = faults + 1),
             task[i].pc \in Resolution \ {"waiting"}
      PROVE  \E t : Becomes(i, t) /\ Fits(t, row') /\ Quiet(i, t) /\ Rest
  <2> DEFINE t == [task[i] EXCEPT !.pc = pc]
  <2>1. t \in Tasks
      BY <1>1, <1>7 DEF Tasks, Places, Settled
  <2>2. Becomes(i, t) /\ Quiet(i, t)
      BY <1>1, <1>2, <1>7, <2>1 DEF Goto, Early, Resolution, Tasks
  <2>3. Fits(t, row')
      BY <1>1, <1>7 DEF Fits, Tasks, Settled, Resolution
  <2>4. Rest
      BY <1>7, RestOfSame
  <2> QED BY <2>2, <2>3, <2>4
<1>8. row \in Visibility \cup {"absent"} /\ "absent" \notin Visibility
    BY DEF TypeInv, TypeOK, Visibility
<1>9. CASE Lookup(i)
    BY <1>6, <1>7, <1>8, <1>9 DEF Lookup, At, Resolution
<1>10. CASE Select(i)
    BY <1>6, <1>7, <1>8, <1>10 DEF Select, At, Resolution
<1>11. CASE Register(i)
    BY <1>6, <1>8, <1>11 DEF Register, At, Visibility, Resolution
<1>12. CASE ResolveFails(i)
    BY <1>7, <1>12 DEF ResolveFails, Resolution
<1> QED BY <1>4, <1>5, <1>9, <1>10, <1>11, <1>12


(* Where a frame goes when its device has been touched.                    *)
LEMMA PlaceAfterTouch ==
    ASSUME TypeInv, NEW i \in Frames
    PROVE  /\ Positions(i) \in {"store", "alarm", "reply"}
           /\ Positions(i) = "store" <=> task[i].item <= Len(task[i].stamps)
           /\ AfterTouch(i) = "telemetry" \/ AfterTouch(i) = Positions(i)
BY PlaceAfter, FrameType DEF Positions, AfterTouch, Tasks

(* From the touch to the reply, but for the positions.                     *)
LEMMA Processing ==
    ASSUME TypeInv, NEW i \in Frames,
           \/ Touch(i) \/ TouchFails(i) \/ Telemetry(i) \/ TelemetryFails(i)
           \/ RaiseAlarm(i) \/ Reply(i)
    PROVE  \E t : Becomes(i, t) /\ Fits(t, row') /\ Quiet(i, t) /\ Rest
<1>1. /\ task[i] \in Tasks /\ Fits(task[i], row) /\ task[i].socket \in Sockets
      /\ i \in 1 .. MaxFrames /\ Len(task[i].stamps) \in Nat /\ task[i].item \in Nat
    BY FrameType DEF Tasks
<1>2. row \in Visibility \cup {"absent"} /\ "absent" \notin Visibility /\ "none" \notin Visibility
    BY DEF TypeInv, TypeOK, Visibility
<1>3. task[i].pc \in {"touch", "telemetry", "alarm"} =>
          task[i].device \in Visibility /\ row \in Visibility /\ ~task[i].acked
    BY <1>1, <1>2 DEF Fits, Tasks, Settled
<1>4. CASE Touch(i)
  <2> DEFINE t == [task[i] EXCEPT !.pc = AfterTouch(i), !.device = row, !.touched = TRUE]
  <2>1. /\ task[i].pc = "touch" /\ task' = [task EXCEPT ![i] = t]
        /\ rows' = rows /\ lost' = lost /\ bus' = bus /\ row' = row
      BY <1>4 DEF Touch, At, Refreshed
  <2>2. t \in Tasks
      BY <1>1, <1>3, <2>1, PlaceAfterTouch DEF Tasks, Places
  <2>3. /\ t.socket = task[i].socket /\ t.kind = task[i].kind /\ t.stamps = task[i].stamps
        /\ t.item = task[i].item /\ t.pc = AfterTouch(i) /\ t.device = row /\ ~t.acked
        /\ t.touched /\ t.began = task[i].began
      BY <1>1, <1>3, <2>1 DEF Tasks
  <2>4. Becomes(i, t) /\ Quiet(i, t)
      BY <2>1, <2>2, <2>3, PlaceAfterTouch DEF Becomes, Quiet, Early, Resolution, Settled
  <2>5. Fits(t, row')
      BY <1>1, <1>2, <1>3, <2>1, <2>3, PlaceAfterTouch DEF Fits, Resolution
  <2>6. Rest
      BY <1>1, <1>2, <1>3, <1>4, <2>1 DEF Touch, Refreshed, Rest, TypeInv, TypeOK
  <2> QED BY <2>4, <2>5, <2>6
<1>5. ASSUME NEW pc \in {"telemetry", "store", "alarm", "reply"}, Goto(i, pc),
             task[i].pc \in {"touch", "telemetry", "alarm"},
             pc = "telemetry" => task[i].pc = "touch",
             pc = "store" => task[i].pc \in {"touch", "telemetry"},
             pc = "store" <=> (pc # "telemetry" /\ task[i].item <= Len(task[i].stamps)),
             session' = session, cache' = cache, row' = row, changes' = changes,
             rows' = rows, lost' = lost, socket' = socket, clearing' = clearing,
             faults' = faults \/ (Disturbable /\ faults' = faults + 1),
             bus' = bus \/ \E r \in Nat : \E tipo \in {"telemetry", "alert"} :
                               bus' = Append(bus, Message(i, tipo, r)),
             bus' # bus => task[i].pc # "touch"
      PROVE  \E t : Becomes(i, t) /\ Fits(t, row') /\ Quiet(i, t) /\ Rest
  <2> DEFINE t == [task[i] EXCEPT !.pc = pc]
  <2>1. t \in Tasks /\ task' = [task EXCEPT ![i] = t]
      BY <1>1, <1>5 DEF Tasks, Places, Goto
  <2>2. /\ t.socket = task[i].socket /\ t.kind = task[i].kind /\ t.stamps = task[i].stamps
        /\ t.item = task[i].item /\ t.pc = pc /\ t.device = task[i].device /\ ~t.acked
        /\ t.touched = task[i].touched /\ t.began = task[i].began
      BY <1>1, <1>3, <1>5 DEF Tasks
  <2>3. Becomes(i, t)
      BY <1>5, <2>1, <2>2 DEF Becomes, Settled
  <2>4. Quiet(i, t)
    <3>1. ASSUME NEW r \in Nat, NEW tipo \in {"telemetry", "alert"}
          PROVE  /\ Message(i, tipo, r) \in Messages /\ Message(i, tipo, r).tipo # "position"
                 /\ Message(i, tipo, r).frame = i /\ Message(i, tipo, r).device = task[i].device
        BY <1>1, <1>3, <1>5 DEF Message, Messages
    <3> QED BY <1>5, <2>2, <3>1 DEF Quiet, Early, Resolution
  <2>5. Fits(t, row')
      BY <1>1, <1>2, <1>3, <1>5, <2>2 DEF Fits, Resolution
  <2>6. Rest
      BY <1>5, RestOfSame
  <2> QED BY <2>3, <2>4, <2>5, <2>6
<1>6. CASE TouchFails(i)
    BY <1>5, <1>6, PlaceAfterTouch DEF TouchFails, At
<1>7. CASE Telemetry(i)
    BY <1>5, <1>7, PlaceAfterTouch DEF Telemetry, At
<1>8. CASE TelemetryFails(i)
    BY <1>5, <1>8, PlaceAfterTouch DEF TelemetryFails, At
<1>9. CASE RaiseAlarm(i)
  <2>1. \E r \in Nat : bus' = Append(bus, Message(i, "alert", r))
      BY <1>9 DEF RaiseAlarm, Saved
  <2>2. task[i].pc = "alarm" /\ Goto(i, "reply") /\ ~(task[i].item <= Len(task[i].stamps))
      BY <1>1, <1>9 DEF RaiseAlarm, At, Fits
  <2> QED BY <1>5, <1>9, <2>1, <2>2 DEF RaiseAlarm
<1>10. CASE Reply(i)
  <2>1. PICK written \in BOOLEAN : task' = [task EXCEPT ![i].pc = "done", ![i].acked = written]
      BY <1>10 DEF Reply
  <2> DEFINE t == [task[i] EXCEPT !.pc = "done", !.acked = written]
  <2>2. t \in Tasks /\ task' = [task EXCEPT ![i] = t] /\ task[i].pc = "reply"
      BY <1>1, <1>10, <2>1 DEF Tasks, Places, Settled, Reply, At
  <2>3. /\ t.socket = task[i].socket /\ t.kind = task[i].kind /\ t.stamps = task[i].stamps
        /\ t.item = task[i].item /\ t.pc = "done" /\ t.device = task[i].device
        /\ t.touched = task[i].touched /\ t.began = task[i].began
      BY <1>1 DEF Tasks
  <2>4. Becomes(i, t)
      BY <2>2, <2>3 DEF Becomes, Settled
  <2>5. Quiet(i, t) /\ row' = row
      BY <1>10, <2>2, <2>3 DEF Quiet, Reply, Early, Resolution
  <2>6. Fits(t, row')
      BY <1>1, <2>2, <2>3, <2>5 DEF Fits, Settled, Resolution
  <2>7. Rest
      BY <1>10, RestOfSame DEF Reply
  <2> QED BY <2>4, <2>5, <2>6, <2>7
<1> QED BY <1>4, <1>6, <1>7, <1>8, <1>9, <1>10

(* The positions of a frame.  A frame that stores leaves the place with a  *)
(* row, with a failure, or with neither because the row is there already.  *)
NextOf(i) == [task[i] EXCEPT !.item = @ + 1, !.pc = AfterItem(i, task[i].item + 1)]
Fix(i) == [stamp |-> Stamp(i), frame |-> i, item |-> task[i].item]

(* The frame fits where its next item takes it.                            *)
LEMMA NextOfShape ==
    ASSUME TypeInv, NEW i \in Frames, task[i].pc \in {"store", "publish"}, NextItem(i),
           row' = row
    PROVE  /\ Becomes(i, NextOf(i)) /\ Fits(NextOf(i), row')
           /\ NextOf(i).item = task[i].item + 1 /\ task[i].item \in 1 .. 2
           /\ NextOf(i).device = task[i].device /\ NextOf(i).touched = task[i].touched
           /\ NextOf(i).began = task[i].began /\ NextOf(i).acked = task[i].acked
           /\ NextOf(i).pc \in {"store", "alarm", "reply"}
<1>1. /\ task[i] \in Tasks /\ Fits(task[i], row) /\ Len(task[i].stamps) \in Nat
    BY FrameType
<1>2. task[i].item \in 1 .. 2 /\ task[i].item + 1 \in 1 .. 3 /\ task[i].device # "none"
    BY <1>1 DEF Fits, Tasks
<1>3. /\ AfterItem(i, task[i].item + 1) \in {"store", "alarm", "reply"}
      /\ AfterItem(i, task[i].item + 1) = "store" <=> task[i].item + 1 <= Len(task[i].stamps)
    BY <1>2, PlaceAfter
<1>4. /\ NextOf(i) \in Tasks
      /\ NextOf(i).item = task[i].item + 1 /\ NextOf(i).pc = AfterItem(i, task[i].item + 1)
      /\ NextOf(i).socket = task[i].socket /\ NextOf(i).kind = task[i].kind
      /\ NextOf(i).stamps = task[i].stamps /\ NextOf(i).device = task[i].device
      /\ NextOf(i).touched = task[i].touched /\ NextOf(i).began = task[i].began
      /\ NextOf(i).acked = task[i].acked
    BY <1>1, <1>2, <1>3 DEF NextOf, Tasks, Places
<1>5. task' = [task EXCEPT ![i] = NextOf(i)]
    BY DEF NextItem, NextOf
<1>6. Becomes(i, NextOf(i))
    BY <1>3, <1>4, <1>5 DEF Becomes, Settled
<1>7. ~task[i].acked
    BY <1>1 DEF Fits, Settled, Resolution
<1>8. Fits(NextOf(i), row')
    BY <1>1, <1>2, <1>3, <1>4, <1>7 DEF Fits, Resolution
<1> QED BY <1>2, <1>3, <1>4, <1>6, <1>8

(* The row that an INSERT adds.                                            *)
LEMMA FixType ==
    ASSUME TypeInv, NEW i \in Frames, task[i].pc \in {"store", "publish"}
    PROVE  /\ Fix(i) \in Rows /\ Fix(i).stamp = Stamp(i) /\ Fix(i).frame = i
           /\ Fix(i).item = task[i].item /\ task[i].device \in Visibility
<1>1. /\ task[i] \in Tasks /\ Fits(task[i], row) /\ Len(task[i].stamps) \in Nat
      /\ i \in 1 .. MaxFrames
    BY FrameType
<1>2. task[i].item \in 1 .. 2 /\ task[i].item \in 1 .. Len(task[i].stamps)
    BY <1>1 DEF Fits, Tasks
<1>3. Stamp(i) \in Times
    BY <1>1, <1>2 DEF Stamp, Tasks
<1>4. task[i].device \in Visibility
    BY <1>1 DEF Fits, Tasks
<1> QED BY <1>1, <1>2, <1>3, <1>4 DEF Fix, Rows

(* The steps with a position in hand: it is there already, it is inserted, *)
(* its INSERT fails, or it is announced.                                   *)
Puts(i, t) ==
    /\ row' = row /\ changes' = changes
    /\ \/ /\ task[i].pc = "store" /\ Duplicate(i) /\ t = NextOf(i)
          /\ rows' = rows /\ lost' = lost /\ bus' = bus /\ faults' = faults
       \/ /\ task[i].pc = "store" /\ ~Duplicate(i) /\ t = [task[i] EXCEPT !.pc = "publish"]
          /\ rows' = Append(rows, Fix(i)) /\ lost' = lost /\ bus' = bus /\ faults' = faults
       \/ /\ task[i].pc = "store" /\ t = NextOf(i)
          /\ rows' = rows \/ (~Duplicate(i) /\ rows' = Append(rows, Fix(i)))
          /\ lost' = lost \cup {<<i, task[i].item>>} /\ bus' = bus /\ faults' = faults + 1
       \/ /\ task[i].pc = "publish" /\ t = NextOf(i)
          /\ rows' = rows /\ lost' = lost /\ faults' = faults
          /\ \E r \in Inserted(i) : bus' = Append(bus, Message(i, "position", r))

(* The four outcomes of a position, and the types after them.              *)
LEMMA Putting ==
    ASSUME TypeInv, NEW i \in Frames, StorePosition(i) \/ StoreFails(i) \/ PublishPosition(i)
    PROVE  /\ TypeInv'
           /\ \E t : Becomes(i, t) /\ Puts(i, t)
<1>1. /\ task[i] \in Tasks /\ Fits(task[i], row) /\ i \in 1 .. MaxFrames
      /\ Len(task[i].stamps) \in Nat
    BY FrameType
<1>2. task[i].pc \in {"store", "publish"} /\ row' = row /\ changes' = changes
    BY DEF StorePosition, StoreFails, PublishPosition, At
<1>3. /\ Fix(i) \in Rows /\ task[i].device \in Visibility /\ task[i].item \in 1 .. 2
    BY <1>1, <1>2, FixType DEF Rows
<1>4. Append(rows, Fix(i)) \in Seq(Rows)
    BY <1>3 DEF TypeInv, TypeOK
<1>5. Rest
    BY RestOfSame DEF StorePosition, StoreFails, PublishPosition
<1>6. ASSUME NEW t, Becomes(i, t), Fits(t, row'), rows' \in Seq(Rows), bus' \in Seq(Messages),
             lost' \subseteq (1 .. MaxFrames) \X (1 .. 2)
      PROVE  TypeInv'
  <2>1. /\ task' \in Seq(Tasks) /\ Len(task') = Len(task)
        /\ \A j \in Frames' : Fits(task'[j], row')
      BY <1>5, <1>6, BecomesKeeps DEF Rest
  <2> QED BY <1>5, <1>6, <2>1 DEF TypeInv, TypeOK, Rest
<1>7. CASE StorePosition(i) /\ Duplicate(i) /\ NextItem(i) /\ rows' = rows
  <2>1. Becomes(i, NextOf(i)) /\ Fits(NextOf(i), row')
      BY <1>2, <1>7, NextOfShape
  <2>2. Puts(i, NextOf(i))
      BY <1>7, <1>2 DEF Puts, StorePosition, At
  <2>3. TypeInv'
      BY <1>6, <1>7, <2>1 DEF StorePosition, TypeInv, TypeOK
  <2> QED BY <2>1, <2>2, <2>3
<1>8. CASE StorePosition(i) /\ ~Duplicate(i) /\ Insert(i) /\ Goto(i, AfterInsert(i))
  <2> DEFINE t == [task[i] EXCEPT !.pc = "publish"]
  <2>1. task[i].pc = "store" /\ task' = [task EXCEPT ![i] = t] /\ rows' = Append(rows, Fix(i))
      BY <1>8 DEF StorePosition, At, Goto, AfterInsert, Insert, Fix
  <2>2. /\ t \in Tasks /\ t.pc = "publish" /\ t.item = task[i].item /\ t.stamps = task[i].stamps
        /\ t.socket = task[i].socket /\ t.kind = task[i].kind /\ t.device = task[i].device
        /\ t.touched = task[i].touched /\ t.acked = task[i].acked
      BY <1>1 DEF Tasks, Places
  <2>3. Becomes(i, t) /\ Fits(t, row')
      BY <1>1, <1>2, <2>1, <2>2 DEF Becomes, Fits, Settled, Resolution
  <2>4. Puts(i, t)
      BY <1>8, <1>2, <2>1 DEF Puts, StorePosition
  <2>5. TypeInv'
      BY <1>4, <1>6, <1>8, <2>1, <2>3 DEF StorePosition, TypeInv, TypeOK
  <2> QED BY <2>3, <2>4, <2>5
<1>9. CASE StoreFails(i)
  <2>1. Becomes(i, NextOf(i)) /\ Fits(NextOf(i), row')
      BY <1>2, <1>9, NextOfShape DEF StoreFails
  <2>2. Puts(i, NextOf(i))
      BY <1>9, <1>2 DEF Puts, StoreFails, At, Insert, Fix
  <2>3. rows' \in Seq(Rows)
      BY <1>4, <2>2, <1>9 DEF Puts, TypeInv, TypeOK, StoreFails, Insert, Fix
  <2>4. lost' \subseteq (1 .. MaxFrames) \X (1 .. 2) /\ bus' \in Seq(Messages)
      BY <1>1, <1>3, <1>9 DEF StoreFails, TypeInv, TypeOK
  <2>5. TypeInv'
      BY <1>6, <2>1, <2>3, <2>4
  <2> QED BY <2>1, <2>2, <2>5
<1>10. CASE PublishPosition(i)
  <2>1. Becomes(i, NextOf(i)) /\ Fits(NextOf(i), row')
      BY <1>2, <1>10, NextOfShape DEF PublishPosition
  <2>2. Puts(i, NextOf(i))
      BY <1>10, <1>2 DEF Puts, PublishPosition, At
  <2>3. PICK r \in Inserted(i) : bus' = Append(bus, Message(i, "position", r))
      BY <1>10 DEF PublishPosition
  <2>4. Message(i, "position", r) \in Messages
      BY <1>1, <1>3 DEF Message, Messages, Inserted
  <2>5. bus' \in Seq(Messages)
      BY <2>3, <2>4 DEF TypeInv, TypeOK
  <2>6. TypeInv'
      BY <1>6, <1>10, <2>1, <2>5 DEF PublishPosition, TypeInv, TypeOK
  <2> QED BY <2>1, <2>2, <2>6
<1> QED BY <1>7, <1>8, <1>9, <1>10 DEF StorePosition

(* Every step of the frames, in two kinds.                                 *)
LEMMA FrameSteps ==
    ASSUME TypeInv, NEW i \in Frames, Step(i) \/ Fault(i)
    PROVE  /\ TypeInv'
           /\ \E t : Becomes(i, t) /\ ((Quiet(i, t) /\ Rest) \/ Puts(i, t))
<1>1. CASE \/ BeginNamed(i) \/ BeginUnnamed(i) \/ Lookup(i) \/ Select(i) \/ Register(i)
           \/ ResolveFails(i)
    BY <1>1, Resolving, QuietKeeps
<1>2. CASE \/ Touch(i) \/ TouchFails(i) \/ Telemetry(i) \/ TelemetryFails(i)
           \/ RaiseAlarm(i) \/ Reply(i)
    BY <1>2, Processing, QuietKeeps
<1>3. CASE StorePosition(i) \/ StoreFails(i) \/ PublishPosition(i)
    BY <1>3, Putting
<1> QED BY <1>1, <1>2, <1>3 DEF Step, Fault

(* What arrives joins the queue and nothing else changes.                  *)
Arrives == \E t \in Tasks : /\ t.pc = "waiting" /\ t.item = 1 /\ ~t.touched /\ t.began = 0
                            /\ task' = Append(task, t)
                            /\ UNCHANGED <<row, rows, lost, bus, changes, faults>>

(* The end of the process.                                                 *)
Dies == /\ task' = [i \in Frames |->
                      IF Finished(i) THEN task[i] ELSE [task[i] EXCEPT !.pc = "lost"]]
        /\ faults' = faults + 1
        /\ UNCHANGED <<row, rows, lost, bus, changes>>

(* The operator, the cache, and a socket that goes.                        *)
Aside == /\ UNCHANGED <<task, rows, lost, bus, faults>>
         /\ (row' = row /\ changes' = changes) \/ changes' = changes + 1

(* Nothing has arrived yet.                                                *)
LEMMA Beginning == Init => TypeInv
<1> SUFFICES ASSUME Init PROVE TypeInv
    OBVIOUS
<1>1. Frames = {} /\ task = <<>> /\ rows = <<>> /\ bus = <<>>
    BY DEF Init, Frames
<1>2. <<>> \in Seq(Tasks) /\ <<>> \in Seq(Rows) /\ <<>> \in Seq(Messages) /\ Len(<<>>) = 0
    OBVIOUS
<1>3. /\ socket \in [Sockets -> {"open", "gone"}]
      /\ session \in [Sockets -> Visibility \cup {"none"}]
      /\ cache \in [Keys -> Visibility \cup {"none"}]
    BY DEF Init
<1>4. /\ changes \in Nat /\ faults \in Nat /\ changes + faults <= MaxEvents
      /\ Len(task) <= MaxFrames
    BY <1>1, <1>2, BoundsAssumption DEF Init
<1>5. TypeOK
  <2>1. row \in Visibility \cup {"absent"} /\ clearing \in BOOLEAN
      BY DEF Init
  <2>2. lost \subseteq (1 .. MaxFrames) \X (1 .. 2)
      BY Zenon DEF Init
  <2> QED BY <1>1, <1>2, <1>3, <1>4, <2>1, <2>2 DEF TypeOK
<1> QED BY <1>1, <1>5 DEF Init, TypeInv

(* A new frame has the types of the others.                                *)
LEMMA Arriving ==
    ASSUME TypeInv, NEW s \in Sockets, Receive(s)
    PROVE  TypeInv' /\ Arrives
<1>1. PICK kind \in Kinds : \E given \in Stamps(kind) :
          task' = Append(task, [socket |-> s, kind |-> kind, stamps |-> given,
                                pc |-> "waiting", item |-> 1, device |-> "none",
                                touched |-> FALSE, began |-> 0, acked |-> FALSE])
    BY DEF Receive
<1>2. PICK stamps \in Stamps(kind) :
          task' = Append(task, [socket |-> s, kind |-> kind, stamps |-> stamps,
                                pc |-> "waiting", item |-> 1, device |-> "none",
                                touched |-> FALSE, began |-> 0, acked |-> FALSE])
    BY <1>1
<1>3. stamps \in Seq(Times) /\ Len(stamps) <= 2
  <2>1. \/ \E t, u \in Times : stamps = <<t, u>>
        \/ \E t \in Times : stamps = <<t>>
        \/ stamps = <<>>
      BY <1>2, KindsAssumption, BatchesAssumption DEF Stamps
  <2>2. ASSUME NEW t \in Times, NEW u \in Times
        PROVE  /\ <<t, u>> \in Seq(Times) /\ Len(<<t, u>>) = 2
               /\ <<t>> \in Seq(Times) /\ Len(<<t>>) = 1
      OBVIOUS
  <2>3. CASE \E t, u \in Times : stamps = <<t, u>>
    <3>1. PICK t \in Times, u \in Times : stamps = <<t, u>>
        BY <2>3
    <3> QED BY <3>1, <2>2
  <2>4. CASE \E t \in Times : stamps = <<t>>
      BY <2>2, <2>4
  <2>5. CASE stamps = <<>>
      BY <2>5
  <2> QED BY <2>1, <2>3, <2>4, <2>5
<1> DEFINE t == [socket |-> s, kind |-> kind, stamps |-> stamps,
                 pc |-> "waiting", item |-> 1, device |-> "none",
                 touched |-> FALSE, began |-> 0, acked |-> FALSE]
<1>4. t \in Tasks
    BY <1>3, BoundsAssumption DEF Tasks, Places
<1>5. Fits(t, row')
    BY <1>3 DEF Fits
<1>6. Arrives
    BY <1>2, <1>4 DEF Arrives, Receive
<1>7. /\ task \in Seq(Tasks) /\ Len(task) < MaxFrames
      /\ task' \in Seq(Tasks) /\ Len(task') = Len(task) + 1 /\ task'[Len(task) + 1] = t
      /\ \A j \in 1 .. Len(task) : task'[j] = task[j]
    BY <1>2, <1>4, Extend DEF TypeInv, TypeOK, Receive
<1>8. \A j \in Frames' : Fits(task'[j], row')
  <2> SUFFICES ASSUME NEW j \in Frames' PROVE Fits(task'[j], row')
      OBVIOUS
  <2>1. CASE j = Len(task) + 1
      BY <1>5, <1>7, <2>1
  <2>2. CASE j \in Frames
      BY <1>7, <2>2 DEF TypeInv, Frames, Receive
  <2> QED BY <1>7, <2>1, <2>2 DEF Frames
<1>9. TypeOK'
    BY <1>7, BoundsAssumption DEF TypeInv, TypeOK, Receive
<1> QED BY <1>6, <1>8, <1>9 DEF TypeInv, Receive

(* A crash leaves the types.                                               *)
LEMMA Dying ==
    ASSUME TypeInv, Crash
    PROVE  TypeInv' /\ Dies
<1>1. task \in Seq(Tasks) /\ Len(task) \in Nat /\ Len(task) <= MaxFrames
    BY DEF TypeInv, TypeOK
<1>2. Dies
    BY DEF Crash, Dies, Frames
<1>3. ASSUME NEW j \in Frames
      PROVE  /\ task'[j] = IF Finished(j) THEN task[j] ELSE [task[j] EXCEPT !.pc = "lost"]
             /\ task'[j] \in Tasks /\ Fits(task'[j], row')
  <2>1. task'[j] = IF Finished(j) THEN task[j] ELSE [task[j] EXCEPT !.pc = "lost"]
      BY <1>2, <1>3 DEF Dies
  <2>2. task[j] \in Tasks /\ Fits(task[j], row)
      BY <1>3, FrameType
  <2>3. [task[j] EXCEPT !.pc = "lost"] \in Tasks
      BY <2>2 DEF Tasks, Places, Settled
  <2>4. Fits([task[j] EXCEPT !.pc = "lost"], row)
      BY <2>2 DEF Fits, Tasks, Settled, Resolution
  <2>5. row' = row
      BY DEF Crash
  <2> QED BY <2>1, <2>2, <2>3, <2>4, <2>5
<1>4. task' \in Seq(Tasks) /\ Len(task') = Len(task) /\ Frames' = Frames
    BY <1>1, <1>2, <1>3 DEF Dies, Frames
<1>5. changes' = changes /\ faults' \in Nat /\ changes' + faults' <= MaxEvents
    BY BoundsAssumption DEF Crash, Disturbable, TypeInv, TypeOK
<1>6. TypeOK'
    BY <1>1, <1>4, <1>5 DEF TypeInv, TypeOK, Crash
<1> QED BY <1>2, <1>3, <1>4, <1>6 DEF TypeInv, Crash

(* So do the steps that are no frame's.                                    *)
LEMMA StandingAside ==
    ASSUME TypeInv,
           \/ \E s \in Sockets : Disconnect(s)
           \/ Archive \/ Restore \/ ClearCache
           \/ \E k \in Keys : CacheExpires(k)
           \/ UNCHANGED vars
    PROVE  TypeInv' /\ Aside
<1>1. Aside
    BY DEF Aside, Disconnect, Archive, Restore, ClearCache, CacheExpires, vars
<1>2. row' = row \/ row' \in Visibility
    BY DEF Disconnect, Archive, Restore, ClearCache, CacheExpires, vars, Visibility
<1>3. \A j \in Frames' : Fits(task'[j], row')
  <2>1. task' = task /\ Frames' = Frames /\ (row = "absent" \/ row' # "absent")
      BY <1>1, <1>2 DEF Aside, Frames, Visibility
  <2> QED BY <2>1 DEF TypeInv, Fits
<1>4. /\ session' = session /\ clearing' \in BOOLEAN
      /\ socket' \in [Sockets -> {"open", "gone"}]
    BY DEF Disconnect, Archive, Restore, ClearCache, CacheExpires, vars, TypeInv, TypeOK
<1>5. /\ cache' \in [Keys -> Visibility \cup {"none"}]
      /\ \A k \in Keys : cache'[k] # "none" => cache[k] # "none"
    BY DEF Disconnect, Archive, Restore, ClearCache, CacheExpires, vars, TypeInv, TypeOK
<1>6. changes' \in Nat /\ faults' = faults /\ changes' + faults' <= MaxEvents
    BY BoundsAssumption DEF Disconnect, Archive, Restore, ClearCache, CacheExpires, vars,
                            Disturbable, TypeInv, TypeOK
<1>7. TypeOK'
    BY <1>1, <1>2, <1>4, <1>5, <1>6 DEF Aside, TypeInv, TypeOK
<1>8. row = "absent" \/ row' # "absent"
    BY <1>2 DEF Visibility
<1> QED BY <1>1, <1>3, <1>4, <1>5, <1>7, <1>8 DEF TypeInv

(* Every step is of one of these kinds.                                    *)
LEMMA Steps ==
    ASSUME TypeInv, [Next]_vars
    PROVE  /\ TypeInv'
           /\ \/ \E i \in Frames : \E t : Becomes(i, t) /\ ((Quiet(i, t) /\ Rest) \/ Puts(i, t))
              \/ Arrives \/ Dies \/ Aside
<1>1. CASE \E i \in Frames : Step(i) \/ Fault(i)
    BY <1>1, FrameSteps
<1>2. CASE \E s \in Sockets : Receive(s)
    BY <1>2, Arriving
<1>3. CASE Crash
    BY <1>3, Dying
<1>4. CASE \/ \E s \in Sockets : Disconnect(s)
           \/ Archive \/ Restore \/ ClearCache
           \/ \E k \in Keys : CacheExpires(k)
           \/ UNCHANGED vars
    BY <1>4, StandingAside
<1> QED BY <1>1, <1>2, <1>3, <1>4 DEF Next, Frames

(* The order and the duplicates.  A frame that has begun has the frames    *)
(* before it on its socket behind it, and the rows of a frame are those of *)
(* the items that it has been through.                                     *)
TurnKept == \A j \in Frames : task[j].pc # "waiting" => Turn(j)

RowsAreBehind ==
    \A r \in 1 .. Len(rows) :
        /\ rows[r].frame \in Frames
        /\ task[rows[r].frame].pc \notin Early
        /\ rows[r].item <= task[rows[r].frame].item
        /\ task[rows[r].frame].pc = "store" => rows[r].item < task[rows[r].frame].item

OrderInv == TypeInv /\ TurnKept /\ RowsAreBehind /\ RowsInOrder /\ NoDuplicateRows

(* What a step of one frame leaves of all of them.                         *)
LEMMA Moved ==
    ASSUME TypeInv, NEW i \in Frames, NEW t, Becomes(i, t)
    PROVE  /\ Frames' = Frames /\ task'[i] = t
           /\ \A j \in Frames : j # i => task'[j] = task[j]
           /\ \A j \in Frames : task'[j].socket = task[j].socket /\ task'[j].stamps = task[j].stamps
           /\ \A j \in Frames : Finished(j) => Finished(j)' /\ j # i
<1>1. task \in Seq(Tasks) /\ i \in 1 .. Len(task) /\ t \in Tasks
    BY DEF TypeInv, TypeOK, Frames, Becomes
<1>2. /\ Len(task') = Len(task) /\ task'[i] = t
      /\ \A j \in 1 .. Len(task) : j # i => task'[j] = task[j]
    BY <1>1, Replace DEF Becomes
<1>3. \A j \in Frames : Finished(j) => Finished(j)' /\ j # i
    BY <1>2 DEF Finished, Frames, Becomes
<1> QED BY <1>1, <1>2, <1>3 DEF Frames, Becomes

(* What a frame that is there keeps when another arrives.                  *)
LEMMA Arrived ==
    ASSUME TypeInv, Arrives
    PROVE  /\ Frames' = Frames \cup {Len(task) + 1} /\ Len(task) + 1 \notin Frames
           /\ \A j \in Frames : task'[j] = task[j]
           /\ task'[Len(task) + 1].pc = "waiting" /\ task'[Len(task) + 1].item = 1
           /\ ~task'[Len(task) + 1].touched /\ task'[Len(task) + 1].began = 0
<1>1. PICK t \in Tasks : /\ t.pc = "waiting" /\ t.item = 1 /\ ~t.touched /\ t.began = 0
                         /\ task' = Append(task, t)
    BY DEF Arrives
<1>2. task \in Seq(Tasks) /\ Len(task) \in Nat
    BY DEF TypeInv, TypeOK
<1>3. /\ Len(task') = Len(task) + 1 /\ task'[Len(task) + 1] = t
      /\ \A j \in 1 .. Len(task) : task'[j] = task[j]
    BY <1>1, <1>2, Extend
<1> QED BY <1>1, <1>2, <1>3 DEF Frames

(* Every frame is over after a crash, and keeps what it did.               *)
LEMMA Died ==
    ASSUME TypeInv, Dies
    PROVE  /\ Frames' = Frames
           /\ \A j \in Frames :
                 /\ task'[j].socket = task[j].socket /\ task'[j].stamps = task[j].stamps
                 /\ task'[j].item = task[j].item /\ task'[j].device = task[j].device
                 /\ task'[j].touched = task[j].touched /\ task'[j].began = task[j].began
                 /\ task'[j].acked = task[j].acked /\ task'[j].pc \in Settled
                 /\ task'[j].pc = task[j].pc \/ task'[j].pc = "lost"
<1>1. task \in Seq(Tasks) /\ Len(task) \in Nat
    BY DEF TypeInv, TypeOK
<1>2. Len(task') = Len(task)
    BY <1>1 DEF Dies, Frames
<1>3. \A j \in Frames :
         task'[j] = IF Finished(j) THEN task[j] ELSE [task[j] EXCEPT !.pc = "lost"]
    BY DEF Dies
<1>4. ASSUME NEW j \in Frames
      PROVE  /\ task'[j].socket = task[j].socket /\ task'[j].stamps = task[j].stamps
             /\ task'[j].item = task[j].item /\ task'[j].device = task[j].device
             /\ task'[j].touched = task[j].touched /\ task'[j].began = task[j].began
             /\ task'[j].acked = task[j].acked /\ task'[j].pc \in Settled
             /\ task'[j].pc = task[j].pc \/ task'[j].pc = "lost"
  <2>1. task[j] \in Tasks
      BY <1>1 DEF Frames
  <2>2. CASE Finished(j)
      BY <1>3, <2>2 DEF Finished
  <2>3. CASE ~Finished(j)
      BY <1>3, <2>1, <2>3 DEF Settled, Tasks
  <2> QED BY <2>2, <2>3
<1> QED BY <1>2, <1>4 DEF Frames

(* A frame begins in its turn, and what is finished stays so.              *)
LEMMA TurnHolds == ASSUME TypeInv, TurnKept, [Next]_vars PROVE TurnKept'
<1>1. CASE \E i \in Frames : \E t : Becomes(i, t)
  <2>1. PICK i \in Frames, t \in Tasks : Becomes(i, t)
      BY <1>1 DEF Becomes
  <2>2. Turn(i)
      BY <2>1 DEF TurnKept, Becomes
  <2>3. ASSUME NEW j \in Frames, task'[j].pc # "waiting",
               NEW k \in 1 .. j - 1, task'[k].socket = task'[j].socket
        PROVE  Finished(k)'
    <3>1. k \in Frames
        BY DEF Frames
    <3>2. Turn(j) /\ task[k].socket = task[j].socket
        BY <2>1, <2>2, <2>3, <3>1, Moved DEF TurnKept
    <3> QED BY <2>1, <3>1, <3>2, Moved DEF Turn
  <2> QED BY <2>1, <2>3, Moved DEF TurnKept, Turn
<1>2. CASE Arrives
  <2>1. ASSUME NEW j \in Frames, task'[j].pc # "waiting",
               NEW k \in 1 .. j - 1, task'[k].socket = task'[j].socket
        PROVE  Finished(k)'
    <3>1. k \in Frames
        BY DEF Frames
    <3> QED BY <1>2, <2>1, <3>1, Arrived DEF TurnKept, Turn, Finished
  <2> QED BY <1>2, <2>1, Arrived DEF TurnKept, Turn
<1>3. CASE Dies
  <2>1. \A j \in Frames' : \A k \in 1 .. j - 1 : k \in Frames /\ Finished(k)'
      BY <1>3, Died DEF Frames, Finished
  <2> QED BY <2>1 DEF TurnKept, Turn
<1>4. CASE Aside
    BY <1>4 DEF Aside, TurnKept, Turn, Finished, Frames
<1> QED BY <1>1, <1>2, <1>3, <1>4, Steps

(* A row that is appended comes after those of its socket and of its frame.*)
LEMMA InsertInOrder ==
    ASSUME OrderInv, NEW i \in Frames, task[i].pc = "store", ~Duplicate(i),
           rows' = Append(rows, Fix(i)),
           \A j \in Frames : task'[j].socket = task[j].socket
    PROVE  RowsInOrder' /\ NoDuplicateRows'
<1>1. /\ rows \in Seq(Rows) /\ Fix(i) \in Rows /\ Len(rows) \in Nat
      /\ Fix(i).stamp = Stamp(i) /\ Fix(i).frame = i /\ Fix(i).item = task[i].item
    BY FixType DEF OrderInv, TypeInv, TypeOK
<1>2. /\ Len(rows') = Len(rows) + 1 /\ rows'[Len(rows) + 1] = Fix(i)
      /\ \A r \in 1 .. Len(rows) : rows'[r] = rows[r]
    BY <1>1, Extend
<1>3. ASSUME NEW p \in 1 .. Len(rows), task[rows[p].frame].socket = task[i].socket
      PROVE  \/ rows[p].frame < i
             \/ rows[p].frame = i /\ rows[p].item < task[i].item
  <2>1. rows[p].frame \in Frames /\ task[rows[p].frame].pc \notin Early
      BY DEF OrderInv, RowsAreBehind
  <2>2. CASE rows[p].frame = i
      BY <2>2 DEF OrderInv, RowsAreBehind
  <2>3. CASE rows[p].frame > i
    <3>1. Turn(rows[p].frame)
        BY <2>1 DEF OrderInv, TurnKept, Early, Resolution
    <3>2. i \in 1 .. rows[p].frame - 1
        BY <2>1, <2>3 DEF Frames
    <3>3. Finished(i)
        BY <1>3, <3>1, <3>2 DEF Turn
    <3> QED BY <3>3 DEF Finished, Settled
  <2> QED BY <2>1, <2>2, <2>3 DEF Frames
<1>4. RowsInOrder'
  <2> SUFFICES ASSUME NEW p \in 1 .. Len(rows'), NEW q \in 1 .. Len(rows'), p < q,
                      task'[rows'[p].frame].socket = task'[rows'[q].frame].socket
               PROVE  \/ rows'[p].frame < rows'[q].frame
                      \/ rows'[p].frame = rows'[q].frame /\ rows'[p].item < rows'[q].item
      BY DEF RowsInOrder
  <2>1. p \in 1 .. Len(rows) /\ rows'[p] = rows[p] /\ rows[p].frame \in Frames
      BY <1>1, <1>2 DEF OrderInv, RowsAreBehind
  <2>2. CASE q = Len(rows) + 1
    <3>1. rows'[q].frame = i /\ rows'[q].item = task[i].item
        BY <1>1, <1>2, <2>2
    <3>2. task[rows[p].frame].socket = task[i].socket
        BY <2>1, <3>1
    <3> QED BY <1>3, <2>1, <3>1, <3>2
  <2>3. CASE q \in 1 .. Len(rows)
    <3>1. rows'[q] = rows[q] /\ rows[q].frame \in Frames
        BY <1>2, <2>3 DEF OrderInv, RowsAreBehind
    <3>2. task[rows[p].frame].socket = task[rows[q].frame].socket
        BY <2>1, <3>1
    <3> QED BY <2>1, <2>3, <3>1, <3>2 DEF OrderInv, RowsInOrder
  <2>4. q = Len(rows) + 1 \/ q \in 1 .. Len(rows)
    <3>1. Len(rows) \in Nat /\ Len(rows') = Len(rows) + 1
        BY <1>1, <1>2
    <3> QED BY <3>1
  <2> QED BY <2>2, <2>3, <2>4
<1>5. NoDuplicateRows'
  <2>1. \A r \in 1 .. Len(rows) : rows[r].stamp = Stamp(i) => Stamp(i) = NoTime
      BY DEF Duplicate
  <2>2. NoDuplicateRows
      BY DEF OrderInv
  <2> QED BY <1>1, <1>2, <2>1, <2>2 DEF NoDuplicateRows
<1> QED BY <1>4, <1>5

(* The order and the absence of duplicates are inductive together.         *)
LEMMA OrderHolds == ASSUME OrderInv, [Next]_vars PROVE OrderInv'
<1> USE DEF OrderInv
<1>1. TypeInv' /\ TurnKept'
    BY Steps, TurnHolds
<1>2. ASSUME rows' = rows, \A r \in 1 .. Len(rows) : rows[r].frame \in Frames /\
                 task'[rows[r].frame].socket = task[rows[r].frame].socket
      PROVE  RowsInOrder' /\ NoDuplicateRows'
    BY <1>2 DEF RowsInOrder, NoDuplicateRows
<1>3. ASSUME NEW i \in Frames, NEW t, Becomes(i, t), Quiet(i, t)
      PROVE  OrderInv'
  <2>1. /\ rows' = rows /\ Frames' = Frames /\ task'[i] = t /\ t.item = task[i].item
        /\ t.pc \in Early \cup {"store"} => task[i].pc \in Early
        /\ \A j \in Frames : j # i => task'[j] = task[j]
        /\ \A j \in Frames : task'[j].socket = task[j].socket
      BY <1>3, Moved DEF Quiet
  <2>2. RowsAreBehind'
      BY <2>1 DEF RowsAreBehind
  <2>3. RowsInOrder' /\ NoDuplicateRows'
      BY <1>2, <2>1 DEF RowsAreBehind
  <2> QED BY <1>1, <2>2, <2>3
<1>4. ASSUME NEW i \in Frames, NEW t, Becomes(i, t), Puts(i, t)
      PROVE  OrderInv'
  <2>1. /\ Frames' = Frames /\ task'[i] = t
        /\ \A j \in Frames : j # i => task'[j] = task[j]
        /\ \A j \in Frames : task'[j].socket = task[j].socket
      BY <1>4, Moved
  <2>2. /\ task[i].pc \in {"store", "publish"} /\ row' = row /\ task[i] \in Tasks
        /\ task[i].item \in 1 .. 3 /\ task[i].pc \notin Early
      BY <1>4, FrameType DEF Puts, Tasks, Early, Resolution
  <2>3. \/ rows' = rows
        \/ task[i].pc = "store" /\ ~Duplicate(i) /\ rows' = Append(rows, Fix(i))
      BY <1>4 DEF Puts
  <2>4. RowsInOrder' /\ NoDuplicateRows'
      BY <1>2, <2>1, <2>3, InsertInOrder DEF RowsAreBehind
  <2>5. /\ t.pc \notin Early
        /\ \/ t.item = task[i].item + 1 /\ t.pc # "publish"
           \/ t.item = task[i].item /\ t.pc = "publish" /\ task[i].pc = "store"
    <3>1. CASE t = NextOf(i)
      <4>1. t.item = task[i].item + 1 /\ t.pc = AfterItem(i, task[i].item + 1)
          BY <2>2, <3>1 DEF NextOf, Tasks
      <4> QED BY <4>1 DEF AfterItem, Early, Resolution
    <3>2. CASE t = [task[i] EXCEPT !.pc = "publish"] /\ task[i].pc = "store"
        BY <2>2, <3>2 DEF Tasks, Early, Resolution
    <3> QED BY <1>4, <3>1, <3>2 DEF Puts
  <2>6. ASSUME NEW r \in 1 .. Len(rows)
        PROVE  /\ rows[r].frame \in Frames /\ task'[rows[r].frame].pc \notin Early
               /\ rows[r].item \in Nat
               /\ rows[r].item <= task'[rows[r].frame].item
               /\ task'[rows[r].frame].pc = "store" => rows[r].item < task'[rows[r].frame].item
    <3>1. /\ rows[r].item \in Nat /\ rows[r].frame \in Frames
          /\ task[rows[r].frame].pc \notin Early
          /\ rows[r].item <= task[rows[r].frame].item
          /\ task[rows[r].frame].pc = "store" => rows[r].item < task[rows[r].frame].item
      <4>1. rows \in Seq(Rows)
          BY DEF TypeInv, TypeOK
      <4>2. rows[r] \in Rows
          BY <4>1
      <4> QED BY <4>2 DEF RowsAreBehind, Rows
    <3>2. CASE rows[r].frame = i
        BY <2>1, <2>2, <2>5, <3>1, <3>2
    <3>3. CASE rows[r].frame # i
        BY <2>1, <3>1, <3>3
    <3> QED BY <3>1, <3>2, <3>3
  <2>7. RowsAreBehind'
    <3>1. CASE rows' = rows
        BY <2>1, <2>6, <3>1 DEF RowsAreBehind
    <3>2. CASE task[i].pc = "store" /\ rows' = Append(rows, Fix(i))
      <4>1. rows \in Seq(Rows) /\ Fix(i) \in Rows /\ Fix(i).frame = i /\ Fix(i).item = task[i].item
          BY <2>2, FixType DEF TypeInv, TypeOK
      <4>2. /\ Len(rows') = Len(rows) + 1 /\ rows'[Len(rows) + 1] = Fix(i)
            /\ \A r \in 1 .. Len(rows) : rows'[r] = rows[r]
          BY <3>2, <4>1, Extend
      <4>3. task[i].item <= t.item /\ (t.pc = "store" => task[i].item < t.item)
          BY <2>2, <2>5
      <4>4. ASSUME NEW r \in 1 .. Len(rows')
            PROVE  /\ rows'[r].frame \in Frames'
                   /\ task'[rows'[r].frame].pc \notin Early
                   /\ rows'[r].item <= task'[rows'[r].frame].item
                   /\ task'[rows'[r].frame].pc = "store"
                          => rows'[r].item < task'[rows'[r].frame].item
        <5>1. CASE r = Len(rows) + 1
            BY <2>1, <2>5, <4>1, <4>2, <4>3, <5>1
        <5>2. CASE r \in 1 .. Len(rows)
            BY <2>1, <2>6, <4>2, <5>2
        <5>3. Len(rows) \in Nat
            BY <4>1
        <5> QED BY <4>2, <5>1, <5>2, <5>3
      <4> QED BY <4>4 DEF RowsAreBehind
    <3> QED BY <2>3, <3>1, <3>2
  <2> QED BY <1>1, <2>4, <2>7
<1>5. CASE Arrives
  <2>1. rows' = rows /\ Frames \subseteq Frames' /\ \A j \in Frames : task'[j] = task[j]
      BY <1>5, Arrived DEF Arrives
  <2>2. RowsAreBehind'
      BY <2>1 DEF RowsAreBehind
  <2>3. RowsInOrder' /\ NoDuplicateRows'
      BY <1>2, <2>1 DEF RowsAreBehind
  <2> QED BY <1>1, <2>2, <2>3
<1>6. CASE Dies
  <2>1. /\ rows' = rows /\ Frames' = Frames
        /\ \A j \in Frames : /\ task'[j].socket = task[j].socket /\ task'[j].item = task[j].item
                             /\ task'[j].pc \in Settled
      BY <1>6, Died DEF Dies
  <2>2. RowsAreBehind'
      BY <2>1 DEF RowsAreBehind, Settled, Early, Resolution
  <2>3. RowsInOrder' /\ NoDuplicateRows'
      BY <1>2, <2>1 DEF RowsAreBehind
  <2> QED BY <1>1, <2>2, <2>3
<1>7. CASE Aside
  <2>1. rows' = rows /\ task' = task /\ Frames' = Frames
      BY <1>7 DEF Aside, Frames
  <2>2. RowsAreBehind' /\ RowsInOrder' /\ NoDuplicateRows'
      BY <2>1 DEF RowsAreBehind, RowsInOrder, NoDuplicateRows
  <2> QED BY <1>1, <2>2
<1> QED BY <1>3, <1>4, <1>5, <1>6, <1>7, Steps

(* What is answered is stored: the items that a frame has been through are *)
(* in the table, or their INSERT failed.                                   *)
Kept(i, n) ==
    \/ <<i, n>> \in lost
    \/ \E r \in 1 .. Len(rows) :
          /\ rows[r].stamp = task[i].stamps[n]
          /\ rows[r].stamp = NoTime => rows[r].frame = i /\ rows[r].item = n

Behind(i) == {n \in 1 .. Len(task[i].stamps) :
                n < task[i].item \/ (n = task[i].item /\ task[i].pc = "publish")}

StoredInv == \A i \in Frames : \A n \in Behind(i) : Kept(i, n)

(* No step takes a row, or the record of a failed INSERT, back.            *)
LEMMA Growth ==
    ASSUME TypeInv, [Next]_vars
    PROVE  /\ lost \subseteq lost' /\ Len(rows) <= Len(rows')
           /\ \A r \in 1 .. Len(rows) : r \in 1 .. Len(rows') /\ rows'[r] = rows[r]
<1>1. rows \in Seq(Rows) /\ Len(rows) \in Nat
    BY DEF TypeInv, TypeOK
<1>2. CASE lost \subseteq lost' /\ rows' = rows
    BY <1>1, <1>2
<1>3. CASE \E i \in Frames : lost \subseteq lost' /\ rows' = Append(rows, Fix(i))
                             /\ task[i].pc = "store"
  <2>1. PICK i \in Frames : /\ lost \subseteq lost' /\ rows' = Append(rows, Fix(i))
                            /\ task[i].pc = "store"
      BY <1>3
  <2>2. Fix(i) \in Rows
      BY <2>1, FixType
  <2>3. /\ Len(rows') = Len(rows) + 1
        /\ \A r \in 1 .. Len(rows) : rows'[r] = rows[r]
      BY <1>1, <2>1, <2>2, Extend
  <2> QED BY <1>1, <2>1, <2>3
<1>4. ASSUME NEW i \in Frames, NEW t, Puts(i, t)
      PROVE  /\ lost \subseteq lost'
             /\ rows' = rows \/ (rows' = Append(rows, Fix(i)) /\ task[i].pc = "store")
    BY <1>4 DEF Puts
<1> QED BY <1>2, <1>3, <1>4, Steps DEF Quiet, Arrives, Dies, Aside

(* An item is left behind stored, repeated or with its failure noted.      *)
LEMMA StoredHolds == ASSUME TypeInv, StoredInv, [Next]_vars PROVE StoredInv'
<1>1. ASSUME NEW i \in Frames, NEW n, Kept(i, n), i \in Frames',
             task'[i].stamps = task[i].stamps
      PROVE  Kept(i, n)'
    BY <1>1, Growth DEF Kept
<1>2. ASSUME NEW i \in Frames, i \in Frames', task'[i].stamps = task[i].stamps,
             task'[i].item = task[i].item, task'[i].pc # "publish" \/ task[i].pc = "publish"
      PROVE  \A n \in Behind(i)' : Kept(i, n)'
  <2>1. Behind(i)' \subseteq Behind(i)
      BY <1>2 DEF Behind
  <2> QED BY <1>1, <1>2, <2>1 DEF StoredInv
<1>3. ASSUME NEW i \in Frames, NEW t, Becomes(i, t), Quiet(i, t)
      PROVE  StoredInv'
  <2>1. /\ Frames' = Frames /\ task'[i] = t
        /\ \A j \in Frames : j # i => task'[j] = task[j]
        /\ \A j \in Frames : task'[j].stamps = task[j].stamps
        /\ t.item = task[i].item /\ t.pc # "publish"
      BY <1>3, Moved DEF Quiet
  <2> QED BY <1>2, <2>1 DEF StoredInv
<1>4. ASSUME NEW i \in Frames, NEW t, Becomes(i, t), Puts(i, t)
      PROVE  StoredInv'
  <2>1. /\ Frames' = Frames /\ task'[i] = t
        /\ \A j \in Frames : j # i => task'[j] = task[j]
        /\ \A j \in Frames : task'[j].stamps = task[j].stamps
      BY <1>4, Moved
  <2>2. ASSUME NEW j \in Frames, j # i
        PROVE  \A n \in Behind(j)' : Kept(j, n)'
      BY <1>2, <2>1, <2>2
  <2>3. /\ task[i] \in Tasks /\ task[i].item \in 1 .. 3 /\ Len(task[i].stamps) \in Nat
        /\ task[i].pc \in {"store", "publish"} /\ task[i].item <= Len(task[i].stamps)
      BY <1>4, FrameType DEF Puts, Tasks, Fits
  <2> PICK item : item = task[i].item
      OBVIOUS
  <2>4. ASSUME NEW n \in Behind(i)', n # item
        PROVE  Kept(i, n)'
    <3>1. n \in 1 .. Len(task[i].stamps)
        BY <2>1 DEF Behind
    <3>2. /\ t.item \in {task[i].item, task[i].item + 1}
          /\ t.item = task[i].item + 1 => t.pc # "publish"
      <4>1. CASE t = NextOf(i)
        <5>1. t.item = task[i].item + 1 /\ t.pc = AfterItem(i, task[i].item + 1)
            BY <2>3, <4>1 DEF NextOf, Tasks
        <5> QED BY <5>1 DEF AfterItem
      <4>2. CASE t = [task[i] EXCEPT !.pc = "publish"]
          BY <2>3, <4>2 DEF Tasks
      <4> QED BY <1>4, <4>1, <4>2 DEF Puts
    <3>3. n < t.item \/ (n = t.item /\ t.pc = "publish")
        BY <2>1 DEF Behind
    <3>4. n < task[i].item
        BY <2>3, <2>4, <3>1, <3>2, <3>3
    <3>5. n \in Behind(i)
        BY <3>1, <3>4 DEF Behind
    <3> QED BY <1>1, <2>1, <3>5 DEF StoredInv
  <2>5. Kept(i, item)'
    <3>1. CASE task[i].pc = "publish"
      <4>1. item \in Behind(i)
          BY <2>3, <3>1 DEF Behind
      <4> QED BY <1>1, <2>1, <4>1 DEF StoredInv
    <3>2. CASE Duplicate(i) /\ task[i].pc = "store"
      <4>1. Kept(i, item)
          BY <3>2 DEF Duplicate, Stamp, Kept
      <4> QED BY <1>1, <2>1, <4>1
    <3>3. CASE lost' = lost \cup {<<i, task[i].item>>}
        BY <3>3 DEF Kept
    <3>4. CASE rows' = Append(rows, Fix(i))
      <4>1. /\ rows \in Seq(Rows) /\ Len(rows) \in Nat /\ Fix(i) \in Rows
            /\ Fix(i).stamp = Stamp(i) /\ Fix(i).frame = i /\ Fix(i).item = item
          BY <2>3, FixType DEF TypeInv, TypeOK
      <4>2. /\ Len(rows') = Len(rows) + 1 /\ rows'[Len(rows) + 1].stamp = Stamp(i)
            /\ rows'[Len(rows) + 1].frame = i /\ rows'[Len(rows) + 1].item = item
          BY <3>4, <4>1, Extend
      <4>3. Len(rows) + 1 \in 1 .. Len(rows')
          BY <4>1, <4>2
      <4> QED BY <2>1, <4>2, <4>3 DEF Kept, Stamp
    <3> QED BY <1>4, <3>1, <3>2, <3>3, <3>4 DEF Puts
  <2>6. \A n \in Behind(i)' : Kept(i, n)'
      BY <2>4, <2>5
  <2> QED BY <2>1, <2>2, <2>6 DEF StoredInv
<1>5. CASE Arrives
  <2> PICK new : new = Len(task) + 1
      OBVIOUS
  <2>1. /\ Frames' = Frames \cup {new} /\ \A j \in Frames : task'[j] = task[j]
        /\ task'[new].pc = "waiting" /\ task'[new].item = 1
      BY <1>5, Arrived
  <2>2. \A j \in Frames : \A n \in Behind(j)' : Kept(j, n)'
      BY <1>2, <2>1
  <2>3. Behind(new)' = {}
      BY <2>1 DEF Behind
  <2> QED BY <2>1, <2>2, <2>3 DEF StoredInv
<1>6. CASE Dies
  <2>1. /\ Frames' = Frames
        /\ \A j \in Frames : /\ task'[j].stamps = task[j].stamps /\ task'[j].item = task[j].item
                             /\ task'[j].pc # "publish"
      BY <1>6, Died DEF Settled
  <2> QED BY <1>2, <2>1 DEF StoredInv
<1>7. CASE Aside
  <2>1. task' = task /\ Frames' = Frames
      BY <1>7 DEF Aside, Frames
  <2> QED BY <1>2, <2>1 DEF StoredInv
<1> QED BY <1>3, <1>4, <1>5, <1>6, <1>7, Steps

(* A frame that answers has been through all its items.                    *)
LEMMA StoredImplies == ASSUME TypeInv, StoredInv PROVE AckedIsStored
<1> SUFFICES ASSUME NEW i \in Frames, task[i].acked, task[i].device # "none",
                    NEW n \in 1 .. Len(task[i].stamps)
             PROVE  Kept(i, n)
    BY DEF AckedIsStored, Kept, Frames
<1>1. task[i].item > Len(task[i].stamps) /\ task[i].item \in Nat /\ Len(task[i].stamps) \in Nat
    BY FrameType DEF Fits, Tasks
<1>2. n \in Behind(i)
    BY <1>1 DEF Behind
<1> QED BY <1>2 DEF StoredInv

(* What is published of an archived device: the row that a frame has       *)
(* touched is the one of the table until the next change.                  *)
HiddenInv == \A i \in Frames : /\ task[i].began <= changes
                               /\ task[i].touched /\ task[i].began = changes => task[i].device = row

(* A position in hand changes nothing of whose it is.                      *)
LEMMA PutsKeeps ==
    ASSUME TypeInv, NEW i \in Frames, NEW t, Puts(i, t)
    PROVE  /\ t.device = task[i].device /\ t.touched = task[i].touched /\ t.began = task[i].began
           /\ t.acked = task[i].acked
<1>1. task[i] \in Tasks
    BY FrameType
<1>2. CASE t = NextOf(i)
    BY <1>1, <1>2 DEF NextOf, Tasks
<1>3. CASE t = [task[i] EXCEPT !.pc = "publish"]
    BY <1>1, <1>3 DEF Tasks
<1> QED BY <1>2, <1>3 DEF Puts

(* Only the operator makes the row of a touched frame old.                 *)
LEMMA HiddenHolds == ASSUME TypeInv, HiddenInv, [Next]_vars PROVE HiddenInv'
<1>1. changes \in Nat /\ \A j \in Frames : task[j].began \in Nat
    BY FrameType DEF TypeInv, TypeOK, Tasks
<1>2. ASSUME NEW i \in Frames, NEW t, Becomes(i, t), Quiet(i, t), Rest
      PROVE  HiddenInv'
  <2>1. /\ Frames' = Frames /\ task'[i] = t /\ changes' = changes
        /\ \A j \in Frames : j # i => task'[j] = task[j]
        /\ t.began \in {task[i].began, changes}
        /\ t.touched => \/ t.device = row'
                        \/ task[i].touched /\ t.device = task[i].device /\ t.began = task[i].began
      BY <1>2, Moved DEF Quiet, Rest
  <2>2. ASSUME NEW j \in Frames, task[j].touched
        PROVE  row' = row
      BY <1>2, <2>2, FrameType DEF Fits, Quiet
  <2>3. ASSUME NEW j \in Frames'
        PROVE  /\ task'[j].began <= changes'
               /\ task'[j].touched /\ task'[j].began = changes' => task'[j].device = row'
    <3>1. CASE j = i
        BY <1>1, <2>1, <2>2, <3>1 DEF HiddenInv
    <3>2. CASE j # i
        BY <1>1, <2>1, <2>2, <3>2 DEF HiddenInv
    <3> QED BY <3>1, <3>2
  <2> QED BY <2>3 DEF HiddenInv
<1>3. ASSUME NEW i \in Frames, NEW t, Becomes(i, t), Puts(i, t)
      PROVE  HiddenInv'
  <2>1. /\ Frames' = Frames /\ task'[i] = t /\ changes' = changes /\ row' = row
        /\ \A j \in Frames : j # i => task'[j] = task[j]
      BY <1>3, Moved DEF Puts
  <2> QED BY <1>3, <2>1, PutsKeeps DEF HiddenInv
<1>4. CASE Arrives
  <2>1. /\ Frames' = Frames \cup {Len(task) + 1} /\ \A j \in Frames : task'[j] = task[j]
        /\ ~task'[Len(task) + 1].touched /\ task'[Len(task) + 1].began = 0
        /\ changes' = changes /\ row' = row
      BY <1>4, Arrived DEF Arrives
  <2> QED BY <1>1, <2>1 DEF HiddenInv
<1>5. CASE Dies
  <2>1. /\ Frames' = Frames /\ changes' = changes /\ row' = row
        /\ \A j \in Frames : /\ task'[j].device = task[j].device /\ task'[j].began = task[j].began
                             /\ task'[j].touched = task[j].touched
      BY <1>5, Died DEF Dies
  <2> QED BY <2>1 DEF HiddenInv
<1>6. CASE Aside
  <2>1. /\ task' = task /\ Frames' = Frames
        /\ (row' = row /\ changes' = changes) \/ changes' = changes + 1
      BY <1>6 DEF Aside, Frames
  <2> QED BY <1>1, <2>1 DEF HiddenInv
<1> QED BY <1>2, <1>3, <1>4, <1>5, <1>6, Steps

(* A message carries the row of its frame.                                 *)
LEMMA HiddenStep ==
    ASSUME TypeInv, HiddenInv, [Next]_vars, bus' # bus
    PROVE  LET m == bus'[Len(bus')] IN
           task[m.frame].touched /\ task[m.frame].began = changes => m.device = row
<1>1. PICK i \in Frames : \E m \in Messages : /\ bus' = Append(bus, m) /\ m.frame = i
                                              /\ m.device = task[i].device
  <2>1. ASSUME NEW i \in Frames, NEW t, Quiet(i, t)
        PROVE  \E m \in Messages : bus' = Append(bus, m) /\ m.frame = i /\ m.device = task[i].device
      BY <2>1 DEF Quiet
  <2>2. ASSUME NEW i \in Frames, NEW t, Puts(i, t)
        PROVE  \E m \in Messages : bus' = Append(bus, m) /\ m.frame = i /\ m.device = task[i].device
    <3>1. PICK r \in Inserted(i) : bus' = Append(bus, Message(i, "position", r))
        BY <2>2 DEF Puts
    <3>2. task[i].device \in Visibility /\ i \in 1 .. MaxFrames
        BY <2>2, FixType, FrameType DEF Puts
    <3>3. Message(i, "position", r) \in Messages
        BY <3>2 DEF Message, Messages, Inserted
    <3> QED BY <3>1, <3>3 DEF Message
  <2>3. ~(Arrives \/ Dies \/ Aside)
      BY DEF Arrives, Dies, Aside
  <2> QED BY <2>1, <2>2, <2>3, Steps
<1>2. PICK m \in Messages : bus' = Append(bus, m) /\ m.frame = i /\ m.device = task[i].device
    BY <1>1
<1>3. bus'[Len(bus')] = m
  <2>1. bus \in Seq(Messages)
      BY DEF TypeInv, TypeOK
  <2> QED BY <1>2, <2>1
<1> QED BY <1>2, <1>3 DEF HiddenInv

(* The announcements: a row is announced when its frame goes on to the     *)
(* next item, and before that nothing else has it in hand.                 *)
Announces(m, r) == bus[m].tipo = "position" /\ bus[m].row = r

AnnouncedAreBehind ==
    \A m \in 1 .. Len(bus) : bus[m].tipo = "position" =>
        /\ bus[m].row \in 1 .. Len(rows)
        /\ rows[bus[m].row].item < task[rows[bus[m].row].frame].item

AnnouncedOnce == \A m, n \in 1 .. Len(bus) : \A r : Announces(m, r) /\ Announces(n, r) => m = n

Pending(r) == task[rows[r].frame].pc = "publish" /\ rows[r].item = task[rows[r].frame].item

NoneForgotten == faults = 0 => \A r \in 1 .. Len(rows) :
                     Pending(r) \/ \E m \in 1 .. Len(bus) : Announces(m, r)

PublishedInv == AnnouncedAreBehind /\ AnnouncedOnce /\ NoneForgotten

(* A row is the only one of its frame and item.                            *)
LEMMA OneRowEach ==
    ASSUME OrderInv, NEW p \in 1 .. Len(rows), NEW q \in 1 .. Len(rows),
           rows[p].frame = rows[q].frame, rows[p].item = rows[q].item
    PROVE  p = q
<1>1. rows \in Seq(Rows)
    BY DEF OrderInv, TypeInv, TypeOK
<1>2. rows[p] \in Rows /\ rows[q] \in Rows
    BY <1>1
<1>3. rows[p].frame \in Nat /\ rows[p].item \in Nat
    BY <1>2 DEF Rows
<1> QED BY <1>3 DEF OrderInv, RowsInOrder

(* The messages there were, and one that is not a position.                *)
LEMMA Unannounced ==
    ASSUME PublishedInv, OrderInv, [Next]_vars,
           \/ bus' = bus
           \/ \E m \in Messages : m.tipo # "position" /\ bus' = Append(bus, m),
           \A j \in Frames : j \in Frames' /\ task'[j].item >= task[j].item
    PROVE  /\ AnnouncedAreBehind' /\ AnnouncedOnce'
           /\ \A m \in 1 .. Len(bus) : m \in 1 .. Len(bus') /\ bus'[m] = bus[m]
<1>1. bus \in Seq(Messages) /\ Len(bus) \in Nat
    BY DEF OrderInv, TypeInv, TypeOK
<1>2. /\ Len(bus') \in Nat
      /\ \A m \in 1 .. Len(bus) : m \in 1 .. Len(bus') /\ bus'[m] = bus[m]
      /\ \A m \in 1 .. Len(bus') : bus'[m].tipo = "position" => m \in 1 .. Len(bus)
  <2>1. CASE bus' = bus
      BY <1>1, <2>1
  <2>2. CASE \E m \in Messages : m.tipo # "position" /\ bus' = Append(bus, m)
    <3>1. PICK m \in Messages : m.tipo # "position" /\ bus' = Append(bus, m)
        BY <2>2
    <3>2. /\ Len(bus') = Len(bus) + 1 /\ bus'[Len(bus) + 1] = m
          /\ \A n \in 1 .. Len(bus) : bus'[n] = bus[n]
        BY <1>1, <3>1, Extend
    <3> QED BY <1>1, <3>1, <3>2
  <2> QED BY <2>1, <2>2
<1>3. AnnouncedAreBehind'
  <2> SUFFICES ASSUME NEW m \in 1 .. Len(bus'), bus'[m].tipo = "position"
               PROVE  /\ bus'[m].row \in 1 .. Len(rows')
                      /\ rows'[bus'[m].row].item < task'[rows'[bus'[m].row].frame].item
      BY DEF AnnouncedAreBehind
  <2> PICK r : r = bus[m].row
      OBVIOUS
  <2>1. m \in 1 .. Len(bus) /\ bus'[m] = bus[m]
      BY <1>2
  <2>2. r \in 1 .. Len(rows) /\ rows[r].item < task[rows[r].frame].item
      BY <2>1 DEF PublishedInv, AnnouncedAreBehind
  <2>3. rows[r].frame \in Frames /\ rows[r].item \in Nat
    <3>1. rows \in Seq(Rows)
        BY DEF OrderInv, TypeInv, TypeOK
    <3>2. rows[r] \in Rows
        BY <2>2, <3>1
    <3> QED BY <2>2, <3>2 DEF OrderInv, RowsAreBehind, Rows
  <2>4. r \in 1 .. Len(rows') /\ rows'[r] = rows[r]
      BY <2>2, Growth DEF OrderInv
  <2>5. task'[rows[r].frame].item >= task[rows[r].frame].item
      BY <2>3
  <2>6. task[rows[r].frame].item \in Nat /\ task'[rows[r].frame].item \in Nat
    <3>1. TypeInv /\ TypeInv' /\ rows[r].frame \in Frames'
        BY <2>3, Steps DEF OrderInv
    <3>2. task \in Seq(Tasks) /\ task' \in Seq(Tasks)
        BY <3>1 DEF TypeInv, TypeOK
    <3>3. task[rows[r].frame] \in Tasks /\ task'[rows[r].frame] \in Tasks
        BY <2>3, <3>1, <3>2 DEF Frames
    <3>4. \A x \in Tasks : x.item \in Nat
        BY DEF Tasks
    <3> QED BY <3>3, <3>4
  <2> QED BY <2>1, <2>2, <2>3, <2>4, <2>5, <2>6
<1>4. AnnouncedOnce'
    BY <1>2 DEF PublishedInv, AnnouncedOnce, Announces
<1> QED BY <1>2, <1>3, <1>4

(* Each row is announced by the step that goes on to the next item.        *)
LEMMA PublishedHolds == ASSUME OrderInv, PublishedInv, [Next]_vars PROVE PublishedInv'
<1> USE DEF OrderInv
<1>1. /\ TypeInv' /\ rows \in Seq(Rows) /\ Len(rows) \in Nat /\ bus \in Seq(Messages)
      /\ Len(bus) \in Nat /\ faults \in Nat
    BY Steps DEF TypeInv, TypeOK
<1>2. \A j \in Frames : task[j] \in Tasks /\ task[j].item \in 1 .. 3
    BY FrameType DEF Tasks
<1>3. \A r \in 1 .. Len(rows) : rows[r].frame \in Frames
    BY DEF RowsAreBehind
<1>4. ASSUME rows' = rows, faults' = 0 => faults = 0,
             \A m \in 1 .. Len(bus) : m \in 1 .. Len(bus') /\ bus'[m] = bus[m],
             \A r \in 1 .. Len(rows) : Pending(r) => Pending(r)'
      PROVE  NoneForgotten'
    BY <1>4 DEF PublishedInv, NoneForgotten, Announces
<1>5. ASSUME NEW i \in Frames, NEW t, Becomes(i, t), Quiet(i, t), Rest
      PROVE  PublishedInv'
  <2>1. /\ rows' = rows /\ Frames' = Frames /\ task'[i] = t /\ t.item = task[i].item
        /\ \A j \in Frames : j # i => task'[j] = task[j]
        /\ task[i].pc # "publish" /\ (faults' = 0 => faults = 0)
        /\ \/ bus' = bus
           \/ \E m \in Messages : m.tipo # "position" /\ bus' = Append(bus, m)
      BY <1>1, <1>5, Moved DEF Quiet, Rest
  <2>2. \A j \in Frames : j \in Frames' /\ task'[j].item >= task[j].item
      BY <1>2, <2>1
  <2>3. \A r \in 1 .. Len(rows) : Pending(r) => Pending(r)'
      BY <1>3, <2>1 DEF Pending
  <2> QED BY <1>4, <2>1, <2>2, <2>3, Unannounced DEF PublishedInv
<1>6. ASSUME NEW i \in Frames, NEW t, Becomes(i, t), Puts(i, t)
      PROVE  PublishedInv'
  <2>1. /\ Frames' = Frames /\ task'[i] = t
        /\ \A j \in Frames : j # i => task'[j] = task[j]
        /\ task[i].pc \in {"store", "publish"} /\ task[i].item \in Nat
      BY <1>2, <1>6, Moved DEF Puts
  <2>2. t = NextOf(i) => t.item = task[i].item + 1
      BY <1>2 DEF NextOf, Tasks
  <2>3. t = [task[i] EXCEPT !.pc = "publish"] => t.item = task[i].item /\ t.pc = "publish"
      BY <1>2 DEF Tasks
  <2>4. t.item \in {task[i].item, task[i].item + 1}
      BY <1>6, <2>2, <2>3 DEF Puts
  <2>5. \A j \in Frames : j \in Frames' /\ task'[j].item >= task[j].item
      BY <1>2, <2>1, <2>4
  <2>6. CASE task[i].pc = "store"
    <3>1. bus' = bus
        BY <1>6, <2>6 DEF Puts
    <3>2. AnnouncedAreBehind' /\ AnnouncedOnce'
        BY <2>5, <3>1, Unannounced
    <3>3. ASSUME NEW r \in 1 .. Len(rows), r \in 1 .. Len(rows'), rows'[r] = rows[r], Pending(r)
          PROVE  Pending(r)'
        BY <1>3, <2>1, <2>6, <3>3 DEF Pending
    <3>4. NoneForgotten'
      <4>1. CASE rows' = rows /\ faults' = faults
          BY <1>4, <3>1, <3>3, <4>1
      <4>2. CASE faults' = faults + 1
          BY <1>1, <4>2 DEF NoneForgotten
      <4>3. CASE /\ rows' = Append(rows, Fix(i)) /\ faults' = faults
                 /\ t = [task[i] EXCEPT !.pc = "publish"]
        <5>1. Fix(i) \in Rows /\ Fix(i).frame = i /\ Fix(i).item = task[i].item
            BY <2>1, FixType
        <5>2. /\ Len(rows') = Len(rows) + 1 /\ rows'[Len(rows) + 1] = Fix(i)
              /\ \A r \in 1 .. Len(rows) : rows'[r] = rows[r]
            BY <1>1, <4>3, <5>1, Extend
        <5>3. ASSUME faults' = 0, NEW r \in 1 .. Len(rows')
              PROVE  Pending(r)' \/ \E m \in 1 .. Len(bus') : Announces(m, r)'
          <6>1. CASE r = Len(rows) + 1
            <7>1. rows'[r].frame = i /\ rows'[r].item = task[i].item
                BY <5>1, <5>2, <6>1
            <7>2. task'[i].pc = "publish" /\ task'[i].item = task[i].item
                BY <2>1, <2>3, <4>3
            <7> QED BY <7>1, <7>2 DEF Pending
          <6>2. CASE r \in 1 .. Len(rows)
            <7>1. Pending(r) \/ \E m \in 1 .. Len(bus) : Announces(m, r)
                BY <4>3, <5>3, <6>2 DEF PublishedInv, NoneForgotten
            <7>2. CASE Pending(r)
                BY <3>3, <5>2, <6>2, <7>2
            <7>3. CASE \E m \in 1 .. Len(bus) : Announces(m, r)
                BY <3>1, <7>3 DEF Announces
            <7> QED BY <7>1, <7>2, <7>3
          <6> QED BY <1>1, <5>2, <6>1, <6>2
        <5> QED BY <5>3 DEF NoneForgotten
      <4> QED BY <1>6, <2>6, <4>1, <4>2, <4>3 DEF Puts
    <3> QED BY <3>2, <3>4 DEF PublishedInv
  <2>7. CASE task[i].pc = "publish"
    <3>1. PICK p \in Inserted(i) : bus' = Append(bus, Message(i, "position", p))
        BY <1>6, <2>7 DEF Puts
    <3>2. /\ p \in 1 .. Len(rows) /\ rows[p].frame = i /\ rows[p].item = task[i].item
          /\ rows' = rows /\ faults' = faults /\ t.item = task[i].item + 1
        BY <1>6, <2>2, <2>7, <3>1 DEF Puts, Inserted
    <3> PICK last : last = Len(bus) + 1
        OBVIOUS
    <3>3. /\ Len(bus') = last /\ last \in 1 .. Len(bus') /\ bus'[last].tipo = "position"
          /\ bus'[last].row = p
          /\ \A m \in 1 .. Len(bus) : m \in 1 .. Len(bus') /\ bus'[m] = bus[m]
          /\ \A m \in 1 .. Len(bus') : m \in 1 .. Len(bus) \/ m = last
      <4>1. Message(i, "position", p) \in Messages
        <5>1. task[i].device \in Visibility /\ i \in 1 .. MaxFrames /\ p \in Nat
            BY <2>7, <3>2, FixType, FrameType
        <5> QED BY <5>1 DEF Message, Messages
      <4>2. /\ Len(bus') = Len(bus) + 1 /\ bus'[Len(bus) + 1] = Message(i, "position", p)
            /\ \A m \in 1 .. Len(bus) : bus'[m] = bus[m]
          BY <1>1, <3>1, <4>1, Extend
      <4> QED BY <1>1, <4>2 DEF Message
    <3>4. ASSUME NEW m \in 1 .. Len(bus) PROVE ~Announces(m, p)
        BY <2>1, <3>2 DEF PublishedInv, AnnouncedAreBehind, Announces
    <3>5. AnnouncedAreBehind'
      <4> SUFFICES ASSUME NEW m \in 1 .. Len(bus'), bus'[m].tipo = "position"
                   PROVE  /\ bus'[m].row \in 1 .. Len(rows')
                          /\ rows'[bus'[m].row].item < task'[rows'[bus'[m].row].frame].item
          BY DEF AnnouncedAreBehind
      <4>1. CASE m = last
          BY <2>1, <3>2, <3>3, <4>1
      <4>2. CASE m \in 1 .. Len(bus)
        <5>1. /\ bus'[m] = bus[m] /\ bus[m].row \in 1 .. Len(rows)
              /\ rows[bus[m].row].item < task[rows[bus[m].row].frame].item
            BY <3>3, <4>2 DEF PublishedInv, AnnouncedAreBehind
        <5>2. rows[bus[m].row] \in Rows /\ rows[bus[m].row].frame \in Frames
            BY <1>1, <1>3, <5>1
        <5>3. rows[bus[m].row].item \in Nat
            BY <5>2 DEF Rows
        <5>4. CASE rows[bus[m].row].frame = i
            BY <2>1, <3>2, <5>1, <5>3, <5>4
        <5>5. CASE rows[bus[m].row].frame # i
            BY <2>1, <3>2, <5>1, <5>2, <5>5
        <5> QED BY <5>4, <5>5
      <4> QED BY <3>3, <4>1, <4>2
    <3>6. AnnouncedOnce'
      <4> SUFFICES ASSUME NEW m \in 1 .. Len(bus'), NEW n \in 1 .. Len(bus'), NEW r,
                          Announces(m, r)', Announces(n, r)'
                   PROVE  m = n
          BY DEF AnnouncedOnce
      <4>1. CASE m = last /\ n = last
          BY <4>1
      <4>2. CASE m = last /\ n \in 1 .. Len(bus)
          BY <3>3, <3>4, <4>2 DEF Announces
      <4>3. CASE n = last /\ m \in 1 .. Len(bus)
          BY <3>3, <3>4, <4>3 DEF Announces
      <4>4. CASE m \in 1 .. Len(bus) /\ n \in 1 .. Len(bus)
          BY <3>3, <4>4 DEF PublishedInv, AnnouncedOnce, Announces
      <4> QED BY <3>3, <4>1, <4>2, <4>3, <4>4
    <3>7. NoneForgotten'
      <4> SUFFICES ASSUME faults = 0, NEW r \in 1 .. Len(rows)
                   PROVE  Pending(r)' \/ \E m \in 1 .. Len(bus') : Announces(m, r)'
          BY <3>2 DEF NoneForgotten
      <4>1. CASE \E m \in 1 .. Len(bus) : Announces(m, r)
          BY <3>3, <4>1 DEF Announces
      <4>2. CASE Pending(r) /\ rows[r].frame = i
        <5>1. r = p
            BY <3>2, <4>2, OneRowEach DEF Pending
        <5> QED BY <3>3, <5>1 DEF Announces
      <4>3. CASE Pending(r) /\ rows[r].frame # i
          BY <1>3, <2>1, <3>2, <4>3 DEF Pending
      <4> QED BY <4>1, <4>2, <4>3 DEF PublishedInv, NoneForgotten
    <3> QED BY <3>5, <3>6, <3>7 DEF PublishedInv
  <2> QED BY <2>1, <2>6, <2>7
<1>7. CASE Arrives
  <2>1. /\ rows' = rows /\ bus' = bus /\ faults' = faults /\ Frames \subseteq Frames'
        /\ \A j \in Frames : task'[j] = task[j]
      BY <1>7, Arrived DEF Arrives
  <2>2. \A j \in Frames : j \in Frames' /\ task'[j].item >= task[j].item
      BY <1>2, <2>1
  <2>3. \A r \in 1 .. Len(rows) : Pending(r) => Pending(r)'
      BY <1>3, <2>1 DEF Pending
  <2> QED BY <1>4, <2>1, <2>2, <2>3, Unannounced DEF PublishedInv
<1>8. CASE Dies
  <2>1. /\ Frames' = Frames /\ bus' = bus /\ faults' = faults + 1
        /\ \A j \in Frames : task'[j].item = task[j].item
      BY <1>8, Died DEF Dies
  <2>2. \A j \in Frames : j \in Frames' /\ task'[j].item >= task[j].item
      BY <1>2, <2>1
  <2>3. NoneForgotten'
      BY <1>1, <2>1 DEF NoneForgotten
  <2> QED BY <2>1, <2>2, <2>3, Unannounced DEF PublishedInv
<1>9. CASE Aside
  <2>1. /\ task' = task /\ Frames' = Frames /\ rows' = rows /\ bus' = bus /\ faults' = faults
      BY <1>9 DEF Aside, Frames
  <2> QED BY <2>1 DEF PublishedInv, AnnouncedAreBehind, AnnouncedOnce, NoneForgotten,
                      Announces, Pending
<1> QED BY <1>5, <1>6, <1>7, <1>8, <1>9, Steps

(* At most one announcement is at most one message.                        *)
LEMMA PublishedImplies == ASSUME OrderInv, PublishedInv PROVE RowsArePublishedOnce
<1> SUFFICES ASSUME NEW r \in 1 .. Len(rows)
             PROVE  /\ Cardinality(Announcements(r)) <= 1
                    /\ faults = 0 /\ Announcements(r) = {} => task[rows[r].frame].pc = "publish"
    BY DEF RowsArePublishedOnce
<1>1. Cardinality(Announcements(r)) <= 1
  <2>1. CASE Announcements(r) = {}
      BY <2>1, FS_EmptySet
  <2>2. CASE Announcements(r) # {}
    <3>1. PICK m : m \in Announcements(r)
        BY <2>2
    <3>2. Announcements(r) = {m}
        BY <3>1 DEF Announcements, PublishedInv, AnnouncedOnce, Announces
    <3>3. Cardinality({m}) = 1
        BY FS_Singleton
    <3> QED BY <3>2, <3>3
  <2> QED BY <2>1, <2>2
<1>2. ASSUME faults = 0, Announcements(r) = {} PROVE task[rows[r].frame].pc = "publish"
    BY <1>2 DEF PublishedInv, NoneForgotten, Pending, Announcements, Announces
<1> QED BY <1>1, <1>2

-----------------------------------------------------------------------------
IngestInv == OrderInv /\ StoredInv /\ HiddenInv /\ PublishedInv

(* The four invariants and the types hold together.                        *)
LEMMA InvariantHolds == Spec => []IngestInv
<1>1. Init => IngestInv
  <2> SUFFICES ASSUME Init PROVE IngestInv
      OBVIOUS
  <2>1. Frames = {} /\ Len(rows) = 0 /\ Len(bus) = 0
      BY DEF Init, Frames
  <2>2. OrderInv
      BY <2>1, Beginning DEF OrderInv, TurnKept, RowsAreBehind, RowsInOrder, NoDuplicateRows
  <2>3. StoredInv /\ HiddenInv
      BY <2>1 DEF StoredInv, HiddenInv
  <2>4. PublishedInv
      BY <2>1 DEF PublishedInv, AnnouncedAreBehind, AnnouncedOnce, NoneForgotten
  <2> QED BY <2>2, <2>3, <2>4 DEF IngestInv
<1>2. IngestInv /\ [Next]_vars => IngestInv'
  <2> SUFFICES ASSUME IngestInv, [Next]_vars PROVE IngestInv'
      OBVIOUS
  <2>1. TypeInv /\ OrderInv /\ StoredInv /\ HiddenInv /\ PublishedInv
      BY DEF IngestInv, OrderInv
  <2> QED BY <2>1, OrderHolds, StoredHolds, HiddenHolds, PublishedHolds DEF IngestInv
<1> QED BY <1>1, <1>2, PTL DEF Spec

(* The variables have their types.                                         *)
THEOREM TypeCorrect == Spec => []TypeOK
<1>1. IngestInv => TypeOK
    BY DEF IngestInv, OrderInv, TypeInv
<1> QED BY <1>1, InvariantHolds, PTL

(* The positions of a socket are in the table in the order it sent them,   *)
(* whatever the other sockets, the failures and the crashes do: the chain  *)
(* of promises of server.js:43 is enough.                                  *)
THEOREM PositionsKeepOrder == Spec => []RowsInOrder
<1>1. IngestInv => RowsInOrder
    BY DEF IngestInv, OrderInv
<1> QED BY <1>1, InvariantHolds, PTL

(* No retransmission makes a second row of a device time.                  *)
THEOREM NoRetransmissionDuplicates == Spec => []NoDuplicateRows
<1>1. IngestInv => NoDuplicateRows
    BY DEF IngestInv, OrderInv
<1> QED BY <1>1, InvariantHolds, PTL

(* Whoever got an answer has its positions in the table, but for an INSERT *)
(* that failed.                                                            *)
THEOREM AnswerMeansStored == Spec => []AckedIsStored
<1>1. IngestInv => AckedIsStored
    BY StoredImplies DEF IngestInv, OrderInv
<1> QED BY <1>1, InvariantHolds, PTL

(* Every row is announced at most once and, without faults, at least once. *)
THEOREM EachRowIsAnnounced == Spec => []RowsArePublishedOnce
<1>1. IngestInv => RowsArePublishedOnce
    BY PublishedImplies DEF IngestInv
<1> QED BY <1>1, InvariantHolds, PTL

(* What a frame publishes carries the visibility that the device has.      *)
THEOREM ArchivedIsNotShown == Spec => ArchivedStaysHidden
<1>1. IngestInv /\ [Next]_vars =>
          [bus' # bus =>
             LET m == bus'[Len(bus')] IN
             task[m.frame].touched /\ task[m.frame].began = changes => m.device = row]_vars
    BY HiddenStep DEF IngestInv, OrderInv
<1> QED BY <1>1, InvariantHolds, PTL DEF Spec, ArchivedStaysHidden

-----------------------------------------------------------------------------
(* The journal.  What failed belongs to an item that its frame is through  *)
(* with, and a row that was not announced has its frame still at it, its   *)
(* INSERT reported as failed, or its frame cut by the end of the process.  *)
MissedAreBehind ==
    \A i, n : <<i, n>> \in lost =>
        /\ i \in Frames /\ n \in 1 .. 2
        /\ task[i].pc \notin Early /\ n < task[i].item

Told(r) == \E m \in 1 .. Len(bus) : Announces(m, r)

AllTold ==
    \A r \in 1 .. Len(rows) :
        \/ Pending(r) \/ Told(r)
        \/ <<rows[r].frame, rows[r].item>> \in lost
        \/ task[rows[r].frame].pc = "lost"

JournalInv == MissedAreBehind /\ AllTold

(* No message is taken back.                                               *)
LEMMA ToldStays ==
    ASSUME TypeInv, [Next]_vars, NEW r, Told(r)
    PROVE  Told(r)'
<1>1. bus \in Seq(Messages) /\ Len(bus) \in Nat
    BY DEF TypeInv, TypeOK
<1>2. ASSUME \E m \in Messages : bus' = Append(bus, m) PROVE Told(r)'
  <2>1. PICK m \in Messages : bus' = Append(bus, m)
      BY <1>2
  <2>2. Len(bus') = Len(bus) + 1 /\ \A n \in 1 .. Len(bus) : bus'[n] = bus[n]
      BY <1>1, <2>1, Extend
  <2>3. \A n \in 1 .. Len(bus) : n \in 1 .. Len(bus') /\ bus'[n] = bus[n]
      BY <1>1, <2>2
  <2> QED BY <2>3 DEF Told, Announces
<1>3. CASE bus' = bus
    BY <1>3 DEF Told, Announces
<1>4. ASSUME NEW i \in Frames, NEW t, Puts(i, t) PROVE Told(r)'
  <2>1. CASE task[i].pc = "publish" /\ \E p \in Inserted(i) : bus' = Append(bus, Message(i, "position", p))
    <3>1. PICK p \in Inserted(i) : bus' = Append(bus, Message(i, "position", p))
        BY <2>1
    <3>2. task[i].device \in Visibility /\ i \in 1 .. MaxFrames /\ p \in Nat
        BY <2>1, FixType, FrameType DEF Inserted
    <3>3. Message(i, "position", p) \in Messages
        BY <3>2 DEF Message, Messages
    <3> QED BY <1>2, <3>1, <3>3
  <2> QED BY <1>3, <1>4, <2>1 DEF Puts
<1>5. ASSUME NEW i \in Frames, NEW t, Quiet(i, t) PROVE Told(r)'
    BY <1>2, <1>3, <1>5 DEF Quiet
<1> QED BY <1>3, <1>4, <1>5, Steps DEF Arrives, Dies, Aside

(* A failed INSERT is noted as the frame leaves the item.                  *)
LEMMA MissedHolds == ASSUME TypeInv, MissedAreBehind, [Next]_vars PROVE MissedAreBehind'
<1>1. \A j \in Frames : task[j] \in Tasks /\ task[j].item \in 1 .. 3
    BY FrameType DEF Tasks
<1>2. ASSUME lost' = lost,
             \A j \in Frames : /\ j \in Frames' /\ task'[j].item = task[j].item
                               /\ task'[j].pc \in Early => task[j].pc \in Early
      PROVE  MissedAreBehind'
    BY <1>2 DEF MissedAreBehind
<1>3. ASSUME NEW i \in Frames, NEW t, Becomes(i, t), Quiet(i, t)
      PROVE  MissedAreBehind'
  <2>1. /\ Frames' = Frames /\ task'[i] = t /\ lost' = lost /\ t.item = task[i].item
        /\ \A j \in Frames : j # i => task'[j] = task[j]
        /\ t.pc \in Early => task[i].pc \in Early
      BY <1>3, Moved DEF Quiet
  <2> QED BY <1>2, <2>1
<1>4. ASSUME NEW i \in Frames, NEW t, Becomes(i, t), Puts(i, t)
      PROVE  MissedAreBehind'
  <2>1. /\ Frames' = Frames /\ task'[i] = t
        /\ \A j \in Frames : j # i => task'[j] = task[j]
      BY <1>4, Moved
  <2>2. task[i].pc \in {"store", "publish"} /\ task[i].item \in 1 .. 2 /\ task[i] \in Tasks
    <3>1. task[i].pc \in {"store", "publish"} /\ Fits(task[i], row) /\ task[i] \in Tasks
          /\ Len(task[i].stamps) \in Nat
        BY <1>4, FrameType DEF Puts
    <3> QED BY <1>1, <3>1 DEF Fits
  <2>3. /\ t.pc \notin Early
        /\ \/ t.item = task[i].item + 1
           \/ t.item = task[i].item /\ lost' = lost
    <3>1. CASE t = NextOf(i)
      <4>1. t.item = task[i].item + 1 /\ t.pc = AfterItem(i, task[i].item + 1)
          BY <2>2, <3>1 DEF NextOf, Tasks
      <4> QED BY <4>1 DEF AfterItem, Early, Resolution
    <3>2. CASE t = [task[i] EXCEPT !.pc = "publish"] /\ lost' = lost
        BY <2>2, <3>2 DEF Tasks, Early, Resolution
    <3> QED BY <1>4, <3>1, <3>2 DEF Puts
  <2>4. lost' = lost \/ (lost' = lost \cup {<<i, task[i].item>>} /\ t.item = task[i].item + 1)
    <3>1. CASE lost' = lost \cup {<<i, task[i].item>>} /\ t = NextOf(i)
        BY <2>2, <3>1 DEF NextOf, Tasks
    <3> QED BY <1>4, <3>1 DEF Puts
  <2>5. ASSUME NEW j, NEW n, <<j, n>> \in lost'
        PROVE  j \in Frames /\ n \in 1 .. 2 /\ task'[j].pc \notin Early /\ n < task'[j].item
    <3>1. CASE j = i /\ n = task[i].item /\ t.item = task[i].item + 1
        BY <2>1, <2>2, <2>3, <3>1
    <3>2. CASE <<j, n>> \in lost
      <4>1. j \in Frames /\ n \in 1 .. 2 /\ task[j].pc \notin Early /\ n < task[j].item
          BY <3>2 DEF MissedAreBehind
      <4>2. CASE j = i
          BY <2>1, <2>2, <2>3, <4>1, <4>2
      <4>3. CASE j # i
          BY <2>1, <4>1, <4>3
      <4> QED BY <4>2, <4>3
    <3> QED BY <2>4, <2>5, <3>1, <3>2
  <2> QED BY <2>1, <2>5 DEF MissedAreBehind
<1>5. CASE Arrives
  <2>1. lost' = lost /\ Frames \subseteq Frames' /\ \A j \in Frames : task'[j] = task[j]
      BY <1>5, Arrived DEF Arrives
  <2> QED BY <1>2, <2>1
<1>6. CASE Dies
  <2>1. /\ lost' = lost /\ Frames' = Frames
        /\ \A j \in Frames : task'[j].item = task[j].item /\ task'[j].pc \in Settled
      BY <1>6, Died DEF Dies
  <2> QED BY <1>2, <2>1 DEF Settled, Early, Resolution
<1>7. CASE Aside
  <2>1. task' = task /\ Frames' = Frames /\ lost' = lost
      BY <1>7 DEF Aside, Frames
  <2> QED BY <1>2, <2>1
<1> QED BY <1>3, <1>4, <1>5, <1>6, <1>7, Steps

(* A row is told of by the frame that wrote it, unless that frame saw its  *)
(* INSERT fail or was cut.                                                 *)
LEMMA ToldHolds == ASSUME OrderInv, AllTold, [Next]_vars PROVE AllTold'
<1> USE DEF OrderInv
<1>1. rows \in Seq(Rows) /\ Len(rows) \in Nat /\ \A j \in Frames : task[j] \in Tasks
    BY FrameType DEF TypeInv, TypeOK
<1>2. \A r \in 1 .. Len(rows) : rows[r].frame \in Frames
    BY DEF RowsAreBehind
<1>3. /\ lost \subseteq lost'
      /\ \A r \in 1 .. Len(rows) : r \in 1 .. Len(rows') /\ rows'[r] = rows[r]
    BY Growth
<1>4. ASSUME NEW r \in 1 .. Len(rows),
             Pending(r) => Pending(r)' \/ Told(r)' \/ task'[rows[r].frame].pc = "lost",
             task[rows[r].frame].pc = "lost" => task'[rows[r].frame].pc = "lost"
      PROVE  \/ Pending(r)' \/ Told(r)'
             \/ <<rows'[r].frame, rows'[r].item>> \in lost'
             \/ task'[rows'[r].frame].pc = "lost"
    BY <1>3, <1>4, ToldStays DEF AllTold
<1>5. ASSUME NEW i \in Frames, NEW t, Becomes(i, t), Quiet(i, t)
      PROVE  AllTold'
  <2>1. /\ rows' = rows /\ task'[i] = t /\ task[i].pc \notin Settled \cup {"publish"}
        /\ \A j \in Frames : j # i => task'[j] = task[j]
      BY <1>5, Moved DEF Quiet, Becomes
  <2> QED BY <1>2, <1>4, <2>1 DEF AllTold, Pending, Settled
<1>6. ASSUME NEW i \in Frames, NEW t, Becomes(i, t), Puts(i, t)
      PROVE  AllTold'
  <2>1. /\ task'[i] = t /\ task[i].pc \notin Settled /\ task[i] \in Tasks
        /\ \A j \in Frames : j # i => task'[j] = task[j]
      BY <1>1, <1>6, Moved DEF Becomes
  <2>2. ASSUME NEW r \in 1 .. Len(rows), Pending(r)
        PROVE  Pending(r)' \/ Told(r)'
    <3>1. CASE rows[r].frame # i
        BY <1>2, <1>3, <2>1, <2>2, <3>1 DEF Pending
    <3>2. CASE rows[r].frame = i
      <4>1. task[i].pc = "publish" /\ rows[r].item = task[i].item
          BY <2>2, <3>2 DEF Pending
      <4>2. PICK p \in Inserted(i) : bus' = Append(bus, Message(i, "position", p))
          BY <1>6, <4>1 DEF Puts
      <4>3. p = r
          BY <3>2, <4>1, OneRowEach DEF Inserted
      <4>4. bus \in Seq(Messages) /\ Message(i, "position", r) \in Messages
        <5>1. task[i].device \in Visibility /\ i \in 1 .. MaxFrames
            BY <4>1, FixType, FrameType
        <5> QED BY <5>1 DEF Message, Messages, TypeInv, TypeOK
      <4>5. /\ Len(bus') = Len(bus) + 1 /\ Len(bus) \in Nat
            /\ bus'[Len(bus) + 1] = Message(i, "position", r)
          BY <4>2, <4>3, <4>4, Extend
      <4>6. PICK last : last = Len(bus) + 1
          OBVIOUS
      <4>7. last \in 1 .. Len(bus') /\ Announces(last, r)'
          BY <4>5, <4>6 DEF Announces, Message
      <4> QED BY <4>7 DEF Told
    <3> QED BY <3>1, <3>2
  <2>3. ASSUME NEW r \in 1 .. Len(rows)
        PROVE  \/ Pending(r)' \/ Told(r)'
               \/ <<rows'[r].frame, rows'[r].item>> \in lost'
               \/ task'[rows'[r].frame].pc = "lost"
      BY <1>2, <1>4, <2>1, <2>2 DEF Settled
  <2>4. CASE rows' = rows
      BY <2>3, <2>4 DEF AllTold
  <2>5. CASE rows' = Append(rows, Fix(i)) /\ task[i].pc = "store"
    <3>1. Fix(i) \in Rows /\ Fix(i).frame = i /\ Fix(i).item = task[i].item
        BY <2>5, FixType
    <3>2. /\ Len(rows') = Len(rows) + 1 /\ rows'[Len(rows) + 1] = Fix(i)
        BY <1>1, <2>5, <3>1, Extend
    <3>3. \/ <<i, task[i].item>> \in lost'
          \/ t.pc = "publish" /\ t.item = task[i].item
      <4>1. CASE t = [task[i] EXCEPT !.pc = "publish"]
          BY <2>1, <4>1 DEF Tasks
      <4>2. rows' # rows
          BY <1>1, <3>2
      <4> QED BY <1>6, <2>5, <4>1, <4>2 DEF Puts
    <3>4. ASSUME NEW r, r = Len(rows) + 1
          PROVE  Pending(r)' \/ <<rows'[r].frame, rows'[r].item>> \in lost'
        BY <2>1, <3>1, <3>2, <3>3, <3>4 DEF Pending
    <3>5. \A r \in 1 .. Len(rows') : r \in 1 .. Len(rows) \/ r = Len(rows) + 1
        BY <1>1, <3>2
    <3> QED BY <2>3, <3>4, <3>5 DEF AllTold
  <2> QED BY <1>6, <2>4, <2>5 DEF Puts
<1>7. CASE Arrives
  <2>1. rows' = rows /\ \A j \in Frames : task'[j] = task[j]
      BY <1>7, Arrived DEF Arrives
  <2> QED BY <1>2, <1>4, <2>1 DEF AllTold, Pending
<1>8. CASE Dies
  <2>1. /\ rows' = rows
        /\ \A j \in Frames : /\ task'[j].item = task[j].item
                             /\ task'[j].pc = task[j].pc \/ task'[j].pc = "lost"
      BY <1>8, Died DEF Dies
  <2> QED BY <1>2, <1>4, <2>1 DEF AllTold, Pending
<1>9. CASE Aside
  <2>1. task' = task /\ rows' = rows
      BY <1>9 DEF Aside
  <2> QED BY <1>4, <2>1 DEF AllTold, Pending
<1> QED BY <1>5, <1>6, <1>7, <1>8, <1>9, Steps

(* The journal as the tables and the bus have it.                          *)
LEMMA ReceivedHas ==
    /\ DOMAIN Received = Frames
    /\ \A j \in Frames : /\ Received[j].socket = task[j].socket
                         /\ Received[j].stamps = task[j].stamps
BY DEF Received, Frames

LEMMA AnnouncedHas ==
    /\ \A r : r \in Announced <=> \E m \in 1 .. Len(bus) : Announces(m, r)
    /\ (\A r : Told(r) <=> r \in Announced)
BY DEF Announced, Announces, Told

(* The same frames, of the same sockets with the same positions.           *)
LEMMA SameReceived ==
    ASSUME Frames' = Frames,
           \A j \in Frames : task'[j].socket = task[j].socket /\ task'[j].stamps = task[j].stamps
    PROVE  Received' = Received
<1>1. Received = [j \in Frames |-> [socket |-> task[j].socket, stamps |-> task[j].stamps]]
    BY DEF Received, Frames
<1>2. Received' = [j \in Frames' |-> [socket |-> task'[j].socket, stamps |-> task'[j].stamps]]
    BY DEF Received, Frames
<1> QED BY <1>1, <1>2

(* A message that is no position tells of no row.                          *)
LEMMA SameAnnounced ==
    ASSUME TypeInv, \/ bus' = bus
                    \/ \E m \in Messages : m.tipo # "position" /\ bus' = Append(bus, m)
    PROVE  Announced' = Announced
<1>1. CASE bus' = bus
    BY <1>1 DEF Announced
<1>2. CASE \E m \in Messages : m.tipo # "position" /\ bus' = Append(bus, m)
  <2>1. PICK m \in Messages : m.tipo # "position" /\ bus' = Append(bus, m)
      BY <1>2
  <2>2. bus \in Seq(Messages) /\ Len(bus) \in Nat
      BY DEF TypeInv, TypeOK
  <2>3. /\ Len(bus') = Len(bus) + 1 /\ bus'[Len(bus) + 1] = m
        /\ \A n \in 1 .. Len(bus) : bus'[n] = bus[n]
      BY <2>1, <2>2, Extend
  <2>4. {k \in 1 .. Len(bus') : bus'[k].tipo = "position"}
            = {k \in 1 .. Len(bus) : bus[k].tipo = "position"}
      BY <2>1, <2>2, <2>3
  <2> QED BY <2>3, <2>4 DEF Announced
<1> QED BY <1>1, <1>2

(* The frames with an answer.                                              *)
LEMMA RepliedHas ==
    \A j : j \in Replied <=> j \in Frames /\ task[j].acked /\ task[j].device # "none"
BY DEF Replied, Frames

(* Every item of the socket that was tried comes before the one in hand.   *)
LEMMA TurnOfItem ==
    ASSUME OrderInv, JournalInv, NEW i \in Frames, task[i].pc = "store"
    PROVE  Journal!InTurn(i, task[i].item)
<1> USE DEF OrderInv
<1>1. ASSUME NEW g \in Frames, NEW m \in 1 .. 2, task[g].socket = task[i].socket,
             task[g].pc \notin Early, g = i => m < task[i].item
      PROVE  Journal!Before(g, m, i, task[i].item)
  <2>1. CASE g > i
    <3>1. Turn(g) /\ i \in 1 .. g - 1
        BY <1>1, <2>1 DEF TurnKept, Early, Resolution, Frames
    <3>2. Finished(i)
        BY <1>1, <3>1 DEF Turn
    <3> QED BY <3>2 DEF Finished, Settled
  <2>2. g < i \/ g = i \/ g > i
      BY DEF Frames
  <2> QED BY <1>1, <2>1, <2>2 DEF Journal!Before
<1>2. ASSUME NEW g, NEW m, <<g, m>> \in lost
      PROVE  g \in Frames /\ m \in 1 .. 2 /\ task[g].pc \notin Early /\ m < task[g].item
    BY <1>2 DEF JournalInv, MissedAreBehind
<1>3. ASSUME NEW r \in 1 .. Len(rows)
      PROVE  /\ rows[r].frame \in Frames /\ rows[r].item \in 1 .. 2
             /\ task[rows[r].frame].pc \notin Early
             /\ rows[r].frame = i => rows[r].item < task[i].item
  <2>1. rows[r] \in Rows
      BY DEF TypeInv, TypeOK
  <2> QED BY <2>1 DEF RowsAreBehind, Rows
<1>4. ASSUME NEW tried \in Journal!Tried, Received[tried[1]].socket = Received[i].socket
      PROVE  Journal!Before(tried[1], tried[2], i, task[i].item)
  <2>1. CASE tried \in lost
    <3>1. tried = <<tried[1], tried[2]>>
        BY <2>1 DEF TypeInv, TypeOK
    <3>2. <<tried[1], tried[2]>> \in lost
        BY <2>1, <3>1
    <3>3. /\ tried[1] \in Frames /\ tried[2] \in 1 .. 2 /\ task[tried[1]].pc \notin Early
          /\ tried[1] = i => tried[2] < task[i].item
        BY <1>2, <3>2
    <3> QED BY <1>1, <1>4, <3>3, ReceivedHas
  <2>2. CASE tried \in {<<rows[r].frame, rows[r].item>> : r \in DOMAIN rows}
    <3>1. PICK r \in DOMAIN rows : tried = <<rows[r].frame, rows[r].item>>
        BY <2>2
    <3>2. r \in 1 .. Len(rows) /\ tried[1] = rows[r].frame /\ tried[2] = rows[r].item
        BY <3>1 DEF TypeInv, TypeOK
    <3> QED BY <1>1, <1>3, <1>4, <3>2, ReceivedHas
  <2> QED BY <2>1, <2>2 DEF Journal!Tried
<1> QED BY <1>4 DEF Journal!InTurn

(* The rows already announced of the socket are before the one in hand.    *)
LEMMA TurnOfRow ==
    ASSUME OrderInv, PublishedInv, NEW p \in 1 .. Len(rows),
           task[rows[p].frame].pc = "publish", rows[p].item = task[rows[p].frame].item,
           NEW q \in Announced, task[rows[q].frame].socket = task[rows[p].frame].socket
    PROVE  q < p
<1> USE DEF OrderInv
<1>1. q \in 1 .. Len(rows) /\ rows[q].item < task[rows[q].frame].item
    BY AnnouncedHas DEF PublishedInv, AnnouncedAreBehind, Announces
<1>2. /\ rows[q] \in Rows /\ rows[p] \in Rows
      /\ rows[q].frame \in Frames /\ rows[p].frame \in Frames
      /\ task[rows[q].frame].pc \notin Early
    BY <1>1 DEF TypeInv, TypeOK, RowsAreBehind
<1>3. /\ rows[p].item \in 1 .. 2 /\ rows[q].item \in 1 .. 2
      /\ rows[p].frame \in Nat /\ rows[q].frame \in Nat
    BY <1>2 DEF Rows
<1>4. ~(rows[q].frame > rows[p].frame)
  <2> SUFFICES ASSUME rows[q].frame > rows[p].frame PROVE FALSE
      OBVIOUS
  <2>1. Turn(rows[q].frame) /\ rows[p].frame \in 1 .. rows[q].frame - 1
      BY <1>2 DEF TurnKept, Early, Resolution, Frames
  <2>2. Finished(rows[p].frame)
      BY <2>1 DEF Turn
  <2> QED BY <2>2 DEF Finished, Settled
<1>5. ~(rows[q].frame = rows[p].frame /\ rows[q].item >= rows[p].item)
    BY <1>1, <1>3
<1>6. ~(p < q) /\ p # q
    BY <1>1, <1>3, <1>4, <1>5 DEF RowsInOrder
<1> QED BY <1>1, <1>6

(* The steps of PositionIngest are those of the journal, or none of it.    *)
LEMMA InitJournal == Init => Journal!Init
<1> SUFFICES ASSUME Init PROVE Journal!Init
    OBVIOUS
<1>1. Len(task) = 0 /\ Len(bus) = 0 /\ rows = <<>> /\ lost = {}
    BY DEF Init
<1>2. Received = <<>> /\ Announced = {} /\ Replied = {}
    BY <1>1 DEF Received, Announced, Replied
<1> QED BY <1>1, <1>2 DEF Journal!Init

(* A quiet step writes nothing, and answers in the end.                    *)
LEMMA QuietJournal ==
    ASSUME OrderInv, StoredInv, JournalInv, NEW i \in Frames, NEW t, Becomes(i, t), Quiet(i, t)
    PROVE  [Journal!Next]_(Journal!vars)
<1> USE DEF OrderInv
<1>1. /\ Frames' = Frames /\ task'[i] = t /\ rows' = rows /\ lost' = lost
      /\ \A j \in Frames : j # i => task'[j] = task[j]
      /\ Received' = Received /\ Announced' = Announced
  <2>1. /\ Frames' = Frames /\ task'[i] = t
        /\ \A j \in Frames : j # i => task'[j] = task[j]
        /\ \A j \in Frames : task'[j].socket = task[j].socket /\ task'[j].stamps = task[j].stamps
      BY Moved
  <2>2. /\ rows' = rows /\ lost' = lost
        /\ \/ bus' = bus
           \/ \E m \in Messages : m.tipo # "position" /\ bus' = Append(bus, m)
      BY DEF Quiet
  <2> QED BY <2>1, <2>2, SameReceived, SameAnnounced
<1>2. Fits(task[i], row) /\ task[i] \in Tasks /\ ~task[i].acked /\ Len(task[i].stamps) \in Nat
    BY FrameType DEF Becomes, Fits
<1>3. CASE ~(t.acked /\ t.device # "none")
  <2>1. \A j : (j \in Replied)' <=> j \in Replied
      BY <1>1, <1>2, <1>3 DEF Replied, Frames
  <2>2. Replied' = Replied
      BY <2>1
  <2> QED BY <1>1, <2>2 DEF Journal!vars
<1>4. CASE t.acked /\ t.device # "none"
  <2>1. task[i].pc = "reply" /\ task[i].device # "none"
      BY <1>4 DEF Quiet
  <2>2. task[i].item > Len(task[i].stamps) /\ task[i].item \in Nat
      BY <1>2, <2>1 DEF Fits, Tasks
  <2>3. Replied' = Replied \cup {i}
    <3>1. \A j : (j \in Replied)' <=> j \in Replied \/ j = i
        BY <1>1, <1>2, <1>4 DEF Replied, Frames
    <3> QED BY <3>1
  <2>4. ASSUME NEW n \in DOMAIN Received[i].stamps
        PROVE  <<i, n>> \in lost \/ Journal!Held(i, n)
    <3>1. n \in 1 .. Len(task[i].stamps) /\ Received[i].stamps = task[i].stamps
        BY <1>2, ReceivedHas DEF Tasks
    <3>2. n \in Behind(i)
        BY <2>2, <3>1 DEF Behind
    <3>3. Kept(i, n)
        BY <3>2 DEF StoredInv
    <3>4. DOMAIN rows = 1 .. Len(rows)
        BY DEF TypeInv, TypeOK
    <3> QED BY <3>1, <3>3, <3>4 DEF Kept, Journal!Held
  <2>5. ASSUME NEW r \in DOMAIN rows, rows[r].frame = i
        PROVE  r \in Announced \/ <<i, rows[r].item>> \in lost
    <3>1. r \in 1 .. Len(rows)
        BY DEF TypeInv, TypeOK
    <3> QED BY <2>1, <2>5, <3>1, AnnouncedHas DEF JournalInv, AllTold, Pending
  <2>6. Journal!Answer(i)
      BY <1>1, <2>3, <2>4, <2>5 DEF Journal!Answer
  <2>7. i \in DOMAIN Received \ Replied
      BY <1>2, ReceivedHas, RepliedHas
  <2> QED BY <2>6, <2>7 DEF Journal!Next
<1> QED BY <1>3, <1>4

(* With a position in hand: an entry, a failure, an announcement, or none. *)
LEMMA PutsJournal ==
    ASSUME OrderInv, PublishedInv, JournalInv, NEW i \in Frames, NEW t, Becomes(i, t), Puts(i, t)
    PROVE  [Journal!Next]_(Journal!vars)
<1> USE DEF OrderInv
<1>1. /\ Frames' = Frames /\ task'[i] = t
      /\ \A j \in Frames : j # i => task'[j] = task[j]
      /\ Received' = Received
  <2>1. /\ Frames' = Frames /\ task'[i] = t
        /\ \A j \in Frames : j # i => task'[j] = task[j]
        /\ \A j \in Frames : task'[j].socket = task[j].socket /\ task'[j].stamps = task[j].stamps
      BY Moved
  <2> QED BY <2>1, SameReceived
<1>2. /\ Fits(task[i], row) /\ task[i] \in Tasks /\ ~task[i].acked
      /\ task[i].pc \in {"store", "publish"} /\ task[i].item \in 1 .. Len(task[i].stamps)
    BY FrameType DEF Becomes, Fits, Puts, Tasks
<1>3. t.acked = task[i].acked
    BY PutsKeeps
<1>4. Replied' = Replied
  <2>1. \A j : (j \in Replied)' <=> j \in Replied
      BY <1>1, <1>2, <1>3 DEF Replied, Frames
  <2> QED BY <2>1
<1>5. i \in DOMAIN Received \ Replied /\ task[i].item \in DOMAIN Received[i].stamps
  <2>1. DOMAIN task[i].stamps = 1 .. Len(task[i].stamps)
      BY <1>2 DEF Tasks
  <2> QED BY <1>2, <2>1, ReceivedHas, RepliedHas
<1>6. Received[i].stamps[task[i].item] = Stamp(i) /\ Journal!Entry(i, task[i].item) = Fix(i)
    BY ReceivedHas DEF Stamp, Fix, Journal!Entry
<1>7. DOMAIN rows = 1 .. Len(rows)
    BY DEF TypeInv, TypeOK
<1>8. ASSUME ~Duplicate(i), rows' = Append(rows, Fix(i))
      PROVE  Journal!Write(i, task[i].item)
    BY <1>6, <1>7, <1>8 DEF Duplicate, Journal!Write, Journal!Fresh
<1>9. CASE bus' = bus /\ rows' = rows /\ lost' = lost
  <2>1. Announced' = Announced
      BY <1>9 DEF Announced
  <2> QED BY <1>1, <1>4, <1>9, <2>1 DEF Journal!vars
<1>10. CASE /\ task[i].pc = "store" /\ ~Duplicate(i) /\ rows' = Append(rows, Fix(i))
            /\ lost' = lost /\ bus' = bus
  <2>1. Announced' = Announced
      BY <1>10 DEF Announced
  <2>2. Journal!Store(i, task[i].item)
      BY <1>1, <1>4, <1>8, <1>10, <2>1, TurnOfItem DEF Journal!Store
  <2> QED BY <1>5, <2>2 DEF Journal!Next
<1>11. CASE /\ task[i].pc = "store" /\ lost' = lost \cup {<<i, task[i].item>>} /\ bus' = bus
            /\ rows' = rows \/ (~Duplicate(i) /\ rows' = Append(rows, Fix(i)))
  <2>1. Announced' = Announced
      BY <1>11 DEF Announced
  <2>2. Journal!Miss(i, task[i].item)
      BY <1>1, <1>4, <1>8, <1>11, <2>1, TurnOfItem DEF Journal!Miss
  <2> QED BY <1>5, <2>2 DEF Journal!Next
<1>12. CASE /\ task[i].pc = "publish" /\ rows' = rows /\ lost' = lost
            /\ \E r \in Inserted(i) : bus' = Append(bus, Message(i, "position", r))
  <2>1. PICK r \in Inserted(i) : bus' = Append(bus, Message(i, "position", r))
      BY <1>12
  <2>2. r \in 1 .. Len(rows) /\ rows[r].frame = i /\ rows[r].item = task[i].item /\ r \in DOMAIN rows
      BY <1>7, <2>1 DEF Inserted
  <2>3. Announced' = Announced \cup {r}
    <3>1. Message(i, "position", r) \in Messages /\ bus \in Seq(Messages) /\ Len(bus) \in Nat
      <4>1. task[i].device \in Visibility /\ i \in 1 .. MaxFrames /\ r \in Nat
          BY <1>2, <2>2, FixType, FrameType
      <4> QED BY <4>1 DEF Message, Messages, TypeInv, TypeOK
    <3>2. /\ Len(bus') = Len(bus) + 1 /\ bus'[Len(bus) + 1] = Message(i, "position", r)
          /\ \A n \in 1 .. Len(bus) : bus'[n] = bus[n]
        BY <2>1, <3>1, Extend
    <3>3. {k \in 1 .. Len(bus') : bus'[k].tipo = "position"}
              = {k \in 1 .. Len(bus) : bus[k].tipo = "position"} \cup {Len(bus) + 1}
        BY <3>1, <3>2 DEF Message
    <3>4. bus'[Len(bus) + 1].row = r
        BY <3>2 DEF Message
    <3> QED BY <3>1, <3>2, <3>3, <3>4 DEF Announced
  <2>4. r \notin Announced
    <3>1. task[i].item \in Nat
        BY <1>2 DEF Tasks
    <3>2. ASSUME r \in Announced PROVE rows[r].item < task[rows[r].frame].item
        BY <3>2, AnnouncedHas DEF PublishedInv, AnnouncedAreBehind, Announces
    <3> QED BY <2>2, <3>1, <3>2
  <2>5. <<i, task[i].item>> \notin lost
      BY <1>2 DEF JournalInv, MissedAreBehind
  <2>6. ASSUME NEW q \in Announced,
               Received[rows[q].frame].socket = Received[rows[r].frame].socket
        PROVE  q < r
    <3>1. rows[q].frame \in Frames
        BY AnnouncedHas DEF PublishedInv, AnnouncedAreBehind, Announces, RowsAreBehind
    <3> QED BY <1>12, <2>2, <2>6, <3>1, TurnOfRow, ReceivedHas
  <2>7. Journal!Announce(r)
      BY <1>1, <1>4, <1>5, <1>12, <2>2, <2>3, <2>5, <2>6 DEF Journal!Announce
  <2> QED BY <2>2, <2>4, <2>7 DEF Journal!Next
<1> QED BY <1>9, <1>10, <1>11, <1>12 DEF Puts

(* A frame that arrives is one more for the journal.                       *)
LEMMA ArrivesJournal ==
    ASSUME TypeInv, TypeInv', Arrives
    PROVE  Journal!Receive
<1>1. PICK t \in Tasks : t.pc = "waiting" /\ task' = Append(task, t)
    BY DEF Arrives
<1>2. task \in Seq(Tasks) /\ Len(task) \in Nat
    BY DEF TypeInv, TypeOK
<1>3. /\ Len(task') = Len(task) + 1 /\ task'[Len(task) + 1] = t
      /\ \A j \in 1 .. Len(task) : task'[j] = task[j]
    BY <1>1, <1>2, Extend
<1>4. Fits(t, row') /\ t.socket \in Sockets /\ t.stamps \in Seq(Times)
  <2>1. Fits(task'[Len(task) + 1], row')
      BY <1>2, <1>3 DEF TypeInv, Frames
  <2> QED BY <1>1, <1>3, <2>1 DEF Tasks
<1>5. t.stamps \in UNION {[1 .. n -> Times] : n \in 0 .. 2}
  <2>1. Len(t.stamps) \in 0 .. 2
    <3>1. Len(t.stamps) <= 2
        BY <1>4, Zenon DEF Fits
    <3>2. Len(t.stamps) \in Nat
        BY <1>4
    <3>3. \A n \in Nat : n <= 2 => n \in 0 .. 2
        OBVIOUS
    <3> QED BY <3>1, <3>2, <3>3, Zenon
  <2>2. t.stamps \in [1 .. Len(t.stamps) -> Times]
      BY <1>4
  <2> QED BY <2>1, <2>2
<1>6. Received' = Append(Received, [socket |-> t.socket, stamps |-> t.stamps])
    BY <1>2, <1>3 DEF Received
<1>7. DOMAIN Received' # DOMAIN Received
    BY <1>2, <1>3 DEF Received
<1>8. Replied' = Replied
  <2>1. ~t.acked
      BY <1>1, <1>4 DEF Fits, Settled
  <2>2. \A j : (j \in Replied)' <=> j \in Replied
      BY <1>2, <1>3, <2>1 DEF Replied
  <2> QED BY <2>2
<1>9. Announced' = Announced
    BY DEF Arrives, Announced
<1> QED BY <1>4, <1>5, <1>6, <1>7, <1>8, <1>9 DEF Journal!Receive, Arrives

LEMMA NextJournal ==
    ASSUME IngestInv, JournalInv, [Next]_vars
    PROVE  [Journal!Next]_(Journal!vars)
<1>1. OrderInv /\ StoredInv /\ PublishedInv /\ TypeInv /\ TypeInv'
    BY Steps DEF IngestInv, OrderInv
<1>2. CASE \E i \in Frames : \E t : Becomes(i, t) /\ ((Quiet(i, t) /\ Rest) \/ Puts(i, t))
    BY <1>1, <1>2, QuietJournal, PutsJournal
<1>3. CASE Arrives
    BY <1>1, <1>3, ArrivesJournal DEF Journal!Next
<1>4. CASE Dies
  <2>1. Received' = Received
      BY <1>1, <1>4, Died, SameReceived
  <2>2. Announced' = Announced /\ rows' = rows /\ lost' = lost
      BY <1>4 DEF Dies, Announced
  <2>3. \A j : (j \in Replied)' <=> j \in Replied
      BY <1>1, <1>4, Died DEF Replied, Frames
  <2>4. Replied' = Replied
      BY <2>3
  <2> QED BY <2>1, <2>2, <2>4 DEF Journal!vars
<1>5. CASE Aside
    BY <1>5 DEF Aside, Received, Announced, Replied, Journal!vars
<1> QED BY <1>1, <1>2, <1>3, <1>4, <1>5, Steps

(* The queues, the inserts and the announcements implement the journal: a  *)
(* position is tried once, in the order of its socket; it is in the table  *)
(* once, or once for each frame if its time is not legible; the interface  *)
(* is told of it before its frame is answered, and the answer comes only   *)
(* with every position of the frame held or noted as failed.               *)
THEOREM IngestImplementsJournal == Spec => ImplementsJournal
<1>1. Init => JournalInv
    BY DEF Init, JournalInv, MissedAreBehind, AllTold
<1>2. IngestInv /\ JournalInv /\ [Next]_vars => JournalInv'
    BY MissedHolds, ToldHolds DEF JournalInv, IngestInv, OrderInv
<1>3. Spec => []JournalInv
    BY <1>1, <1>2, InvariantHolds, PTL DEF Spec
<1> QED BY <1>3, InvariantHolds, InitJournal, NextJournal, PTL
        DEF Spec, ImplementsJournal, Journal!Spec
=============================================================================
