----------------------- MODULE CommandDispatchProofs -----------------------
(***************************************************************************)
(* Safety of the command channel for any devices, sockets, commands, batch *)
(* limit and number of faults.                                             *)
(***************************************************************************)
EXTENDS CommandDispatch, FiniteSetTheorems, SequenceTheorems, WellFoundedInduction, TLAPS

(* First(S) is the smallest element of a nonempty set of ids.              *)
LEMMA FirstIsMinimum ==
    ASSUME NEW S \in SUBSET Cmds, S # {}
    PROVE  First(S) \in S /\ \A b \in S : First(S) <= b
  <1>1. S \subseteq Nat
    BY CmdsAssumption
  <1>2. PICK x \in S : \A y \in S : ~ (<<y, x>> \in OpToRel(<, Nat))
    BY <1>1, NatLessThanWellFounded, WFMin
  <1>3. \A y \in S : x <= y
    <2> SUFFICES ASSUME NEW y \in S PROVE x <= y
      OBVIOUS
    <2>1. x \in Nat /\ y \in Nat
      BY <1>1, <1>2
    <2>2. y < x => <<y, x>> \in OpToRel(<, Nat)
      BY <2>1 DEF OpToRel
    <2>3. ~ (y < x)
      BY <1>2, <2>2, Zenon
    <2> QED
      BY <2>1, <2>3
  <1> QED
    BY <1>3 DEF First

Shape == /\ \A s \in Sockets :
              /\ pc[s] \notin {"created", "done"}
              /\ pc[s] # "idle" => cola[s] # <<>> /\ cola[s][1].type = "login"
         /\ \A c \in Cmds :
              /\ pc[c] \notin {"ack", "register"}
              /\ pc[c] = "idle" <=> status[c] = "none"
              /\ status[c] # "none" => cmdDev[c] \in Devices
         /\ \A a \in Actors :
              /\ pc[a] = "mark" => batch[a] # {}
              /\ pc[a] \notin Flushing => batch[a] = {}
              /\ \A c \in batch[a] : status[c] # "none"

TypeInv == TypeOK /\ Shape

LEMMA AppendTypes ==
    ASSUME NEW S, NEW s \in Seq(S), NEW e \in S
    PROVE  /\ Append(s, e) \in Seq(S)
           /\ Append(s, e) # <<>>
           /\ s # <<>> => Append(s, e)[1] = s[1]
           /\ s = <<>> => Append(s, e)[1] = e
           /\ Len(Append(s, e)) = Len(s) + 1
           /\ Len(s) \in Nat
           /\ \A i \in 1 .. Len(s) : Append(s, e)[i] = s[i]
           /\ Append(s, e)[Len(s) + 1] = e
  BY AppendProperties, EmptySeq, LenProperties

LEMMA FrameTypes ==
    ASSUME NEW s \in Seq(Frames), s # <<>>
    PROVE  /\ Head(s) = s[1] /\ Head(s) \in Frames /\ Tail(s) \in Seq(Frames)
           /\ Head(s).type = "login" => Head(s).imei \in Devices
           /\ Head(s).type = "answer" => Head(s).cmd \in Cmds /\ Head(s).result \in Results
  BY HeadTailProperties DEF Frames, Login, Answer

LEMMA FinishTypes ==
    ASSUME TypeInv, NEW a \in Actors, Finish(a),
           a \in Sockets => cola[a] # <<>>
    PROVE  /\ pc' \in [Actors -> {"idle", "ack", "register", "created", "done"} \cup Flushing]
           /\ target' \in [Actors -> Sockets \cup {NoSocket}]
           /\ batch' \in [Actors -> SUBSET Cmds]
           /\ cola' \in [Sockets -> Seq(Frames)]
           /\ \A b \in Actors : b # a => pc'[b] = pc[b] /\ target'[b] = target[b] /\ batch'[b] = batch[b]
           /\ pc'[a] = IF a \in Sockets THEN "idle" ELSE "done"
           /\ batch'[a] = {}
           /\ \A s \in Sockets : s # a => cola'[s] = cola[s]
  BY FrameTypes DEF Finish, TypeInv, TypeOK

LEMMA FinishKeepsTypes ==
    ASSUME TypeInv, NEW a \in Actors, Finish(a),
           a \in Sockets => cola[a] # <<>>,
           a \in Cmds => status[a] # "none",
           UNCHANGED <<sock, received, imeiOf, wire, connections, rowVars>>,
           lostMark' \in SUBSET Cmds, faults' \in 0 .. MaxFaults
    PROVE  TypeInv'
  <1> USE DEF TypeInv
  <1>1. TypeOK'
    BY FinishTypes DEF TypeOK, rowVars, Flushing
  <1>2. Shape'
    <2>1. status' = status /\ cmdDev' = cmdDev
      BY DEF rowVars
    <2>2. \A s \in Sockets :
              /\ pc'[s] \notin {"created", "done"}
              /\ pc'[s] # "idle" => cola'[s] # <<>> /\ cola'[s][1].type = "login"
      <3> TAKE s \in Sockets
      <3>1. CASE s = a
        BY <3>1, FinishTypes
      <3>2. CASE s # a
        BY <3>2, FinishTypes DEF Shape, Actors
      <3> QED
        BY <3>1, <3>2
    <2>3. \A c \in Cmds :
              /\ pc'[c] \notin {"ack", "register"}
              /\ pc'[c] = "idle" <=> status'[c] = "none"
              /\ status'[c] # "none" => cmdDev'[c] \in Devices
      <3> TAKE c \in Cmds
      <3>1. CASE c = a
        BY <3>1, <2>1, FinishTypes, ActorsAssumption DEF Shape, Actors
      <3>2. CASE c # a
        BY <3>2, <2>1, FinishTypes DEF Shape, Actors
      <3> QED
        BY <3>1, <3>2
    <2>4. \A b \in Actors :
              /\ pc'[b] = "mark" => batch'[b] # {}
              /\ pc'[b] \notin Flushing => batch'[b] = {}
              /\ \A c \in batch'[b] : status'[c] # "none"
      <3> TAKE b \in Actors
      <3>1. CASE b = a
        BY <3>1, FinishTypes
      <3>2. CASE b # a
        BY <3>2, <2>1, FinishTypes DEF Shape
      <3> QED
        BY <3>1, <3>2
    <2> QED
      BY <2>2, <2>3, <2>4 DEF Shape
  <1> QED
    BY <1>1, <1>2

LEMMA FinishOfFlush ==
    ASSUME TypeInv, NEW a \in Actors, pc[a] \in Flushing, Finish(a),
           UNCHANGED <<sock, received, imeiOf, wire, connections, rowVars>>,
           lostMark' \in SUBSET Cmds, faults' \in 0 .. MaxFaults
    PROVE  TypeInv'
  <1>1. /\ a \in Sockets => cola[a] # <<>>
        /\ a \in Cmds => status[a] # "none"
    BY DEF TypeInv, Shape, Flushing
  <1> QED
    BY <1>1, FinishKeepsTypes

(* Frames a device sends are well formed. *)
LEMMA ReceiveTypes ==
    /\ \A d \in Devices : Login(d) \in Frames
    /\ \A c \in Transmitted, r \in Results : Answer(c, r) \in Frames
  BY DEF Frames, Transmitted

LEMMA InitTypeInv == Init => TypeInv
  BY ActorsAssumption, BoundsAssumption DEF Init, TypeInv, TypeOK, Shape, Actors, Flushing

LEMMA NextTypeInv == TypeInv /\ [Next]_vars => TypeInv'
  <1> SUFFICES ASSUME TypeInv, [Next]_vars PROVE TypeInv'
    OBVIOUS
  <1> USE DEF TypeInv
  <1>1. ASSUME NEW s \in Sockets, Connect(s) PROVE TypeInv'
    BY <1>1 DEF Connect, TypeOK, Shape, flushVars, rowVars
  <1>2. ASSUME NEW s \in Sockets, NEW f \in Frames, Receive(s, f) PROVE TypeInv'
    <2>1. /\ Append(cola[s], f) \in Seq(Frames)
          /\ cola[s] # <<>> => Append(cola[s], f) # <<>> /\ Append(cola[s], f)[1] = cola[s][1]
      <3>1. cola[s] \in Seq(Frames)
        BY DEF TypeOK
      <3> HIDE DEF TypeInv
      <3> QED
        BY ONLY <3>1, AppendTypes, f \in Frames
    <2>2. cola' = [cola EXCEPT ![s] = Append(cola[s], f)]
      BY <1>2 DEF Receive
    <2>3. TypeOK'
      BY <1>2, <2>1, <2>2, BoundsAssumption DEF Receive, TypeOK, flushVars, rowVars
    <2>4. Shape'
      BY <1>2, <2>1, <2>2 DEF Receive, TypeOK, Shape, flushVars, rowVars
    <2> QED
      BY <2>3, <2>4
  <1>3. ASSUME NEW s \in Sockets, Destroy(s) PROVE TypeInv'
    BY <1>3 DEF Destroy, TypeOK, Shape, flushVars, rowVars
  <1>4. ASSUME NEW s \in Sockets, CloseEvent(s) PROVE TypeInv'
    BY <1>4 DEF CloseEvent, TypeOK, Shape, flushVars, rowVars
  <1>5. ASSUME NEW c \in Cmds, DeadlinePasses(c) PROVE TypeInv'
    BY <1>5 DEF DeadlinePasses, TypeOK, Shape, flushVars, socketVars
  <1>6. ASSUME NEW s \in Sockets, ProcessLogin(s) PROVE TypeInv'
    <2>1. /\ cola[s] # <<>> /\ cola[s][1].type = "login"
          /\ Head(cola[s]).imei \in Devices
      BY <1>6, FrameTypes DEF ProcessLogin, TypeOK
    <2>2. s \notin Cmds /\ s \in Actors /\ batch[s] = {}
      BY <1>6, ActorsAssumption DEF Actors, Shape, Flushing, ProcessLogin
    <2>3. TypeOK'
      BY <1>6, <2>1, <2>2 DEF ProcessLogin, TypeOK, rowVars, Flushing
    <2>4. Shape'
      BY <1>6, <2>1, <2>2 DEF ProcessLogin, Shape, TypeOK, rowVars, Flushing
    <2> QED
      BY <2>3, <2>4
  <1>7. ASSUME NEW s \in Sockets, WriteAck(s) PROVE TypeInv'
    <2>1. wire' \in [Sockets -> Seq(Outgoing)]
      BY <1>7, AppendTypes DEF WriteAck, TypeOK, Outgoing
    <2>2. s \notin Cmds /\ s \in Actors
      BY ActorsAssumption DEF Actors
    <2>3. TypeOK'
      BY <1>7, <2>1, <2>2 DEF WriteAck, TypeOK, rowVars, Flushing
    <2>4. Shape'
      BY <1>7, <2>2 DEF WriteAck, Shape, TypeOK, rowVars, Flushing
    <2> QED
      BY <2>3, <2>4
  <1>9. ASSUME NEW s \in Sockets, ProcessAnswer(s) PROVE TypeInv'
    <2> DEFINE f == Head(cola[s])
    <2>1. /\ f.cmd \in Cmds /\ f.result \in Results /\ Tail(cola[s]) \in Seq(Frames)
          /\ pc[s] = "idle" /\ cola' = [cola EXCEPT ![s] = Tail(cola[s])]
      BY <1>9, FrameTypes DEF ProcessAnswer, TypeOK
    <2>2. \/ status' = status
          \/ /\ status[f.cmd] \in Pending
             /\ status' = [status EXCEPT ![f.cmd] = f.result]
      BY <1>9, <2>1 DEF ProcessAnswer, Resolve, TypeOK
    <2> HIDE DEF f
    <2>3. TypeOK'
      <3>1. status' \in [Cmds -> {"none"} \cup Pending \cup Terminal]
        BY <2>1, <2>2 DEF TypeOK, Results, Terminal
      <3>2. cola' \in [Sockets -> Seq(Frames)]
        BY <2>1 DEF TypeOK
      <3> QED
        BY <1>9, <3>1, <3>2 DEF ProcessAnswer, TypeOK, flushVars
    <2>4. Shape'
      BY <1>9, <2>1, <2>2 DEF ProcessAnswer, TypeOK, Shape, flushVars, Results, Pending
    <2> QED
      BY <2>3, <2>4
  <1>10. ASSUME NEW c \in Cmds, CreateCommand(c) PROVE TypeInv'
    BY <1>10, ActorsAssumption DEF CreateCommand, TypeOK, Shape, socketVars, Actors, Pending, Flushing
  <1>12. ASSUME NEW a \in Actors, FlushExpire(a) PROVE TypeInv'
    BY <1>12, ActorsAssumption DEF FlushExpire, Expired, TypeOK, Shape, socketVars, Actors, Flushing, Terminal, Pending
  <1>13. ASSUME NEW a \in Actors, FlushSelect(a) PROVE TypeInv'
    BY <1>13, ActorsAssumption DEF FlushSelect, Oldest, Queued, TypeOK, Shape, socketVars, rowVars, Actors, Flushing
  <1>14. ASSUME NEW a \in Actors, FlushWrite(a) PROVE TypeInv'
    <2>1. First(batch[a]) \in Cmds /\ target[a] \in Sockets
      BY <1>14, FirstIsMinimum DEF FlushWrite, TypeOK, Flushing
    <2>2. wire' \in [Sockets -> Seq(Outgoing)]
      <3>1. Command(First(batch[a])) \in Outgoing
        BY <2>1 DEF Outgoing
      <3>2. Append(wire[target[a]], Command(First(batch[a]))) \in Seq(Outgoing)
        BY <2>1, <3>1, AppendTypes DEF TypeOK
      <3> QED
        BY <1>14, <2>1, <3>2 DEF FlushWrite, TypeOK
    <2>3. TypeOK'
      BY <1>14, <2>1, <2>2 DEF FlushWrite, TypeOK, rowVars, Flushing
    <2>4. Shape'
      BY <1>14, ActorsAssumption DEF FlushWrite, Shape, TypeOK, rowVars, Flushing, Actors
    <2> QED
      BY <2>3, <2>4
  <1>16. ASSUME NEW a \in Actors, FlushMark(a) PROVE TypeInv'
    <2>1. /\ First(batch[a]) \in Cmds /\ First(batch[a]) \in batch[a]
          /\ target[a] \in Sockets /\ status[First(batch[a])] # "none"
      BY <1>16, FirstIsMinimum DEF FlushMark, TypeOK, Flushing, Shape
    <2> DEFINE c == First(batch[a])
    <2>2. /\ batch' = [batch EXCEPT ![a] = batch[a] \ {c}]
          /\ \/ status' = status
             \/ status' = [status EXCEPT ![c] = "sent"]
      BY <1>16, <2>1 DEF FlushMark, Mark, TypeOK
    <2> HIDE DEF c
    <2>3. TypeOK'
      BY <1>16, <2>1, <2>2 DEF c, FlushMark, TypeOK, socketVars, Flushing, Pending
    <2>4. Shape'
      BY <1>16, <2>1, <2>2, ActorsAssumption
      DEF c, FlushMark, Shape, TypeOK, socketVars, Flushing, Actors
    <2> QED
      BY <2>3, <2>4
  <1>8. ASSUME NEW s \in Sockets, Register(s) PROVE TypeInv'
    <2>1. s \in Actors /\ s \notin Cmds /\ cola[s] # <<>> /\ batch[s] = {}
          /\ cola[s][1].type = "login" /\ Head(cola[s]).imei \in Devices
      BY <1>8, ActorsAssumption, FrameTypes DEF Register, Actors, Shape, TypeOK, Flushing
    <2>2. CASE sock[s] = "open"
      <3>1. /\ pc' = [pc EXCEPT ![s] = "expire"]
            /\ target' = [target EXCEPT ![s] = s]
            /\ connections' = [connections EXCEPT ![Head(cola[s]).imei] = s]
            /\ UNCHANGED <<batch, cola, sock, received, imeiOf, wire, rowVars,
                           lostMark, faults>>
        BY <1>8, <2>2 DEF Register, StartFlush
      <3>2. TypeOK'
        BY <3>1, <2>1 DEF TypeOK, rowVars, Flushing
      <3>3. Shape'
        BY <3>1, <2>1 DEF TypeOK, Shape, rowVars, Flushing, Actors
      <3> QED
        BY <3>2, <3>3
    <2>3. CASE sock[s] # "open"
      <3>1. Finish(s) /\ UNCHANGED <<sock, received, imeiOf, wire, rowVars, lostMark, faults, connections>>
        BY <1>8, <2>3 DEF Register
      <3> QED
        BY <3>1, <2>1, FinishKeepsTypes DEF TypeOK
    <2> QED
      BY <2>2, <2>3
  <1>11. ASSUME NEW c \in Cmds, FlushIfOnline(c) PROVE TypeInv'
    <2>1. c \in Actors /\ c \notin Sockets /\ cmdDev[c] \in Devices /\ status[c] # "none"
      BY <1>11, ActorsAssumption DEF FlushIfOnline, Actors, Shape
    <2>2. CASE IsDeviceOnline(cmdDev[c])
      <3>1. /\ pc' = [pc EXCEPT ![c] = "expire"]
            /\ target' = [target EXCEPT ![c] = connections[cmdDev[c]]]
            /\ connections[cmdDev[c]] \in Sockets
            /\ UNCHANGED <<batch, cola, sock, received, imeiOf, wire, connections, rowVars,
                           lostMark, faults>>
        BY <1>11, <2>1, <2>2 DEF FlushIfOnline, IsDeviceOnline, StartFlush, TypeOK
      <3>2. TypeOK'
        BY <3>1, <2>1 DEF TypeOK, rowVars, Flushing
      <3>3. Shape'
        BY <3>1, <2>1 DEF TypeOK, Shape, rowVars, Flushing, Actors
      <3> QED
        BY <3>2, <3>3
    <2>3. CASE ~IsDeviceOnline(cmdDev[c])
      <3>1. Finish(c) /\ UNCHANGED <<sock, received, imeiOf, wire, rowVars, lostMark, faults, connections>>
        BY <1>11, <2>3 DEF FlushIfOnline
      <3> QED
        BY <3>1, <2>1, FinishKeepsTypes DEF TypeOK
    <2> QED
      BY <2>2, <2>3
  <1>15. ASSUME NEW a \in Actors, FlushEnd(a) PROVE TypeInv'
    BY <1>15, FinishOfFlush DEF FlushEnd, Flushing, TypeOK
  <1>17. ASSUME NEW a \in Actors, FlushWriteFails(a) PROVE TypeInv'
    <2>1. lostMark' \in SUBSET Cmds
      <3>1. First(batch[a]) \in Cmds
        BY <1>17, FirstIsMinimum DEF FlushWriteFails, TypeOK, Shape
      <3> QED
        BY <1>17, <3>1 DEF FlushWriteFails, TypeOK
    <2> QED
      BY <1>17, <2>1, FinishOfFlush DEF FlushWriteFails, Flushing, TypeOK
  <1>18. ASSUME NEW a \in Actors, QueryFails(a) PROVE TypeInv'
    <2>1. lostMark' \in SUBSET Cmds /\ faults' \in 0 .. MaxFaults
      BY <1>18, FirstIsMinimum, BoundsAssumption DEF QueryFails, TypeOK, Shape
    <2> QED
      BY <1>18, <2>1, FinishOfFlush DEF QueryFails, Flushing, TypeOK
  <1>19. CASE ListCommands
    BY <1>19 DEF ListCommands, Expired, TypeOK, Shape, socketVars, flushVars, Terminal, Pending
  <1>20. CASE Crash
    <2>1. \A a \in Actors : pc[a] = "mark" => First(batch[a]) \in Cmds
      BY FirstIsMinimum DEF TypeOK, Shape
    <2>2. lostMark' \in SUBSET Cmds
      BY <1>20, <2>1 DEF Crash, TypeOK
    <2>3. TypeOK'
      BY <1>20, <2>2, EmptySeq, ActorsAssumption, BoundsAssumption
      DEF Crash, TypeOK, rowVars, Flushing, Actors
    <2>4. Shape'
      BY <1>20, ActorsAssumption DEF Crash, TypeOK, Shape, rowVars, Flushing, Actors
    <2> QED
      BY <2>3, <2>4
  <1>21. CASE UNCHANGED vars
    BY <1>21 DEF vars, TypeOK, Shape
  <1> QED
    <2>1. CASE Environment
      BY <2>1, <1>1, <1>3, <1>5, <1>10, <1>17, <1>18, <1>19, <1>20, ReceiveTypes, <1>2
      DEF Environment, ReceiveLogin, ReceiveAnswer
    <2>2. CASE Server
      BY <2>2, <1>4, <1>6, <1>7, <1>8, <1>9, <1>11, <1>12, <1>13, <1>14, <1>15, <1>16
      DEF Server, Handle, Flush
    <2> QED
      BY <2>1, <2>2, <1>21 DEF Next

LEMMA TypesHold == Spec => []TypeInv
  BY InitTypeInv, NextTypeInv, PTL DEF Spec

(* The variables always have their types.                                  *)
THEOREM TypeCorrect == Spec => []TypeOK
  <1>1. TypeInv => TypeOK
    BY DEF TypeInv
  <1> QED
    BY <1>1, TypesHold, PTL

-----------------------------------------------------------------------------
(* What a step can do to the wires. *)

(* A write adds one item at the end of one wire.                           *)
LEMMA WireAppend ==
    ASSUME TypeInv
    PROVE  \A s \in Sockets, e \in Outgoing :
        wire' = [wire EXCEPT ![s] = Append(@, e)] =>
        \A r \in Sockets :
             /\ wire[r] # <<>> => wire'[r] # <<>> /\ wire'[r][1] = wire[r][1]
             /\ r = s /\ wire[r] = <<>> => wire'[r] # <<>> /\ wire'[r][1] = e
             /\ r # s => wire'[r] = wire[r]
             /\ \A c \in Cmds : Written(r, c)' <=> Written(r, c) \/ (r = s /\ e = Command(c))
  <1> SUFFICES ASSUME NEW s \in Sockets, NEW e \in Outgoing,
                      wire' = [wire EXCEPT ![s] = Append(@, e)], NEW r \in Sockets
      PROVE  /\ wire[r] # <<>> => wire'[r] # <<>> /\ wire'[r][1] = wire[r][1]
             /\ r = s /\ wire[r] = <<>> => wire'[r] # <<>> /\ wire'[r][1] = e
             /\ r # s => wire'[r] = wire[r]
             /\ \A c \in Cmds : Written(r, c)' <=> Written(r, c) \/ (r = s /\ e = Command(c))
    OBVIOUS
  <1>1. CASE r # s
    BY <1>1 DEF TypeInv, TypeOK, Written
  <1>2. CASE r = s
    <2> DEFINE w == wire[s]
    <2>1. w \in Seq(Outgoing) /\ wire'[s] = Append(w, e)
      BY DEF TypeInv, TypeOK
    <2> HIDE DEF w
    <2>2. /\ Append(w, e) # <<>>
          /\ w # <<>> => Append(w, e)[1] = w[1]
          /\ w = <<>> => Append(w, e)[1] = e
          /\ Len(w) \in Nat /\ Len(Append(w, e)) = Len(w) + 1
          /\ \A i \in 1 .. Len(w) : Append(w, e)[i] = w[i]
          /\ Append(w, e)[Len(w) + 1] = e
      BY <2>1, AppendTypes
    <2>3. ASSUME NEW c \in Cmds
          PROVE (\E i \in 1 .. Len(wire'[s]) : wire'[s][i] = Command(c))
                <=> (\E i \in 1 .. Len(w) : w[i] = Command(c)) \/ e = Command(c)
      <3>1. 1 .. Len(wire'[s]) = (1 .. Len(w)) \cup {Len(w) + 1}
        BY <2>1, <2>2
      <3> QED
        BY <3>1, <2>1, <2>2
    <2> QED
      BY <1>2, <2>1, <2>2, <2>3 DEF Written, w
  <1> QED
    BY <1>1, <1>2

(* Only WriteAck and FlushWrite write.                                     *)
LEMMA WireStep ==
    ASSUME TypeInv, [Next]_vars
    PROVE  \/ wire' = wire
           \/ \E s \in Sockets : /\ pc[s] = "ack"
                                 /\ wire' = [wire EXCEPT ![s] = Append(@, Ack)]
           \/ \E a \in Actors : FlushWrite(a)
  BY DEF Next, Environment, Server, Handle, Flush, vars, Connect, ReceiveLogin, ReceiveAnswer,
     Receive, Destroy, CloseEvent, DeadlinePasses, ProcessLogin, WriteAck, Register,
     ProcessAnswer, CreateCommand, FlushIfOnline, FlushExpire, FlushSelect, FlushEnd,
     FlushMark, FlushWriteFails, QueryFails, ListCommands, Crash, socketVars

LEMMA FlushWriteEffect ==
    ASSUME TypeInv, NEW a \in Actors, FlushWrite(a)
    PROVE  /\ First(batch[a]) \in batch[a] /\ First(batch[a]) \in Cmds
           /\ target[a] \in Sockets /\ sock[target[a]] = "open"
           /\ Command(First(batch[a])) \in Outgoing
           /\ wire' = [wire EXCEPT ![target[a]] = Append(@, Command(First(batch[a])))]
           /\ pc[a] = "send" /\ pc' = [pc EXCEPT ![a] = "mark"]
           /\ UNCHANGED <<sock, cola, received, imeiOf, connections, target, batch, rowVars,
                          lostMark, faults>>
  <1>1. First(batch[a]) \in batch[a] /\ First(batch[a]) \in Cmds
    BY FirstIsMinimum DEF FlushWrite, TypeInv, TypeOK
  <1> QED
    BY <1>1 DEF FlushWrite, TypeInv, TypeOK, Flushing, Outgoing

LEMMA CommandInjective ==
    \A c, d : (Command(c) = Command(d) => c = d) /\ Command(c) # Ack
  BY DEF Command, Ack

(* Nothing written is ever unwritten, and a command appears on a wire only *)
(* through FlushWrite.                                                     *)
LEMMA WiresGrow ==
    ASSUME TypeInv, [Next]_vars
    PROVE  \A r \in Sockets :
             /\ wire[r] # <<>> => wire'[r] # <<>> /\ wire'[r][1] = wire[r][1]
             /\ \A c \in Cmds : Written(r, c) => Written(r, c)'
             /\ \A c \in Cmds : Written(r, c)' =>
                   \/ Written(r, c)
                   \/ \E a \in Actors : FlushWrite(a) /\ r = target[a] /\ c = First(batch[a])
  <1>1. CASE wire' = wire
    BY <1>1 DEF Written
  <1>2. ASSUME NEW x \in Sockets, wire' = [wire EXCEPT ![x] = Append(@, Ack)]
        PROVE \A r \in Sockets :
             /\ wire[r] # <<>> => wire'[r] # <<>> /\ wire'[r][1] = wire[r][1]
             /\ \A c \in Cmds : Written(r, c)' <=> Written(r, c)
    <2>1. PICK item \in Outgoing : item = Ack
      BY DEF Outgoing
    <2>2. wire' = [wire EXCEPT ![x] = Append(@, item)]
      BY <1>2, <2>1
    <2>3. \A c \in Cmds : item # Command(c)
      BY <2>1, CommandInjective
    <2>4. \A r \in Sockets : wire[r] # <<>> => wire'[r] # <<>> /\ wire'[r][1] = wire[r][1]
      BY <2>2, WireAppend
    <2>5. ASSUME NEW r \in Sockets, NEW c \in Cmds
          PROVE  Written(r, c)' <=> Written(r, c)
      <3>1. item # Command(c)
        BY <2>3
      <3>2. CASE r = x
        <4> DEFINE w == wire[x]
        <4>1. w \in Seq(Outgoing) /\ wire'[x] = Append(w, item)
          BY <2>2 DEF TypeInv, TypeOK
        <4> HIDE DEF w
        <4>2. /\ Len(w) \in Nat /\ Len(Append(w, item)) = Len(w) + 1
              /\ \A i \in 1 .. Len(w) : Append(w, item)[i] = w[i]
              /\ Append(w, item)[Len(w) + 1] = item
          BY <4>1, AppendTypes
        <4> QED
          BY <3>1, <3>2, <4>1, <4>2 DEF Written, w
      <3>3. CASE r # x
        BY <2>2, <3>3 DEF Written, TypeInv, TypeOK
      <3> QED
        BY <3>2, <3>3
    <2> QED
      BY <2>3, <2>4, <2>5
  <1>3. ASSUME NEW a \in Actors, FlushWrite(a)
        PROVE \A r \in Sockets :
             /\ wire[r] # <<>> => wire'[r] # <<>> /\ wire'[r][1] = wire[r][1]
             /\ \A c \in Cmds : Written(r, c)' <=>
                    Written(r, c) \/ (r = target[a] /\ c = First(batch[a]))
    BY <1>3, FlushWriteEffect, WireAppend, CommandInjective
  <1> QED
    BY <1>1, <1>2, <1>3, WireStep

LEMMA TransmittedGrows ==
    ASSUME TypeInv, [Next]_vars
    PROVE  /\ Transmitted \subseteq Transmitted'
           /\ \A c \in Transmitted' \ Transmitted :
                  \E a \in Actors : FlushWrite(a) /\ c = First(batch[a])
  BY WiresGrow DEF Transmitted

LEMMA FlushWriteTransmits ==
    ASSUME TypeInv, NEW a \in Actors, FlushWrite(a)
    PROVE  Transmitted' = Transmitted \cup {First(batch[a])}
  BY FlushWriteEffect, WireAppend, CommandInjective DEF Transmitted

-----------------------------------------------------------------------------
(* What a step can do to the control state.                                *)

(* An actor stops waiting by finishing, and only while it is waiting.      *)
Leaves(a) == /\ pc[a] \notin {"idle", "done"} /\ Finish(a)
             /\ UNCHANGED <<sock, received, imeiOf, wire, connections, rowVars>>

LEMMA FinishingActions ==
    ASSUME TypeInv, NEW a \in Actors
    PROVE  /\ FlushEnd(a) \/ FlushWriteFails(a) \/ QueryFails(a) => Leaves(a)
           /\ a \in Sockets /\ Register(a) /\ sock[a] # "open" => Leaves(a)
           /\ a \in Cmds /\ FlushIfOnline(a) /\ ~IsDeviceOnline(cmdDev[a]) => Leaves(a)
  BY DEF Leaves, FlushEnd, FlushWriteFails, QueryFails, Register, FlushIfOnline

LEMMA LeavesEffect ==
    ASSUME TypeInv, NEW a \in Actors, Leaves(a)
    PROVE  /\ \A b \in Actors : b # a => /\ pc'[b] = pc[b] /\ target'[b] = target[b]
                                         /\ batch'[b] = batch[b]
           /\ pc'[a] \in {"idle", "done"} /\ target'[a] = NoSocket /\ batch'[a] = {}
           /\ \A s \in Sockets : s # a => cola'[s] = cola[s]
           /\ a \in Sockets => cola[a] # <<>>
           /\ UNCHANGED <<sock, received, imeiOf, wire, connections, cmdDev, status, overdue>>
  <1>1. a \in Sockets => cola[a] # <<>>
    BY DEF Leaves, TypeInv, Shape
  <1> QED
    BY <1>1 DEF Leaves, Finish, TypeInv, TypeOK, rowVars

(* Where a socket comes to wait for its registration, and how the registry *)
(* and the captured sockets change.                                        *)
SocketStep(s) ==
    /\ sock'[s] = "new" => sock[s] = "new"
    /\ sock'[s] = "open" => sock[s] \in {"open", "new"}
    /\ pc'[s] = "register" => pc[s] = "register" \/ WriteAck(s)
    /\ pc'[s] = "ack" => pc[s] = "ack" \/ ProcessLogin(s)
    /\ cola[s] = <<>> /\ sock[s] = "new" => cola'[s] = <<>>
TargetStep(a) ==
    target'[a] # NoSocket =>
        \/ target'[a] = target[a]
        \/ a \in Sockets /\ Register(a) /\ sock[a] = "open" /\ target'[a] = a
        \/ /\ a \in Cmds /\ FlushIfOnline(a) /\ IsDeviceOnline(cmdDev[a])
           /\ target'[a] = connections[cmdDev[a]] /\ cmdDev[a] \in Devices
RegistryStep(d) ==
    /\ connections'[d] # NoSocket =>
          \/ connections'[d] = connections[d]
          \/ \E s \in Sockets : /\ Register(s) /\ sock[s] = "open"
                                /\ d = Head(cola[s]).imei /\ connections'[d] = s
    /\ connections[d] # NoSocket /\ connections'[d] = NoSocket =>
          sock'[connections[d]] = "closed" \/ sock[connections[d]] = "new"

LEMMA ControlStep ==
    ASSUME TypeInv, [Next]_vars
    PROVE  /\ \A s \in Sockets : SocketStep(s)
           /\ \A a \in Actors : TargetStep(a)
           /\ \A d \in Devices : RegistryStep(d)
  <1> DEFINE Goal == /\ \A s \in Sockets : SocketStep(s)
                     /\ \A a \in Actors : TargetStep(a)
                     /\ \A d \in Devices : RegistryStep(d)
  <1> USE DEF SocketStep, TargetStep, RegistryStep
  <1>1. ASSUME NEW s \in Sockets, Connect(s) \/ Destroy(s) PROVE Goal
    BY <1>1 DEF Connect, Destroy, flushVars, TypeInv, TypeOK
  <1>2. ASSUME NEW s \in Sockets, NEW f, Receive(s, f) PROVE Goal
    BY <1>2 DEF Receive, flushVars, TypeInv, TypeOK
  <1>3. ASSUME NEW s \in Sockets, CloseEvent(s) PROVE Goal
    BY <1>3 DEF CloseEvent, flushVars, TypeInv, TypeOK
  <1>4. ASSUME NEW s \in Sockets, ProcessLogin(s) \/ WriteAck(s) PROVE Goal
    BY <1>4, ActorsAssumption DEF ProcessLogin, WriteAck, TypeInv, TypeOK, Actors
  <1>5. ASSUME NEW s \in Sockets, ProcessAnswer(s) PROVE Goal
    BY <1>5 DEF ProcessAnswer, flushVars, TypeInv, TypeOK
  <1>6. ASSUME NEW a \in Actors, Leaves(a) PROVE Goal
    BY <1>6, LeavesEffect DEF Actors
  <1>7. ASSUME NEW s \in Sockets, Register(s), sock[s] = "open" PROVE Goal
    <2>1. /\ Head(cola[s]).imei \in Devices /\ s \in Actors
          /\ connections' = [connections EXCEPT ![Head(cola[s]).imei] = s]
          /\ pc' = [pc EXCEPT ![s] = "expire"] /\ target' = [target EXCEPT ![s] = s]
          /\ UNCHANGED <<sock, cola>>
      <3>1. cola[s] # <<>> /\ cola[s][1].type = "login" /\ cola[s] \in Seq(Frames)
        BY <1>7 DEF Register, TypeInv, TypeOK, Shape
      <3>2. Head(cola[s]).imei \in Devices
        BY <3>1, FrameTypes
      <3> QED
        BY <1>7, <3>2 DEF Register, StartFlush, Actors
    <2>2. \A r \in Sockets : SocketStep(r)
      BY <2>1 DEF TypeInv, TypeOK
    <2>3. \A a \in Actors : TargetStep(a)
      BY <1>7, <2>1 DEF TypeInv, TypeOK
    <2>4. \A d \in Devices : RegistryStep(d)
      BY <1>7, <2>1, NoneAssumption DEF TypeInv, TypeOK
    <2> QED
      BY <2>2, <2>3, <2>4
  <1>8. ASSUME NEW c \in Cmds, FlushIfOnline(c), IsDeviceOnline(cmdDev[c]) PROVE Goal
    <2>1. cmdDev[c] \in Devices
      BY <1>8 DEF FlushIfOnline, TypeInv, Shape
    <2> QED
      BY <1>8, <2>1 DEF FlushIfOnline, StartFlush, TypeInv, TypeOK, Actors
  <1>9. ASSUME NEW c \in Cmds, CreateCommand(c) \/ DeadlinePasses(c) PROVE Goal
    BY <1>9 DEF CreateCommand, DeadlinePasses, socketVars, flushVars, TypeInv, TypeOK, Actors
  <1>10. ASSUME NEW a \in Actors, FlushExpire(a) \/ FlushSelect(a) \/ FlushWrite(a) \/ FlushMark(a)
         PROVE Goal
    BY <1>10 DEF FlushExpire, FlushSelect, FlushWrite, FlushMark, socketVars, TypeInv, TypeOK, Actors
  <1>11. ASSUME ListCommands \/ UNCHANGED vars PROVE Goal
    BY <1>11 DEF ListCommands, vars, socketVars, flushVars
  <1>12. ASSUME Crash PROVE Goal
    BY <1>12 DEF Crash, Actors, TypeInv, TypeOK
  <1> HIDE DEF Goal
  <1>13. ASSUME Environment PROVE Goal
    BY <1>13, <1>1, <1>2, <1>6, <1>9, <1>11, <1>12, FinishingActions
    DEF Environment, ReceiveLogin, ReceiveAnswer
  <1>14. ASSUME Server PROVE Goal
    BY <1>14, <1>3, <1>4, <1>5, <1>6, <1>7, <1>8, <1>10, FinishingActions
    DEF Server, Handle, Flush, Actors
  <1>15. Goal
    BY <1>11, <1>13, <1>14 DEF Next
  <1> QED
    BY <1>15 DEF Goal

-----------------------------------------------------------------------------
(* AckFirst: every way to write a command goes through a socket that has   *)
(* carried its ACK.                                                        *)
AckInv == /\ AckFirst
          /\ \A a \in Actors : target[a] # NoSocket => wire[target[a]] # <<>>
          /\ \A d \in Devices : connections[d] # NoSocket => wire[connections[d]] # <<>>
          /\ \A s \in Sockets : /\ pc[s] = "register" /\ sock[s] = "open" => wire[s] # <<>>
                                /\ sock[s] = "new" => cola[s] = <<>>

LEMMA InitAckInv == Init => AckInv
  BY ActorsAssumption DEF Init, AckInv, AckFirst, Actors

LEMMA NextAckInv == TypeInv /\ AckInv /\ [Next]_vars => AckInv'
  <1> SUFFICES ASSUME TypeInv, AckInv, [Next]_vars PROVE AckInv'
    OBVIOUS
  <1>0. TypeInv'
    BY NextTypeInv
  <1>1. \A r \in Sockets : wire[r] # <<>> => wire'[r] # <<>> /\ wire'[r][1] = wire[r][1]
    BY WiresGrow
  <1>2. AckFirst'
    <2>1. ASSUME NEW s \in Sockets, wire' = [wire EXCEPT ![s] = Append(@, Ack)]
          PROVE  AckFirst'
      <3>1. Ack \in Outgoing
        BY DEF Outgoing
      <3> QED
        BY <2>1, <3>1, WireAppend DEF AckInv, AckFirst
    <2>2. ASSUME NEW a \in Actors, FlushWrite(a) PROVE AckFirst'
      <3>1. target[a] # NoSocket /\ wire[target[a]] # <<>>
        BY <2>2, FlushWriteEffect, NoneAssumption DEF AckInv
      <3> QED
        BY <2>2, <3>1, <1>1, FlushWriteEffect, WireAppend DEF AckInv, AckFirst
    <2>3. CASE wire' = wire
      BY <2>3 DEF AckInv, AckFirst
    <2> QED
      BY <2>1, <2>2, <2>3, WireStep
  <1>3. \A s \in Sockets : sock'[s] = "new" => cola'[s] = <<>>
    BY ControlStep DEF SocketStep, AckInv
  <1>4. \A s \in Sockets : pc'[s] = "register" /\ sock'[s] = "open" => wire'[s] # <<>>
    <2> SUFFICES ASSUME NEW s \in Sockets, pc'[s] = "register", sock'[s] = "open"
                 PROVE  wire'[s] # <<>>
      OBVIOUS
    <2>1. CASE WriteAck(s)
      <3>1. sock[s] = "open" /\ Ack \in Outgoing /\ wire[s] \in Seq(Outgoing)
        BY <2>1 DEF WriteAck, TypeInv, TypeOK, Outgoing
      <3>2. Append(wire[s], Ack) # <<>>
        BY <3>1, AppendTypes
      <3> QED
        BY <2>1, <3>1, <3>2 DEF WriteAck, TypeInv, TypeOK
    <2>2. CASE pc[s] = "register"
      <3>1. sock[s] # "new"
        BY <2>2 DEF AckInv, TypeInv, Shape
      <3> QED
        BY <2>2, <3>1, <1>1, ControlStep DEF SocketStep, AckInv
    <2> QED
      BY <2>1, <2>2, ControlStep DEF SocketStep
  <1>5. \A s \in Sockets : Register(s) /\ sock[s] = "open" => wire[s] # <<>>
    BY DEF AckInv, Register
  <1>6. \A a \in Actors : target'[a] # NoSocket => wire'[target'[a]] # <<>>
    <2> SUFFICES ASSUME NEW a \in Actors, target'[a] # NoSocket
                 PROVE  target'[a] \in Sockets /\ wire[target'[a]] # <<>>
      BY <1>1
    <2>1. target'[a] \in Sockets
      BY <1>0 DEF TypeInv, TypeOK
    <2>2. connections[cmdDev[a]] # NoSocket /\ cmdDev[a] \in Devices
          => wire[connections[cmdDev[a]]] # <<>>
      BY DEF AckInv
    <2>3. target[a] # NoSocket => wire[target[a]] # <<>>
      BY DEF AckInv
    <2> QED
      BY <2>1, <2>2, <2>3, <1>5, ControlStep DEF TargetStep, IsDeviceOnline
  <1>7. \A d \in Devices : connections'[d] # NoSocket => wire'[connections'[d]] # <<>>
    <2> SUFFICES ASSUME NEW d \in Devices, connections'[d] # NoSocket
                 PROVE  connections'[d] \in Sockets /\ wire[connections'[d]] # <<>>
      BY <1>1
    <2>1. connections'[d] \in Sockets
      BY <1>0 DEF TypeInv, TypeOK
    <2> QED
      BY <2>1, <1>5, ControlStep DEF RegistryStep, AckInv
  <1> QED
    BY <1>2, <1>3, <1>4, <1>6, <1>7 DEF AckInv

(* No command is ever the first thing a connection carries.                *)
THEOREM AckComesFirst == Spec => []AckFirst
  <1>1. AckInv => AckFirst
    BY DEF AckInv
  <1>2. Spec => []AckInv
    BY InitAckInv, NextAckInv, TypesHold, PTL DEF Spec
  <1> QED
    BY <1>1, <1>2, PTL
-----------------------------------------------------------------------------
(* What a step can do to the rows.                                         *)
Heads(c, r) == \E s \in Sockets : cola[s] # <<>> /\ Head(cola[s]) = Answer(c, r)

RowsStep ==
    \/ status' = status
    \/ /\ wire' = wire
       /\ \/ \E c \in Cmds : /\ CreateCommand(c) /\ status[c] = "none"
                             /\ status' = [status EXCEPT ![c] = "queued"]
          \/ \E a \in Actors : /\ FlushMark(a) /\ status[First(batch[a])] = "queued"
                               /\ status' = [status EXCEPT ![First(batch[a])] = "sent"]
          \/ \E c \in Cmds, r \in Results : /\ Heads(c, r) /\ status[c] \in Pending
                                            /\ status' = [status EXCEPT ![c] = r]
          \/ \E S \in SUBSET Cmds :
                /\ \A c \in S : status[c] \in Pending
                /\ status' = [c \in Cmds |-> IF c \in S THEN "expired" ELSE status[c]]

LEMMA ExpiredIsASweep ==
    ASSUME TypeInv, status' = Expired
    PROVE  \E S \in SUBSET Cmds :
                /\ \A c \in S : status[c] \in Pending
                /\ status' = [c \in Cmds |-> IF c \in S THEN "expired" ELSE status[c]]
  <1>1. {c \in Cmds : c \in overdue /\ status[c] \in Pending} \in SUBSET Cmds
    OBVIOUS
  <1> QED
    BY <1>1 DEF Expired

LEMMA RowsStepHolds ==
    ASSUME TypeInv, [Next]_vars
    PROVE  RowsStep
  <1>1. ASSUME NEW s \in Sockets, ProcessAnswer(s) PROVE RowsStep
    <2> DEFINE f == Head(cola[s])
    <2>1. f \in Frames /\ f.type = "answer" /\ cola[s] # <<>> /\ wire' = wire
      BY <1>1, FrameTypes DEF ProcessAnswer, TypeInv, TypeOK
    <2>2. PICK c \in Cmds, r \in Results : f = Answer(c, r)
      BY <2>1 DEF Frames, Login
    <2>3. f.cmd = c /\ f.result = r /\ Heads(c, r)
      BY <2>1, <2>2 DEF Answer, Heads
    <2>4. \/ status' = status
          \/ status' = [status EXCEPT ![c] = Resolve(c, r)]
      BY <1>1, <2>3 DEF ProcessAnswer
    <2>5. CASE status[c] \in Pending
      BY <2>1, <2>3, <2>4, <2>5 DEF Resolve, RowsStep
    <2>6. CASE status[c] \notin Pending
      BY <2>4, <2>6 DEF Resolve, RowsStep, TypeInv, TypeOK
    <2> QED
      BY <2>5, <2>6
  <1>2. ASSUME NEW c \in Cmds, CreateCommand(c) PROVE RowsStep
    BY <1>2 DEF CreateCommand, RowsStep, socketVars, TypeInv, Shape
  <1>3. ASSUME NEW a \in Actors, FlushMark(a) PROVE RowsStep
    <2> DEFINE c == First(batch[a])
    <2>1. wire' = wire /\ status' = [status EXCEPT ![c] = Mark(c)]
      BY <1>3 DEF FlushMark, socketVars
    <2>2. CASE status[c] = "queued"
      BY <1>3, <2>1, <2>2 DEF Mark, RowsStep
    <2>3. CASE status[c] # "queued"
      BY <2>1, <2>3 DEF Mark, RowsStep, TypeInv, TypeOK
    <2> QED
      BY <2>2, <2>3
  <1>4. ASSUME NEW a \in Actors, FlushExpire(a) PROVE RowsStep
    BY <1>4, ExpiredIsASweep DEF FlushExpire, RowsStep, socketVars
  <1>5. ASSUME ListCommands PROVE RowsStep
    BY <1>5, ExpiredIsASweep DEF ListCommands, RowsStep, socketVars
  <1>6. ASSUME NEW a \in Actors, Leaves(a) PROVE RowsStep
    BY <1>6 DEF Leaves, RowsStep, rowVars
  <1>7. ASSUME NEW s \in Sockets,
               \/ Connect(s) \/ ReceiveLogin(s) \/ ReceiveAnswer(s) \/ Destroy(s)
               \/ CloseEvent(s) \/ ProcessLogin(s) \/ WriteAck(s) \/ Register(s)
        PROVE  RowsStep
    BY <1>7 DEF RowsStep, rowVars, Connect, ReceiveLogin, ReceiveAnswer, Receive, Destroy,
       CloseEvent, ProcessLogin, WriteAck, Register
  <1>8. ASSUME NEW c \in Cmds, DeadlinePasses(c) \/ FlushIfOnline(c) PROVE RowsStep
    BY <1>8 DEF RowsStep, rowVars, DeadlinePasses, FlushIfOnline
  <1>9. ASSUME NEW a \in Actors, FlushSelect(a) \/ FlushWrite(a) PROVE RowsStep
    BY <1>9 DEF RowsStep, rowVars, FlushSelect, FlushWrite
  <1>10. ASSUME Crash \/ UNCHANGED vars PROVE RowsStep
    BY <1>10 DEF RowsStep, rowVars, Crash, vars
  <1>11. ASSUME Environment PROVE RowsStep
    BY <1>11, <1>2, <1>5, <1>6, <1>7, <1>8, <1>10, FinishingActions DEF Environment
  <1>12. ASSUME Server PROVE RowsStep
    BY <1>12, <1>1, <1>3, <1>4, <1>6, <1>7, <1>8, <1>9, FinishingActions
    DEF Server, Handle, Flush
  <1> QED
    BY <1>10, <1>11, <1>12 DEF Next

(* A command in a terminal state stays in it.                              *)
THEOREM TerminalIsForever == Spec => TerminalForever
  <1>1. ASSUME TypeInv, [Next]_vars
        PROVE  [\A c \in Cmds : status[c] \in Terminal => status'[c] = status[c]]_vars
    <2>1. RowsStep
      BY <1>1, RowsStepHolds
    <2>2. ASSUME NEW c \in Cmds, status[c] \in Terminal PROVE status'[c] = status[c]
      <3>1. status \in [Cmds -> {"none"} \cup Pending \cup Terminal]
        BY <1>1 DEF TypeInv, TypeOK
      <3>2. status[c] \notin {"none", "queued"} \cup Pending
        BY <2>2 DEF Terminal, Pending
      <3>3. CASE \E S \in SUBSET Cmds :
                /\ \A d \in S : status[d] \in Pending
                /\ status' = [d \in Cmds |-> IF d \in S THEN "expired" ELSE status[d]]
        BY <3>2, <3>3
      <3>4. CASE \E d \in Cmds, r \in Results : /\ status[d] \in Pending
                                            /\ status' = [status EXCEPT ![d] = r]
        BY <3>1, <3>2, <3>4
      <3> QED
        BY <2>1, <3>1, <3>2, <3>3, <3>4 DEF RowsStep
    <2> QED
      BY <2>2
  <1> QED
    BY <1>1, TypesHold, PTL DEF Spec, TerminalForever

-----------------------------------------------------------------------------
(* What a step can do to the queues of frames and to the marks under way.  *)

LEMMA TailFrames ==
    ASSUME NEW S, NEW q \in Seq(S), q # <<>>
    PROVE  \A i \in 1 .. Len(Tail(q)) : i + 1 \in 1 .. Len(q) /\ Tail(q)[i] = q[i + 1]
  BY HeadTailProperties, LenProperties

MarkStep(a) ==
    /\ pc'[a] = "mark" => \/ pc[a] = "mark" /\ batch'[a] = batch[a]
                          \/ FlushWrite(a)
    /\ pc[a] = "mark" => \/ pc'[a] = "mark" /\ batch'[a] = batch[a]
                         \/ FlushMark(a)
                         \/ First(batch[a]) \in lostMark'
QueueStep ==
    \/ \A s \in Sockets : \/ cola'[s] = cola[s] \/ cola'[s] = <<>>
                          \/ cola[s] # <<>> /\ cola'[s] = Tail(cola[s])
    \/ \E s \in Sockets : /\ ReceiveLogin(s) \/ ReceiveAnswer(s)
                          /\ wire' = wire

LEMMA MarkAndQueueStep ==
    ASSUME TypeInv, [Next]_vars
    PROVE  /\ \A a \in Actors : MarkStep(a)
           /\ QueueStep
           /\ lostMark \subseteq lostMark'
  <1> DEFINE Goal == /\ \A a \in Actors : MarkStep(a)
                     /\ QueueStep
                     /\ lostMark \subseteq lostMark'
  <1>1. ASSUME NEW s \in Sockets, Connect(s) \/ Destroy(s) \/ CloseEvent(s) PROVE Goal
    BY <1>1 DEF MarkStep, QueueStep, Connect, Destroy, CloseEvent, flushVars
  <1>2. ASSUME NEW s \in Sockets, ReceiveLogin(s) \/ ReceiveAnswer(s) PROVE Goal
    BY <1>2 DEF MarkStep, QueueStep, ReceiveLogin, ReceiveAnswer, Receive, flushVars
  <1>3. ASSUME NEW s \in Sockets, ProcessLogin(s) \/ WriteAck(s) PROVE Goal
    BY <1>3 DEF MarkStep, QueueStep, ProcessLogin, WriteAck, TypeInv, TypeOK
  <1>4. ASSUME NEW s \in Sockets, ProcessAnswer(s) PROVE Goal
    BY <1>4 DEF MarkStep, QueueStep, ProcessAnswer, flushVars, TypeInv, TypeOK
  <1>5. ASSUME NEW a \in Actors, Leaves(a), lostMark \subseteq lostMark',
               pc[a] = "mark" => First(batch[a]) \in lostMark'
        PROVE  Goal
    <2>1. \A b \in Actors : MarkStep(b)
      BY <1>5, LeavesEffect DEF MarkStep
    <2>2. QueueStep
      <3>1. \A s \in Sockets : cola'[s] = IF s = a THEN Tail(cola[s]) ELSE cola[s]
        BY <1>5 DEF Leaves, Finish
      <3> QED
        BY <1>5, <3>1, LeavesEffect DEF QueueStep
    <2> QED
      BY <1>5, <2>1, <2>2
  <1>6. ASSUME NEW s \in Sockets, Register(s) PROVE Goal
    <2>1. CASE sock[s] = "open"
      BY <1>6, <2>1 DEF MarkStep, QueueStep, Register, StartFlush, TypeInv, TypeOK
    <2>2. CASE sock[s] # "open"
      <3>1. s \in Actors /\ Leaves(s) /\ pc[s] # "mark" /\ lostMark' = lostMark
        BY <1>6, <2>2, FinishingActions DEF Register, Actors
      <3> QED
        BY <3>1, <1>5
    <2> QED
      BY <2>1, <2>2
  <1>7. ASSUME NEW c \in Cmds, FlushIfOnline(c) PROVE Goal
    <2>1. CASE IsDeviceOnline(cmdDev[c])
      BY <1>7, <2>1 DEF MarkStep, QueueStep, FlushIfOnline, StartFlush, TypeInv, TypeOK
    <2>2. CASE ~IsDeviceOnline(cmdDev[c])
      <3>1. c \in Actors /\ Leaves(c) /\ pc[c] # "mark" /\ lostMark' = lostMark
        BY <1>7, <2>2, FinishingActions DEF FlushIfOnline, Actors
      <3> QED
        BY <3>1, <1>5
    <2> QED
      BY <2>1, <2>2
  <1>8. ASSUME NEW a \in Actors, FlushEnd(a) \/ FlushWriteFails(a) \/ QueryFails(a) PROVE Goal
    <2>1. /\ lostMark \subseteq lostMark'
          /\ pc[a] = "mark" => First(batch[a]) \in lostMark'
      BY <1>8 DEF FlushEnd, FlushWriteFails, QueryFails
    <2> QED
      BY <1>8, <2>1, <1>5, FinishingActions
  <1>9. ASSUME NEW c \in Cmds, CreateCommand(c) \/ DeadlinePasses(c) PROVE Goal
    BY <1>9 DEF MarkStep, QueueStep, CreateCommand, DeadlinePasses, socketVars, flushVars,
       TypeInv, TypeOK
  <1>10. ASSUME NEW a \in Actors, FlushExpire(a) \/ FlushSelect(a) \/ FlushWrite(a)
         PROVE Goal
    BY <1>10 DEF MarkStep, QueueStep, FlushExpire, FlushSelect, FlushWrite, socketVars, TypeInv,
       TypeOK
  <1>11. ASSUME NEW a \in Actors, FlushMark(a) PROVE Goal
    BY <1>11 DEF MarkStep, QueueStep, FlushMark, socketVars, TypeInv, TypeOK
  <1>12. ASSUME ListCommands \/ UNCHANGED vars PROVE Goal
    BY <1>12 DEF MarkStep, QueueStep, ListCommands, vars, socketVars, flushVars
  <1>13. ASSUME Crash PROVE Goal
    BY <1>13 DEF MarkStep, QueueStep, Crash
  <1> HIDE DEF Goal
  <1>14. ASSUME Environment PROVE Goal
    BY <1>14, <1>1, <1>2, <1>8, <1>9, <1>12, <1>13 DEF Environment
  <1>15. ASSUME Server PROVE Goal
    BY <1>15, <1>1, <1>3, <1>4, <1>6, <1>7, <1>8, <1>10, <1>11 DEF Server, Handle, Flush
  <1>16. Goal
    BY <1>12, <1>14, <1>15 DEF Next
  <1> QED
    BY <1>16 DEF Goal

(* The frames in the queues are those that were there and those received.  *)
LEMMA QueueContents ==
    ASSUME TypeInv, [Next]_vars
    PROVE  \A s \in Sockets : \A i \in 1 .. Len(cola'[s]) :
              \/ \E j \in 1 .. Len(cola[s]) : cola'[s][i] = cola[s][j]
              \/ \E d \in Devices : <<s, d>> \in Logins /\ cola'[s][i] = Login(d)
              \/ \E c \in Transmitted, r \in Results : cola'[s][i] = Answer(c, r)
  <1> SUFFICES ASSUME NEW s \in Sockets, NEW i \in 1 .. Len(cola'[s])
      PROVE   \/ \E j \in 1 .. Len(cola[s]) : cola'[s][i] = cola[s][j]
              \/ \E d \in Devices : <<s, d>> \in Logins /\ cola'[s][i] = Login(d)
              \/ \E c \in Transmitted, r \in Results : cola'[s][i] = Answer(c, r)
    OBVIOUS
  <1>1. CASE cola'[s] = cola[s] \/ cola'[s] = <<>>
    BY <1>1
  <1>2. CASE cola[s] # <<>> /\ cola'[s] = Tail(cola[s])
    <2>1. cola[s] \in Seq(Frames)
      BY DEF TypeInv, TypeOK
    <2> QED
      BY <1>2, <2>1, TailFrames
  <1>3. ASSUME NEW r \in Sockets, NEW f \in Frames, Receive(r, f),
               \/ \E d \in Devices : <<r, d>> \in Logins /\ f = Login(d)
               \/ \E c \in Transmitted, x \in Results : f = Answer(c, x)
        PROVE   \/ \E j \in 1 .. Len(cola[s]) : cola'[s][i] = cola[s][j]
                \/ \E d \in Devices : <<s, d>> \in Logins /\ cola'[s][i] = Login(d)
                \/ \E c \in Transmitted, x \in Results : cola'[s][i] = Answer(c, x)
    <2>1. CASE r # s
      BY <1>3, <2>1 DEF Receive, TypeInv, TypeOK
    <2>2. CASE r = s
      <3> DEFINE q == cola[s]
      <3>1. q \in Seq(Frames) /\ cola'[s] = Append(q, f)
        BY <1>3, <2>2 DEF Receive, TypeInv, TypeOK
      <3> HIDE DEF q
      <3>2. /\ Len(q) \in Nat /\ Len(Append(q, f)) = Len(q) + 1
            /\ \A j \in 1 .. Len(q) : Append(q, f)[j] = q[j]
            /\ Append(q, f)[Len(q) + 1] = f
        BY <3>1, AppendTypes
      <3>3. \/ i \in 1 .. Len(q) /\ cola'[s][i] = q[i]
            \/ cola'[s][i] = f
        BY <3>1, <3>2
      <3> QED
        BY <1>3, <2>2, <3>3 DEF q
    <2> QED
      BY <2>1, <2>2
  <1>4. ASSUME NEW r \in Sockets, ReceiveLogin(r) \/ ReceiveAnswer(r)
        PROVE  \E f \in Frames : /\ Receive(r, f)
                                 /\ \/ \E d \in Devices : <<r, d>> \in Logins /\ f = Login(d)
                                    \/ \E c \in Transmitted, x \in Results : f = Answer(c, x)
    BY <1>4, ReceiveTypes DEF ReceiveLogin, ReceiveAnswer
  <1> QED
    BY <1>1, <1>2, <1>3, <1>4, MarkAndQueueStep DEF QueueStep

-----------------------------------------------------------------------------
(* The ledger: what the rows say against what was written.                 *)

(* An answer in a queue answers a command that was transmitted.            *)
AnswersTransmitted ==
    \A s \in Sockets : \A i \in 1 .. Len(cola[s]) :
        cola[s][i].type = "answer" => cola[s][i].cmd \in Transmitted

LedgerInv == /\ SentWasTransmitted
             /\ MarkInFlight
             /\ AnswersTransmitted
             /\ \A c \in Transmitted : status[c] # "none"
             /\ \A a \in Actors : pc[a] = "mark" => First(batch[a]) \in Transmitted

LEMMA HeadsTransmitted ==
    ASSUME TypeInv, LedgerInv, NEW c \in Cmds, NEW r \in Results, Heads(c, r)
    PROVE  c \in Transmitted
  <1>1. PICK s \in Sockets : cola[s] # <<>> /\ Head(cola[s]) = Answer(c, r)
    BY DEF Heads
  <1>2. 1 \in 1 .. Len(cola[s]) /\ cola[s][1] = Answer(c, r)
    BY <1>1, HeadTailProperties, LenProperties DEF TypeInv, TypeOK
  <1> QED
    BY <1>2 DEF LedgerInv, AnswersTransmitted, Answer

(* How the status of one row may change.                                   *)
StatusStep(c) ==
    \/ status'[c] = status[c]
    \/ status[c] = "none" /\ status'[c] = "queued" /\ CreateCommand(c)
    \/ c \in Transmitted /\ status[c] # "none" /\ status'[c] \in {"sent"} \cup Results
    \/ status[c] \in Pending /\ status'[c] = "expired"

LEMMA StatusStepHolds ==
    ASSUME TypeInv, LedgerInv, [Next]_vars, NEW c \in Cmds
    PROVE  StatusStep(c)
  <1>1. \A a \in Actors : FlushMark(a) => First(batch[a]) \in Transmitted
    BY DEF FlushMark, LedgerInv
  <1>2. status \in [Cmds -> {"none"} \cup Pending \cup Terminal]
    BY DEF TypeInv, TypeOK
  <1>3. CASE \E S \in SUBSET Cmds :
              /\ \A d \in S : status[d] \in Pending
              /\ status' = [d \in Cmds |-> IF d \in S THEN "expired" ELSE status[d]]
    BY <1>3 DEF StatusStep
  <1>4. CASE \E d \in Cmds, r \in Results : /\ Heads(d, r) /\ status[d] \in Pending
                                          /\ status' = [status EXCEPT ![d] = r]
    BY <1>2, <1>4, HeadsTransmitted DEF StatusStep, Pending
  <1>5. CASE \E a \in Actors : /\ FlushMark(a) /\ status[First(batch[a])] = "queued"
                             /\ status' = [status EXCEPT ![First(batch[a])] = "sent"]
    BY <1>1, <1>2, <1>5 DEF StatusStep
  <1>6. CASE \E d \in Cmds : /\ CreateCommand(d) /\ status[d] = "none"
                           /\ status' = [status EXCEPT ![d] = "queued"]
    BY <1>2, <1>6 DEF StatusStep
  <1> QED
    BY <1>3, <1>4, <1>5, <1>6, RowsStepHolds DEF RowsStep, StatusStep

LEMMA InitLedgerInv == Init => LedgerInv
  <1> SUFFICES ASSUME Init PROVE LedgerInv
    OBVIOUS
  <1>1. Transmitted = {}
    BY DEF Init, Transmitted, Written
  <1> QED
    BY <1>1 DEF Init, LedgerInv, SentWasTransmitted, MarkInFlight, AnswersTransmitted, Results

LEMMA NextLedgerInv == TypeInv /\ LedgerInv /\ [Next]_vars => LedgerInv'
  <1> SUFFICES ASSUME TypeInv, LedgerInv, [Next]_vars PROVE LedgerInv'
    OBVIOUS
  <1>1. Transmitted \subseteq Transmitted'
    BY TransmittedGrows
  <1>2. RowsStep /\ lostMark \subseteq lostMark'
    BY RowsStepHolds, MarkAndQueueStep
  <1>3. \A a \in Actors : MarkStep(a)
    BY MarkAndQueueStep
  <1>4. \A a \in Actors : FlushWrite(a) =>
            /\ First(batch[a]) \in Transmitted' /\ pc'[a] = "mark" /\ batch'[a] = batch[a]
            /\ status' = status /\ status[First(batch[a])] # "none"
    BY FlushWriteEffect, FlushWriteTransmits DEF rowVars, TypeInv, TypeOK, Shape
  <1>5. AnswersTransmitted'
    <2> SUFFICES ASSUME NEW s \in Sockets, NEW i \in 1 .. Len(cola'[s]),
                        cola'[s][i].type = "answer"
                 PROVE  cola'[s][i].cmd \in Transmitted
      BY <1>1 DEF AnswersTransmitted
    <2>1. CASE \E j \in 1 .. Len(cola[s]) : cola'[s][i] = cola[s][j]
      BY <2>1 DEF LedgerInv, AnswersTransmitted
    <2>2. CASE \E d \in Devices : cola'[s][i] = Login(d)
      BY <2>2 DEF Login
    <2>3. CASE \E c \in Transmitted, r \in Results : cola'[s][i] = Answer(c, r)
      BY <2>3 DEF Answer
    <2> QED
      BY <2>1, <2>2, <2>3, QueueContents
  <1>6. \A a \in Actors : pc'[a] = "mark" => First(batch'[a]) \in Transmitted'
    BY <1>1, <1>3, <1>4 DEF MarkStep, LedgerInv
  <1>8. \A c \in Cmds : StatusStep(c)
    BY StatusStepHolds
  <1>9. \A c \in Transmitted' : status'[c] # "none"
    <2> SUFFICES ASSUME NEW c \in Transmitted' PROVE status'[c] # "none"
      OBVIOUS
    <2>1. c \in Cmds
      BY DEF Transmitted
    <2>2. CASE c \in Transmitted
      BY <2>1, <2>2, <1>8 DEF StatusStep, LedgerInv, Results
    <2>3. CASE c \notin Transmitted
      BY <2>3, <1>4, TransmittedGrows
    <2> QED
      BY <2>2, <2>3
  <1>10. SentWasTransmitted'
    BY <1>1, <1>8 DEF StatusStep, LedgerInv, SentWasTransmitted, Results
  <1>11. MarkInFlight'
    <2> SUFFICES ASSUME NEW c \in Transmitted', status'[c] = "queued", c \notin lostMark'
                 PROVE  \E a \in Actors : pc'[a] = "mark" /\ First(batch'[a]) = c
      BY DEF MarkInFlight
    <2>1. c \in Cmds
      BY DEF Transmitted
    <2>2. CASE c \notin Transmitted
      BY <2>2, <1>4, TransmittedGrows
    <2>3. CASE c \in Transmitted
      <3>1. status[c] = "queued"
        BY <2>1, <2>3, <1>8 DEF StatusStep, LedgerInv, Results
      <3>2. PICK a \in Actors : pc[a] = "mark" /\ First(batch[a]) = c
        BY <2>3, <3>1, <1>2 DEF LedgerInv, MarkInFlight
      <3>3. ~ FlushMark(a)
        <4> SUFFICES ASSUME FlushMark(a) PROVE FALSE
          OBVIOUS
        <4>1. status' = [status EXCEPT ![c] = "sent"]
          BY <3>1, <3>2 DEF FlushMark, Mark
        <4> QED
          BY <2>1, <4>1 DEF TypeInv, TypeOK
      <3> QED
        BY <3>2, <3>3, <1>3 DEF MarkStep
    <2> QED
      BY <2>2, <2>3
  <1> QED
    BY <1>5, <1>6, <1>9, <1>10, <1>11 DEF LedgerInv

LEMMA LedgerHolds == Spec => []LedgerInv
  BY InitLedgerInv, NextLedgerInv, TypesHold, PTL DEF Spec

(* No row is sent or answered before its command was written.              *)
THEOREM SentImpliesTransmitted == Spec => []SentWasTransmitted
  <1>1. LedgerInv => SentWasTransmitted
    BY DEF LedgerInv
  <1> QED
    BY <1>1, LedgerHolds, PTL

(* A written command that is still queued has its mark under way or lost.  *)
THEOREM WrittenIsMarked == Spec => []MarkInFlight
  <1>1. LedgerInv => MarkInFlight
    BY DEF LedgerInv
  <1> QED
    BY <1>1, LedgerHolds, PTL

-----------------------------------------------------------------------------
(* The rows implement the lifecycle the documents promise.                 *)
LEMMA InitLifecycle == Init => Lifecycle!Init
  BY DEF Init, Lifecycle!Init, Transmitted, Written

LEMMA NextLifecycle ==
    ASSUME TypeInv, LedgerInv, [Next]_vars
    PROVE  [Lifecycle!Next]_(Lifecycle!vars)
  <1>1. CASE \E a \in Actors : FlushWrite(a)
    <2>1. PICK a \in Actors : FlushWrite(a)
      BY <1>1
    <2> DEFINE c == First(batch[a])
    <2>2. c \in Cmds /\ c \in batch[a] /\ status' = status
      BY <2>1, FlushWriteEffect DEF rowVars
    <2>3. Transmitted' = Transmitted \cup {c} /\ status[c] # "none"
      BY <2>1, <2>2, FlushWriteTransmits DEF TypeInv, Shape
    <2> QED
      BY <2>2, <2>3 DEF Lifecycle!Next, Lifecycle!Transmit
  <1>2. CASE ~ \E a \in Actors : FlushWrite(a)
    <2>1. Transmitted' = Transmitted
      BY <1>2, TransmittedGrows
    <2>2. RowsStep /\ \A c \in Cmds, r \in Results : Heads(c, r) => c \in Transmitted
      BY HeadsTransmitted, RowsStepHolds
    <2>3. CASE status' = status
      BY <2>1, <2>3 DEF Lifecycle!vars
    <2>4. CASE \E S \in SUBSET Cmds :
                /\ \A d \in S : status[d] \in Pending
                /\ status' = [d \in Cmds |-> IF d \in S THEN "expired" ELSE status[d]]
      <3>1. \E S \in SUBSET Cmds : Lifecycle!Expire(S)
        BY <2>1, <2>4 DEF Lifecycle!Expire, Lifecycle!Pending, Pending
      <3> QED
        BY <3>1 DEF Lifecycle!Next
    <2>5. CASE \E d \in Cmds, r \in Results : /\ Heads(d, r) /\ status[d] \in Pending
                                            /\ status' = [status EXCEPT ![d] = r]
      <3>1. \E d \in Cmds : Lifecycle!Answer(d)
        BY <2>1, <2>2, <2>5 DEF Lifecycle!Answer, Lifecycle!Pending, Pending, Results
      <3> QED
        BY <3>1 DEF Lifecycle!Next
    <2>6. CASE \E a \in Actors : /\ FlushMark(a) /\ status[First(batch[a])] = "queued"
                               /\ status' = [status EXCEPT ![First(batch[a])] = "sent"]
      <3>1. \E d \in Cmds : Lifecycle!MarkSent(d)
        <4>1. PICK a \in Actors : /\ FlushMark(a) /\ status[First(batch[a])] = "queued"
                                  /\ status' = [status EXCEPT ![First(batch[a])] = "sent"]
          BY <2>6
        <4>2. First(batch[a]) \in Transmitted /\ First(batch[a]) \in Cmds
          BY <4>1 DEF FlushMark, LedgerInv, Transmitted
        <4> QED
          BY <2>1, <4>1, <4>2 DEF Lifecycle!MarkSent
      <3> QED
        BY <3>1 DEF Lifecycle!Next
    <2>7. CASE \E d \in Cmds : /\ status[d] = "none"
                             /\ status' = [status EXCEPT ![d] = "queued"]
      BY <2>1, <2>7 DEF Lifecycle!Create, Lifecycle!Next
    <2> QED
      BY <2>2, <2>3, <2>4, <2>5, <2>6, <2>7 DEF RowsStep
  <1> QED
    BY <1>1, <1>2

(* Every behaviour of the channel is, on the rows and the wires, one of    *)
(* the abstract lifecycle.                                                 *)
THEOREM ChannelImplementsLifecycle == Spec => ImplementsLifecycle
  BY InitLifecycle, NextLifecycle, TypesHold, LedgerHolds, PTL
  DEF Spec, ImplementsLifecycle, Lifecycle!Spec

-----------------------------------------------------------------------------
(* The registry: a registered socket has been opened.                      *)
RegisteredInv == \A d \in Devices : connections[d] # NoSocket => sock[connections[d]] # "new"

LEMMA NextRegisteredInv == TypeInv /\ RegisteredInv /\ [Next]_vars => RegisteredInv'
  <1> SUFFICES ASSUME TypeInv, RegisteredInv, [Next]_vars,
                      NEW d \in Devices, connections'[d] # NoSocket
               PROVE  sock'[connections'[d]] # "new"
    BY DEF RegisteredInv
  <1>1. connections'[d] \in Sockets
    BY NextTypeInv DEF TypeInv, TypeOK
  <1>2. sock[connections'[d]] # "new"
    BY ControlStep DEF RegistryStep, RegisteredInv
  <1> QED
    BY <1>1, <1>2, ControlStep DEF SocketStep

(* A device leaves the registry only when its registered socket closes.    *)
THEOREM EntryDropsOnlyWithItsSocket == Spec => EntryDropsWithItsSocket
  <1>1. Init => RegisteredInv
    BY DEF Init, RegisteredInv
  <1>2. ASSUME RegisteredInv, TypeInv, [Next]_vars
        PROVE  [\A d \in Devices :
                  connections[d] # NoSocket /\ connections'[d] = NoSocket
                  => sock'[connections[d]] = "closed"]_vars
    BY <1>2, ControlStep DEF RegistryStep, RegisteredInv
  <1> QED
    BY <1>1, <1>2, NextRegisteredInv, TypesHold, PTL DEF Spec, EntryDropsWithItsSocket

-----------------------------------------------------------------------------
(* Addressing: the socket a flush captured is one its device logged in on. *)
FlushStep(a) ==
    /\ pc'[a] \in Flushing =>
          \/ pc[a] \in Flushing /\ target'[a] = target[a] /\ DeviceOf(a)' = DeviceOf(a)
          \/ /\ a \in Sockets /\ Register(a) /\ target'[a] = a
             /\ DeviceOf(a)' = Head(cola[a]).imei
          \/ /\ a \in Cmds /\ FlushIfOnline(a) /\ IsDeviceOnline(cmdDev[a])
             /\ target'[a] = connections[cmdDev[a]] /\ DeviceOf(a)' = cmdDev[a]
    /\ \/ batch'[a] \in {batch[a], {}} \/ FlushSelect(a)
       \/ FlushMark(a) /\ batch'[a] = batch[a] \ {First(batch[a])}

LEMMA HeadStays ==
    ASSUME NEW q \in Seq(Frames), NEW f \in Frames, q # <<>>
    PROVE  Head(Append(q, f)) = Head(q)
  BY AppendTypes, HeadTailProperties, EmptySeq, LenProperties, AppendProperties

LEMMA FlushStepHolds ==
    ASSUME TypeInv, [Next]_vars
    PROVE  /\ \A a \in Actors : FlushStep(a)
           /\ \A c \in Cmds : status[c] # "none" => cmdDev'[c] = cmdDev[c]
           /\ overdue \subseteq overdue'
  <1> DEFINE Goal == /\ \A a \in Actors : FlushStep(a)
                     /\ \A c \in Cmds : status[c] # "none" => cmdDev'[c] = cmdDev[c]
                     /\ overdue \subseteq overdue'
  <1>0. \A s \in Sockets : pc[s] \in Flushing => cola[s] # <<>>
    BY DEF TypeInv, Shape, Flushing
  <1>1. ASSUME NEW s \in Sockets, Connect(s) \/ Destroy(s) \/ CloseEvent(s) PROVE Goal
    BY <1>1 DEF FlushStep, DeviceOf, Connect, Destroy, CloseEvent, flushVars, rowVars
  <1>2. ASSUME NEW s \in Sockets, NEW f \in Frames, Receive(s, f) PROVE Goal
    <2>1. \A r \in Sockets : pc[r] \in Flushing => Head(cola'[r]) = Head(cola[r])
      <3> SUFFICES ASSUME NEW r \in Sockets, pc[r] \in Flushing
                   PROVE  Head(cola'[r]) = Head(cola[r])
        OBVIOUS
      <3>1. CASE r = s
        <4>1. cola[s] \in Seq(Frames) /\ cola[s] # <<>> /\ cola'[s] = Append(cola[s], f)
          BY <1>0, <1>2, <3>1 DEF Receive, TypeInv, TypeOK
        <4> QED
          BY <3>1, <4>1, HeadStays
      <3>2. CASE r # s
        BY <1>2, <3>2 DEF Receive, TypeInv, TypeOK
      <3> QED
        BY <3>1, <3>2
    <2> QED
      BY <1>2, <2>1 DEF FlushStep, DeviceOf, Receive, flushVars, rowVars
  <1>3. ASSUME NEW s \in Sockets, ProcessLogin(s) \/ WriteAck(s) PROVE Goal
    BY <1>3 DEF FlushStep, DeviceOf, ProcessLogin, WriteAck, rowVars, TypeInv, TypeOK, Flushing
  <1>4. ASSUME NEW s \in Sockets, ProcessAnswer(s) PROVE Goal
    BY <1>4 DEF FlushStep, DeviceOf, ProcessAnswer, flushVars, TypeInv, TypeOK, Flushing
  <1>5. ASSUME NEW a \in Actors, Leaves(a) PROVE Goal
    BY <1>5, LeavesEffect DEF FlushStep, DeviceOf, Flushing
  <1>6. ASSUME NEW s \in Sockets, Register(s), sock[s] = "open" PROVE Goal
    <2>1. /\ pc' = [pc EXCEPT ![s] = "expire"] /\ target' = [target EXCEPT ![s] = s]
          /\ UNCHANGED <<batch, cola, cmdDev, status, overdue>> /\ s \in Actors
      BY <1>6 DEF Register, StartFlush, rowVars, Actors
    <2> QED
      BY <1>6, <2>1 DEF FlushStep, DeviceOf, TypeInv, TypeOK
  <1>7. ASSUME NEW c \in Cmds, FlushIfOnline(c), IsDeviceOnline(cmdDev[c]) PROVE Goal
    <2>1. /\ pc' = [pc EXCEPT ![c] = "expire"] /\ c \notin Sockets /\ c \in Actors
          /\ target' = [target EXCEPT ![c] = connections[cmdDev[c]]]
          /\ UNCHANGED <<batch, cola, cmdDev, status, overdue>>
      BY <1>7, ActorsAssumption DEF FlushIfOnline, StartFlush, rowVars, Actors
    <2> QED
      BY <1>7, <2>1 DEF FlushStep, DeviceOf, TypeInv, TypeOK
  <1>8. ASSUME NEW c \in Cmds, CreateCommand(c) \/ DeadlinePasses(c) PROVE Goal
    <2>1. \A b \in Cmds : status[b] # "none" => cmdDev'[b] = cmdDev[b]
      BY <1>8 DEF CreateCommand, DeadlinePasses, TypeInv, TypeOK, Shape
    <2>2. \A b \in Cmds : pc[b] \in Flushing => status[b] # "none"
      BY DEF TypeInv, Shape, Flushing
    <2>3. \A b \in Actors : /\ pc'[b] \in Flushing => pc[b] \in Flushing
                            /\ target'[b] = target[b] /\ batch'[b] = batch[b]
      BY <1>8 DEF CreateCommand, DeadlinePasses, flushVars, TypeInv, TypeOK, Flushing
    <2>4. cola' = cola /\ overdue \subseteq overdue'
      BY <1>8 DEF CreateCommand, DeadlinePasses, socketVars
    <2> QED
      BY <2>1, <2>2, <2>3, <2>4 DEF FlushStep, DeviceOf, Actors
  <1>9. ASSUME NEW a \in Actors, FlushExpire(a) \/ FlushSelect(a) \/ FlushWrite(a) PROVE Goal
    BY <1>9 DEF FlushStep, DeviceOf, FlushExpire, FlushSelect, FlushWrite, socketVars, rowVars,
       TypeInv, TypeOK, Flushing
  <1>10. ASSUME NEW a \in Actors, FlushMark(a) PROVE Goal
    BY <1>10 DEF FlushStep, DeviceOf, FlushMark, socketVars, TypeInv, TypeOK, Flushing
  <1>11. ASSUME ListCommands \/ UNCHANGED vars PROVE Goal
    BY <1>11 DEF FlushStep, DeviceOf, ListCommands, vars, socketVars, flushVars
  <1>12. ASSUME Crash PROVE Goal
    BY <1>12 DEF FlushStep, Crash, Flushing, rowVars
  <1> HIDE DEF Goal
  <1>13. ASSUME Environment PROVE Goal
    BY <1>13, <1>1, <1>2, <1>5, <1>8, <1>11, <1>12, FinishingActions, ReceiveTypes
    DEF Environment, ReceiveLogin, ReceiveAnswer
  <1>14. ASSUME Server PROVE Goal
    BY <1>14, <1>1, <1>3, <1>4, <1>5, <1>6, <1>7, <1>9, <1>10, FinishingActions
    DEF Server, Handle, Flush, Actors
  <1>15. Goal
    BY <1>11, <1>13, <1>14 DEF Next
  <1> QED
    BY <1>15 DEF Goal

AddressInv ==
    /\ WrittenToItsDevice
    /\ \A s \in Sockets : \A i \in 1 .. Len(cola[s]) :
          cola[s][i].type = "login" => <<s, cola[s][i].imei>> \in Logins
    /\ \A d \in Devices : connections[d] # NoSocket => <<connections[d], d>> \in Logins
    /\ \A a \in Actors : pc[a] \in Flushing => <<target[a], DeviceOf(a)>> \in Logins
    /\ \A a \in Actors : \A c \in batch[a] : cmdDev[c] = DeviceOf(a)

LEMMA InitAddressInv == Init => AddressInv
  BY DEF Init, AddressInv, WrittenToItsDevice, Written, Flushing

LEMMA NextAddressInv == TypeInv /\ LedgerInv /\ AddressInv /\ [Next]_vars => AddressInv'
  <1> SUFFICES ASSUME TypeInv, LedgerInv, AddressInv, [Next]_vars PROVE AddressInv'
    OBVIOUS
  <1>0. TypeInv' /\ \A c \in Cmds : status[c] # "none" => cmdDev'[c] = cmdDev[c]
    BY NextTypeInv, FlushStepHolds
  <1>1. \A s \in Sockets : Register(s) => <<s, Head(cola[s]).imei>> \in Logins
    <2> SUFFICES ASSUME NEW s \in Sockets, Register(s)
                 PROVE  <<s, Head(cola[s]).imei>> \in Logins
      OBVIOUS
    <2>1. cola[s] \in Seq(Frames) /\ cola[s] # <<>> /\ cola[s][1].type = "login"
      BY DEF Register, TypeInv, TypeOK, Shape
    <2>2. 1 \in 1 .. Len(cola[s]) /\ Head(cola[s]) = cola[s][1]
      BY <2>1, HeadTailProperties, LenProperties
    <2> QED
      BY <2>1, <2>2 DEF AddressInv
  <1>2. WrittenToItsDevice'
    <2> SUFFICES ASSUME NEW s \in Sockets, NEW c \in Cmds, Written(s, c)'
                 PROVE  <<s, cmdDev'[c]>> \in Logins
      BY DEF WrittenToItsDevice
    <2>1. CASE Written(s, c)
      <3>1. status[c] # "none"
        BY <2>1 DEF LedgerInv, Transmitted
      <3> QED
        BY <2>1, <3>1, <1>0 DEF AddressInv, WrittenToItsDevice
    <2>2. ASSUME NEW a \in Actors, FlushWrite(a), s = target[a], c = First(batch[a])
          PROVE  <<s, cmdDev'[c]>> \in Logins
      <3>1. c \in batch[a] /\ pc[a] \in Flushing /\ cmdDev' = cmdDev
        BY <2>2, FlushWriteEffect DEF Flushing, rowVars
      <3> QED
        BY <2>2, <3>1 DEF AddressInv
    <2> QED
      BY <2>1, <2>2, WiresGrow
  <1>3. \A s \in Sockets : \A i \in 1 .. Len(cola'[s]) :
          cola'[s][i].type = "login" => <<s, cola'[s][i].imei>> \in Logins
    <2> SUFFICES ASSUME NEW s \in Sockets, NEW i \in 1 .. Len(cola'[s]),
                        cola'[s][i].type = "login"
                 PROVE  <<s, cola'[s][i].imei>> \in Logins
      OBVIOUS
    <2>1. CASE \E j \in 1 .. Len(cola[s]) : cola'[s][i] = cola[s][j]
      BY <2>1 DEF AddressInv
    <2>2. CASE \E d \in Devices : <<s, d>> \in Logins /\ cola'[s][i] = Login(d)
      BY <2>2 DEF Login
    <2>3. CASE \E c \in Transmitted, r \in Results : cola'[s][i] = Answer(c, r)
      BY <2>3 DEF Answer
    <2> QED
      BY <2>1, <2>2, <2>3, QueueContents
  <1>4. \A d \in Devices : connections'[d] # NoSocket => <<connections'[d], d>> \in Logins
    BY <1>1, ControlStep DEF RegistryStep, AddressInv
  <1>5. \A a \in Actors : pc'[a] \in Flushing => <<target'[a], DeviceOf(a)'>> \in Logins
    <2> SUFFICES ASSUME NEW a \in Actors, pc'[a] \in Flushing
                 PROVE  <<target'[a], DeviceOf(a)'>> \in Logins
      OBVIOUS
    <2>1. CASE pc[a] \in Flushing /\ target'[a] = target[a] /\ DeviceOf(a)' = DeviceOf(a)
      BY <2>1 DEF AddressInv
    <2>2. CASE /\ a \in Sockets /\ Register(a) /\ target'[a] = a
               /\ DeviceOf(a)' = Head(cola[a]).imei
      BY <2>2, <1>1
    <2>3. CASE /\ a \in Cmds /\ FlushIfOnline(a) /\ IsDeviceOnline(cmdDev[a])
               /\ target'[a] = connections[cmdDev[a]] /\ DeviceOf(a)' = cmdDev[a]
      <3>1. cmdDev[a] \in Devices /\ connections[cmdDev[a]] # NoSocket
        BY <2>3 DEF FlushIfOnline, IsDeviceOnline, TypeInv, Shape
      <3> QED
        BY <2>3, <3>1 DEF AddressInv
    <2> QED
      BY <2>1, <2>2, <2>3, FlushStepHolds DEF FlushStep
  <1>6. \A a \in Actors : \A c \in batch'[a] : cmdDev'[c] = DeviceOf(a)'
    <2> SUFFICES ASSUME NEW a \in Actors, NEW c \in batch'[a]
                 PROVE  cmdDev'[c] = DeviceOf(a)'
      OBVIOUS
    <2>1. pc'[a] \in Flushing /\ c \in Cmds
      BY <1>0 DEF TypeInv, TypeOK, Shape
    <2>2. CASE FlushSelect(a)
      <3>1. batch'[a] = Oldest(Queued(DeviceOf(a))) /\ cmdDev' = cmdDev /\ pc[a] \in Flushing
        BY <2>2 DEF FlushSelect, rowVars, TypeInv, TypeOK, Flushing
      <3>2. DeviceOf(a)' = DeviceOf(a)
        BY <2>2 DEF FlushSelect, DeviceOf, socketVars, rowVars
      <3> QED
        BY <3>1, <3>2 DEF Oldest, Queued
    <2>3. CASE batch'[a] \subseteq batch[a]
      <3>1. c \in batch[a] /\ status[c] # "none" /\ pc[a] \in Flushing
        BY <2>3 DEF TypeInv, Shape
      <3>2. DeviceOf(a)' = DeviceOf(a)
        BY <2>1, <3>1, FlushStepHolds DEF FlushStep, Register, FlushIfOnline, Flushing
      <3> QED
        BY <2>1, <3>1, <3>2, <1>0 DEF AddressInv
    <2> QED
      BY <2>2, <2>3, FlushStepHolds DEF FlushStep
  <1> QED
    BY <1>2, <1>3, <1>4, <1>5, <1>6 DEF AddressInv

(* A command is only ever written to a connection of its own device.       *)
THEOREM CommandsReachTheirDevice == Spec => []WrittenToItsDevice
  <1>1. AddressInv => WrittenToItsDevice
    BY DEF AddressInv
  <1>2. Spec => []AddressInv
    BY InitAddressInv, NextAddressInv, TypesHold, LedgerHolds, PTL DEF Spec
  <1> QED
    BY <1>1, <1>2, PTL

-----------------------------------------------------------------------------
(* Order: rows are created in the order of their ids, and what a flush has *)
(* read holds every older row of the queue that has not been written.      *)
OrderInv ==
    /\ NotOvertaken
    /\ \A b, c \in Cmds : b < c /\ status[c] # "none" => status[b] # "none"
    /\ \A a \in Actors : \A b \in Cmds : \A c \in batch[a] :
          /\ b < c /\ cmdDev[b] = cmdDev[c] /\ status[b] = "queued" /\ b \notin overdue
          => b \in batch[a] \/ b \in Transmitted

(* The oldest rows of a queue are closed under "older".                    *)
LEMMA OldestIsPrefix ==
    ASSUME NEW S \in SUBSET Cmds, NEW c \in Oldest(S), NEW b \in S, b < c
    PROVE  b \in Oldest(S)
  <1> DEFINE B == {x \in S : x < b}
             C == {x \in S : x < c}
  <1>1. S \subseteq Nat /\ c \in S
    BY CmdsAssumption DEF Oldest
  <1>2. b \in Nat /\ c \in Nat
    BY <1>1
  <1>3. ASSUME NEW x \in C PROVE x \in 0 .. c
    <2>1. x \in Nat /\ x < c
      BY <1>1
    <2> QED
      BY <1>2, <2>1
  <1>4. IsFiniteSet(C)
    <2>1. C \subseteq 0 .. c
      BY <1>3
    <2>2. IsFiniteSet(0 .. c)
      <3>1. 0 \in Int /\ c \in Int
        BY <1>2
      <3> QED
        BY <3>1, FS_Interval
    <2> HIDE DEF C
    <2> QED
      BY <2>1, <2>2, FS_Subset
  <1>5. ASSUME NEW x \in B PROVE x \in C
    <2>1. x \in S /\ x \in Nat /\ x < b
      BY <1>1
    <2>2. x < c
      BY <1>2, <2>1
    <2> QED
      BY <2>1, <2>2
  <1>6. /\ IsFiniteSet(B) /\ Cardinality(B) <= Cardinality(C)
        /\ Cardinality(B) \in Nat /\ Cardinality(C) \in Nat
    BY <1>4, <1>5, FS_Subset, FS_CardinalityType
  <1>7. Cardinality(C) < BatchLimit
    BY DEF Oldest
  <1>8. Cardinality(B) < BatchLimit
    BY <1>6, <1>7, BoundsAssumption
  <1> QED
    BY <1>8 DEF Oldest

LEMMA NextOrderInv == TypeInv /\ LedgerInv /\ OrderInv /\ [Next]_vars => OrderInv'
  <1> SUFFICES ASSUME TypeInv, LedgerInv, OrderInv, [Next]_vars PROVE OrderInv'
    OBVIOUS
  <1>0. TypeInv' /\ Transmitted \subseteq Transmitted' /\ overdue \subseteq overdue'
    BY NextTypeInv, TransmittedGrows, FlushStepHolds
  <1>1. \A b, c \in Cmds : b < c /\ status'[c] # "none" => status'[b] # "none"
    <2> SUFFICES ASSUME NEW b \in Cmds, NEW c \in Cmds, b < c, status'[c] # "none"
                 PROVE  status'[b] # "none"
      OBVIOUS
    <2>1. status[b] # "none"
      <3>1. CASE status[c] # "none"
        BY <3>1 DEF OrderInv
      <3>2. CASE status[c] = "none"
        BY <3>2, StatusStepHolds DEF StatusStep, CreateCommand, Pending
      <3> QED
        BY <3>1, <3>2
    <2> QED
      BY <2>1, StatusStepHolds DEF StatusStep, Results
  (* What is queued after the step, with a younger row already there, was    *)
  (* queued before it and belongs to the same device.                        *)
  <1>2. ASSUME NEW b \in Cmds, NEW c \in Cmds, b < c, status[c] # "none",
               cmdDev'[b] = cmdDev'[c], status'[b] = "queued", b \notin overdue'
        PROVE  cmdDev[b] = cmdDev[c] /\ status[b] = "queued" /\ b \notin overdue
    <2>1. status[b] # "none"
      BY <1>2 DEF OrderInv
    <2>2. cmdDev'[b] = cmdDev[b] /\ cmdDev'[c] = cmdDev[c]
      BY <1>2, <2>1, FlushStepHolds
    <2>3. status[b] = "queued"
      BY <1>2, <2>1, StatusStepHolds DEF StatusStep, Results
    <2> QED
      BY <1>0, <1>2, <2>2, <2>3
  <1>3. NotOvertaken'
    <2> SUFFICES ASSUME NEW b \in Cmds, NEW c \in Cmds, b < c, cmdDev'[b] = cmdDev'[c],
                        c \in Transmitted', status'[b] = "queued", b \notin overdue'
                 PROVE  b \in Transmitted'
      BY DEF NotOvertaken
    <2>1. CASE c \in Transmitted
      <3>1. status[c] # "none"
        BY <2>1 DEF LedgerInv
      <3> QED
        BY <2>1, <3>1, <1>0, <1>2 DEF OrderInv, NotOvertaken
    <2>2. ASSUME NEW a \in Actors, FlushWrite(a), c = First(batch[a])
          PROVE  b \in Transmitted'
      <3>1. /\ batch[a] \in SUBSET Cmds /\ batch[a] # {} /\ c \in batch[a]
            /\ \A x \in batch[a] : c <= x
        BY <2>2, FirstIsMinimum DEF FlushWrite, TypeInv, TypeOK
      <3>2. status[c] # "none"
        BY <3>1 DEF TypeInv, Shape
      <3>3. b \notin batch[a]
        BY <3>1, CmdsAssumption
      <3> QED
        BY <3>1, <3>2, <3>3, <1>0, <1>2 DEF OrderInv
    <2> QED
      BY <2>1, <2>2, TransmittedGrows
  <1>4. ASSUME NEW a \in Actors, NEW b \in Cmds, NEW c \in batch'[a],
               b < c, cmdDev'[b] = cmdDev'[c], status'[b] = "queued", b \notin overdue'
        PROVE  b \in batch'[a] \/ b \in Transmitted'
    <2>1. c \in Cmds
      BY <1>0 DEF TypeInv, TypeOK
    <2>2. CASE FlushSelect(a)
      <3>1. /\ batch'[a] = Oldest(Queued(DeviceOf(a)))
            /\ UNCHANGED <<cmdDev, status, overdue>>
        BY <2>2 DEF FlushSelect, rowVars, TypeInv, TypeOK
      <3>2. /\ c \in Oldest(Queued(DeviceOf(a))) /\ Queued(DeviceOf(a)) \in SUBSET Cmds
            /\ b \in Queued(DeviceOf(a))
        BY <1>4, <3>1 DEF Oldest, Queued
      <3>3. b \in Oldest(Queued(DeviceOf(a)))
        BY <1>4, <3>2, OldestIsPrefix
      <3> QED
        BY <3>1, <3>3
    <2>3. CASE batch'[a] \subseteq batch[a]
               /\ \A x \in batch[a] \ batch'[a] : x \in Transmitted
      <3>1. c \in batch[a] /\ status[c] # "none"
        BY <2>3 DEF TypeInv, Shape
      <3>2. cmdDev[b] = cmdDev[c] /\ status[b] = "queued" /\ b \notin overdue
        BY <1>2, <1>4, <2>1, <3>1
      <3> QED
        BY <1>0, <1>4, <2>3, <3>1, <3>2 DEF OrderInv
    <2>4. CASE FlushMark(a) /\ batch'[a] = batch[a] \ {First(batch[a])}
      <3>1. First(batch[a]) \in Transmitted
        BY <2>4 DEF FlushMark, LedgerInv
      <3> QED
        BY <2>3, <2>4, <3>1
    <2> QED
      BY <1>4, <2>2, <2>3, <2>4, FlushStepHolds DEF FlushStep
  <1> QED
    BY <1>1, <1>3, <1>4 DEF OrderInv

(* No command reaches its device before an older one that still waits.     *)
THEOREM QueueKeepsOrder == Spec => []NotOvertaken
  <1>1. Init => OrderInv
    BY DEF Init, OrderInv, NotOvertaken, Transmitted, Written
  <1>2. OrderInv => NotOvertaken
    BY DEF OrderInv
  <1>3. Spec => []OrderInv
    BY <1>1, NextOrderInv, TypesHold, LedgerHolds, PTL DEF Spec
  <1> QED
    BY <1>2, <1>3, PTL

-----------------------------------------------------------------------------
(* No lost wake-up: without faults, and with no more rows than a batch     *)
(* holds, what waits in the queue of an online device has a request that   *)
(* is about to look at the registry, or a flush over the registered socket *)
(* that has yet to read the row or holds it.                               *)
Undisturbed == /\ MaxFaults = 0
               /\ IsFiniteSet(Cmds) /\ Cardinality(Cmds) <= BatchLimit

Attends(a, d, c) == /\ target[a] = connections[d] /\ DeviceOf(a) = d
                    /\ \/ pc[a] \in {"expire", "select"}
                       \/ pc[a] \in {"send", "mark"} /\ c \in batch[a]

AttendedInv == \A d \in Devices : \A c \in Cmds :
                   c \in Queued(d) /\ IsDeviceOnline(d) =>
                       pc[c] = "created" \/ \E a \in Actors : Attends(a, d, c)

(* How a running flush goes on, and a request that has inserted its row.   *)
AttendantStep(a) ==
    /\ pc[a] \in Flushing =>
          \/ pc'[a] = pc[a] /\ batch'[a] = batch[a]
          \/ pc[a] = "expire" /\ pc'[a] = "select"
          \/ FlushSelect(a) \/ FlushWrite(a) \/ FlushMark(a)
          \/ FlushEnd(a) \/ FlushWriteFails(a)
    /\ pc[a] = "created" =>
          \/ pc'[a] = "created"
          \/ a \in Cmds /\ FlushIfOnline(a)

(* Without faults neither a query fails nor the process dies.              *)
LEMMA NoFaults == ASSUME TypeInv, MaxFaults = 0
                  PROVE  ~Crash /\ \A a \in Actors : ~QueryFails(a)
  <1>1. faults \in 0 .. 0
    BY DEF TypeInv, TypeOK
  <1>2. ~(faults < 0)
    BY <1>1
  <1> QED
    BY <1>2 DEF Crash, QueryFails

LEMMA AttendantStepHolds ==
    ASSUME TypeInv, MaxFaults = 0, [Next]_vars
    PROVE  \A a \in Actors : AttendantStep(a)
  <1> DEFINE Goal == \A a \in Actors : AttendantStep(a)
  <1> USE DEF AttendantStep
  <1>1. ASSUME NEW s \in Sockets,
               Connect(s) \/ ReceiveLogin(s) \/ ReceiveAnswer(s) \/ Destroy(s) \/ CloseEvent(s)
        PROVE  Goal
    BY <1>1 DEF Connect, ReceiveLogin, ReceiveAnswer, Receive, Destroy, CloseEvent, flushVars
  <1>2. ASSUME NEW s \in Sockets, ProcessLogin(s) \/ WriteAck(s) \/ ProcessAnswer(s) PROVE Goal
    BY <1>2 DEF ProcessLogin, WriteAck, ProcessAnswer, flushVars, TypeInv, TypeOK, Flushing
  <1>3. ASSUME NEW c \in Cmds, CreateCommand(c) \/ DeadlinePasses(c) PROVE Goal
    BY <1>3 DEF CreateCommand, DeadlinePasses, flushVars, TypeInv, TypeOK, Flushing
  <1>4. ASSUME NEW b \in Actors, Leaves(b),
               pc[b] \in Flushing => FlushEnd(b) \/ FlushWriteFails(b),
               pc[b] = "created" => b \in Cmds /\ FlushIfOnline(b)
        PROVE  Goal
    BY <1>4, LeavesEffect
  <1>5. ASSUME NEW s \in Sockets, Register(s) PROVE Goal
    <2>1. pc[s] \notin Flushing /\ pc[s] # "created" /\ s \in Actors
      BY <1>5 DEF Register, Flushing, Actors
    <2>2. CASE sock[s] = "open"
      BY <1>5, <2>1, <2>2 DEF Register, StartFlush, TypeInv, TypeOK
    <2>3. CASE sock[s] # "open"
      BY <1>4, <1>5, <2>1, <2>3, FinishingActions
    <2> QED
      BY <2>2, <2>3
  <1>6. ASSUME NEW c \in Cmds, FlushIfOnline(c) PROVE Goal
    <2>1. pc[c] \notin Flushing /\ c \in Actors
      BY <1>6 DEF FlushIfOnline, Flushing, Actors
    <2>2. CASE IsDeviceOnline(cmdDev[c])
      BY <1>6, <2>1, <2>2 DEF FlushIfOnline, StartFlush, TypeInv, TypeOK
    <2>3. CASE ~IsDeviceOnline(cmdDev[c])
      BY <1>4, <1>6, <2>1, <2>3, FinishingActions
    <2> QED
      BY <2>2, <2>3
  <1>7. ASSUME NEW b \in Actors, FlushEnd(b) \/ FlushWriteFails(b) PROVE Goal
    <2>1. pc[b] # "created"
      BY <1>7 DEF FlushEnd, FlushWriteFails
    <2> QED
      BY <1>4, <1>7, <2>1, FinishingActions
  <1>8. ASSUME NEW b \in Actors, FlushExpire(b) \/ FlushSelect(b) \/ FlushWrite(b) \/ FlushMark(b)
        PROVE  Goal
    BY <1>8 DEF FlushExpire, FlushSelect, FlushWrite, FlushMark, TypeInv, TypeOK
  <1>9. ASSUME ListCommands \/ UNCHANGED vars PROVE Goal
    BY <1>9 DEF ListCommands, flushVars, vars
  <1> HIDE DEF Goal
  <1>10. ASSUME Environment PROVE Goal
    BY <1>1, <1>3, <1>7, <1>9, <1>10, NoFaults DEF Environment
  <1>11. ASSUME Server PROVE Goal
    BY <1>1, <1>2, <1>5, <1>6, <1>7, <1>8, <1>11 DEF Server, Handle, Flush
  <1>12. Goal
    BY <1>9, <1>10, <1>11 DEF Next
  <1> QED
    BY <1>12 DEF Goal

(* A batch holds every row of a queue that is not longer than it.          *)
LEMMA OldestIsAll ==
    ASSUME Undisturbed, NEW S \in SUBSET Cmds
    PROVE  Oldest(S) = S
  <1> SUFFICES ASSUME NEW c \in S PROVE Cardinality({b \in S : b < c}) < BatchLimit
    BY DEF Oldest
  <1> DEFINE B == {b \in S : b < c}
  <1>1. B \in SUBSET Cmds /\ c \in Cmds /\ c \notin B
    <2>1. c \in Nat
      BY CmdsAssumption
    <2>2. ~(c < c)
      BY <2>1
    <2> QED
      BY <2>2
  <1> HIDE DEF B
  <1>2. /\ IsFiniteSet(B) /\ Cardinality(B) <= Cardinality(Cmds)
        /\ Cardinality(B) # Cardinality(Cmds)
    BY <1>1, FS_Subset DEF Undisturbed
  <1>3. Cardinality(B) \in Nat /\ Cardinality(Cmds) \in Nat
    BY <1>2, FS_CardinalityType DEF Undisturbed
  <1>4. Cardinality(B) < BatchLimit
    BY <1>2, <1>3, BoundsAssumption DEF Undisturbed
  <1> QED
    BY <1>4 DEF B

(* Who attends a row goes on attending it while it is queued and the       *)
(* device online over the same socket.                                     *)
LEMMA AttendanceLasts ==
    ASSUME TypeInv, Undisturbed, [Next]_vars, NEW d \in Devices, NEW c \in Cmds,
           NEW a \in Actors, Attends(a, d, c), c \in Queued(d), IsDeviceOnline(d),
           c \in Queued(d)', connections'[d] = connections[d]
    PROVE  Attends(a, d, c)'
  <1>1. pc[a] \in Flushing /\ target[a] = connections[d] /\ sock[target[a]] = "open"
    BY DEF Attends, Flushing, IsDeviceOnline
  <1>2. ASSUME pc'[a] \in Flushing
        PROVE  target'[a] = connections'[d] /\ DeviceOf(a)' = d
    BY <1>1, <1>2, FlushStepHolds DEF FlushStep, Register, FlushIfOnline, Flushing, Attends
  <1>3. CASE pc'[a] = pc[a] /\ batch'[a] = batch[a]
    BY <1>1, <1>2, <1>3 DEF Attends
  <1>4. CASE pc[a] = "expire" /\ pc'[a] = "select"
    BY <1>2, <1>4 DEF Attends, Flushing
  <1>5. CASE FlushSelect(a)
    <2>1. batch'[a] = Oldest(Queued(d)) /\ pc'[a] = "send"
      BY <1>5 DEF FlushSelect, Attends, TypeInv, TypeOK
    <2>2. Oldest(Queued(d)) = Queued(d)
      BY OldestIsAll DEF Queued
    <2> QED
      BY <1>2, <2>1, <2>2 DEF Attends, Flushing
  <1>6. CASE FlushWrite(a)
    <2>1. pc[a] = "send" /\ pc'[a] = "mark" /\ batch' = batch
      BY <1>6, FlushWriteEffect DEF TypeInv, TypeOK
    <2> QED
      BY <1>2, <2>1 DEF Attends, Flushing
  <1>7. CASE FlushMark(a)
    <2> DEFINE first == First(batch[a])
    <2>1. /\ status' = [status EXCEPT ![first] = Mark(first)] /\ pc[a] = "mark"
          /\ batch' = [batch EXCEPT ![a] = batch[a] \ {first}] /\ pc'[a] = "send"
      BY <1>7 DEF FlushMark, TypeInv, TypeOK
    <2>2. c # first
      <3>1. status'[c] = "queued" /\ Mark(first) # "queued"
        BY DEF Queued, Mark
      <3> QED
        BY <2>1, <3>1 DEF TypeInv, TypeOK
    <2>3. batch'[a] = batch[a] \ {first}
      BY <2>1 DEF TypeInv, TypeOK
    <2> QED
      BY <1>2, <2>1, <2>2, <2>3 DEF Attends, Flushing
  <1>8. CASE FlushEnd(a) \/ FlushWriteFails(a)
    BY <1>1, <1>8 DEF FlushEnd, FlushWriteFails, Attends
  <1> QED
    BY <1>1, <1>3, <1>4, <1>5, <1>6, <1>7, <1>8, AttendantStepHolds DEF AttendantStep, Undisturbed

LEMMA NextAttendedInv ==
    ASSUME Undisturbed, TypeInv, LedgerInv, RegisteredInv, AttendedInv, [Next]_vars
    PROVE  AttendedInv'
  <1> SUFFICES ASSUME NEW d \in Devices, NEW c \in Cmds, c \in Queued(d)', IsDeviceOnline(d)'
               PROVE  pc'[c] = "created" \/ \E a \in Actors : Attends(a, d, c)'
    BY DEF AttendedInv
  <1>1. ASSUME NEW s \in Sockets, Register(s), sock[s] = "open", d = Head(cola[s]).imei
        PROVE  \E a \in Actors : Attends(a, d, c)'
    <2>1. /\ s \in Actors /\ pc'[s] = "expire" /\ target'[s] = s /\ connections'[d] = s
          /\ cola' = cola
      BY <1>1 DEF Register, StartFlush, Actors, TypeInv, TypeOK
    <2>2. DeviceOf(s)' = d
      BY <1>1, <2>1 DEF DeviceOf
    <2> QED
      BY <2>1, <2>2 DEF Attends
  <1>2. CASE CreateCommand(c)
    BY <1>2 DEF CreateCommand, TypeInv, TypeOK, Actors
  <1>3. ASSUME ~CreateCommand(c), connections'[d] = connections[d]
        PROVE  pc'[c] = "created" \/ \E a \in Actors : Attends(a, d, c)'
    <2>1. status[c] = "queued" /\ cmdDev'[c] = cmdDev[c]
      <3>1. status'[c] = "queued"
        BY DEF Queued
      <3>2. status[c] = "queued"
        BY <1>3, <3>1, StatusStepHolds DEF StatusStep, Results
      <3> QED
        BY <3>2, FlushStepHolds
    <2>2. c \in Queued(d)
      BY <2>1, FlushStepHolds DEF Queued
    <2>3. IsDeviceOnline(d)
      <3>1. connections[d] # NoSocket /\ connections[d] \in Sockets /\ sock'[connections[d]] = "open"
        BY <1>3 DEF IsDeviceOnline, TypeInv, TypeOK
      <3>2. sock[connections[d]] # "new"
        BY <3>1 DEF RegisteredInv
      <3> QED
        BY <3>1, <3>2, ControlStep DEF SocketStep, IsDeviceOnline
    <2>4. ASSUME NEW a \in Actors, Attends(a, d, c) PROVE Attends(a, d, c)'
      BY <1>3, <2>2, <2>3, <2>4, AttendanceLasts
    <2>5. CASE pc[c] = "created"
      <3>1. pc'[c] = "created" \/ FlushIfOnline(c)
        BY <2>5, AttendantStepHolds DEF AttendantStep, Actors, Undisturbed
      <3>2. ASSUME FlushIfOnline(c) PROVE Attends(c, d, c)'
        <4>1. cmdDev[c] = d /\ c \notin Sockets /\ c \in Actors
          BY <2>2, ActorsAssumption DEF Queued, Actors
        <4>2. pc'[c] = "expire" /\ target'[c] = connections[d] /\ cmdDev' = cmdDev
          BY <2>3, <3>2, <4>1 DEF FlushIfOnline, StartFlush, rowVars, TypeInv, TypeOK
        <4> QED
          BY <1>3, <4>1, <4>2 DEF Attends, DeviceOf
      <3> QED
        BY <3>1, <3>2 DEF Actors
    <2> QED
      BY <2>2, <2>3, <2>4, <2>5 DEF AttendedInv
  <1> QED
    BY <1>1, <1>2, <1>3, ControlStep DEF RegistryStep, IsDeviceOnline

(* Once the handlers have run, an online device has nothing waiting: for   *)
(* any devices, sockets and frames, as long as no query fails, the process *)
(* does not die and a batch is as long as the table (LIMIT 20).            *)
THEOREM NoWakeUpIsLost == ASSUME Undisturbed
                          PROVE  Spec => []NothingLeftBehind
  <1>1. Init => RegisteredInv /\ AttendedInv
    BY DEF Init, RegisteredInv, AttendedInv, IsDeviceOnline
  <1>2. TypeInv /\ LedgerInv /\ RegisteredInv /\ AttendedInv /\ [Next]_vars
            => RegisteredInv' /\ AttendedInv'
    BY NextRegisteredInv, NextAttendedInv
  <1>3. TypeInv /\ AttendedInv => NothingLeftBehind
    <2> SUFFICES ASSUME TypeInv, AttendedInv, NEW d \in Devices, Quiet(d), IsDeviceOnline(d),
                        NEW c \in Queued(d)
                 PROVE  FALSE
      BY DEF NothingLeftBehind
    <2>1. c \in Cmds /\ pc[c] # "created"
      BY DEF Quiet, Queued
    <2>2. PICK a \in Actors : Attends(a, d, c)
      BY <2>1 DEF AttendedInv
    <2>3. CASE a \in Sockets
      BY <2>2, <2>3 DEF Attends, Quiet, TypeInv, Shape
    <2>4. CASE a \in Cmds
      BY <2>2, <2>4, ActorsAssumption DEF Attends, Quiet, DeviceOf
    <2> QED
      BY <2>3, <2>4 DEF Actors
  <1> QED
    BY <1>1, <1>2, <1>3, TypesHold, LedgerHolds, PTL DEF Spec

=============================================================================
