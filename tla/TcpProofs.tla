----------------------------- MODULE TcpProofs -----------------------------
(***************************************************************************)
(* Safety of the TCP port: the per-IP limiter, for any number of addresses *)
(* and connections and any limits; the accumulator of a socket, for any    *)
(* streams, sizes of the chunks and limit of the buffer; and what a line   *)
(* reads and answers of what the trackers of the three protocols may mean, *)
(* of which the texts of GPS103 are read here.                             *)
(***************************************************************************)
EXTENDS ConnectionLimiter, Wire, DecoderProofs, FiniteSetTheorems

(* Every admission still inside the window is remembered by the limiter:   *)
(* what makes WindowBound inductive, since tryAcquire only looks at        *)
(* `intentos'.                                                             *)
Tracked == \A ip \in Ips : Recent(Admitted(ip)) \subseteq intentos[ip]

(* A missing Map entry stands for zero counters. *)
EntriesHoldCounters ==
    \A ip \in Ips \ known : activas[ip] = 0 /\ intentos[ip] = {}

(* No counter exceeds the limit.                                           *)
ActivasBounded == \A ip \in Ips : activas[ip] <= MaxConcurrent

(* The inductive invariant of the limiter.                                 *)
IInv == /\ LimiterTypeOK
        /\ SlotsMatchSockets
        /\ Tracked
        /\ EntriesHoldCounters
        /\ ActivasBounded
        /\ WindowBound

(* Every set of connections is finite, and so has a cardinality. *)
LEMMA ConnSubsets ==
    ASSUME NEW S \in SUBSET Conns
    PROVE  IsFiniteSet(S) /\ Cardinality(S) \in Nat
  BY ConnsFinite, FS_Subset, FS_CardinalityType

(* A subset of a set of connections is no larger. *)
LEMMA ConnSubsetsMonotonic ==
    ASSUME NEW S \in SUBSET Conns, NEW T \in SUBSET S
    PROVE  Cardinality(T) <= Cardinality(S)
  BY ConnSubsets, FS_Subset

(* It holds at first.                                                      *)
LEMMA InitIInv == LimiterInit => IInv
  <1> SUFFICES ASSUME LimiterInit PROVE IInv
    OBVIOUS
  <1>1. LimiterTypeOK
    BY LimitsAssumption DEF LimiterInit, LimiterTypeOK, Phases
  <1>2. \A ip \in Ips : Held(ip) = {} /\ Recent(Admitted(ip)) = {}
    BY DEF LimiterInit, Held, Admitted, Recent
  <1>3. SlotsMatchSockets
    BY <1>2, FS_EmptySet DEF LimiterInit, SlotsMatchSockets
  <1>4. WindowBound
    BY <1>2, FS_EmptySet, LimitsAssumption DEF WindowBound
  <1>5. Tracked /\ EntriesHoldCounters /\ ActivasBounded
    BY <1>2, LimitsAssumption DEF LimiterInit, Tracked, EntriesHoldCounters, ActivasBounded
  <1> QED
    BY <1>1, <1>3, <1>4, <1>5 DEF IInv

(* The types survive every step. *)
LEMMA NextTypeOK == IInv /\ [LimiterNext]_limiterVars => LimiterTypeOK'
  <1> SUFFICES ASSUME IInv, [LimiterNext]_limiterVars PROVE LimiterTypeOK'
    OBVIOUS
  <1> USE DEF IInv, LimiterTypeOK, Phases
  <1>1. ASSUME NEW c \in Conns, Admit(c) PROVE LimiterTypeOK'
    BY <1>1 DEF Admit, Recent
  <1>2. ASSUME NEW c \in Conns, Reject(c) PROVE LimiterTypeOK'
    BY <1>2 DEF Reject, Recent
  <1>3. ASSUME NEW c \in Conns, Destroy(c) PROVE LimiterTypeOK'
    BY <1>3 DEF Destroy
  <1>4. ASSUME NEW c \in Conns, CloseEvent(c) PROVE LimiterTypeOK'
    BY <1>4 DEF CloseEvent, Forget, Idle, Decrement
  <1>5. CASE Sweep
    BY <1>5 DEF Sweep, Recent
  <1>6. CASE Tick
    BY <1>6, LimitsAssumption DEF Tick
  <1>7. CASE UNCHANGED limiterVars
    BY <1>7 DEF limiterVars
  <1> QED
    BY <1>1, <1>2, <1>3, <1>4, <1>5, <1>6, <1>7 DEF LimiterNext

(* A connection that is accepted holds one more slot of its address.       *)
LEMMA AdmitStep ==
    ASSUME IInv, NEW c \in Conns, Admit(c)
    PROVE  IInv'
  <1>0. PICK ip \in Ips : ip = ipOf[c]
    BY DEF IInv, LimiterTypeOK
  <1>1. LimiterTypeOK'
    BY NextTypeOK DEF LimiterNext
  <1>2. ip = ipOf[c] /\ ipOf' = ipOf /\ age' = age
    BY <1>0 DEF Admit
  <1>3. /\ Held(ip)' = Held(ip) \cup {c}
        /\ c \notin Held(ip)
        /\ \A i \in Ips \ {ip} : Held(i)' = Held(i)
    BY <1>2 DEF Admit, Held, IInv, LimiterTypeOK
  <1>4. /\ Recent(Admitted(ip))' \subseteq Recent(Admitted(ip)) \cup {c}
        /\ \A i \in Ips \ {ip} : Recent(Admitted(i))' = Recent(Admitted(i))
    BY <1>2 DEF Admit, Admitted, Recent, IInv, LimiterTypeOK
  <1>5. \A i \in Ips : Held(i) \in SUBSET Conns /\ Recent(Admitted(i)) \in SUBSET Conns
    BY DEF Held, Admitted, Recent
  <1>6. /\ activas' = [activas EXCEPT ![ip] = @ + 1]
        /\ intentos' = [intentos EXCEPT ![ip] = Recent(@) \cup {c}]
        /\ known' = known \cup {ip}
        /\ activas[ip] < MaxConcurrent
        /\ Cardinality(Recent(intentos[ip])) < MaxPerWindow
    BY <1>2 DEF Admit, MayEnter
  <1>7. SlotsMatchSockets'
    <2> SUFFICES ASSUME NEW i \in Ips PROVE activas'[i] = Cardinality(Held(i)')
      BY DEF SlotsMatchSockets
    <2>1. CASE i = ip
      <3>1. Cardinality(Held(ip) \cup {c}) = Cardinality(Held(ip)) + 1
        BY <1>3, <1>5, ConnSubsets, FS_AddElement, <1>2
      <3> QED
        BY <2>1, <3>1, <1>2, <1>3, <1>6 DEF IInv, SlotsMatchSockets, LimiterTypeOK
    <2>2. CASE i # ip
      BY <2>2, <1>2, <1>3, <1>6 DEF IInv, SlotsMatchSockets, LimiterTypeOK
    <2> QED
      BY <2>1, <2>2
  <1>8. Tracked'
    <2> SUFFICES ASSUME NEW i \in Ips PROVE Recent(Admitted(i))' \subseteq intentos'[i]
      BY DEF Tracked
    <2>1. Recent(Admitted(i)) \subseteq Recent(intentos[i])
      BY DEF IInv, Tracked, Recent
    <2> QED
      BY <2>1, <1>2, <1>4, <1>6 DEF IInv, Tracked, LimiterTypeOK
  <1>9. EntriesHoldCounters'
    BY <1>2, <1>6 DEF IInv, EntriesHoldCounters, LimiterTypeOK
  <1>10. ActivasBounded'
    BY <1>2, <1>6, LimitsAssumption DEF IInv, ActivasBounded, LimiterTypeOK
  <1>11. WindowBound'
    <2> SUFFICES ASSUME NEW i \in Ips
                 PROVE  Cardinality(Recent(Admitted(i))') <= MaxPerWindow
      BY DEF WindowBound
    <2>1. CASE i = ip
      <3> DEFINE S == Recent(intentos[ip])
      <3>1. S \in SUBSET Conns
        BY <1>2 DEF Recent, IInv, LimiterTypeOK
      <3>2. Recent(Admitted(ip)) \subseteq S
        BY <1>2 DEF IInv, Tracked, Recent
      <3>3. Recent(Admitted(ip))' \subseteq S \cup {c}
        BY <3>2, <1>4
      <3>4. Cardinality(S \cup {c}) <= Cardinality(S) + 1
        BY <3>1, ConnSubsets, FS_AddElement
      <3>5. S \cup {c} \in SUBSET Conns
        BY <3>1
      <3>6. Cardinality(Recent(Admitted(ip))') <= Cardinality(S \cup {c})
        BY <3>3, <3>5, ConnSubsetsMonotonic
      <3>7. /\ Cardinality(S) \in Nat /\ Cardinality(S \cup {c}) \in Nat
            /\ Recent(Admitted(ip))' \in SUBSET Conns
        BY <3>1, <3>3, <3>5, ConnSubsets
      <3>8. Cardinality(Recent(Admitted(ip))') \in Nat
        BY <3>7, ConnSubsets
      <3> HIDE DEF S
      <3>9. Cardinality(S) < MaxPerWindow
        BY <1>6 DEF S
      <3> QED
        BY <2>1, <3>4, <3>6, <3>7, <3>8, <3>9, LimitsAssumption
    <2>2. CASE i # ip
      BY <2>2, <1>4 DEF IInv, WindowBound
    <2> QED
      BY <2>1, <2>2
  <1> QED
    BY <1>1, <1>7, <1>8, <1>9, <1>10, <1>11 DEF IInv

(* A refused connection changes no slot and drops only expired attempts.   *)
LEMMA RejectStep ==
    ASSUME IInv, NEW c \in Conns, Reject(c)
    PROVE  IInv'
  <1>1. LimiterTypeOK'
    BY NextTypeOK DEF LimiterNext
  <1>2. /\ activas' = activas /\ ipOf' = ipOf /\ age' = age
        /\ phase' = [phase EXCEPT ![c] = "rejected"] /\ phase[c] = "new"
        /\ known' = known \cup {ipOf[c]}
        /\ intentos' = [intentos EXCEPT ![ipOf[c]] = Recent(@)]
    BY DEF Reject
  <1>3. \A i \in Ips : Held(i)' = Held(i) /\ Recent(Admitted(i))' = Recent(Admitted(i))
    BY <1>2 DEF Held, Admitted, Recent, IInv, LimiterTypeOK
  <1>4. SlotsMatchSockets' /\ WindowBound'
    BY <1>2, <1>3 DEF IInv, SlotsMatchSockets, WindowBound
  <1>5. Tracked'
    BY <1>2, <1>3 DEF IInv, Tracked, Recent, LimiterTypeOK
  <1>6. EntriesHoldCounters' /\ ActivasBounded'
    BY <1>2 DEF IInv, EntriesHoldCounters, ActivasBounded, LimiterTypeOK
  <1> QED
    BY <1>1, <1>4, <1>5, <1>6 DEF IInv

(* The 'close' event gives back exactly the slot of its socket, and drops  *)
(* the entry only when no attempt is left in it.                           *)
LEMMA CloseEventStep ==
    ASSUME IInv, NEW c \in Conns, CloseEvent(c)
    PROVE  IInv'
  <1>0. PICK ip \in Ips : ip = ipOf[c]
    BY DEF IInv, LimiterTypeOK
  <1>1. LimiterTypeOK'
    BY NextTypeOK DEF LimiterNext
  <1>2. /\ ip = ipOf[c] /\ ipOf' = ipOf /\ age' = age
        /\ phase' = [phase EXCEPT ![c] = "closed"] /\ phase[c] = "destroyed"
    BY <1>0 DEF CloseEvent
  <1>3. /\ Held(ip)' = Held(ip) \ {c}
        /\ c \in Held(ip)
        /\ \A i \in Ips \ {ip} : Held(i)' = Held(i)
        /\ \A i \in Ips : Recent(Admitted(i))' = Recent(Admitted(i))
    BY <1>2 DEF Held, Admitted, Recent, IInv, LimiterTypeOK
  <1>4. /\ Held(ip) \in SUBSET Conns
        /\ Cardinality(Held(ip)) \in Nat
        /\ Cardinality(Held(ip)') = Cardinality(Held(ip)) - 1
    <2>1. Held(ip) \in SUBSET Conns
      BY DEF Held
    <2> QED
      BY <2>1, <1>3, ConnSubsets, FS_RemoveElement
  <1>5. activas[ip] = Cardinality(Held(ip)) /\ activas[ip] # 0 /\ ip \in known
    BY <1>3, <1>4, FS_EmptySet, ConnSubsets
    DEF IInv, SlotsMatchSockets, EntriesHoldCounters
  <1>6. /\ activas' = [activas EXCEPT ![ip] = @ - 1]
        /\ intentos' = intentos
        /\ \/ known' = known
           \/ known' = known \ {ip} /\ activas'[ip] = 0 /\ intentos'[ip] = {}
    <2>1. Decrement(activas[ip]) = activas[ip] - 1
      BY <1>5 DEF Decrement
    <2>2. CASE Idle(activas[ip] - 1, intentos[ip])
      <3>1. Forget({ip})
        BY <2>1, <2>2, <1>2, <1>5 DEF CloseEvent
      <3>2. activas[ip] - 1 = 0 /\ intentos[ip] = {}
        BY <2>2 DEF Idle
      <3>3. intentos' = intentos
        BY <3>1, <3>2 DEF Forget, IInv, LimiterTypeOK
      <3>4. activas' = [activas EXCEPT ![ip] = @ - 1]
        BY <3>1, <3>2 DEF Forget, IInv, LimiterTypeOK
      <3> QED
        BY <3>1, <3>2, <3>3, <3>4 DEF Forget, IInv, LimiterTypeOK
    <2>3. CASE ~Idle(activas[ip] - 1, intentos[ip])
      BY <2>1, <2>3, <1>2, <1>5 DEF CloseEvent
    <2> QED
      BY <2>2, <2>3
  <1>7. SlotsMatchSockets'
    BY <1>3, <1>4, <1>5, <1>6 DEF IInv, SlotsMatchSockets, LimiterTypeOK
  <1>8. Tracked' /\ WindowBound'
    BY <1>3, <1>6 DEF IInv, Tracked, WindowBound
  <1>9. EntriesHoldCounters' /\ ActivasBounded'
    BY <1>5, <1>6, LimitsAssumption DEF IInv, EntriesHoldCounters, ActivasBounded, LimiterTypeOK
  <1> QED
    BY <1>1, <1>7, <1>8, <1>9 DEF IInv

(* The sweep drops expired attempts and entries with no open socket: the   *)
(* counters of an entry it drops are already zero.                         *)
LEMMA SweepStep == IInv /\ Sweep => IInv'
  <1> SUFFICES ASSUME IInv, Sweep PROVE IInv'
    OBVIOUS
  <1>1. LimiterTypeOK'
    BY NextTypeOK DEF LimiterNext
  <1>2. /\ phase' = phase /\ ipOf' = ipOf /\ age' = age
        /\ activas' = activas
        /\ \A i \in Ips : intentos'[i] = Recent(intentos[i])
        /\ \A i \in known \ known' : activas[i] = 0 /\ Recent(intentos[i]) = {}
    BY DEF Sweep, Idle, IInv, LimiterTypeOK
  <1>3. \A i \in Ips : Held(i)' = Held(i) /\ Recent(Admitted(i))' = Recent(Admitted(i))
    BY <1>2 DEF Held, Admitted, Recent
  <1>4. SlotsMatchSockets' /\ WindowBound' /\ ActivasBounded'
    BY <1>2, <1>3 DEF IInv, SlotsMatchSockets, WindowBound, ActivasBounded
  <1>5. Tracked'
    BY <1>2, <1>3 DEF IInv, Tracked, Recent
  <1>6. EntriesHoldCounters'
    <2> SUFFICES ASSUME NEW i \in Ips, i \notin known'
                 PROVE  activas'[i] = 0 /\ intentos'[i] = {}
      BY DEF EntriesHoldCounters
    <2>1. CASE i \in known
      BY <2>1, <1>2
    <2>2. CASE i \notin known
      BY <2>2, <1>2 DEF IInv, EntriesHoldCounters, Recent
    <2> QED
      BY <2>1, <2>2
  <1> QED
    BY <1>1, <1>4, <1>5, <1>6 DEF IInv

(* Time only takes admissions out of the window.                           *)
LEMMA TickStep == IInv /\ Tick => IInv'
  <1> SUFFICES ASSUME IInv, Tick PROVE IInv'
    OBVIOUS
  <1>1. LimiterTypeOK'
    BY NextTypeOK DEF LimiterNext
  <1>2. /\ UNCHANGED <<phase, ipOf, known, activas, intentos>>
        /\ \A c \in Conns : age'[c] >= age[c]
    BY LimitsAssumption DEF Tick, IInv, LimiterTypeOK
  <1>3. \A i \in Ips : /\ Held(i)' = Held(i)
                       /\ Recent(Admitted(i))' \subseteq Recent(Admitted(i))
    BY <1>1, <1>2, LimitsAssumption DEF Held, Admitted, Recent, IInv, LimiterTypeOK
  <1>4. SlotsMatchSockets' /\ ActivasBounded' /\ EntriesHoldCounters' /\ Tracked'
    BY <1>2, <1>3 DEF IInv, SlotsMatchSockets, ActivasBounded, EntriesHoldCounters, Tracked
  <1>5. WindowBound'
    <2> SUFFICES ASSUME NEW i \in Ips
                 PROVE  Cardinality(Recent(Admitted(i))') <= MaxPerWindow
      BY DEF WindowBound
    <2>1. Recent(Admitted(i)) \in SUBSET Conns /\ Recent(Admitted(i))' \in SUBSET Conns
      BY <1>3 DEF Admitted, Recent
    <2>2. /\ Cardinality(Recent(Admitted(i))') <= Cardinality(Recent(Admitted(i)))
          /\ Cardinality(Recent(Admitted(i))') \in Nat
          /\ Cardinality(Recent(Admitted(i))) \in Nat
      BY <2>1, <1>3, ConnSubsetsMonotonic, ConnSubsets
    <2>3. Cardinality(Recent(Admitted(i))) <= MaxPerWindow
      BY DEF IInv, WindowBound
    <2> QED
      BY <2>2, <2>3, LimitsAssumption
  <1> QED
    BY <1>1, <1>4, <1>5 DEF IInv

(* Every step keeps it.                                                    *)
LEMMA NextIInv == IInv /\ [LimiterNext]_limiterVars => IInv'
  <1> SUFFICES ASSUME IInv, [LimiterNext]_limiterVars PROVE IInv'
    OBVIOUS
  <1>1. ASSUME NEW c \in Conns, Destroy(c) PROVE IInv'
    <2>1. LimiterTypeOK'
      BY <1>1, NextTypeOK DEF LimiterNext
    <2>2. /\ UNCHANGED <<ipOf, age, known, activas, intentos>>
          /\ \A i \in Ips : /\ Held(i)' = Held(i)
                             /\ Recent(Admitted(i))' = Recent(Admitted(i))
      BY <1>1 DEF Destroy, Held, Admitted, Recent, IInv, LimiterTypeOK
    <2> QED
      BY <2>1, <2>2 DEF IInv, SlotsMatchSockets, Tracked, EntriesHoldCounters,
                        ActivasBounded, WindowBound
  <1>2. CASE UNCHANGED limiterVars
    BY <1>2 DEF limiterVars, IInv, LimiterTypeOK, SlotsMatchSockets, Tracked, EntriesHoldCounters,
                ActivasBounded, WindowBound, Held, Admitted, Recent
  <1> QED
    BY <1>1, <1>2, AdmitStep, RejectStep, CloseEventStep, SweepStep, TickStep DEF LimiterNext

(* So it always holds.                                                     *)
LEMMA InvariantHolds == LimiterSpec => []IInv
  BY InitIInv, NextIInv, PTL DEF LimiterSpec

(* The variables always have their types.                                  *)
THEOREM TypeCorrect == LimiterSpec => []LimiterTypeOK
  <1>1. IInv => LimiterTypeOK
    BY DEF IInv
  <1> QED
    BY <1>1, InvariantHolds, PTL

(* No slot leaks and none is released twice (server.js:36, ratelimit.js:46): *)
(* the counter of an address is the number of its unreleased sockets.      *)
THEOREM SlotsMatch == LimiterSpec => []SlotsMatchSockets
  <1>1. IInv => SlotsMatchSockets
    BY DEF IInv
  <1> QED
    BY <1>1, InvariantHolds, PTL

(* No address ever holds more than MaxConcurrent sockets (ratelimit.js:31). *)
THEOREM SimultaneousLimit == LimiterSpec => []MaxSimultaneous
  <1>1. IInv => MaxSimultaneous
    BY DEF IInv, SlotsMatchSockets, ActivasBounded, MaxSimultaneous
  <1> QED
    BY <1>1, InvariantHolds, PTL

(* No address is admitted more than MaxPerWindow times in one window       *)
(* (ratelimit.js:34), whatever entries are dropped and created meanwhile.  *)
THEOREM WindowLimit == LimiterSpec => []WindowBound
  <1>1. IInv => WindowBound
    BY DEF IInv
  <1> QED
    BY <1>1, InvariantHolds, PTL

(* Dropping an entry forgets nothing (ratelimit.js:50, 58).                *)
THEOREM ForgettingIsSafe == LimiterSpec => []ForgottenIsIdle
  <1>1. IInv => ForgottenIsIdle
    <2> SUFFICES ASSUME IInv, NEW ip \in Ips \ known
                 PROVE  Held(ip) = {} /\ Recent(Admitted(ip)) = {}
      BY DEF ForgottenIsIdle
    <2>1. Cardinality(Held(ip)) = 0
      BY DEF IInv, SlotsMatchSockets, EntriesHoldCounters
    <2>2. Held(ip) \in SUBSET Conns
      BY DEF Held
    <2> QED
      BY <2>1, <2>2, ConnSubsets, FS_EmptySet DEF IInv, Tracked, EntriesHoldCounters
  <1> QED
    BY <1>1, InvariantHolds, PTL

-----------------------------------------------------------------------------
(* The accumulator of one socket: sequences, and the layout of a stream.   *)

(* What From keeps of b.                                                   *)
LEMMA FromIs ==
    ASSUME NEW b \in Seq(Byte), NEW l \in 1 .. Len(b) + 1
    PROVE  /\ From(b, l) \in Seq(Byte)
           /\ Len(From(b, l)) = Len(b) - l + 1
           /\ \A i \in 1 .. Len(b) - l + 1 : From(b, l)[i] = b[l + i - 1]
  <1>1. \A i \in l .. Len(b) : b[i] \in Byte
    BY ElementOfSeq
  <1>2. l \in Int /\ Len(b) \in Int
    BY LenProperties
  <1>3. /\ SubSeq(b, l, Len(b)) \in Seq(Byte)
        /\ Len(SubSeq(b, l, Len(b))) = IF l <= Len(b) THEN Len(b) - l + 1 ELSE 0
        /\ \A i \in 1 .. Len(b) - l + 1 : SubSeq(b, l, Len(b))[i] = b[l + i - 1]
    BY <1>1, <1>2, SubSeqProperties
  <1> QED
    BY <1>2, <1>3 DEF From

(* A prefix agrees place by place.                                         *)
LEMMA PrefixIs ==
    ASSUME NEW T, NEW s \in Seq(T), NEW t \in Seq(T)
    PROVE  IsPrefix(s, t) <=> Len(s) <= Len(t) /\ \A i \in 1 .. Len(s) : s[i] = t[i]
  <1>1. Len(s) \in Nat /\ Len(t) \in Nat
    BY LenProperties
  <1>2. SubSeq(s, 1, Len(s)) = s
    BY SubSeqFull
  <1> SUFFICES ASSUME Len(s) <= Len(t)
               PROVE  s = SubSeq(t, 1, Len(s)) <=> \A i \in 1 .. Len(s) : s[i] = t[i]
    BY <1>2 DEF IsPrefix
  <1> DEFINE u == SubSeq(t, 1, Len(s))
  <1>3. u \in Seq(T) /\ Len(u) = Len(s) /\ \A i \in 1 .. Len(s) : u[i] = t[i]
    <2>1. \A i \in 1 .. Len(s) : t[i] \in T
      BY <1>1, ElementOfSeq
    <2>2. /\ u \in Seq(T)
          /\ Len(u) = IF 1 <= Len(s) THEN Len(s) - 1 + 1 ELSE 0
          /\ \A i \in 1 .. Len(s) - 1 + 1 : u[i] = t[1 + i - 1]
      BY <1>1, <2>1, SubSeqProperties
    <2>3. \A i \in 1 .. Len(s) : i \in 1 .. Len(s) - 1 + 1 /\ 1 + i - 1 = i
      BY <1>1
    <2> HIDE DEF u
    <2> QED
      BY <1>1, <2>2, <2>3
  <1> HIDE DEF u
  <1>4. ASSUME \A i \in 1 .. Len(s) : s[i] = t[i] PROVE s = u
    <2>1. \A i \in 1 .. Len(s) : s[i] = u[i]
      BY <1>3, <1>4
    <2> QED
      BY <1>3, <2>1, SeqEqual
  <1>5. s = u => \A i \in 1 .. Len(s) : s[i] = t[i]
    BY <1>3
  <1> QED
    BY <1>4, <1>5 DEF u

(* The texts.                                                              *)
LEMMA Texts ==
    /\ Text \in Seq(Byte) /\ Len(Text) = 5
    /\ Text[1] = 105
    /\ Handshake \in Seq(Byte) /\ Len(Handshake) = 2
    /\ Handshake[1] = 35
  BY DEF Text, Handshake, Byte

-----------------------------------------------------------------------------
(* Where the first k frames of a stream end.                               *)
EndOf(x, k) == Len(x.noise) + Len(FlattenSeq(SubSeq(x.frames, 1, k)))

(* The noise and the frames are side by side, in their order.              *)
SideBySide(x) ==
    /\ \A i \in 1 .. Len(x.noise) : AllOf(x)[i] = x.noise[i]
    /\ \A k \in 1 .. Len(x.frames) :
          \A i \in 1 .. Len(x.frames[k]) : AllOf(x)[EndOf(x, k - 1) + i] = x.frames[k][i]

(* The frames end one behind the other, the last where the stream ends.    *)
Ends(x) ==
    /\ \A k \in 0 .. Len(x.frames) : EndOf(x, k) \in Nat
    /\ EndOf(x, 0) = Len(x.noise)
    /\ EndOf(x, Len(x.frames)) = Len(AllOf(x))
    /\ \A k \in 1 .. Len(x.frames) : EndOf(x, k) = EndOf(x, k - 1) + Len(x.frames[k])
    /\ \A j, k \in 0 .. Len(x.frames) : j < k => EndOf(x, j) < EndOf(x, k)

(* What the stream is made of.                                             *)
Sizes(x) ==
    /\ Len(x.noise) \in Nat /\ Len(x.frames) \in Nat
    /\ AllOf(x) \in Seq(Byte) /\ Len(AllOf(x)) \in Nat
    /\ \A i \in 1 .. Len(AllOf(x)) : AllOf(x)[i] \in Byte
    /\ \A k \in 1 .. Len(x.frames) :
          /\ x.frames[k] \in Seq(Byte)
          /\ Len(x.frames[k]) \in Nat /\ Len(x.frames[k]) >= 4
          /\ IsFrame(x.frames[k])

(* All of it holds of a readable stream.                                   *)
LEMMA Layout ==
    ASSUME NEW x, Readable(x), MaxBuffer \in Nat
    PROVE  SideBySide(x) /\ Ends(x) /\ Sizes(x)
  <1> DEFINE fs == x.frames
             n == Len(fs)
  <1>1. /\ x.noise \in Seq(Byte) /\ Len(x.noise) \in Nat
        /\ fs \in Seq(Seq(Byte)) /\ n \in Nat
        /\ \A k \in 1 .. n : fs[k] \in Seq(Byte) /\ Len(fs[k]) \in Nat
    BY LenProperties, ElementOfSeq DEF Readable, Octets, Byte
  <1>2. \A k \in 1 .. n : Len(fs[k]) >= 4 /\ IsFrame(fs[k])
    BY DEF Readable, IsFrame
  <1>3. PICK g : Concatenates(g, fs)
    BY <1>1, JoinExists
  <1>4. \A k \in 0 .. n : EndOf(x, k) = Len(x.noise) + Len(g[k])
    BY <1>1, <1>3, FlattenIsJoined DEF EndOf
  <1>5. AllOf(x) = x.noise \o g[n]
    <2>1. SubSeq(fs, 1, n) = fs
      BY <1>1, SubSeqFull
    <2>2. FlattenSeq(SubSeq(fs, 1, n)) = g[n]
      BY <1>1, <1>3, FlattenIsJoined
    <2> QED
      BY <2>1, <2>2 DEF AllOf
  <1>6. \A k \in 0 .. n : g[k] \in Seq(Byte) /\ Len(g[k]) \in Nat
    BY <1>3, LenProperties DEF Concatenates
  <1> HIDE DEF fs, n
  <1>7. /\ AllOf(x) \in Seq(Byte)
        /\ Len(AllOf(x)) = Len(x.noise) + Len(g[n])
        /\ \A i \in 1 .. Len(x.noise) : AllOf(x)[i] = x.noise[i]
        /\ \A i \in 1 .. Len(g[n]) : AllOf(x)[Len(x.noise) + i] = g[n][i]
    <2>1. g[n] \in Seq(Byte)
      BY <1>1, <1>6
    <2>2. Glued(AllOf(x), x.noise, g[n])
      BY <1>1, <1>5, <2>1, ConcatIs
    <2> QED
      BY <2>2 DEF Glued
  <1>8. ASSUME NEW k \in 1 .. n
        PROVE  /\ Len(g[k]) = Len(g[k - 1]) + Len(fs[k])
               /\ \A i \in 1 .. Len(fs[k]) : g[k][Len(g[k - 1]) + i] = fs[k][i]
    <2>1. k - 1 \in 0 .. n /\ k \in 0 .. n
      BY <1>1
    <2>2. g[k] = g[k - 1] \o fs[k]
      BY <1>3 DEF Concatenates, n
    <2>3. g[k - 1] \in Seq(Byte) /\ fs[k] \in Seq(Byte)
      BY <1>1, <1>6, <2>1
    <2>4. Glued(g[k], g[k - 1], fs[k])
      BY <2>2, <2>3, ConcatIs
    <2> QED
      BY <2>4 DEF Glued
  <1>9. Sizes(x)
    <2>1. Len(AllOf(x)) \in Nat /\ \A i \in 1 .. Len(AllOf(x)) : AllOf(x)[i] \in Byte
      BY <1>7, LenProperties, ElementOfSeq
    <2> QED
      BY <1>1, <1>2, <1>7, <2>1 DEF Sizes, fs, n
  <1>10. Ends(x)
    <2>1. \A k \in 0 .. n : EndOf(x, k) \in Nat
      <3>1. \A a, b \in Nat : a + b \in Nat
        OBVIOUS
      <3> QED
        BY <1>1, <1>4, <1>6, <3>1, Zenon
    <2>2. EndOf(x, 0) = Len(x.noise) /\ EndOf(x, n) = Len(AllOf(x))
      <3>1. Len(g[0]) = 0 /\ 0 \in 0 .. n /\ n \in 0 .. n
        BY <1>1, <1>3 DEF Concatenates
      <3>2. EndOf(x, 0) = Len(x.noise) + Len(g[0]) /\ EndOf(x, n) = Len(x.noise) + Len(g[n])
        BY <1>4, <3>1
      <3> QED
        BY <1>1, <1>7, <3>1, <3>2
    <2>3. ASSUME NEW k \in 1 .. n PROVE EndOf(x, k) = EndOf(x, k - 1) + Len(fs[k])
      <3>1. k - 1 \in 0 .. n /\ k \in 0 .. n
        BY <1>1
      <3>2. /\ EndOf(x, k) = Len(x.noise) + Len(g[k])
            /\ EndOf(x, k - 1) = Len(x.noise) + Len(g[k - 1])
            /\ Len(g[k - 1]) \in Nat /\ Len(fs[k]) \in Nat
        BY <1>1, <1>4, <1>6, <3>1
      <3>3. Len(g[k]) = Len(g[k - 1]) + Len(fs[k])
        BY <1>8, Zenon
      <3>4. \A a, b, c \in Nat : a + (b + c) = (a + b) + c
        OBVIOUS
      <3>5. Len(x.noise) + (Len(g[k - 1]) + Len(fs[k]))
               = (Len(x.noise) + Len(g[k - 1])) + Len(fs[k])
        BY <1>1, <3>2, <3>4, Zenon
      <3> QED
        BY <3>2, <3>3, <3>5, Zenon
    <2>4. ASSUME NEW j \in 0 .. n, NEW k \in 0 .. n, j < k PROVE EndOf(x, j) < EndOf(x, k)
      <3>1. k - 1 \in j .. n /\ k - 1 \in 0 .. n /\ k \in 1 .. n
        BY <1>1, <2>4
      <3>2. Len(g[j]) <= Len(g[k - 1]) /\ Len(g[j]) \in Nat /\ Len(g[k - 1]) \in Nat
        BY <1>1, <1>3, <3>1, JoinPrefix DEF n
      <3>3. EndOf(x, k) = EndOf(x, k - 1) + Len(fs[k]) /\ Len(fs[k]) >= 4
        BY <1>2, <2>3, <3>1
      <3>4. /\ EndOf(x, j) = Len(x.noise) + Len(g[j])
            /\ EndOf(x, k - 1) = Len(x.noise) + Len(g[k - 1])
        BY <1>4, <3>1
      <3>5. Len(fs[k]) \in Nat
        BY <1>1, <3>1
      <3>6. \A a, b, c, d \in Nat : b <= c /\ d >= 4 => a + b < (a + c) + d
        OBVIOUS
      <3> QED
        BY <1>1, <3>2, <3>3, <3>4, <3>5, <3>6, Zenon
    <2> QED
      BY <2>1, <2>2, <2>3, <2>4 DEF Ends, fs, n
  <1>11. SideBySide(x)
    <2>0. Len(g[n]) \in Nat
      BY <1>1, <1>6
    <2>1. \A i \in 1 .. Len(x.noise) : AllOf(x)[i] = x.noise[i]
      BY <1>7
    <2>2. ASSUME NEW k \in 1 .. n, NEW i \in 1 .. Len(fs[k])
          PROVE  AllOf(x)[EndOf(x, k - 1) + i] = fs[k][i]
      <3>1. k - 1 \in 0 .. n /\ k \in 0 .. n /\ n \in k .. n
        BY <1>1
      <3>2. /\ Len(g[k - 1]) \in Nat /\ Len(fs[k]) \in Nat
            /\ EndOf(x, k - 1) = Len(x.noise) + Len(g[k - 1])
        BY <1>1, <1>4, <1>6, <3>1
      <3>3. /\ Len(g[k]) <= Len(g[n])
            /\ \A h \in 1 .. Len(g[k]) : g[n][h] = g[k][h]
        BY <1>1, <1>3, <3>1, JoinPrefix DEF n
      <3>4. /\ Len(g[k]) = Len(g[k - 1]) + Len(fs[k])
            /\ g[k][Len(g[k - 1]) + i] = fs[k][i]
        BY <1>8
      <3>5. PICK at : at = Len(g[k - 1]) + i
        OBVIOUS
      <3>6. at \in 1 .. Len(g[k]) /\ at \in 1 .. Len(g[n])
        <4>1. \A a, b, c, d \in Nat : \A h \in 1 .. b :
                 d = a + b /\ d <= c => a + h \in 1 .. d /\ a + h \in 1 .. c
          OBVIOUS
        <4>2. Len(g[k]) \in Nat
          BY <1>6, <3>1
        <4> QED
          BY <2>0, <3>2, <3>3, <3>4, <3>5, <4>1, <4>2, Zenon
      <3>7. AllOf(x)[Len(x.noise) + at] = fs[k][i]
        BY <1>7, <3>3, <3>4, <3>5, <3>6
      <3>8. EndOf(x, k - 1) + i = Len(x.noise) + at
        <4>1. \A a, b \in Nat : (a + b) + i = a + (b + i)
          BY <3>2
        <4>2. (Len(x.noise) + Len(g[k - 1])) + i = Len(x.noise) + (Len(g[k - 1]) + i)
          BY <1>1, <3>2, <4>1, Zenon
        <4> QED
          BY <3>2, <3>5, <4>2, Zenon
      <3> QED
        BY <3>7, <3>8
    <2> QED
      BY <2>1, <2>2 DEF SideBySide, fs, n
  <1> QED
    BY <1>9, <1>10, <1>11

-----------------------------------------------------------------------------
(* The buffer.                                                             *)

(* The buffer b holds the last of the first p bytes of the stream x, of    *)
(* which k frames have been taken: what it has lost before is noise.       *)
Remains(x, k, b, p) ==
    /\ k \in 0 .. Len(x.frames) /\ p \in 0 .. Len(AllOf(x))
    /\ b \in Seq(Byte) /\ Len(b) \in 0 .. p
    /\ \A i \in 1 .. Len(b) : b[i] = AllOf(x)[p - Len(b) + i]
    /\ p - Len(b) <= EndOf(x, k)
    /\ k > 0 => p - Len(b) = EndOf(x, k)

(* No frame but the first k has come whole in p bytes.                     *)
NoMore(x, k, p) == \A j \in 0 .. Len(x.frames) : EndOf(x, j) <= p => j <= k

(* Noise may be dropped from the beginning of the buffer.                  *)
LEMMA SuffixRemains ==
    ASSUME NEW x, NEW k, NEW b, NEW p, Readable(x), MaxBuffer \in Nat, Remains(x, k, b, p),
           NEW l \in 1 .. Len(b) + 1, NEW h \in 0 .. Len(x.frames),
           (p - Len(b)) + (l - 1) <= EndOf(x, h),
           h > 0 => (p - Len(b)) + (l - 1) = EndOf(x, h)
    PROVE  Remains(x, h, From(b, l), p)
  <1>1. /\ b \in Seq(Byte) /\ Len(b) \in 0 .. p /\ p \in Nat /\ l \in Nat
    BY Layout DEF Remains, Sizes
  <1>2. /\ From(b, l) \in Seq(Byte) /\ Len(From(b, l)) = Len(b) - l + 1
        /\ \A i \in 1 .. Len(b) - l + 1 : From(b, l)[i] = b[l + i - 1]
    BY <1>1, FromIs
  <1>3. PICK c : c = From(b, l)
    OBVIOUS
  <1>4. PICK B \in Nat : B = Len(b) /\ B <= p
    BY <1>1
  <1>5. Len(c) = B - l + 1 /\ c \in Seq(Byte) /\ \A i \in 1 .. B - l + 1 : c[i] = b[l + i - 1]
    BY <1>2, <1>3, <1>4
  <1>6. p - Len(c) = (p - B) + (l - 1) /\ Len(c) \in 0 .. p
    <2>1. l \in 1 .. B + 1
      BY <1>4
    <2>2. \A q \in 1 .. B + 1 : p - (B - q + 1) = (p - B) + (q - 1) /\ B - q + 1 \in 0 .. p
      BY <1>1, <1>4
    <2> QED
      BY <1>5, <2>1, <2>2, Zenon
  <1>7. ASSUME NEW i \in 1 .. Len(c) PROVE c[i] = AllOf(x)[p - Len(c) + i]
    <2>1. /\ i \in 1 .. B - l + 1 /\ l + i - 1 \in 1 .. B
          /\ p - B + (l + i - 1) = p - Len(c) + i
      <3>1. PICK C \in Nat : C = Len(c) /\ C = B - l + 1
        BY <1>5, <1>6
      <3>2. l \in 1 .. B + 1 /\ i \in 1 .. C
        BY <1>4, <3>1
      <3>3. /\ i \in 1 .. B - l + 1 /\ l + i - 1 \in 1 .. B
            /\ p - B + (l + i - 1) = p - C + i
        BY <1>1, <1>4, <3>1, <3>2
      <3> QED
        BY <3>1, <3>3
    <2>2. c[i] = b[l + i - 1]
      BY <1>5, <2>1
    <2>3. \A j \in 1 .. B : b[j] = AllOf(x)[p - B + j]
      BY <1>4 DEF Remains
    <2> QED
      BY <2>1, <2>2, <2>3
  <1>8. p \in 0 .. Len(AllOf(x))
    BY DEF Remains
  <1>9. p - Len(c) <= EndOf(x, h) /\ (h > 0 => p - Len(c) = EndOf(x, h))
    BY <1>4, <1>6
  <1>10. Remains(x, h, c, p)
    BY <1>5, <1>6, <1>7, <1>8, <1>9 DEF Remains
  <1> QED
    BY <1>3, <1>10

(* A chunk goes behind what remains.                                       *)
LEMMA ChunkRemains ==
    ASSUME NEW x, NEW k, NEW b, NEW p, Readable(x), MaxBuffer \in Nat, Remains(x, k, b, p),
           NEW n \in Nat, p + n <= Len(AllOf(x))
    PROVE  Remains(x, k, b \o SubSeq(AllOf(x), p + 1, p + n), p + n)
  <1> DEFINE s == AllOf(x)
             t == SubSeq(s, p + 1, p + n)
  <1>1. /\ b \in Seq(Byte) /\ Len(b) \in 0 .. p /\ p \in Nat
        /\ s \in Seq(Byte) /\ Len(s) \in Nat /\ \A i \in 1 .. Len(s) : s[i] \in Byte
        /\ p + n \in 0 .. Len(s) /\ k \in 0 .. Len(x.frames)
    BY Layout DEF Remains, Sizes
  <1>2. /\ t \in Seq(Byte) /\ Len(t) = n
        /\ \A i \in 1 .. n : t[i] = s[p + i]
    <2>1. \A i \in p + 1 .. p + n : s[i] \in Byte
      BY <1>1
    <2>2. p + 1 \in Int /\ p + n \in Int
      BY <1>1
    <2> HIDE DEF s
    <2>3. /\ t \in Seq(Byte)
          /\ Len(t) = IF p + 1 <= p + n THEN (p + n) - (p + 1) + 1 ELSE 0
          /\ \A i \in 1 .. (p + n) - (p + 1) + 1 : t[i] = s[(p + 1) + i - 1]
      BY <2>1, <2>2, SubSeqProperties
    <2> HIDE DEF t
    <2>4. \A i \in 1 .. n : i \in 1 .. (p + n) - (p + 1) + 1 /\ (p + 1) + i - 1 = p + i
      BY <1>1
    <2>5. (IF p + 1 <= p + n THEN (p + n) - (p + 1) + 1 ELSE 0) = n
      BY <1>1
    <2>6. Len(t) = n
      <3>1. Len(t) = IF p + 1 <= p + n THEN (p + n) - (p + 1) + 1 ELSE 0
        BY <2>3
      <3> QED
        BY <2>5, <3>1
    <2>7. ASSUME NEW i \in 1 .. n PROVE t[i] = s[p + i]
      <3>1. t[i] = s[(p + 1) + i - 1]
        BY <2>3, <2>4, Zenon
      <3> QED
        BY <2>4, <3>1
    <2> QED
      BY <2>3, <2>6, <2>7
  <1> HIDE DEF t
  <1>3. PICK c : c = b \o t
    OBVIOUS
  <1>4. Glued(c, b, t)
    BY <1>1, <1>2, <1>3, ConcatIs
  <1>5. PICK B \in Nat : B = Len(b) /\ B <= p
    BY <1>1
  <1>6. c \in Seq(Byte) /\ Len(c) = B + n /\ (p + n) - Len(c) = p - B
    BY <1>1, <1>2, <1>4, <1>5 DEF Glued
  <1>7. ASSUME NEW i \in 1 .. Len(c) PROVE c[i] = s[(p + n) - Len(c) + i]
    <2>1. CASE i <= B
      <3>1. i \in 1 .. B /\ (p + n) - Len(c) + i = p - B + i
        BY <1>1, <1>5, <1>6, <2>1
      <3>2. c[i] = b[i]
        BY <1>4, <1>5, <3>1 DEF Glued
      <3>3. b[i] = s[p - B + i]
        BY <1>5, <3>1 DEF Remains
      <3> QED
        BY <3>1, <3>2, <3>3
    <2>2. CASE ~(i <= B)
      <3>1. PICK h \in 1 .. n : i = B + h
        <4>1. i - B \in 1 .. n /\ i = B + (i - B)
          BY <1>5, <1>6, <2>2
        <4> QED
          BY <4>1
      <3>2. c[i] = t[h]
        BY <1>2, <1>4, <1>5, <3>1 DEF Glued
      <3>3. t[h] = s[p + h]
        BY <1>2
      <3>4. (p + n) - Len(c) + i = p + h
        BY <1>1, <1>5, <1>6, <3>1
      <3> QED
        BY <3>2, <3>3, <3>4
    <2> QED
      BY <2>1, <2>2
  <1>8. (p + n) - Len(c) <= EndOf(x, k) /\ (k > 0 => (p + n) - Len(c) = EndOf(x, k))
    BY <1>5, <1>6 DEF Remains
  <1>9. Len(c) \in 0 .. (p + n)
    BY <1>1, <1>5, <1>6
  <1>10. Remains(x, k, c, p + n)
    BY <1>1, <1>6, <1>7, <1>8, <1>9 DEF Remains
  <1> QED
    BY <1>3, <1>10 DEF t

(* What a frame begins with.                                               *)
LEMMA FrameBegins ==
    ASSUME NEW f \in Seq(Byte), IsFrame(f)
    PROVE  /\ f[1] = Byte78 => IsShort(f)
           /\ f[1] = Byte79 => IsLong(f)
           /\ f[1] = Delimiter => IsJt808(f)
           /\ f[1] \in {Text[1], Handshake[1]} => IsText(f)
           /\ f[1] \in {Byte78, Byte79, Delimiter, Text[1], Handshake[1]}
  <1>1. IsText(f) => f[1] \in {Text[1], Handshake[1]}
    <2>1. IsPrefix(Text, f) => f[1] = Text[1]
      BY PrefixIs, Texts
    <2>2. IsPrefix(Handshake, f) => f[1] = Handshake[1]
      BY PrefixIs, Texts
    <2> QED
      BY <2>1, <2>2 DEF IsText
  <1> QED
    BY <1>1, Texts DEF IsFrame, IsShort, IsLong, IsJt808, Byte78, Byte79, Delimiter

(* The buffer begins with the next frame.                                  *)
AtFrame(x, k, b, p) == k < Len(x.frames) /\ p - Len(b) = EndOf(x, k) /\ Len(b) > 0

(* The buffer is too short to tell whether a text begins with it.          *)
ShortTail(x, k, b, p) ==
    /\ k = 0 /\ Len(b) \in 1 .. 4 /\ p - Len(b) < EndOf(x, 0)
    /\ b[1] \in {Text[1], Handshake[1]}
    /\ \A i \in 1 .. Len(b) : b[i] # Semicolon

(* Which bytes of the next frame are in the buffer.                        *)
LEMMA FrameInBuffer ==
    ASSUME NEW x, NEW k, NEW b, NEW p, Readable(x), MaxBuffer \in Nat, Remains(x, k, b, p),
           k < Len(x.frames), NEW i \in 1 .. Len(x.frames[k + 1]),
           NEW at \in 1 .. Len(b), (p - Len(b)) + at = EndOf(x, k) + i
    PROVE  b[at] = x.frames[k + 1][i]
  <1>1. Len(x.frames) \in Nat /\ k \in Nat /\ p \in Nat /\ Len(b) \in 0 .. p
    BY Layout DEF Remains, Sizes
  <1>2. k + 1 \in 1 .. Len(x.frames) /\ (k + 1) - 1 = k
    BY <1>1
  <1>3. AllOf(x)[EndOf(x, k) + i] = x.frames[k + 1][i]
    <2>1. AllOf(x)[EndOf(x, (k + 1) - 1) + i] = x.frames[k + 1][i]
      BY <1>2, Layout, Zenon DEF SideBySide
    <2> QED
      BY <1>2, <2>1, Zenon
  <1>4. b[at] = AllOf(x)[p - Len(b) + at]
    BY DEF Remains
  <1> QED
    BY <1>3, <1>4

(* The first byte of a frame is a start, however little of it has come.    *)
LEMMA FrameIsStart ==
    ASSUME NEW x, NEW k, NEW b, NEW p, Readable(x), MaxBuffer \in Nat, Remains(x, k, b, p),
           k < Len(x.frames), NEW l \in 1 .. Len(b), (p - Len(b)) + l = EndOf(x, k) + 1
    PROVE  l \in Starts(b)
  <1> DEFINE f == x.frames[k + 1]
  <1>1. Len(x.frames) \in Nat /\ k \in Nat /\ p \in Nat /\ Len(b) \in 0 .. p /\ b \in Seq(Byte)
    BY Layout DEF Remains, Sizes
  <1>2. f \in Seq(Byte) /\ Len(f) \in Nat /\ Len(f) >= 4 /\ IsFrame(f)
    <2>1. k + 1 \in 1 .. Len(x.frames)
      BY <1>1
    <2> QED
      BY <2>1, Layout DEF Sizes
  <1>3. PICK B \in Nat : B = Len(b) /\ B <= p
    BY <1>1
  <1>4. PICK e \in Nat : e = EndOf(x, k)
    <2>1. k \in 0 .. Len(x.frames)
      BY <1>1
    <2> QED
      BY <2>1, Layout DEF Ends
  <1> HIDE DEF f
  <1>5. ASSUME NEW i \in 1 .. Len(f), l + i - 1 <= B PROVE b[l + i - 1] = f[i]
    <2>1. l + i - 1 \in 1 .. Len(b) /\ (p - Len(b)) + (l + i - 1) = EndOf(x, k) + i
      <3>1. l \in Nat /\ i \in Nat /\ (p - B) + l = e + 1
        BY <1>1, <1>2, <1>3, <1>4
      <3> QED
        BY SMTT(30), <1>1, <1>3, <1>4, <1>5, <3>1
    <2> QED
      BY <2>1, FrameInBuffer DEF f
  <1>6. b[l] = f[1]
    <2>1. 1 \in 1 .. Len(f) /\ l + 1 - 1 = l /\ l <= B
      BY <1>2, <1>3
    <2> QED
      BY <1>5, <2>1
  <1>7. f[1] \in {Byte78, Byte79, Delimiter, Text[1], Handshake[1]}
    BY <1>2, FrameBegins
  <1>8. CASE f[1] \in {Text[1], Handshake[1]}
    <2>1. IsPrefix(Text, f) \/ IsPrefix(Handshake, f)
      BY <1>2, <1>8, FrameBegins DEF IsText
    <2>2. /\ From(b, l) \in Seq(Byte) /\ Len(From(b, l)) = B - l + 1
          /\ \A i \in 1 .. B - l + 1 : From(b, l)[i] = b[l + i - 1]
      <3>1. l \in 1 .. Len(b) + 1
        BY <1>1
      <3> QED
        BY <1>1, <1>3, <3>1, FromIs
    <2>3. ASSUME B - l + 1 >= 5, NEW w \in Seq(Byte), Len(w) \in {2, 5}, IsPrefix(w, f)
          PROVE  IsPrefix(w, From(b, l))
      <3>1. Len(w) <= Len(f) /\ \A i \in 1 .. Len(w) : w[i] = f[i]
        BY <1>2, <2>3, PrefixIs
      <3>2. \A i \in 1 .. Len(w) : From(b, l)[i] = w[i]
        <4> SUFFICES ASSUME NEW i \in 1 .. Len(w) PROVE From(b, l)[i] = w[i]
          OBVIOUS
        <4>1. i \in 1 .. B - l + 1 /\ i \in 1 .. Len(f) /\ l + i - 1 <= B
          <5>1. l \in Nat /\ Len(w) \in Nat /\ Len(w) <= 5 /\ Len(w) <= Len(f)
            <6>1. \A m \in {2, 5} : m \in Nat /\ m <= 5
              OBVIOUS
            <6>2. l \in Nat
              BY <1>1
            <6> QED
              BY <2>3, <3>1, <6>1, <6>2, Zenon
          <5> QED
            BY <1>2, <1>3, <2>3, <5>1
        <4> QED
          BY <1>5, <2>2, <3>1, <4>1
      <3>3. Len(w) <= Len(From(b, l))
        BY SMTT(30), <1>3, <2>2, <2>3
      <3> QED
        BY <2>2, <3>2, <3>3, PrefixIs
    <2>4. B - l + 1 >= 5 \/ Len(From(b, l)) < Len(Text)
      BY <1>3, <2>2, Texts
    <2>5. MayBeText(b, l)
      BY <1>6, <1>8, <2>1, <2>3, <2>4, Texts DEF MayBeText
    <2> QED
      BY <2>5 DEF Starts
  <1>9. CASE f[1] \in {Byte78, Byte79, Delimiter}
    BY <1>6, <1>9 DEF Starts
  <1> QED
    BY <1>7, <1>8, <1>9

(* From the first start of b on.                                           *)
RestOf(b) == From(b, CHOOSE i \in Starts(b) : \A j \in Starts(b) : i <= j)

(* There is a first start.                                                 *)
LEMMA FirstStart ==
    ASSUME NEW b \in Seq(Byte), Starts(b) # {}
    PROVE  \E l \in Starts(b) : (\A j \in Starts(b) : l <= j) /\ RestOf(b) = From(b, l)
  <1> DEFINE l == CHOOSE i \in Starts(b) : \A j \in Starts(b) : i <= j
  <1>1. Starts(b) \in SUBSET Nat
    BY LenProperties DEF Starts
  <1>2. \E i \in Starts(b) : \A j \in Starts(b) : i <= j
    BY <1>1, LeastNumber
  <1>3. l \in Starts(b) /\ \A j \in Starts(b) : l <= j
    BY <1>2
  <1> QED
    BY <1>3 DEF RestOf

(* A start in the noise is the beginning of a text that cannot be told     *)
(* yet.                                                                    *)
LEMMA NoiseStart ==
    ASSUME NEW x, NEW k, NEW b, NEW p, Readable(x), MaxBuffer \in Nat, Remains(x, k, b, p),
           NEW l \in Starts(b), (p - Len(b)) + l <= Len(x.noise)
    PROVE  /\ b[l] \in {Text[1], Handshake[1]}
           /\ Len(b) - l + 1 \in 1 .. 4
           /\ \A i \in 1 .. Len(b) : i >= l => b[i] # Semicolon
  <1> DEFINE s == AllOf(x)
  <1>1. /\ p \in 0 .. Len(s) /\ p \in Nat /\ Len(b) \in 0 .. p /\ b \in Seq(Byte)
        /\ s \in Seq(Byte) /\ Len(s) \in Nat /\ Len(x.noise) \in Nat
        /\ l \in 1 .. Len(b)
    BY Layout DEF Remains, Sizes, Starts
  <1>2. PICK B \in Nat : B = Len(b) /\ B <= p
    BY <1>1
  <1>3. PICK at \in Nat : at = (p - B) + l
    BY <1>1, <1>2
  <1>4. \A i \in 1 .. B : b[i] = s[p - B + i]
    BY <1>2 DEF Remains
  <1> HIDE DEF s
  <1>5. at \in 1 .. Len(x.noise) /\ at \in 1 .. Len(s)
    BY <1>1, <1>2, <1>3
  <1>6. Quiet(s, at)
    BY <1>5 DEF Readable, s
  <1>7. b[l] = s[at]
    BY <1>1, <1>2, <1>3, <1>4
  <1>8. b[l] \in {Text[1], Handshake[1]} /\ MayBeText(b, l)
    BY <1>6, <1>7 DEF Starts, MayBeText, Quiet
  <1>9. /\ From(b, l) \in Seq(Byte) /\ Len(From(b, l)) = B - l + 1
        /\ \A i \in 1 .. B - l + 1 : From(b, l)[i] = b[l + i - 1]
    <2>1. l \in 1 .. Len(b) + 1
      BY <1>1
    <2> QED
      BY <1>1, <1>2, <2>1, FromIs
  <1>10. /\ From(s, at) \in Seq(Byte) /\ Len(From(s, at)) = Len(s) - at + 1
         /\ \A i \in 1 .. Len(s) - at + 1 : From(s, at)[i] = s[at + i - 1]
    <2>1. at \in 1 .. Len(s) + 1
      BY <1>1, <1>5
    <2> QED
      BY <1>1, <2>1, FromIs
  <1>11. B - l + 1 <= Len(s) - at + 1 /\ B - l + 1 \in Nat
    BY <1>1, <1>2, <1>3
  <1>12. ASSUME NEW w \in Seq(Byte), IsPrefix(w, From(b, l)) PROVE IsPrefix(w, From(s, at))
    <2>1. /\ Len(w) \in Nat /\ Len(w) <= B - l + 1
          /\ \A i \in 1 .. Len(w) : w[i] = From(b, l)[i]
      BY <1>9, <1>12, PrefixIs, LenProperties
    <2>2. ASSUME NEW i \in 1 .. Len(w) PROVE w[i] = From(s, at)[i]
      <3>1. /\ i \in 1 .. B - l + 1 /\ i \in 1 .. Len(s) - at + 1
            /\ l + i - 1 \in 1 .. B /\ p - B + (l + i - 1) = at + i - 1
        BY <1>1, <1>2, <1>3, <1>11, <2>1
      <3>2. w[i] = b[l + i - 1]
        BY <1>9, <2>1, <3>1
      <3>3. From(s, at)[i] = s[at + i - 1]
        BY <1>10, <3>1
      <3>4. b[l + i - 1] = s[at + i - 1]
        BY <1>4, <3>1
      <3> QED
        BY <3>2, <3>3, <3>4
    <2>3. Len(w) <= Len(From(s, at))
      BY <1>1, <1>5, <1>10, <1>11, <2>1
    <2> QED
      BY <1>10, <2>2, <2>3, PrefixIs
  <1>13. Len(From(b, l)) < Len(Text)
    <2>1. ~IsPrefix(Text, From(s, at)) /\ ~IsPrefix(Handshake, From(s, at))
      BY <1>6, <1>7, <1>8 DEF Quiet
    <2>2. ~IsPrefix(Text, From(b, l)) /\ ~IsPrefix(Handshake, From(b, l))
      BY <1>12, <2>1, Texts
    <2> QED
      BY <1>8, <2>2 DEF MayBeText
  <1>14. Len(b) - l + 1 \in 1 .. 4
    <2>1. l \in 1 .. B /\ B - l + 1 < 5
      BY <1>1, <1>2, <1>9, <1>13, Texts, Zenon
    <2>2. \A q \in 1 .. B : B - q + 1 < 5 => B - q + 1 \in 1 .. 4
      OBVIOUS
    <2> QED
      BY <1>2, <2>1, <2>2, Zenon
  <1>15. ASSUME NEW i \in 1 .. Len(b), i >= l PROVE b[i] # Semicolon
    <2>1. b[i] = s[p - B + i]
      BY <1>2, <1>4
    <2>2. CASE i = l
      BY <1>8, <2>2, Texts DEF Semicolon
    <2>3. CASE i # l
      <3>1. p - B + i \in 1 .. Len(s) /\ (p - B + i) - at \in 1 .. 3
        BY <1>1, <1>2, <1>3, <1>14, <1>15, <2>3
      <3>2. \A j \in 1 .. Len(s) : j - at \in 1 .. 3 => s[j] # Semicolon
        BY <1>6, <1>7, <1>8 DEF Quiet
      <3> QED
        BY <2>1, <3>1, <3>2
    <2> QED
      BY <2>2, <2>3
  <1> QED
    BY <1>8, <1>14, <1>15

(* The first start is the next frame, unless the buffer ends in noise that *)
(* may yet turn out to be a text.                                          *)
LEMMA RestIs ==
    ASSUME NEW x, NEW k, NEW b, NEW p, Readable(x), MaxBuffer \in Nat, Remains(x, k, b, p),
           Starts(b) # {}
    PROVE  /\ Remains(x, k, RestOf(b), p)
           /\ AtFrame(x, k, RestOf(b), p) \/ ShortTail(x, k, RestOf(b), p)
  <1>1. /\ p \in 0 .. Len(AllOf(x)) /\ p \in Nat /\ Len(b) \in 0 .. p /\ b \in Seq(Byte)
        /\ k \in 0 .. Len(x.frames) /\ Len(x.frames) \in Nat /\ k \in Nat
    BY Layout DEF Remains, Sizes
  <1>2. PICK l \in Starts(b) : (\A j \in Starts(b) : l <= j) /\ RestOf(b) = From(b, l)
    BY <1>1, FirstStart
  <1>3. l \in 1 .. Len(b) /\ l \in 1 .. Len(b) + 1
    BY <1>1 DEF Starts
  <1>4. PICK B \in Nat : B = Len(b) /\ B <= p
    BY <1>1
  <1>5. PICK e \in Nat : e = EndOf(x, k)
    BY <1>1, Layout DEF Ends
  <1>6. p - B <= e /\ (k > 0 => p - B = e)
    BY <1>4, <1>5 DEF Remains
  <1>7. PICK r : r = RestOf(b)
    OBVIOUS
  <1>8. /\ r \in Seq(Byte) /\ Len(r) = B - l + 1
        /\ \A i \in 1 .. B - l + 1 : r[i] = b[l + i - 1]
    BY <1>1, <1>2, <1>3, <1>4, <1>7, FromIs
  <1>9. p - Len(r) = (p - B) + (l - 1) /\ Len(r) > 0
    <2>1. l \in 1 .. B
      BY <1>3, <1>4
    <2>2. \A q \in 1 .. B : p - (B - q + 1) = (p - B) + (q - 1) /\ B - q + 1 > 0
      BY <1>1, <1>4
    <2> QED
      BY <1>8, <2>1, <2>2, Zenon
  <1>10. EndOf(x, 0) = Len(x.noise) /\ Len(x.noise) \in Nat
         /\ EndOf(x, Len(x.frames)) = Len(AllOf(x)) /\ Len(AllOf(x)) \in Nat
    BY Layout DEF Ends, Sizes
  <1>11. CASE (p - B) + l <= e
    <2>1. k = 0
      BY <1>1, <1>3, <1>4, <1>6, <1>11
    <2>2. /\ b[l] \in {Text[1], Handshake[1]}
          /\ B - l + 1 \in 1 .. 4
          /\ \A i \in 1 .. B : i >= l => b[i] # Semicolon
      BY <1>4, <1>5, <1>10, <1>11, <2>1, NoiseStart
    <2>3. Remains(x, k, r, p)
      <3>1. (p - B) + (l - 1) <= e
        BY <1>1, <1>3, <1>4, <1>11
      <3>2. ~(k > 0)
        BY <2>1
      <3> QED
        BY <1>1, <1>2, <1>3, <1>4, <1>5, <1>7, <3>1, <3>2, SuffixRemains
    <2>4. \A i \in 1 .. Len(r) : r[i] # Semicolon
      <3> SUFFICES ASSUME NEW i \in 1 .. Len(r) PROVE r[i] # Semicolon
        OBVIOUS
      <3>1. i \in 1 .. B - l + 1 /\ l + i - 1 \in 1 .. B /\ l + i - 1 >= l
        BY <1>1, <1>3, <1>4, <1>8
      <3> QED
        BY <1>8, <2>2, <3>1
    <2>5. r[1] = b[l]
      <3>1. 1 \in 1 .. B - l + 1 /\ l + 1 - 1 = l
        BY <1>1, <1>3, <1>4
      <3> QED
        BY <1>8, <3>1
    <2>6. p - Len(r) < e
      BY <1>1, <1>3, <1>4, <1>9, <1>11
    <2>7. ShortTail(x, k, r, p)
      BY <1>5, <1>8, <2>1, <2>2, <2>4, <2>5, <2>6 DEF ShortTail
    <2> QED
      BY <1>7, <2>3, <2>7
  <1>12. CASE ~((p - B) + l <= e)
    <2>1. k < Len(x.frames)
      <3> SUFFICES ASSUME k = Len(x.frames) PROVE FALSE
        BY <1>1
      <3>1. e = Len(AllOf(x))
        BY <1>5, <1>10
      <3> QED
        BY <1>1, <1>3, <1>4, <1>10, <1>12, <3>1
    <2>2. PICK m \in 1 .. B : (p - B) + m = e + 1
      <3>1. e + 1 - (p - B) \in 1 .. B /\ (p - B) + (e + 1 - (p - B)) = e + 1
        BY <1>1, <1>3, <1>4, <1>6, <1>12
      <3> QED
        BY <3>1
    <2>3. m \in Starts(b)
      BY <1>4, <1>5, <2>1, <2>2, FrameIsStart
    <2>4. l = m
      <3>1. l <= m
        BY <1>2, <2>3
      <3> QED
        BY <1>1, <1>3, <1>4, <1>12, <2>2, <3>1
    <2>5. (p - B) + (l - 1) = e
      BY <1>1, <1>3, <1>4, <2>2, <2>4
    <2>6. Remains(x, k, r, p)
      <3>1. (p - B) + (l - 1) <= e
        BY <2>5
      <3> QED
        BY <1>1, <1>2, <1>3, <1>4, <1>5, <1>7, <2>5, <3>1, SuffixRemains
    <2>7. AtFrame(x, k, r, p)
      BY <1>5, <1>9, <2>1, <2>5 DEF AtFrame
    <2> QED
      BY <1>7, <2>6, <2>7
  <1> QED
    BY <1>11, <1>12

(* A frame that has not come whole is the next to come.                    *)
LEMMA NotYet ==
    ASSUME NEW x, NEW k \in 0 .. Len(x.frames), NEW p \in Nat, Readable(x), MaxBuffer \in Nat,
           k < Len(x.frames) => p < EndOf(x, k + 1)
    PROVE  NoMore(x, k, p)
  <1>1. Len(x.frames) \in Nat /\ k \in Nat
    BY Layout DEF Sizes
  <1> SUFFICES ASSUME NEW j \in 0 .. Len(x.frames), EndOf(x, j) <= p, ~(j <= k) PROVE FALSE
    BY DEF NoMore
  <1>2. k < Len(x.frames) /\ k + 1 \in 0 .. Len(x.frames) /\ (j = k + 1 \/ k + 1 < j)
    BY <1>1
  <1>3. EndOf(x, j) \in Nat /\ EndOf(x, k + 1) \in Nat
    BY <1>2, Layout DEF Ends
  <1>4. k + 1 < j => EndOf(x, k + 1) < EndOf(x, j)
    BY <1>2, Layout DEF Ends
  <1> QED
    BY <1>2, <1>3, <1>4

(* Where nothing begins, no frame is waiting, and only noise is dropped.   *)
LEMMA NoStartRemains ==
    ASSUME NEW x, NEW k, NEW b, NEW p, Readable(x), MaxBuffer \in Nat, Remains(x, k, b, p),
           Starts(b) = {}
    PROVE  /\ NoMore(x, k, p)
           /\ Remains(x, k, IF Len(b) > Kept THEN From(b, Len(b) - Kept + 1) ELSE b, p)
  <1>1. /\ p \in 0 .. Len(AllOf(x)) /\ p \in Nat /\ Len(b) \in 0 .. p /\ b \in Seq(Byte)
        /\ k \in 0 .. Len(x.frames) /\ Len(x.frames) \in Nat /\ k \in Nat
    BY Layout DEF Remains, Sizes
  <1>2. PICK B \in Nat : B = Len(b) /\ B <= p
    BY <1>1
  <1>3. PICK e \in Nat : e = EndOf(x, k)
    BY <1>1, Layout DEF Ends
  <1>4. p - B <= e /\ (k > 0 => p - B = e)
    BY <1>2, <1>3 DEF Remains
  <1>5. k < Len(x.frames) => p <= e
    <2> SUFFICES ASSUME k < Len(x.frames), ~(p <= e) PROVE FALSE
      OBVIOUS
    <2>1. PICK m \in 1 .. B : (p - B) + m = e + 1
      <3>1. e + 1 - (p - B) \in 1 .. B /\ (p - B) + (e + 1 - (p - B)) = e + 1
        BY <1>1, <1>2, <1>4
      <3> QED
        BY <3>1
    <2>2. m \in Starts(b)
      BY <1>2, <1>3, <2>1, FrameIsStart
    <2> QED
      BY <2>2
  <1>6. k = Len(x.frames) => p <= e
    <2>1. EndOf(x, Len(x.frames)) = Len(AllOf(x)) /\ Len(AllOf(x)) \in Nat
      BY Layout DEF Ends, Sizes
    <2> QED
      BY <1>1, <1>3, <2>1
  <1>7. p <= e
    BY <1>1, <1>5, <1>6
  <1>8. NoMore(x, k, p)
    <2>1. ASSUME k < Len(x.frames) PROVE p < EndOf(x, k + 1)
      <3>1. k + 1 \in 0 .. Len(x.frames)
        BY <1>1, <2>1
      <3>2. EndOf(x, k) < EndOf(x, k + 1) /\ EndOf(x, k + 1) \in Nat
        BY <1>1, <3>1, Layout DEF Ends
      <3> QED
        BY <1>1, <1>3, <1>7, <3>2
    <2> QED
      BY <1>1, <2>1, NotYet
  <1>9. CASE Len(b) > Kept
    <2>1. k = 0
      BY <1>1, <1>2, <1>4, <1>7, <1>9 DEF Kept
    <2>2. PICK l \in 1 .. Len(b) + 1 : l = Len(b) - Kept + 1
      BY <1>1, <1>2, <1>9 DEF Kept
    <2>3. (p - B) + (l - 1) <= e
      BY <1>1, <1>2, <1>7, <1>9, <2>2 DEF Kept
    <2>4. Remains(x, k, From(b, l), p)
      <3>1. ~(k > 0)
        BY <2>1
      <3> QED
        BY <1>1, <1>2, <1>3, <2>3, <3>1, SuffixRemains
    <2> QED
      BY <1>8, <1>9, <2>2, <2>4
  <1> QED
    BY <1>8, <1>9

(* The bytes of r are those of the frame f, as far as they go.             *)
Begun(r, f) == \A i \in 1 .. Len(r) : i <= Len(f) => r[i] = f[i]

(* What the buffer begins with, at a frame.                                *)
LEMMA FrameBegun ==
    ASSUME NEW x, NEW k, NEW r, NEW p, Readable(x), MaxBuffer \in Nat, Remains(x, k, r, p),
           AtFrame(x, k, r, p)
    PROVE  /\ k + 1 \in 1 .. Len(x.frames)
           /\ r \in Seq(Byte) /\ Len(r) \in Nat /\ Len(r) > 0
           /\ x.frames[k + 1] \in Seq(Byte) /\ Len(x.frames[k + 1]) \in Nat
           /\ IsFrame(x.frames[k + 1])
           /\ Begun(r, x.frames[k + 1])
  <1>1. /\ p \in Nat /\ Len(r) \in 0 .. p /\ r \in Seq(Byte)
        /\ k \in 0 .. Len(x.frames) /\ Len(x.frames) \in Nat /\ k \in Nat
    BY Layout DEF Remains, Sizes
  <1>2. k < Len(x.frames) /\ p - Len(r) = EndOf(x, k) /\ Len(r) > 0
    BY DEF AtFrame
  <1>3. k + 1 \in 1 .. Len(x.frames)
    BY <1>1, <1>2
  <1>4. /\ x.frames[k + 1] \in Seq(Byte) /\ Len(x.frames[k + 1]) \in Nat
        /\ IsFrame(x.frames[k + 1])
    BY <1>3, Layout DEF Sizes
  <1>5. ASSUME NEW i \in 1 .. Len(r), i <= Len(x.frames[k + 1])
        PROVE  r[i] = x.frames[k + 1][i]
    <2>1. i \in 1 .. Len(x.frames[k + 1])
      BY <1>1, <1>4, <1>5
    <2>2. (p - Len(r)) + i = EndOf(x, k) + i
      BY <1>2
    <2> QED
      BY <1>2, <2>1, <2>2, FrameInBuffer
  <1> QED
    BY <1>1, <1>2, <1>3, <1>4, <1>5 DEF Begun

(* A frame whose bytes are missing has not come whole.                     *)
LEMMA FrameIsAwaited ==
    ASSUME NEW x, NEW k, NEW r, NEW p, Readable(x), MaxBuffer \in Nat, Remains(x, k, r, p),
           AtFrame(x, k, r, p), Len(r) < Len(x.frames[k + 1])
    PROVE  NoMore(x, k, p)
  <1>1. /\ p \in Nat /\ Len(r) \in 0 .. p
        /\ k \in 0 .. Len(x.frames) /\ Len(x.frames) \in Nat /\ k \in Nat
        /\ p - Len(r) = EndOf(x, k)
    BY Layout DEF Remains, Sizes, AtFrame
  <1>2. k + 1 \in 1 .. Len(x.frames) /\ (k + 1) - 1 = k
    BY <1>1 DEF AtFrame
  <1>3. EndOf(x, k + 1) = EndOf(x, k) + Len(x.frames[k + 1]) /\ Len(x.frames[k + 1]) \in Nat
    <2>1. EndOf(x, k + 1) = EndOf(x, (k + 1) - 1) + Len(x.frames[k + 1])
      BY <1>2, Layout DEF Ends
    <2> QED
      BY <1>2, <2>1, Layout DEF Sizes
  <1>4. PICK L \in Nat : L = Len(x.frames[k + 1])
    BY <1>3
  <1>5. p < EndOf(x, k + 1)
    BY <1>1, <1>3, <1>4
  <1> QED
    BY <1>1, <1>5, NotYet

(* A frame that is in the buffer is taken out of it.                       *)
LEMMA FrameIsTaken ==
    ASSUME NEW x, NEW k, NEW r, NEW p, Readable(x), MaxBuffer \in Nat, Remains(x, k, r, p),
           AtFrame(x, k, r, p), Len(x.frames[k + 1]) <= Len(r)
    PROVE  /\ SubSeq(r, 1, Len(x.frames[k + 1])) = x.frames[k + 1]
           /\ Remains(x, k + 1, From(r, Len(x.frames[k + 1]) + 1), p)
  <1> DEFINE f == x.frames[k + 1]
  <1>1. /\ p \in Nat /\ Len(r) \in 0 .. p
        /\ k \in 0 .. Len(x.frames) /\ Len(x.frames) \in Nat /\ k \in Nat
        /\ p - Len(r) = EndOf(x, k)
    BY Layout DEF Remains, Sizes, AtFrame
  <1>2. /\ k + 1 \in 1 .. Len(x.frames) /\ (k + 1) - 1 = k
        /\ r \in Seq(Byte) /\ f \in Seq(Byte) /\ Len(f) \in Nat /\ Begun(r, f)
    BY <1>1, FrameBegun
  <1>3. EndOf(x, k + 1) = EndOf(x, k) + Len(f)
    <2>1. EndOf(x, k + 1) = EndOf(x, (k + 1) - 1) + Len(f)
      BY <1>2, Layout DEF Ends
    <2> QED
      BY <1>2, <2>1
  <1>4. Len(f) <= Len(r)
    OBVIOUS
  <1> HIDE DEF f
  <1>5. PICK L \in Nat : L = Len(f) /\ L <= Len(r)
    BY <1>2, <1>4
  <1>6. SubSeq(r, 1, L) = f
    <2> DEFINE u == SubSeq(r, 1, L)
    <2>1. \A i \in 1 .. L : r[i] = f[i] /\ r[i] \in Byte
      BY <1>1, <1>2, <1>5, ElementOfSeq DEF Begun
    <2>2. /\ u \in Seq(Byte)
          /\ Len(u) = IF 1 <= L THEN L - 1 + 1 ELSE 0
          /\ \A i \in 1 .. L - 1 + 1 : u[i] = r[1 + i - 1]
      BY <2>1, SubSeqProperties
    <2>3. \A i \in 1 .. L : i \in 1 .. L - 1 + 1 /\ 1 + i - 1 = i
      OBVIOUS
    <2> HIDE DEF u
    <2>4. Len(u) = Len(f) /\ \A i \in 1 .. Len(u) : u[i] = f[i]
      BY <1>5, <2>1, <2>2, <2>3
    <2>5. u = f
      BY <1>2, <2>2, <2>4, SeqEqual
    <2> QED
      BY <2>5 DEF u
  <1>7. Remains(x, k + 1, From(r, L + 1), p)
    <2>1. L + 1 \in 1 .. Len(r) + 1 /\ (p - Len(r)) + ((L + 1) - 1) = EndOf(x, k + 1)
      <3>1. Len(r) \in Nat /\ EndOf(x, k) \in Nat
        BY <1>1, Layout DEF Ends
      <3> QED
        BY <1>1, <1>3, <1>5, <3>1
    <2>2. EndOf(x, k + 1) \in Nat /\ k + 1 \in 0 .. Len(x.frames)
      BY <1>2, Layout DEF Ends
    <2> QED
      BY <1>2, <2>1, <2>2, SuffixRemains
  <1> QED
    BY <1>5, <1>6, <1>7 DEF f

(* A short tail of noise hides no whole frame.                             *)
LEMMA TailIsAwaited ==
    ASSUME NEW x, NEW k, NEW r, NEW p, Readable(x), MaxBuffer \in Nat, Remains(x, k, r, p),
           ShortTail(x, k, r, p)
    PROVE  NoMore(x, k, p)
  <1>1. /\ p \in Nat /\ Len(r) \in 0 .. p
        /\ k \in 0 .. Len(x.frames) /\ Len(x.frames) \in Nat /\ k = 0
        /\ p - Len(r) < EndOf(x, 0) /\ Len(r) \in 1 .. 4
    BY Layout DEF Remains, Sizes, ShortTail
  <1>2. ASSUME k < Len(x.frames) PROVE p < EndOf(x, k + 1)
    <2>1. 1 \in 1 .. Len(x.frames) /\ 1 - 1 = 0 /\ k + 1 = 1 /\ 0 \in 0 .. Len(x.frames)
      BY <1>1, <1>2
    <2>2. EndOf(x, 1) = EndOf(x, 0) + Len(x.frames[1])
      <3>1. EndOf(x, 1) = EndOf(x, 1 - 1) + Len(x.frames[1])
        BY <2>1, Layout DEF Ends
      <3> QED
        BY <2>1, <3>1
    <2>3. Len(x.frames[1]) \in Nat /\ Len(x.frames[1]) >= 4
      BY <2>1, Layout DEF Sizes
    <2>4. EndOf(x, 0) \in Nat
      BY <2>1, Layout DEF Ends
    <2>5. PICK L \in Nat, e \in Nat, m \in Nat :
            L = Len(x.frames[1]) /\ e = EndOf(x, 0) /\ m = Len(r)
      BY <1>1, <2>3, <2>4
    <2>6. p - m < e /\ m <= 4 /\ L >= 4
      <3>1. m \in 1 .. 4
        BY <1>1, <2>5, Zenon
      <3>2. p - m < e
        BY <1>1, <2>5, Zenon
      <3>3. L >= 4
        BY <2>3, <2>5, Zenon
      <3> QED
        BY <3>1, <3>2, <3>3
    <2>7. p < e + L
      BY <1>1, <2>6
    <2> QED
      BY <2>1, <2>2, <2>5, <2>7, Zenon
  <1> QED
    BY <1>1, <1>2, NotYet

-----------------------------------------------------------------------------
(* How far a frame goes.                                                   *)

(* frameLength waits for the header, and then has the length of the frame. *)
LEMMA Gt06Ends ==
    ASSUME NEW r \in Seq(Byte), NEW f \in Seq(Byte), Begun(r, f), IsFrame(f),
           Len(r) > 0, r[1] \in {Byte78, Byte79}
    PROVE  \/ FrameLength(r) = 0 /\ Len(r) < Len(f)
           \/ FrameLength(r) = Len(f)
  <1>1. PICK R \in Nat : R = Len(r) /\ R > 0
    BY LenProperties
  <1>2. PICK L \in Nat : L = Len(f) /\ L >= 4
    BY LenProperties DEF IsFrame
  <1>3. \A i \in 1 .. 4 : i <= R => r[i] = f[i]
    BY <1>1, <1>2 DEF Begun
  <1>4. r[1] = f[1]
    BY <1>1, <1>3
  <1>5. f[2] = f[1] /\ f[1] \in {Byte78, Byte79}
    BY <1>4, FrameBegins DEF IsShort, IsLong
  <1>6. R >= 2 => r[2] = r[1]
    BY <1>3, <1>4, <1>5
  <1>7. CASE f[1] = Byte78
    <2>1. L = 5 + f[3]
      BY <1>2, <1>7, FrameBegins DEF IsShort
    <2>2. R < 3 => FrameLength(r) = 0
      BY <1>1, <1>4, <1>6, <1>7 DEF FrameLength
    <2>3. ~(R < 3) => FrameLength(r) = 5 + f[3]
      BY <1>1, <1>3, <1>4, <1>6, <1>7 DEF FrameLength
    <2> QED
      BY <1>1, <1>2, <2>1, <2>2, <2>3
  <1>8. CASE f[1] = Byte79
    <2>0. f[1] # Byte78
      BY <1>8 DEF Byte78, Byte79
    <2>1. L = 6 + 256 * f[3] + f[4]
      BY <1>2, <1>8, FrameBegins DEF IsLong
    <2>2. R < 4 => FrameLength(r) = 0
      BY <1>1, <1>4, <1>6, <1>8, <2>0 DEF FrameLength
    <2>3. ~(R < 4) => FrameLength(r) = 6 + 256 * f[3] + f[4]
      BY <1>1, <1>3, <1>4, <1>6, <1>8, <2>0 DEF FrameLength
    <2> QED
      BY <1>1, <1>2, <2>1, <2>2, <2>3
  <1> QED
    BY <1>5, <1>7, <1>8

(* findFrame closes at the end of the frame, as soon as it is there.       *)
LEMMA Jt808Ends ==
    ASSUME NEW r \in Seq(Byte), NEW f \in Seq(Byte), Begun(r, f), IsFrame(f),
           Len(r) > 0, r[1] = Delimiter
    PROVE  \/ Len(r) < Len(f) /\ Closings(r) = {}
           \/ /\ Len(f) <= Len(r) /\ Opening(r) = 1
              /\ Len(f) \in Closings(r) /\ \A j \in Closings(r) : Len(f) <= j
  <1>1. PICK R \in Nat : R = Len(r) /\ R > 0
    BY LenProperties
  <1>2. PICK L \in Nat : L = Len(f) /\ L >= 4
    BY LenProperties DEF IsFrame
  <1>3. \A i \in 1 .. R : i <= L => r[i] = f[i]
    BY <1>1, <1>2 DEF Begun
  <1>4. r[1] = f[1]
    BY <1>1, <1>2, <1>3
  <1>5. \A i \in 2 .. L : f[i] = Delimiter <=> i = L
    <2>1. {i \in 2 .. L : f[i] = Delimiter} = {L}
      BY <1>2, <1>4, FrameBegins DEF IsJt808
    <2> QED
      BY <2>1, Zenon
  <1>6. CASE R = 1
    <2>1. Bodies(r) = {}
      BY <1>1, <1>6 DEF Bodies
    <2>2. Len(r) < Len(f)
      BY <1>1, <1>2, <1>6
    <2> QED
      BY <2>1, <2>2 DEF Closings
  <1>7. CASE R # 1
    <2>1. 2 \in Bodies(r) /\ \A i \in Bodies(r) : 2 <= i
      <3>1. 2 \in 1 .. R /\ 2 \in 2 .. L /\ 2 # L /\ 2 <= L
        BY <1>1, <1>2, <1>7
      <3>2. r[2] # Delimiter
        BY <1>3, <1>5, <3>1
      <3> QED
        BY <1>1, <3>1, <3>2 DEF Bodies
    <2>2. Opening(r) = 1
      <3>1. \A i \in Bodies(r) : i \in Nat
        BY <1>1 DEF Bodies
      <3>2. (CHOOSE i \in Bodies(r) : \A j \in Bodies(r) : i <= j) = 2
        <4> DEFINE c == CHOOSE i \in Bodies(r) : \A j \in Bodies(r) : i <= j
        <4>1. c \in Bodies(r) /\ \A j \in Bodies(r) : c <= j
          BY <2>1
        <4> HIDE DEF c
        <4>2. c <= 2 /\ 2 <= c /\ c \in Nat
          BY <2>1, <3>1, <4>1
        <4>3. c = 2
          BY <4>2
        <4> QED
          BY <4>3 DEF c
      <3> QED
        BY <3>2 DEF Opening
    <2>3. Closings(r) = {i \in 1 .. R : r[i] = Delimiter /\ i > 1}
      BY <1>1, <2>1, <2>2 DEF Closings
    <2>4. \A i \in Closings(r) : L <= i
      <3> SUFFICES ASSUME NEW i \in Closings(r), ~(L <= i) PROVE FALSE
        OBVIOUS
      <3>1. i \in 2 .. L /\ i # L /\ i \in 1 .. R /\ i <= L /\ r[i] = Delimiter
        BY <1>1, <1>2, <2>3
      <3> QED
        BY <1>3, <1>5, <3>1
    <2>5. CASE R < L
      <3>1. Closings(r) = {}
        <4> SUFFICES ASSUME NEW i \in Closings(r) PROVE FALSE
          OBVIOUS
        <4>1. i \in 1 .. R /\ L <= i
          BY <2>3, <2>4
        <4> QED
          BY <1>1, <1>2, <2>5, <4>1
      <3> QED
        BY <1>1, <1>2, <2>5, <3>1
    <2>6. CASE ~(R < L)
      <3>1. L \in 1 .. R /\ L \in 2 .. L /\ L > 1 /\ L <= R
        BY <1>1, <1>2, <2>6
      <3>2. r[L] = Delimiter
        BY <1>3, <1>5, <3>1
      <3>3. L \in Closings(r)
        BY <2>3, <3>1, <3>2
      <3> QED
        BY <1>1, <1>2, <2>2, <2>4, <3>1, <3>3
    <2> QED
      BY <2>5, <2>6
  <1> QED
    BY <1>6, <1>7

(* The first ';' is the end of the frame, as soon as it is there.          *)
LEMMA TextEnds ==
    ASSUME NEW r \in Seq(Byte), NEW f \in Seq(Byte), Begun(r, f), IsFrame(f),
           Len(r) > 0, r[1] \in {Text[1], Handshake[1]}
    PROVE  \/ Len(r) < Len(f) /\ \A i \in 1 .. Len(r) : r[i] # Semicolon
           \/ /\ Len(f) \in 1 .. Len(r) /\ r[Len(f)] = Semicolon
              /\ \A j \in 1 .. Len(r) : r[j] = Semicolon => Len(f) <= j
  <1>1. PICK R \in Nat : R = Len(r) /\ R > 0
    BY LenProperties
  <1>2. PICK L \in Nat : L = Len(f) /\ L >= 4
    BY LenProperties DEF IsFrame
  <1>3. \A i \in 1 .. R : i <= L => r[i] = f[i]
    BY <1>1, <1>2 DEF Begun
  <1>4. r[1] = f[1]
    BY <1>1, <1>2, <1>3
  <1>5. \A i \in 1 .. L : f[i] = Semicolon <=> i = L
    <2>1. {i \in 1 .. L : f[i] = Semicolon} = {L}
      BY <1>2, <1>4, FrameBegins DEF IsText
    <2> QED
      BY <2>1, Zenon
  <1>6. \A i \in 1 .. R : r[i] = Semicolon => L <= i
    <2> SUFFICES ASSUME NEW i \in 1 .. R, r[i] = Semicolon, ~(L <= i) PROVE FALSE
      OBVIOUS
    <2>1. i \in 1 .. L /\ i # L /\ i <= L
      BY <1>1, <1>2
    <2> QED
      BY <1>3, <1>5, <2>1
  <1>7. CASE R < L
    <2>1. \A i \in 1 .. R : ~(L <= i)
      BY <1>1, <1>2, <1>7
    <2> QED
      BY <1>1, <1>2, <1>6, <1>7, <2>1
  <1>8. CASE ~(R < L)
    <2>1. L \in 1 .. R /\ L \in 1 .. L /\ L <= L
      BY <1>1, <1>2, <1>8
    <2>2. r[L] = Semicolon
      BY <1>3, <1>5, <2>1
    <2> QED
      BY <1>1, <1>2, <1>6, <2>1, <2>2
  <1> QED
    BY <1>7, <1>8

-----------------------------------------------------------------------------
(* The invariant.                                                          *)

(* What has been delivered, what remains of the rest, and that nothing     *)
(* whole is left in it when push returns.                                  *)
Delivered(fs) ==
    /\ fs \in Seq(Seq(Byte)) /\ Len(fs) \in 0 .. Len(stream.frames)
    /\ \A i \in 1 .. Len(fs) : fs[i] = stream.frames[i]

(* Nothing is damaged or rejected.                                         *)
Undisturbed == Readable(stream) /\ Intact /\ rejected = "no"

(* The inductive invariant: nothing is lost but noise, and what remains of *)
(* the stream begins with the frame after those delivered.                 *)
FramingInv ==
    Undisturbed =>
        /\ Delivered(frames)
        /\ Remains(stream, Len(frames), buffer, pos)
        /\ ~busy => NoMore(stream, Len(frames), pos)

(* It holds of a new socket.                                               *)
LEMMA FramingInit == MaxBuffer \in Nat /\ Init => FramingInv
  <1> SUFFICES ASSUME MaxBuffer \in Nat, Init, Undisturbed
               PROVE  /\ Delivered(frames)
                      /\ Remains(stream, Len(frames), buffer, pos)
                      /\ ~busy => NoMore(stream, Len(frames), pos)
    BY DEF FramingInv
  <1>1. pos = 0 /\ buffer = <<>> /\ frames = <<>> /\ Readable(stream)
    BY DEF Init, Undisturbed
  <1>2. /\ Len(stream.frames) \in Nat /\ AllOf(stream) \in Seq(Byte) /\ Len(AllOf(stream)) \in Nat
        /\ \A k \in 0 .. Len(stream.frames) : EndOf(stream, k) \in Nat
        /\ \A j, k \in 0 .. Len(stream.frames) : j < k => EndOf(stream, j) < EndOf(stream, k)
    BY <1>1, Layout DEF Sizes, Ends
  <1>3. Len(frames) = 0 /\ Len(buffer) = 0 /\ 0 \in 0 .. Len(stream.frames)
        /\ EndOf(stream, 0) \in Nat
    BY <1>1, <1>2
  <1>4. Delivered(frames)
    BY <1>1, <1>2, <1>3 DEF Delivered
  <1>5. Remains(stream, 0, <<>>, 0)
    BY <1>2, <1>3 DEF Remains
  <1>6. NoMore(stream, 0, 0)
    <2>1. ASSUME 0 < Len(stream.frames) PROVE 0 < EndOf(stream, 0 + 1)
      <3>1. 0 + 1 = 1 /\ 1 \in 0 .. Len(stream.frames)
        BY <1>2, <2>1
      <3>2. EndOf(stream, 0) < EndOf(stream, 1) /\ EndOf(stream, 1) \in Nat
        BY <1>2, <1>3, <3>1
      <3> QED
        BY <1>3, <3>1, <3>2
    <2> QED
      BY <1>1, <1>3, <2>1, NotYet
  <1> QED
    BY <1>1, <1>3, <1>4, <1>5, <1>6

(* A loop that stops with nothing whole in what it keeps.                  *)
LEMMA StopKeeps ==
    ASSUME FramingInv, MaxBuffer \in Nat, Undisturbed', NEW b, Stop(b),
           Remains(stream, Len(frames), b, pos), NoMore(stream, Len(frames), pos)
    PROVE  FramingInv'
  <1>1. /\ stream' = stream /\ pos' = pos /\ frames' = frames /\ rejected' = rejected
        /\ buffer' = b
    BY DEF Stop
  <1>2. Undisturbed
    BY <1>1 DEF Undisturbed, Intact
  <1>3. Delivered(frames)
    BY <1>2 DEF FramingInv
  <1>4. Delivered(frames)'
    BY <1>1, <1>3 DEF Delivered
  <1>5. Remains(stream, Len(frames), buffer, pos)'
    BY <1>1
  <1>6. NoMore(stream, Len(frames), pos)'
    BY <1>1
  <1> QED
    BY <1>4, <1>5, <1>6 DEF FramingInv

(* A frame that is delivered is the next one.                              *)
LEMMA DeliverKeeps ==
    ASSUME FramingInv, MaxBuffer \in Nat, Undisturbed, busy, NEW r, NEW f,
           Len(frames) + 1 \in 1 .. Len(stream.frames),
           f = stream.frames[Len(frames) + 1],
           SubSeq(r, 1, Len(f)) = f, Deliver(r, 1, Len(f)),
           Remains(stream, Len(frames) + 1, From(r, Len(f) + 1), pos)
    PROVE  FramingInv'
  <1>1. /\ stream' = stream /\ pos' = pos /\ rejected' = rejected /\ busy' = busy
        /\ frames' = Append(frames, f) /\ buffer' = From(r, Len(f) + 1)
    BY DEF Deliver
  <1>2. Delivered(frames)
    BY DEF FramingInv
  <1>3. f \in Seq(Byte)
    BY Layout DEF Undisturbed, Sizes
  <1>4. /\ frames' \in Seq(Seq(Byte)) /\ Len(frames') = Len(frames) + 1
        /\ \A i \in 1 .. Len(frames) : frames'[i] = frames[i]
        /\ frames'[Len(frames) + 1] = f
    BY <1>1, <1>2, <1>3, AppendProperties DEF Delivered
  <1>5. Delivered(frames)'
    <2>1. Len(stream.frames) \in Nat /\ Len(frames) \in Nat
      BY <1>2, Layout DEF Undisturbed, Sizes, Delivered
    <2>2. ASSUME NEW i \in 1 .. Len(frames) + 1 PROVE frames'[i] = stream.frames[i]
      <3>1. CASE i = Len(frames) + 1
        BY <1>4, <3>1
      <3>2. CASE i # Len(frames) + 1
        <4>1. i \in 1 .. Len(frames)
          BY <2>1, <3>2
        <4> QED
          BY <1>2, <1>4, <4>1 DEF Delivered
      <3> QED
        BY <3>1, <3>2
    <2>3. Len(frames) + 1 \in 0 .. Len(stream.frames)
      BY <2>1
    <2> QED
      BY <1>1, <1>4, <2>2, <2>3 DEF Delivered
  <1>6. Remains(stream, Len(frames), buffer, pos)'
    BY <1>1, <1>4
  <1> QED
    BY <1>1, <1>5, <1>6 DEF FramingInv

(* A chunk that is neither a web request nor too long.                     *)
LEMMA DataKeeps ==
    ASSUME FramingInv, MaxBuffer \in Nat, NEW n \in Nat, Data(n)
    PROVE  FramingInv'
  <1> SUFFICES ASSUME Undisturbed' PROVE FramingInv'
    BY DEF FramingInv
  <1>1. /\ stream' = stream /\ frames' = frames /\ pos' = pos + n /\ rejected = "no"
        /\ pos + n <= Len(Sent)
        /\ rejected' = "no" => /\ buffer' = buffer \o SubSeq(Sent, pos + 1, pos + n)
                               /\ busy' = TRUE
    BY DEF Data
  <1>2. rejected' = "no" /\ Readable(stream) /\ Intact /\ Undisturbed
    BY <1>1 DEF Undisturbed, Intact
  <1>3. Sent = AllOf(stream)
    BY <1>2 DEF Sent
  <1>4. Delivered(frames) /\ Remains(stream, Len(frames), buffer, pos)
    BY <1>2 DEF FramingInv
  <1>5. Remains(stream, Len(frames), buffer \o SubSeq(AllOf(stream), pos + 1, pos + n), pos + n)
    BY <1>1, <1>2, <1>3, <1>4, ChunkRemains
  <1>6. Remains(stream, Len(frames), buffer, pos)'
    BY <1>1, <1>2, <1>3, <1>5
  <1>7. Delivered(frames)'
    BY <1>1, <1>4 DEF Delivered
  <1> QED
    BY <1>1, <1>2, <1>6, <1>7 DEF FramingInv

(* What extractOne finds in the buffer.                                    *)
LEMMA RestFound ==
    ASSUME FramingInv, MaxBuffer \in Nat, Undisturbed, Starts(buffer) # {}
    PROVE  /\ Remains(stream, Len(frames), Rest, pos)
           /\ \/ AtFrame(stream, Len(frames), Rest, pos)
              \/ ShortTail(stream, Len(frames), Rest, pos)
  <1>1. Rest = RestOf(buffer)
    BY DEF Rest, RestOf
  <1>2. Readable(stream) /\ Remains(stream, Len(frames), buffer, pos)
    BY DEF FramingInv, Undisturbed
  <1> QED
    BY <1>1, <1>2, RestIs

(* In a frame that has begun, either it is awaited or it is delivered.     *)
LEMMA FrameKeeps ==
    ASSUME FramingInv, MaxBuffer \in Nat, Undisturbed, Undisturbed', busy, Starts(buffer) # {},
           AtFrame(stream, Len(frames), Rest, pos),
           LET f == stream.frames[Len(frames) + 1]
           IN \/ Len(Rest) < Len(f) /\ Stop(Rest)
              \/ Len(f) <= Len(Rest) /\ Deliver(Rest, 1, Len(f))
    PROVE  FramingInv'
  <1> DEFINE f == stream.frames[Len(frames) + 1]
  <1>1. Readable(stream) /\ Remains(stream, Len(frames), Rest, pos)
    BY RestFound DEF Undisturbed
  <1>2. Len(frames) + 1 \in 1 .. Len(stream.frames)
    BY <1>1, FrameBegun
  <1>3. CASE Len(Rest) < Len(f) /\ Stop(Rest)
    <2>1. NoMore(stream, Len(frames), pos)
      BY <1>1, <1>3, FrameIsAwaited
    <2> QED
      BY <1>1, <1>3, <2>1, StopKeeps
  <1>4. CASE Len(f) <= Len(Rest) /\ Deliver(Rest, 1, Len(f))
    <2>1. /\ SubSeq(Rest, 1, Len(f)) = f
          /\ Remains(stream, Len(frames) + 1, From(Rest, Len(f) + 1), pos)
      BY <1>1, <1>4, FrameIsTaken
    <2> QED
      BY <1>2, <1>4, <2>1, DeliverKeeps
  <1> QED
    BY <1>3, <1>4

(* Next keeps the invariant.                                               *)
LEMMA FramingStep ==
    ASSUME FramingInv, MaxBuffer \in Nat, MaxChunk \in Nat, Next
    PROVE  FramingInv'
  <1> SUFFICES ASSUME Undisturbed' PROVE FramingInv'
    BY DEF FramingInv
  <1>1. ASSUME NEW n \in 1 .. MaxChunk, Data(n) PROVE FramingInv'
    BY <1>1, DataKeeps
  <1> DEFINE f == stream.frames[Len(frames) + 1]
  <1>2. ASSUME NoStart \/ Gt06 \/ Jt808 \/ Gps103 PROVE Undisturbed /\ busy
    <2>1. /\ stream' = stream /\ rejected' = rejected /\ busy
      BY <1>2 DEF NoStart, Gt06, Jt808, Gps103, Stop, Deliver
    <2> QED
      BY <2>1 DEF Undisturbed, Intact
  <1>3. CASE NoStart
    <2> DEFINE b == IF Len(buffer) > Kept THEN From(buffer, Len(buffer) - Kept + 1)
                                            ELSE buffer
    <2>1. Starts(buffer) = {} /\ Stop(b)
      BY <1>3 DEF NoStart
    <2>2. Readable(stream) /\ Remains(stream, Len(frames), buffer, pos)
      BY <1>2, <1>3 DEF FramingInv, Undisturbed
    <2>3. NoMore(stream, Len(frames), pos) /\ Remains(stream, Len(frames), b, pos)
      BY <2>1, <2>2, NoStartRemains
    <2> QED
      BY <2>1, <2>3, StopKeeps
  <1>4. ASSUME Undisturbed, Starts(buffer) # {}, AtFrame(stream, Len(frames), Rest, pos)
        PROVE  /\ Rest \in Seq(Byte) /\ Len(Rest) \in Nat /\ Len(Rest) > 0
               /\ f \in Seq(Byte) /\ Len(f) \in Nat /\ IsFrame(f)
               /\ Begun(Rest, f)
    <2>1. Readable(stream) /\ Remains(stream, Len(frames), Rest, pos)
      BY <1>4, RestFound DEF Undisturbed
    <2> QED
      BY <1>4, <2>1, FrameBegun
  <1>5. ASSUME Undisturbed, Starts(buffer) # {}, Rest[1] \in {Byte78, Byte79, Delimiter}
        PROVE  AtFrame(stream, Len(frames), Rest, pos)
    BY <1>5, RestFound, Texts DEF ShortTail, Byte78, Byte79, Delimiter
  <1> HIDE DEF f
  <1>6. CASE Gt06
    <2>1. Starts(buffer) # {} /\ Rest[1] \in {Byte78, Byte79}
      BY <1>6 DEF Gt06
    <2>2. AtFrame(stream, Len(frames), Rest, pos)
      BY <1>2, <1>5, <1>6, <2>1
    <2>3. (FrameLength(Rest) = 0 /\ Len(Rest) < Len(f)) \/ FrameLength(Rest) = Len(f)
      BY <1>2, <1>4, <1>6, <2>1, <2>2, Gt06Ends
    <2>4. Len(f) \in 4 .. MaxBuffer /\ Len(Rest) \in Nat
      BY <1>2, <1>4, <1>6, <2>1, <2>2 DEF IsFrame
    <2>5. \/ Len(Rest) < Len(f) /\ Stop(Rest)
          \/ Len(f) <= Len(Rest) /\ Deliver(Rest, 1, Len(f))
      BY <1>6, <2>3, <2>4 DEF Gt06
    <2> QED
      BY <1>2, <1>6, <2>1, <2>2, <2>5, FrameKeeps DEF f
  <1>7. CASE Jt808
    <2>1. Starts(buffer) # {} /\ Rest[1] = Delimiter
      BY <1>7 DEF Jt808
    <2>2. AtFrame(stream, Len(frames), Rest, pos)
      BY <1>2, <1>5, <1>7, <2>1
    <2>3. \/ Len(Rest) < Len(f) /\ Closings(Rest) = {}
          \/ /\ Len(f) <= Len(Rest) /\ Opening(Rest) = 1
             /\ Len(f) \in Closings(Rest) /\ \A j \in Closings(Rest) : Len(f) <= j
      BY <1>2, <1>4, <1>7, <2>1, <2>2, Jt808Ends
    <2>4. Len(f) \in Nat /\ Closings(Rest) \in SUBSET Nat
      <3>1. Len(f) \in Nat /\ Len(Rest) \in Nat
        BY <1>2, <1>4, <1>7, <2>1, <2>2
      <3> QED
        BY <3>1 DEF Closings
    <2>5. \/ Len(Rest) < Len(f) /\ Stop(Rest)
          \/ Len(f) <= Len(Rest) /\ Deliver(Rest, 1, Len(f))
      <3>1. CASE Closings(Rest) = {}
        BY <1>7, <2>3, <3>1 DEF Jt808
      <3>2. CASE Closings(Rest) # {}
        <4>1. PICK j \in Closings(Rest) : /\ \A k \in Closings(Rest) : j <= k
                                          /\ Deliver(Rest, Opening(Rest), j)
          BY <1>7, <3>2 DEF Jt808
        <4>2. j = Len(f)
          BY <2>3, <2>4, <3>2, <4>1
        <4> QED
          BY <2>3, <3>2, <4>1, <4>2
      <3> QED
        BY <3>1, <3>2
    <2> QED
      BY <1>2, <1>7, <2>1, <2>2, <2>5, FrameKeeps DEF f
  <1>8. CASE Gps103
    <2> DEFINE ends == {i \in 1 .. Len(Rest) : Rest[i] = Semicolon}
    <2>1. Starts(buffer) # {} /\ Rest[1] \in {Text[1], Handshake[1]}
      BY <1>8 DEF Gps103
    <2>2. \/ ends = {} /\ Stop(Rest)
          \/ \E j \in ends : (\A k \in ends : j <= k) /\ Deliver(Rest, 1, j)
      BY <1>8 DEF Gps103
    <2>3. CASE ShortTail(stream, Len(frames), Rest, pos)
      <3>1. ends = {}
        BY <2>3 DEF ShortTail
      <3>2. Stop(Rest)
        <4> HIDE DEF ends
        <4> QED
          BY <2>2, <3>1
      <3>3. Readable(stream) /\ Remains(stream, Len(frames), Rest, pos)
        BY <1>2, <1>8, <2>1, RestFound DEF Undisturbed
      <3>4. NoMore(stream, Len(frames), pos)
        BY <2>3, <3>3, TailIsAwaited
      <3> QED
        BY <3>2, <3>3, <3>4, StopKeeps
    <2>4. CASE AtFrame(stream, Len(frames), Rest, pos)
      <3>1. \/ Len(Rest) < Len(f) /\ \A i \in 1 .. Len(Rest) : Rest[i] # Semicolon
            \/ /\ Len(f) \in 1 .. Len(Rest) /\ Rest[Len(f)] = Semicolon
               /\ \A j \in 1 .. Len(Rest) : Rest[j] = Semicolon => Len(f) <= j
        BY <1>2, <1>4, <1>8, <2>1, <2>4, TextEnds
      <3>2. Len(f) \in Nat /\ Len(Rest) \in Nat
        BY <1>2, <1>4, <1>8, <2>1, <2>4
      <3>3. \/ Len(Rest) < Len(f) /\ Stop(Rest)
            \/ Len(f) <= Len(Rest) /\ Deliver(Rest, 1, Len(f))
        <4>1. CASE Len(Rest) < Len(f) /\ \A i \in 1 .. Len(Rest) : Rest[i] # Semicolon
          <5>1. ends = {}
            BY <4>1
          <5> HIDE DEF ends
          <5> QED
            BY <2>2, <4>1, <5>1
        <4>2. CASE /\ Len(f) \in 1 .. Len(Rest) /\ Rest[Len(f)] = Semicolon
                   /\ \A j \in 1 .. Len(Rest) : Rest[j] = Semicolon => Len(f) <= j
          <5>1. Len(f) \in ends /\ (\A j \in ends : Len(f) <= j) /\ ends \in SUBSET Nat
            BY <3>2, <4>2
          <5> HIDE DEF ends
          <5>2. PICK j \in ends : (\A k \in ends : j <= k) /\ Deliver(Rest, 1, j)
            BY <2>2, <5>1
          <5>3. j = Len(f)
            BY <3>2, <5>1, <5>2
          <5> QED
            BY <3>2, <4>2, <5>2, <5>3
        <4> QED
          BY <3>1, <4>1, <4>2
      <3> QED
        BY <1>2, <1>8, <2>1, <2>4, <3>3, FrameKeeps DEF f
    <2> QED
      BY <1>2, <1>8, <2>1, <2>3, <2>4, RestFound
  <1> QED
    BY <1>1, <1>3, <1>6, <1>7, <1>8 DEF Next

(* A stuttering step.                                                      *)
LEMMA FramingStutter == FramingInv /\ UNCHANGED vars => FramingInv'
  BY DEF FramingInv, Undisturbed, Intact, Delivered, vars

(* The invariant gives the property.                                       *)
LEMMA FramingGives ==
    ASSUME MaxBuffer \in Nat, FramingInv, Readable(stream)
    PROVE  FramesAreRead
  <1> SUFFICES ASSUME rejected = "no", Intact
               PROVE  /\ IsPrefix(frames, stream.frames)
                      /\ ~busy => \A k \in Whole : k <= Len(frames)
    BY DEF FramesAreRead
  <1>1. Delivered(frames) /\ (~busy => NoMore(stream, Len(frames), pos))
    BY DEF FramingInv, Undisturbed
  <1>2. stream.frames \in Seq(Seq(Byte)) /\ Len(stream.frames) \in Nat
    BY LenProperties DEF Readable, Octets, Byte
  <1>3. IsPrefix(frames, stream.frames)
    <2>1. Len(frames) <= Len(stream.frames) /\ frames \in Seq(Seq(Byte))
      BY <1>1, <1>2 DEF Delivered
    <2> QED
      BY <1>1, <1>2, <2>1, PrefixIs DEF Delivered
  <1>4. \A k \in Whole : k \in 0 .. Len(stream.frames) /\ EndOf(stream, k) <= pos
    BY DEF Whole, Arrived, EndOf
  <1> QED
    BY <1>1, <1>3, <1>4 DEF NoMore

(* However TCP cuts a readable stream, the frames delivered are those sent, *)
(* and none that has come whole waits for the bytes behind it.  A stream   *)
(* is readable if its frames have one of the four shapes, at least 4 bytes *)
(* and at most MaxBuffer, and nothing in the noise before them begins a    *)
(* frame.                                                                  *)
THEOREM FramesAreReadWhole ==
    ASSUME MaxBuffer \in Nat, MaxChunk \in Nat
    PROVE  Spec => [](Readable(stream) => FramesAreRead)
  <1>1. Init => FramingInv
    BY FramingInit
  <1>2. FramingInv /\ [Next]_vars => FramingInv'
    BY FramingStep, FramingStutter
  <1>3. FramingInv => (Readable(stream) => FramesAreRead)
    BY FramingGives
  <1> QED
    BY <1>1, <1>2, <1>3, PTL DEF Spec

-----------------------------------------------------------------------------
(* The types of the accumulator.                                           *)

(* The stream is a sequence of bytes.                                      *)
LEMMA AllIsTyped ==
    ASSUME NEW x, Octets(x)
    PROVE  AllOf(x) \in Seq(Byte)
  <1> DEFINE fs == x.frames
             n == Len(fs)
  <1>1. x.noise \in Seq(Byte) /\ fs \in Seq(Seq(Byte)) /\ n \in Nat
    BY LenProperties DEF Octets, Byte
  <1>2. PICK g : Concatenates(g, fs)
    BY <1>1, JoinExists
  <1>3. FlattenSeq(fs) = g[n]
    <2>1. SubSeq(fs, 1, n) = fs /\ n \in 0 .. n
      BY <1>1, SubSeqFull
    <2> QED
      BY <1>1, <1>2, <2>1, FlattenIsJoined
  <1>4. g[n] \in Seq(Byte)
    <2>1. g \in [0 .. n -> Seq(Byte)] /\ n \in 0 .. n
      BY <1>1, <1>2 DEF Concatenates
    <2> HIDE DEF n
    <2> QED
      BY <2>1
  <1>5. Glued(AllOf(x), x.noise, g[n])
    BY <1>1, <1>3, <1>4, ConcatIs DEF AllOf
  <1> QED
    BY <1>5 DEF Glued

(* What the socket receives is a sequence of bytes, damaged or not.        *)
LEMMA SentIsTyped ==
    ASSUME Octets(stream)
    PROVE  Sent \in Seq(Byte) /\ Len(Sent) \in Nat
  <1> DEFINE b == AllOf(stream)
  <1>1. b \in Seq(Byte) /\ stream.byte \in Byte
    BY AllIsTyped DEF Octets, Byte
  <1> HIDE DEF b
  <1>2. [b EXCEPT ![stream.hit] = stream.byte] \in Seq(Byte)
    <2>1. CASE stream.hit \in 1 .. Len(b)
      BY <1>1, <2>1, ExceptSeq
    <2>2. CASE stream.hit \notin 1 .. Len(b)
      <3>1. DOMAIN b = 1 .. Len(b) /\ b \in [1 .. Len(b) -> Byte]
        BY <1>1, LenProperties
      <3>2. [b EXCEPT ![stream.hit] = stream.byte] = b
        BY <2>2, <3>1
      <3> QED
        BY <1>1, <3>2
    <2> QED
      BY <2>1, <2>2
  <1>3. Sent \in Seq(Byte)
    BY <1>1, <1>2 DEF Sent, b
  <1> QED
    BY <1>3, LenProperties

(* What is left from the first start on begins with it.                    *)
LEMMA RestIsTyped ==
    ASSUME buffer \in Seq(Byte), Starts(buffer) # {}
    PROVE  Rest \in Seq(Byte) /\ Len(Rest) \in Nat /\ Len(Rest) > 0
  <1>1. PICK l \in Starts(buffer) : RestOf(buffer) = From(buffer, l)
    BY FirstStart
  <1>2. Rest = From(buffer, l)
    BY <1>1 DEF Rest, RestOf
  <1>3. PICK B \in Nat : B = Len(buffer)
    BY LenProperties
  <1>4. l \in 1 .. B /\ l \in 1 .. Len(buffer) + 1
    BY <1>3 DEF Starts
  <1>5. Rest \in Seq(Byte) /\ Len(Rest) = B - l + 1
    BY <1>2, <1>3, <1>4, FromIs
  <1>6. B - l + 1 \in Nat /\ B - l + 1 > 0
    BY <1>4
  <1> QED
    BY <1>5, <1>6

(* A length is declared by a whole header only.                            *)
LEMMA LengthIsTyped ==
    ASSUME NEW r \in Seq(Byte), Len(r) > 0, r[1] \in {Byte78, Byte79}
    PROVE  /\ FrameLength(r) \in Int
           /\ FrameLength(r) > 0 => FrameLength(r) >= 5 /\ Len(r) >= 3
  <1>1. PICK R \in Nat : R = Len(r) /\ R > 0
    BY LenProperties
  <1>2. \A i \in 1 .. R : r[i] \in Byte
    BY <1>1, ElementOfSeq
  <1>3. (R >= 3 => r[3] \in 0 .. 255) /\ (R >= 4 => r[4] \in 0 .. 255)
    BY <1>1, <1>2 DEF Byte
  <1> DEFINE total == FrameLength(r)
             a == r[3]
             b == r[4]
  <1>4. \/ total \in {0, -1}
        \/ R >= 3 /\ total = 5 + a
        \/ R >= 4 /\ total = 6 + 256 * a + b
    BY <1>1 DEF FrameLength
  <1> HIDE DEF total, a, b
  <1>5. (R >= 3 => a \in 0 .. 255) /\ (R >= 4 => b \in 0 .. 255)
    BY <1>3 DEF a, b
  <1>6. total \in Int /\ (total > 0 => total >= 5 /\ R >= 3)
    <2>1. CASE total \in {0, -1}
      BY <2>1
    <2>2. CASE R >= 3 /\ total = 5 + a
      <3>1. a \in 0 .. 255
        BY <1>5, <2>2
      <3>2. \A v \in 0 .. 255 : 5 + v \in Int /\ 5 + v >= 5
        OBVIOUS
      <3> QED
        BY <2>2, <3>1, <3>2
    <2>3. CASE R >= 4 /\ total = 6 + 256 * a + b
      <3>1. R >= 3 /\ a \in 0 .. 255 /\ b \in 0 .. 255
        BY <1>5, <2>3
      <3>2. \A v, w \in 0 .. 255 : 6 + 256 * v + w \in Int /\ 6 + 256 * v + w >= 5
        OBVIOUS
      <3> QED
        BY <2>3, <3>1, <3>2
    <2> QED
      BY <1>4, <2>1, <2>2, <2>3
  <1> QED
    BY <1>1, <1>6 DEF total

(* Something is between the delimiters of a JT808 frame.                   *)
LEMMA ClosingIsTyped ==
    ASSUME NEW r \in Seq(Byte), NEW j \in Closings(r), r[1] = Delimiter
    PROVE  Opening(r) \in 1 .. Len(r) /\ j \in 1 .. Len(r) /\ j >= Opening(r) + 2
  <1>1. PICK R \in Nat : R = Len(r)
    BY LenProperties
  <1>2. Bodies(r) # {} /\ Bodies(r) \in SUBSET (2 .. R)
    BY <1>1 DEF Closings, Bodies
  <1> DEFINE c == CHOOSE i \in Bodies(r) : \A k \in Bodies(r) : i <= k
  <1>3. \E i \in Bodies(r) : \A k \in Bodies(r) : i <= k
    <2>1. Bodies(r) \in SUBSET Nat
      BY <1>2
    <2> QED
      BY <1>2, <2>1, LeastNumber
  <1>4. c \in Bodies(r)
    BY <1>3
  <1>5. Opening(r) = c - 1
    BY DEF Opening
  <1> HIDE DEF c
  <1>6. c \in 2 .. R /\ r[c] # Delimiter
    BY <1>1, <1>4 DEF Bodies
  <1>7. j \in 1 .. R /\ r[j] = Delimiter /\ j > c - 1
    BY <1>1, <1>5 DEF Closings
  <1>8. j # c
    BY <1>6, <1>7
  <1>9. c - 1 \in 1 .. R /\ j >= (c - 1) + 2
    BY <1>6, <1>7, <1>8
  <1> QED
    BY <1>1, <1>5, <1>7, <1>9

(* A loop that stops with bytes in the buffer.                             *)
LEMMA StopIsTyped ==
    ASSUME TypeOK, NEW b \in Seq(Byte), Stop(b)
    PROVE  TypeOK'
  BY DEF TypeOK, Stop, Sent, Intact, Byte

(* What is delivered is longer than a delimiter.                           *)
LEMMA DeliverIsTyped ==
    ASSUME TypeOK, NEW r \in Seq(Byte), NEW i \in 1 .. Len(r), NEW j \in 1 .. Len(r),
           j >= i + 1, r[i] = Delimiter => j >= i + 2, Deliver(r, i, j)
    PROVE  TypeOK'
  <1>1. PICK R \in Nat : R = Len(r)
    BY LenProperties
  <1>2. /\ stream' = stream /\ pos' = pos /\ rejected' = rejected /\ busy' = busy
        /\ frames' = Append(frames, SubSeq(r, i, j)) /\ buffer' = From(r, j + 1)
    BY DEF Deliver
  <1> DEFINE f == SubSeq(r, i, j)
  <1>3. f \in Seq(Byte) /\ Len(f) = j - i + 1 /\ f[1] = r[i]
    <2>0. i \in 1 .. R /\ j \in 1 .. R
      BY <1>1
    <2>1. \A h \in i .. j : r[h] \in Byte
      <3>1. \A h \in i .. j : h \in 1 .. Len(r)
        BY <1>1, <2>0
      <3> QED
        BY <3>1, ElementOfSeq
    <2>2. i \in Int /\ j \in Int
      BY <2>0
    <2>3. /\ f \in Seq(Byte)
          /\ Len(f) = IF i <= j THEN j - i + 1 ELSE 0
          /\ \A h \in 1 .. j - i + 1 : f[h] = r[i + h - 1]
      BY <2>1, <2>2, SubSeqProperties
    <2> HIDE DEF f
    <2>4. i <= j /\ 1 \in 1 .. j - i + 1 /\ i + 1 - 1 = i
      BY <2>0
    <2> QED
      BY <2>3, <2>4
  <1> HIDE DEF f
  <1>4. Len(f) >= (IF f[1] = Delimiter THEN 3 ELSE 2)
    BY <1>1, <1>3
  <1>5. frames \in Seq(Seq(Byte))
    BY DEF TypeOK, Byte
  <1>6. /\ frames' \in Seq(Seq(Byte)) /\ Len(frames') = Len(frames) + 1
        /\ \A k \in 1 .. Len(frames) : frames'[k] = frames[k]
        /\ frames'[Len(frames) + 1] = f
    BY <1>2, <1>3, <1>5, AppendProperties DEF f
  <1>7. \A k \in 1 .. Len(frames') :
           Len(frames'[k]) >= (IF frames'[k][1] = Delimiter THEN 3 ELSE 2)
    <2> SUFFICES ASSUME NEW k \in 1 .. Len(frames')
                 PROVE  Len(frames'[k]) >= (IF frames'[k][1] = Delimiter THEN 3 ELSE 2)
      OBVIOUS
    <2>1. PICK N \in Nat : N = Len(frames)
      BY <1>5, LenProperties
    <2>2. k \in 1 .. N + 1
      BY <1>6, <2>1
    <2>3. CASE k = N + 1
      BY <1>4, <1>6, <2>1, <2>3
    <2>4. CASE k # N + 1
      <3>1. k \in 1 .. Len(frames)
        BY <2>1, <2>2, <2>4
      <3>2. frames'[k] = frames[k]
        BY <1>6, <3>1
      <3>3. Len(frames[k]) >= (IF frames[k][1] = Delimiter THEN 3 ELSE 2)
        BY <3>1 DEF TypeOK
      <3> QED
        BY <3>2, <3>3
    <2> QED
      BY <2>3, <2>4
  <1>8. buffer' \in Seq(Byte)
    <2>1. j + 1 \in 1 .. Len(r) + 1
      BY <1>1
    <2> QED
      BY <1>2, <2>1, FromIs
  <1>9. (pos \in 0 .. Len(Sent))'
    BY <1>2 DEF TypeOK, Sent, Intact
  <1>10. (stream \in Streams /\ rejected \in {"no", "http", "full"} /\ busy \in BOOLEAN)'
    BY <1>2 DEF TypeOK
  <1> QED
    BY <1>6, <1>7, <1>8, <1>9, <1>10 DEF TypeOK, Byte

(* Next keeps the types.                                                   *)
LEMMA FramingTypeStep ==
    ASSUME \A x \in Streams : Octets(x), MaxBuffer \in Nat, MaxChunk \in Nat,
           TypeOK, Next
    PROVE  TypeOK'
  <1>1. Sent \in Seq(Byte) /\ Len(Sent) \in Nat
    BY SentIsTyped DEF TypeOK
  <1>2. buffer \in Seq(Byte) /\ pos \in 0 .. Len(Sent)
    BY DEF TypeOK, Byte
  <1>3. ASSUME NEW n \in 1 .. MaxChunk, Data(n) PROVE TypeOK'
    <2> DEFINE c == SubSeq(Sent, pos + 1, pos + n)
    <2>1. PICK S \in Nat : S = Len(Sent)
      BY <1>1
    <2>2. pos \in 0 .. S /\ pos + n <= S /\ n \in Nat
      BY <1>2, <1>3, <2>1 DEF Data
    <2>3. c \in Seq(Byte)
      <3>1. \A i \in pos + 1 .. pos + n : i \in 1 .. Len(Sent)
        BY <2>1, <2>2
      <3>2. \A i \in pos + 1 .. pos + n : Sent[i] \in Byte
        BY <1>1, <3>1, ElementOfSeq
      <3>3. pos + 1 \in Int /\ pos + n \in Int
        BY <2>2
      <3> QED
        BY <3>2, <3>3, SubSeqProperties
    <2>4. buffer \o c \in Seq(Byte)
      BY <1>2, <2>3, ConcatProperties
    <2>5. /\ stream' = stream /\ frames' = frames /\ pos' = pos + n
          /\ rejected' \in {"no", "http", "full"} /\ busy' \in BOOLEAN
          /\ buffer' = buffer \o c \/ buffer' = <<>>
      BY <1>3 DEF Data
    <2>6. buffer' \in Seq(Byte)
      BY <2>4, <2>5, EmptySeq
    <2>7. (pos \in 0 .. Len(Sent))'
      <3>1. Sent' = Sent
        BY <2>5 DEF Sent, Intact
      <3>2. pos + n \in 0 .. S
        BY <2>2
      <3> QED
        BY <2>1, <2>5, <3>1, <3>2
    <2> QED
      BY <2>5, <2>6, <2>7 DEF TypeOK, Byte
  <1>4. CASE NoStart
    <2>1. PICK B \in Nat : B = Len(buffer)
      BY <1>2, LenProperties
    <2>2. CASE B > Kept
      <3>1. B - Kept + 1 \in 1 .. Len(buffer) + 1
        BY <2>1, <2>2 DEF Kept
      <3>2. From(buffer, B - Kept + 1) \in Seq(Byte)
        BY <1>2, <3>1, FromIs
      <3> QED
        BY <1>4, <2>1, <2>2, <3>2, StopIsTyped DEF NoStart
    <2>3. CASE ~(B > Kept)
      BY <1>2, <1>4, <2>1, <2>3, StopIsTyped DEF NoStart
    <2> QED
      BY <2>2, <2>3
  <1>5. PICK r : r = Rest
    OBVIOUS
  <1>6. ASSUME Starts(buffer) # {} PROVE r \in Seq(Byte) /\ Len(r) \in Nat /\ Len(r) > 0
    BY <1>2, <1>5, <1>6, RestIsTyped
  <1>7. CASE Gt06
    <2>1. /\ r \in Seq(Byte) /\ Len(r) \in Nat /\ Len(r) > 0 /\ r[1] \in {Byte78, Byte79}
      BY <1>5, <1>6, <1>7 DEF Gt06
    <2>2. PICK total \in Int : total = FrameLength(r) /\ (total > 0 => total >= 5 /\ Len(r) >= 3)
      BY <2>1, LengthIsTyped
    <2>3. \/ Stop(r)
          \/ Stop(From(r, 2))
          \/ total > MaxBuffer /\ Stop(From(r, 3))
          \/ total \in 1 .. MaxBuffer /\ Len(r) >= total /\ Deliver(r, 1, total)
      BY <1>5, <1>7, <2>2 DEF Gt06
    <2>4. From(r, 2) \in Seq(Byte)
      <3>1. 2 \in 1 .. Len(r) + 1
        BY <2>1
      <3> QED
        BY <2>1, <3>1, FromIs
    <2>5. total > MaxBuffer => From(r, 3) \in Seq(Byte)
      <3>1. total > MaxBuffer => 3 \in 1 .. Len(r) + 1
        BY <2>1, <2>2
      <3> QED
        BY <2>1, <3>1, FromIs
    <2>6. r[1] # Delimiter
      BY <2>1 DEF Byte78, Byte79, Delimiter
    <2>7. ASSUME total \in 1 .. MaxBuffer, Len(r) >= total, Deliver(r, 1, total)
          PROVE  TypeOK'
      <3>1. 1 \in 1 .. Len(r) /\ total \in 1 .. Len(r) /\ total >= 1 + 1
        BY <2>1, <2>2, <2>7
      <3> QED
        BY <2>1, <2>6, <2>7, <3>1, DeliverIsTyped
    <2> QED
      BY <2>1, <2>3, <2>4, <2>5, <2>7, StopIsTyped
  <1>8. CASE Jt808
    <2>1. r \in Seq(Byte) /\ r[1] = Delimiter
      BY <1>5, <1>6, <1>8 DEF Jt808
    <2>2. Stop(r) \/ \E j \in Closings(r) : Deliver(r, Opening(r), j)
      BY <1>5, <1>8 DEF Jt808
    <2>3. ASSUME NEW j \in Closings(r), Deliver(r, Opening(r), j) PROVE TypeOK'
      <3>1. PICK i \in 1 .. Len(r) : i = Opening(r) /\ j \in 1 .. Len(r) /\ j >= i + 2
        BY <2>1, ClosingIsTyped
      <3>2. j >= i + 1
        <4>1. Len(r) \in Nat
          BY <2>1, LenProperties
        <4> QED
          BY <3>1, <4>1
      <3> QED
        BY <2>1, <2>3, <3>1, <3>2, DeliverIsTyped
    <2> QED
      BY <2>1, <2>2, <2>3, StopIsTyped
  <1>9. CASE Gps103
    <2>1. /\ r \in Seq(Byte) /\ Len(r) \in Nat /\ Len(r) > 0
          /\ r[1] \in {Text[1], Handshake[1]}
      BY <1>5, <1>6, <1>9 DEF Gps103
    <2>2. \/ Stop(r)
          \/ \E j \in 1 .. Len(r) : r[j] = Semicolon /\ Deliver(r, 1, j)
      BY <1>5, <1>9 DEF Gps103
    <2>3. r[1] # Semicolon /\ r[1] # Delimiter
      BY <2>1, Texts DEF Semicolon, Delimiter
    <2>4. ASSUME NEW j \in 1 .. Len(r), r[j] = Semicolon, Deliver(r, 1, j)
          PROVE  TypeOK'
      <3>1. 1 \in 1 .. Len(r) /\ j >= 1 + 1
        BY <2>1, <2>3, <2>4
      <3> QED
        BY <2>1, <2>3, <2>4, <3>1, DeliverIsTyped
    <2> QED
      BY <2>1, <2>2, <2>4, StopIsTyped
  <1> QED
    BY <1>3, <1>4, <1>7, <1>8, <1>9 DEF Next

(* Frames that are delivered have something between their ends.            *)
THEOREM FramingTyped ==
    ASSUME \A x \in Streams : Octets(x), MaxBuffer \in Nat, MaxChunk \in Nat
    PROVE  Spec => []TypeOK
  <1>1. Init => TypeOK
    <2> SUFFICES ASSUME Init PROVE TypeOK
      OBVIOUS
    <2>1. Len(Sent) \in Nat
      BY SentIsTyped DEF Init
    <2>2. Len(frames) = 0
      BY DEF Init
    <2>3. pos \in 0 .. Len(Sent)
      BY <2>1 DEF Init
    <2>4. buffer \in Seq(0 .. 255) /\ frames \in Seq(Seq(0 .. 255))
      BY EmptySeq DEF Init
    <2>5. \A k \in 1 .. Len(frames) :
             Len(frames[k]) >= (IF frames[k][1] = Delimiter THEN 3 ELSE 2)
      BY <2>2
    <2>6. stream \in Streams /\ rejected \in {"no", "http", "full"} /\ busy \in BOOLEAN
      BY DEF Init
    <2> QED
      BY <2>3, <2>4, <2>5, <2>6 DEF TypeOK
  <1>2. TypeOK /\ [Next]_vars => TypeOK'
    <2>1. TypeOK /\ UNCHANGED vars => TypeOK'
      BY DEF TypeOK, vars, Sent, Intact
    <2> QED
      BY <2>1, FramingTypeStep
  <1> QED
    BY <1>1, <1>2, PTL DEF Spec

-----------------------------------------------------------------------------
(* GPS103: the fields of a text, between commas.                           *)

(* The texts between commas.                                               *)
FieldSeqs == Seq(Seq(Byte))

(* One byte more of a text that is split at its commas.                    *)
Field(p, c) == IF c = 44 THEN Append(p, <<>>) ELSE [p EXCEPT ![Len(p)] = Append(@, c)]

(* What split does with a byte: another field, or one byte more of the     *)
(* last.                                                                   *)
FieldTurn(q, p, c) ==
    /\ q \in FieldSeqs
    /\ c = 44 => /\ Len(q) = Len(p) + 1 /\ q[Len(p) + 1] = <<>>
                 /\ \A j \in 1 .. Len(p) : q[j] = p[j]
    /\ c # 44 /\ Len(p) >= 1 =>
          /\ Len(q) = Len(p) /\ q[Len(p)] = Append(p[Len(p)], c)
          /\ \A j \in 1 .. Len(p) - 1 : q[j] = p[j]

(* The step of the loop does that.                                         *)
LEMMA FieldIs ==
    ASSUME NEW p \in FieldSeqs, NEW c \in Byte
    PROVE  FieldTurn(Field(p, c), p, c)
  <1>1. PICK T : T = Seq(Byte)
    OBVIOUS
  <1>2. PICK n \in Nat : n = Len(p)
    BY LenProperties DEF FieldSeqs
  <1>3. p \in Seq(T) /\ <<>> \in T /\ p \in [1 .. n -> T]
    BY <1>1, <1>2 DEF FieldSeqs
  <1>4. CASE c = 44
    <2>1. PICK q : q = Append(p, <<>>)
      OBVIOUS
    <2>2. q \in Seq(T) /\ Len(q) = n + 1 /\ q[n + 1] = <<>> /\ \A j \in 1 .. n : q[j] = p[j]
      BY <1>2, <1>3, <2>1, AppendProperties
    <2> QED
      BY <1>1, <1>2, <1>4, <2>1, <2>2 DEF FieldTurn, Field, FieldSeqs
  <1>5. CASE c # 44 /\ n >= 1
    <2>1. PICK s \in T : s = Append(p[n], c)
      <3>1. p[n] \in Seq(Byte)
        BY <1>1, <1>3, <1>5
      <3>2. Append(p[n], c) \in Seq(Byte)
        BY <3>1, AppendProperties
      <3> QED
        BY <1>1, <3>2
    <2>2. PICK q : q = [p EXCEPT ![n] = s]
      OBVIOUS
    <2>3. q \in [1 .. n -> T] /\ q[n] = s /\ \A j \in 1 .. n - 1 : q[j] = p[j]
      BY <1>3, <1>5, <2>2
    <2>4. q \in Seq(T) /\ Len(q) = n
      BY <2>3, TupleIs
    <2>5. Field(p, c) = q
      BY <1>2, <1>3, <1>5, <2>1, <2>2 DEF Field
    <2> QED
      BY <1>1, <1>2, <1>5, <2>1, <2>3, <2>4, <2>5 DEF FieldTurn, FieldSeqs
  <1>6. CASE c # 44 /\ n = 0
    <2>1. Field(p, c) = [p EXCEPT ![n] = Append(@, c)]
      BY <1>2, <1>6 DEF Field
    <2>2. Field(p, c) = p
      <3>1. DOMAIN p = {}
        BY <1>3, <1>6
      <3>2. [p EXCEPT ![n] = Append(@, c)] = p
        BY <1>3, <3>1
      <3> QED
        BY <2>1, <3>2
    <2> QED
      BY <1>1, <1>2, <1>3, <1>6, <2>2 DEF FieldTurn, FieldSeqs
  <1> QED
    BY <1>2, <1>4, <1>5, <1>6

(* What is split so far, q, are k - 1 of the fields p and x bytes of the   *)
(* next one.                                                               *)
Grown(q, p, k, x) ==
    /\ q \in FieldSeqs /\ Len(q) = k
    /\ \A j \in 1 .. k - 1 : q[j] = p[j]
    /\ Len(q[k]) = x /\ \A y \in 1 .. x : q[k][y] = p[k][y]

(* A byte of a field makes the last field grow,                            *)
LEMMA GrowsByte ==
    ASSUME NEW p \in FieldSeqs, NEW k \in 1 .. Len(p), NEW x \in Nat, x < Len(p[k]),
           NEW q, Grown(q, p, k, x), NEW c \in Byte, c = p[k][x + 1], c # 44
    PROVE  Grown(Field(q, c), p, k, x + 1)
  <1>1. PICK r : r = Field(q, c) /\ FieldTurn(r, q, c)
    BY FieldIs DEF Grown
  <1>2. k \in Nat /\ k >= 1 /\ Len(q) = k /\ q \in FieldSeqs
    BY LenProperties DEF Grown, FieldSeqs
  <1>3. PICK s \in Seq(Byte) : s = q[k]
    <2>1. q \in Seq(Seq(Byte)) /\ k \in 1 .. Len(q)
      BY <1>2 DEF FieldSeqs
    <2>2. q[k] \in Seq(Byte)
      BY <2>1, ElementOfSeq
    <2> QED
      BY <2>2
  <1>4. Len(s) = x /\ \A y \in 1 .. x : s[y] = p[k][y]
    BY <1>3 DEF Grown
  <1>5. PICK t : t = Append(s, c)
    OBVIOUS
  <1>6. Len(t) = x + 1 /\ t[x + 1] = c /\ \A y \in 1 .. x : t[y] = s[y]
    BY <1>4, <1>5, AppendProperties
  <1>7. r \in FieldSeqs /\ Len(r) = k /\ r[k] = t /\ \A j \in 1 .. k - 1 : r[j] = q[j]
    BY <1>1, <1>2, <1>3, <1>5 DEF FieldTurn
  <1>8. \A j \in 1 .. k - 1 : r[j] = p[j]
    BY <1>7 DEF Grown
  <1>9. ASSUME NEW y \in 1 .. x + 1 PROVE t[y] = p[k][y]
    <2>1. CASE y = x + 1
      BY <1>6, <2>1
    <2>2. CASE y # x + 1
      <3>1. y \in 1 .. x
        BY <2>2
      <3> QED
        BY <1>4, <1>6, <3>1
    <2> QED
      BY <2>1, <2>2
  <1> QED
    BY <1>1, <1>6, <1>7, <1>8, <1>9 DEF Grown

(* and a comma begins the next.                                            *)
LEMMA GrowsField ==
    ASSUME NEW p \in FieldSeqs, NEW k \in Nat, 1 <= k, k < Len(p),
           NEW q, Grown(q, p, k, Len(p[k])), NEW c, c = 44
    PROVE  Grown(Field(q, c), p, k + 1, 0)
  <1>0. c \in Byte
    BY DEF Byte
  <1>1. PICK r : r = Field(q, c) /\ FieldTurn(r, q, c)
    BY <1>0, FieldIs DEF Grown
  <1>2. Len(q) = k /\ q \in FieldSeqs
    BY DEF Grown
  <1>3. PICK s \in Seq(Byte) : s = q[k]
    <2>1. q \in Seq(Seq(Byte)) /\ k \in 1 .. Len(q)
      BY <1>2 DEF FieldSeqs
    <2>2. q[k] \in Seq(Byte)
      BY <2>1, ElementOfSeq
    <2> QED
      BY <2>2
  <1>4. PICK t \in Seq(Byte) : t = p[k]
    <2>1. p \in Seq(Seq(Byte)) /\ k \in 1 .. Len(p)
      BY LenProperties DEF FieldSeqs
    <2>2. p[k] \in Seq(Byte)
      BY <2>1, ElementOfSeq
    <2> QED
      BY <2>2
  <1>5. Len(s) = Len(t) /\ \A y \in 1 .. Len(s) : s[y] = t[y]
    BY <1>3, <1>4 DEF Grown
  <1>6. s = t
    BY <1>5, SeqEqual
  <1>7. r \in FieldSeqs /\ Len(r) = k + 1 /\ r[k + 1] = <<>> /\ \A j \in 1 .. k : r[j] = q[j]
    BY <1>1, <1>2 DEF FieldTurn
  <1>8. ASSUME NEW j \in 1 .. k PROVE r[j] = p[j]
    <2>1. CASE j = k
      BY <1>3, <1>4, <1>6, <1>7, <2>1
    <2>2. CASE j # k
      <3>1. j \in 1 .. k - 1
        BY <2>2
      <3> QED
        BY <1>7, <3>1 DEF Grown
    <2> QED
      BY <2>1, <2>2
  <1>9. Len(<<>>) = 0 /\ (k + 1) - 1 = k /\ \A y : y \notin 1 .. 0
    OBVIOUS
  <1> QED
    BY <1>1, <1>7, <1>8, <1>9 DEF Grown

(* b holds the fields p with a comma between them; start says where.       *)
Parted(b, p, start) ==
    /\ b \in Seq(Byte) /\ p \in FieldSeqs /\ Len(p) >= 1
    /\ start \in [1 .. Len(p) -> Nat] /\ start[1] = 0
    /\ \A k \in 1 .. Len(p) : /\ Holds(b, start[k], p[k])
                              /\ \A y \in 1 .. Len(p[k]) : p[k][y] # 44
    /\ \A k \in 1 .. Len(p) - 1 : /\ start[k + 1] = start[k] + Len(p[k]) + 1
                                  /\ start[k + 1] <= Len(b) /\ b[start[k + 1]] = 44
    /\ Len(b) = start[Len(p)] + Len(p[Len(p)])

(* split takes the bytes one after another.                                *)
LEMMA SplitIs ==
    ASSUME NEW b \in Seq(Byte)
    PROVE  \E out \in [0 .. Len(b) -> FieldSeqs] :
              /\ out[0] = << <<>> >>
              /\ \A i \in 1 .. Len(b) : out[i] = Field(out[i - 1], b[i])
              /\ Txt!Fields(b) = out[Len(b)]
  <1> DEFINE step == [p \in FieldSeqs |-> [c \in Byte |-> Field(p, c)]]
  <1>1. step \in Turns(FieldSeqs, Byte)
    <2>1. \A p \in FieldSeqs, c \in Byte : Field(p, c) \in FieldSeqs
      BY FieldIs DEF FieldTurn
    <2> QED
      BY <2>1 DEF Turns
  <1>2. PICK first \in FieldSeqs : first = << <<>> >>
    <2>1. PICK T : T = Seq(Byte)
      OBVIOUS
    <2>2. << <<>> >> \in Seq(T)
      BY <2>1
    <2> QED
      BY <2>1, <2>2 DEF FieldSeqs
  <1>3. Txt!Fields(b) = Loop(step, first, b)
    <2>1. Txt!Byte = Byte /\ Txt!Comma = 44
      BY DEF Txt!Byte, Byte, Txt!Comma
    <2>2. Txt!Fields(b) = Txt!Loop(step, first, b)
      BY <1>2, <2>1 DEF Txt!Fields, Field, FieldSeqs
    <2> QED
      BY <2>2, SameLoop
  <1>4. \A p \in FieldSeqs, c \in Byte : step[p][c] = Field(p, c)
    OBVIOUS
  <1> HIDE DEF step
  <1>5. PICK out \in [0 .. Len(b) -> FieldSeqs] :
            /\ out[0] = first
            /\ \A i \in 1 .. Len(b) : out[i] = step[out[i - 1]][b[i]]
            /\ Loop(step, first, b) = out[Len(b)]
    <2>1. PICK o \in [0 .. Len(b) -> FieldSeqs] : Looped(o, step, first, b)
      BY <1>1, LoopIs
    <2> QED
      BY <2>1 DEF Looped
  <1>6. ASSUME NEW i \in 1 .. Len(b) PROVE out[i] = Field(out[i - 1], b[i])
    <2>1. b[i] \in Byte /\ i - 1 \in 0 .. Len(b)
      BY ElementOfSeq, LenProperties
    <2>2. out[i - 1] \in FieldSeqs
      BY <2>1
    <2> QED
      BY <1>4, <1>5, <2>1, <2>2
  <1> QED
    BY <1>2, <1>3, <1>5, <1>6

(* A text is split into its fields.                                        *)
LEMMA FieldsAre ==
    ASSUME NEW b, NEW p, NEW start, Parted(b, p, start)
    PROVE  Txt!Fields(b) = p
  <1>1. PICK n \in Nat : n = Len(p) /\ n >= 1
    BY LenProperties DEF Parted, FieldSeqs
  <1>2. PICK L \in Nat : L = Len(b)
    BY LenProperties DEF Parted
  <1>3. /\ b \in Seq(Byte) /\ p \in FieldSeqs /\ start[1] = 0
        /\ \A k \in 1 .. n : start[k] \in Nat /\ Holds(b, start[k], p[k])
        /\ \A k \in 1 .. n : \A y \in 1 .. Len(p[k]) : p[k][y] # 44
    BY <1>1 DEF Parted
  <1>4. /\ \A k \in 1 .. n - 1 : /\ start[k + 1] = start[k] + Len(p[k]) + 1
                                 /\ start[k + 1] <= L /\ b[start[k + 1]] = 44
        /\ L = start[n] + Len(p[n])
    BY <1>1, <1>2 DEF Parted
  <1>5. PICK out \in [0 .. L -> FieldSeqs] :
              /\ out[0] = << <<>> >>
              /\ \A i \in 1 .. L : out[i] = Field(out[i - 1], b[i])
              /\ Txt!Fields(b) = out[L]
    BY <1>2, <1>3, SplitIs
  <1>6. ASSUME NEW k \in 1 .. n, Grown(out[start[k]], p, k, 0)
        PROVE  Grown(out[start[k] + Len(p[k])], p, k, Len(p[k]))
    <2>1. PICK s \in Nat, l \in Nat : s = start[k] /\ l = Len(p[k]) /\ s + l <= L
      BY <1>2, <1>3, LenProperties DEF Holds
    <2>2. \A y \in 1 .. l : b[s + y] = p[k][y] /\ p[k][y] # 44
      BY <1>3, <2>1 DEF Holds
    <2> DEFINE K == {x \in 0 .. l : Grown(out[s + x], p, k, x)}
    <2>3. 0 \in K
      BY <1>6, <2>1
    <2>4. ASSUME NEW x \in K, x < l PROVE x + 1 \in K
      <3>1. x \in Nat /\ x < l /\ Grown(out[s + x], p, k, x)
        BY <2>4
      <3>2. PICK y \in 1 .. l, i \in 1 .. L : y = x + 1 /\ i = s + y /\ i - 1 = s + x
        <4>1. x + 1 \in 1 .. l /\ s + (x + 1) \in 1 .. L /\ (s + (x + 1)) - 1 = s + x
          BY SMTT(30), <2>1, <3>1
        <4> QED
          BY <4>1
      <3>3. b[i] \in Byte /\ b[i] = p[k][x + 1] /\ b[i] # 44
        BY SMTT(30), <1>2, <1>3, <2>2, <3>2, ElementOfSeq
      <3>4. k \in 1 .. Len(p) /\ x < Len(p[k])
        BY <1>1, <2>1, <3>1
      <3>5. Grown(Field(out[s + x], b[i]), p, k, x + 1)
        BY <1>3, <3>1, <3>3, <3>4, GrowsByte
      <3>6. out[i] = Field(out[s + x], b[i])
        BY <1>5, <3>2
      <3> QED
        BY <3>2, <3>5, <3>6
    <2>5. l \in K
      <3> HIDE DEF K
      <3>1. K \in SUBSET (0 .. l)
        BY DEF K
      <3>2. K = 0 .. l
        BY <2>3, <2>4, <3>1, FiniteInduction
      <3> QED
        BY <2>1, <3>2
    <2> QED
      BY <2>1, <2>5
  <1>7. ASSUME NEW k \in 1 .. n, k < n, Grown(out[start[k]], p, k, 0)
        PROVE  Grown(out[start[k + 1]], p, k + 1, 0)
    <2>1. Grown(out[start[k] + Len(p[k])], p, k, Len(p[k]))
      BY <1>6, <1>7
    <2>2. PICK s \in Nat, l \in Nat : s = start[k] /\ l = Len(p[k])
      BY <1>3, LenProperties DEF Holds
    <2>3. PICK i \in 1 .. L : i = start[k + 1] /\ i = s + l + 1 /\ b[i] = 44
      <3>1. k \in 1 .. n - 1
        BY <1>7
      <3>2. start[k + 1] = s + l + 1 /\ s + l + 1 <= L /\ b[start[k + 1]] = 44
        BY <1>4, <2>2, <3>1
      <3>3. s + l + 1 \in 1 .. L
        BY <3>2
      <3> QED
        BY <3>2, <3>3
    <2>4. out[i] = Field(out[s + l], 44)
      <3>1. i - 1 = s + l
        BY <2>3
      <3> QED
        BY <1>5, <2>3, <3>1
    <2>5. Grown(Field(out[s + l], 44), p, k + 1, 0)
      <3>1. k \in Nat /\ 1 <= k /\ k < Len(p)
        BY <1>1, <1>7
      <3> QED
        BY <1>3, <2>1, <2>2, <3>1, GrowsField
    <2> QED
      BY <2>3, <2>4, <2>5
  <1>8. Grown(out[start[1]], p, 1, 0)
    <2>1. PICK t : t = << <<>> >>
      OBVIOUS
    <2>2. t \in FieldSeqs /\ Len(t) = 1 /\ t[1] = <<>>
      BY <2>1 DEF FieldSeqs
    <2>3. Len(<<>>) = 0 /\ (\A j : j \notin 1 .. 0) /\ 1 - 1 = 0
      OBVIOUS
    <2> QED
      BY <1>3, <1>5, <2>1, <2>2, <2>3 DEF Grown
  <1> DEFINE R == {j \in 0 .. n - 1 : Grown(out[start[j + 1]], p, j + 1, 0)}
  <1>9. 0 \in R
    BY <1>1, <1>8
  <1>10. ASSUME NEW j \in R, j < n - 1 PROVE j + 1 \in R
    <2>1. PICK k \in 1 .. n : k = j + 1 /\ k < n /\ k \in 0 .. n - 1
      BY <1>10
    <2>2. Grown(out[start[k]], p, k, 0)
      BY <1>10, <2>1
    <2>3. Grown(out[start[k + 1]], p, k + 1, 0)
      BY <1>7, <2>1, <2>2
    <2> QED
      BY <2>1, <2>3
  <1>11. Grown(out[start[n]], p, n, 0)
    <2> HIDE DEF R
    <2>1. R \in SUBSET (0 .. n - 1) /\ n - 1 \in Nat
      BY <1>1 DEF R
    <2>2. R = 0 .. n - 1
      BY <1>9, <1>10, <2>1, FiniteInduction
    <2>3. n - 1 \in R /\ n - 1 + 1 = n
      BY <1>1, <2>2
    <2> QED
      BY <2>3 DEF R
  <1>12. Grown(out[L], p, n, Len(p[n]))
    <2>1. n \in 1 .. n
      BY <1>1
    <2> QED
      BY <1>4, <1>6, <1>11, <2>1
  <1>13. PICK q \in FieldSeqs : q = out[L]
    <2>1. L \in 0 .. L
      OBVIOUS
    <2> QED
      BY <1>5, <2>1
  <1>14. ASSUME NEW j \in 1 .. n PROVE q[j] = p[j]
    <2>1. CASE j = n
      <3>1. q[n] \in Seq(Byte) /\ p[n] \in Seq(Byte)
        <4>1. q \in Seq(Seq(Byte)) /\ p \in Seq(Seq(Byte)) /\ n \in 1 .. Len(q) /\ n \in 1 .. Len(p)
          BY <1>1, <1>3, <1>12, <1>13 DEF Grown, FieldSeqs
        <4> QED
          BY <4>1, ElementOfSeq
      <3>2. PICK u \in Seq(Byte), v \in Seq(Byte) : u = q[n] /\ v = p[n]
        BY <3>1
      <3>3. Len(u) = Len(v) /\ \A y \in 1 .. Len(u) : u[y] = v[y]
        BY <1>12, <1>13, <3>2 DEF Grown
      <3>4. u = v
        BY <3>3, SeqEqual
      <3> QED
        BY <2>1, <3>2, <3>4
    <2>2. CASE j # n
      <3>1. j \in 1 .. n - 1
        BY <2>2
      <3> QED
        BY <1>12, <1>13, <3>1 DEF Grown
    <2> QED
      BY <2>1, <2>2
  <1>15. q = p
    <2>1. PICK T : T = Seq(Byte)
      OBVIOUS
    <2>2. q \in Seq(T) /\ p \in Seq(T) /\ Len(q) = Len(p) /\ \A j \in 1 .. Len(q) : q[j] = p[j]
      BY <1>1, <1>3, <1>12, <1>13, <1>14, <2>1 DEF Grown, FieldSeqs
    <2> QED
      BY <2>2, SeqEqual
  <1> QED
    BY <1>5, <1>13, <1>15

(* A number is read digit by digit.                                        *)
LEMMA NumberIs ==
    ASSUME NEW s \in Seq(Byte)
    PROVE  \E out \in [0 .. Len(s) -> Int] :
              /\ out[0] = 0
              /\ \A i \in 1 .. Len(s) : out[i] = 10 * out[i - 1] + s[i] - 48
              /\ Txt!Number(s) = out[Len(s)]
  <1> DEFINE step == [v \in Int |-> [c \in Byte |-> 10 * v + c - 48]]
  <1>1. step \in Turns(Int, Byte)
    <2>1. \A v \in Int, c \in Byte : 10 * v + c - 48 \in Int
      BY DEF Byte
    <2> QED
      BY <2>1 DEF Turns
  <1>2. PICK first \in Int : first = 0
    OBVIOUS
  <1>3. Txt!Number(s) = Loop(step, first, s)
    <2>1. Txt!Byte = Byte
      BY DEF Txt!Byte, Byte
    <2>2. Txt!Number(s) = Txt!Loop(step, first, s)
      BY <1>2, <2>1 DEF Txt!Number
    <2> QED
      BY <2>2, SameLoop
  <1>4. \A v \in Int, c \in Byte : step[v][c] = 10 * v + c - 48
    OBVIOUS
  <1> HIDE DEF step
  <1>5. PICK out \in [0 .. Len(s) -> Int] :
            /\ out[0] = first
            /\ \A i \in 1 .. Len(s) : out[i] = step[out[i - 1]][s[i]]
            /\ Loop(step, first, s) = out[Len(s)]
    <2>1. PICK Z : Z = Int
      OBVIOUS
    <2>2. step \in Turns(Z, Byte) /\ first \in Z
      BY <1>1, <2>1
    <2>3. \E out \in [0 .. Len(s) -> Z] :
            /\ out[0] = first
            /\ \A i \in 1 .. Len(s) : out[i] = step[out[i - 1]][s[i]]
            /\ Loop(step, first, s) = out[Len(s)]
      <3>1. PICK o \in [0 .. Len(s) -> Z] : Looped(o, step, first, s)
        BY <2>2, LoopIs
      <3> QED
        BY <3>1 DEF Looped
    <2> QED
      BY <2>1, <2>3
  <1>6. ASSUME NEW i \in 1 .. Len(s) PROVE out[i] = 10 * out[i - 1] + s[i] - 48
    <2>1. s[i] \in Byte /\ i - 1 \in 0 .. Len(s)
      BY ElementOfSeq, LenProperties
    <2>2. out[i - 1] \in Int
      BY <2>1
    <2> QED
      BY <1>4, <1>5, <2>1, <2>2
  <1> QED
    BY <1>2, <1>3, <1>5, <1>6

-----------------------------------------------------------------------------
(* GPS103: numbers of two digits, of three, of five and of six.            *)

(* A digit.                                                                *)
Digit == 0 .. 9

(* The k-th byte of s is the digit d.                                      *)
Written(s, k, d) == s[k] = 48 + d

(* The number that two digits write;                                       *)
LEMMA NumberOfTwo ==
    ASSUME NEW s \in Seq(Byte), Len(s) = 2, NEW a \in Digit, NEW b \in Digit,
           Written(s, 1, a), Written(s, 2, b)
    PROVE  Txt!Number(s) = 10 * a + b
  <1>1. PICK out \in [0 .. 2 -> Int] :
            /\ out[0] = 0 /\ \A i \in 1 .. 2 : out[i] = 10 * out[i - 1] + s[i] - 48
            /\ Txt!Number(s) = out[2]
    BY NumberIs
  <1>2. out[1] = a
    BY <1>1 DEF Written, Digit
  <1>3. out[2] = 10 * a + b
    BY <1>1, <1>2 DEF Written, Digit
  <1> QED
    BY <1>1, <1>3

(* three;                                                                  *)
LEMMA NumberOfThree ==
    ASSUME NEW s \in Seq(Byte), Len(s) = 3, NEW a \in Digit, NEW b \in Digit, NEW c \in Digit,
           Written(s, 1, a), Written(s, 2, b), Written(s, 3, c)
    PROVE  Txt!Number(s) = 100 * a + 10 * b + c
  <1>1. PICK out \in [0 .. 3 -> Int] :
            /\ out[0] = 0 /\ \A i \in 1 .. 3 : out[i] = 10 * out[i - 1] + s[i] - 48
            /\ Txt!Number(s) = out[3]
    BY NumberIs
  <1>2. out[1] = a
    BY <1>1 DEF Written, Digit
  <1>3. out[2] = 10 * a + b
    BY <1>1, <1>2 DEF Written, Digit
  <1>4. out[3] = 100 * a + 10 * b + c
    BY SMTT(30), <1>1, <1>3 DEF Written, Digit
  <1> QED
    BY <1>1, <1>4

(* five;                                                                   *)
LEMMA NumberOfFive ==
    ASSUME NEW s \in Seq(Byte), Len(s) = 5, NEW a \in Digit, NEW b \in Digit, NEW c \in Digit,
           NEW d \in Digit, NEW e \in Digit,
           Written(s, 1, a), Written(s, 2, b), Written(s, 3, c), Written(s, 4, d), Written(s, 5, e)
    PROVE  Txt!Number(s) = 100 * (100 * a + 10 * b + c) + 10 * d + e
  <1>1. PICK out \in [0 .. 5 -> Int] :
            /\ out[0] = 0 /\ \A i \in 1 .. 5 : out[i] = 10 * out[i - 1] + s[i] - 48
            /\ Txt!Number(s) = out[5]
    BY NumberIs
  <1>2. out[1] = a
    BY <1>1 DEF Written, Digit
  <1>3. out[2] = 10 * a + b
    BY <1>1, <1>2 DEF Written, Digit
  <1>4. out[3] = 100 * a + 10 * b + c
    BY SMTT(30), <1>1, <1>3 DEF Written, Digit
  <1>5. out[4] = 10 * (100 * a + 10 * b + c) + d
    BY <1>1, <1>4 DEF Written, Digit
  <1>6. out[5] = 100 * (100 * a + 10 * b + c) + 10 * d + e
    BY SMTT(30), <1>1, <1>5 DEF Written, Digit
  <1> QED
    BY <1>1, <1>6

(* and six.                                                                *)
LEMMA NumberOfSix ==
    ASSUME NEW s \in Seq(Byte), Len(s) = 6, NEW a \in Digit, NEW b \in Digit, NEW c \in Digit,
           NEW d \in Digit, NEW e \in Digit, NEW f \in Digit,
           Written(s, 1, a), Written(s, 2, b), Written(s, 3, c), Written(s, 4, d), Written(s, 5, e),
           Written(s, 6, f)
    PROVE  Txt!Number(s) = 10000 * (10 * a + b) + 1000 * c + 100 * d + 10 * e + f
  <1>1. PICK out \in [0 .. 6 -> Int] :
            /\ out[0] = 0 /\ \A i \in 1 .. 6 : out[i] = 10 * out[i - 1] + s[i] - 48
            /\ Txt!Number(s) = out[6]
    BY NumberIs
  <1>2. out[1] = a
    BY <1>1 DEF Written, Digit
  <1>3. out[2] = 10 * a + b
    BY SMTT(30), <1>1, <1>2 DEF Written, Digit
  <1>4. out[3] = 10 * (10 * a + b) + c
    BY SMTT(30), <1>1, <1>3 DEF Written, Digit
  <1>5. out[4] = 100 * (10 * a + b) + 10 * c + d
    BY <1>1, <1>4 DEF Written, Digit
  <1>6. out[5] = 1000 * (10 * a + b) + 100 * c + 10 * d + e
    BY SMTT(30), <1>1, <1>5 DEF Written, Digit
  <1>7. out[6] = 10000 * (10 * a + b) + 1000 * c + 100 * d + 10 * e + f
    BY <1>1, <1>6, SMTT(30) DEF Written, Digit
  <1> QED
    BY <1>1, <1>7

(* The digits of a number that is written.                                 *)
DigitOf(v, w) == (v \div w) % 10

(* The digits of a number are written so.                                  *)
LEMMA DecimalsAre ==
    ASSUME NEW v \in Nat, NEW n \in 1 .. 4
    PROVE  /\ Decimals(v, n) \in Seq(Byte) /\ Len(Decimals(v, n)) = n
           /\ \A k \in 1 .. n : /\ DigitOf(v, Tens[n - k + 1]) \in Digit
                                /\ Written(Decimals(v, n), k, DigitOf(v, Tens[n - k + 1]))
                                /\ Decimals(v, n)[k] \in 48 .. 57
  <1>1. ASSUME NEW k \in 1 .. n PROVE DigitOf(v, Tens[n - k + 1]) \in Digit
    <2>1. n - k + 1 \in 1 .. 4
      OBVIOUS
    <2>2. Tens[n - k + 1] \in {1, 10, 100, 1000}
      BY <2>1 DEF Tens
    <2>3. PICK w \in {1, 10, 100, 1000} : w = Tens[n - k + 1]
      BY <2>2
    <2>4. (v \div w) % 10 \in 0 .. 9
      BY <2>3
    <2> QED
      BY <2>3, <2>4 DEF DigitOf, Digit
  <1>2. \A x \in Digit : 48 + x \in Byte /\ 48 + x \in 48 .. 57
    BY DEF Digit, Byte
  <1>3. PICK s : s = [k \in 1 .. n |-> 48 + DigitOf(v, Tens[n - k + 1])]
    OBVIOUS
  <1>4. Decimals(v, n) = s
    BY <1>3 DEF Decimals, DigitOf
  <1>5. s \in [1 .. n -> Byte] /\ \A k \in 1 .. n : s[k] = 48 + DigitOf(v, Tens[n - k + 1])
    BY <1>1, <1>2, <1>3
  <1>6. s \in Seq(Byte) /\ Len(s) = n
    BY <1>5, TupleIs
  <1> QED
    BY <1>1, <1>2, <1>4, <1>5, <1>6 DEF Written

(* And make the number.                                                    *)
LEMMA DigitsMake ==
    ASSUME NEW v \in Nat
    PROVE  /\ v < 100 => 10 * DigitOf(v, 10) + DigitOf(v, 1) = v
           /\ v < 1000 => 100 * DigitOf(v, 100) + 10 * DigitOf(v, 10) + DigitOf(v, 1) = v
           /\ v < 10000 => 1000 * DigitOf(v, 1000) + 100 * DigitOf(v, 100)
                             + 10 * DigitOf(v, 10) + DigitOf(v, 1) = v
  <1>1. v < 100 => 10 * ((v \div 10) % 10) + ((v \div 1) % 10) = v
    OBVIOUS
  <1>2. v < 1000 => 100 * ((v \div 100) % 10) + 10 * ((v \div 10) % 10) + ((v \div 1) % 10) = v
    OBVIOUS
  <1>3. v < 10000 => 1000 * ((v \div 1000) % 10) + 100 * ((v \div 100) % 10)
                       + 10 * ((v \div 10) % 10) + ((v \div 1) % 10) = v
    OBVIOUS
  <1> QED
    BY <1>1, <1>2, <1>3 DEF DigitOf

(* What follows the point of b, behind its w digits.                       *)
Figure(b, w, k) ==
    IF /\ w + 1 + k <= Len(b) /\ b[w + 1] = 46
       /\ \A j \in 1 .. k : b[w + 1 + j] \in 48 .. 57
    THEN b[w + 1 + k] ELSE 48

(* b begins with w digits, and no more; how it is read with its decimals.  *)
Begins(b, w) ==
    /\ b \in Seq(Byte) /\ w \in Nat /\ w >= 1 /\ w <= Len(b)
    /\ \A k \in 1 .. w : b[k] \in 48 .. 57
    /\ w = Len(b) \/ b[w + 1] = 46

(* The number that b begins with, of w digits and some decimals, is that   *)
(* of s.                                                                   *)
IsReadAs(b, w, places, s) ==
    /\ s \in Seq(Byte) /\ Len(s) = w + places
    /\ Txt!Decimal(b, places) = <<Txt!Number(s)>>
    /\ \A k \in 1 .. w : s[k] = b[k]
    /\ \A k \in 1 .. places : s[w + k] = Figure(b, w, k)

(* parseFloat reads one.                                                   *)
LEMMA DecimalIs ==
    ASSUME NEW b, NEW w, Begins(b, w), NEW places \in Nat
    PROVE  \E s : IsReadAs(b, w, places, s)
  <1>0. /\ b \in Seq(Byte) /\ w \in Nat /\ w >= 1 /\ w <= Len(b)
        /\ \A k \in 1 .. w : b[k] \in 48 .. 57
        /\ w = Len(b) \/ b[w + 1] = 46
    BY DEF Begins
  <1>1. PICK L \in Nat : L = Len(b)
    BY LenProperties
  <1> DEFINE AtFront(n) == /\ \A k \in 1 .. n : Txt!IsDigit(b[k])
                           /\ n = L \/ ~ Txt!IsDigit(b[n + 1])
             fraction == [k \in 1 .. places |-> Figure(b, w, k)]
  <1>2. AtFront(w) /\ w \in 0 .. L
    <2>1. 46 \notin 48 .. 57
      OBVIOUS
    <2> QED
      BY <1>0, <1>1, <2>1 DEF Txt!IsDigit
  <1>3. ASSUME NEW n \in 0 .. L, AtFront(n) PROVE n = w
    <2>1. CASE n < w
      <3>1. n # L /\ n + 1 \in 1 .. w
        BY <1>0, <1>1, <2>1
      <3> QED
        BY <1>0, <1>3, <3>1 DEF Txt!IsDigit
    <2>2. CASE n > w
      <3>1. w # L /\ w + 1 \in 1 .. n
        BY <1>0, <1>1, <2>2
      <3>2. b[w + 1] = 46 /\ 46 \notin 48 .. 57
        BY <1>0, <1>1, <3>1
      <3> QED
        BY <1>3, <3>1, <3>2 DEF Txt!IsDigit
    <2> QED
      BY <1>0, <2>1, <2>2
  <1>4. (CHOOSE n \in 0 .. L : AtFront(n)) = w
    <2> HIDE DEF AtFront
    <2> QED
      BY <1>2, <1>3
  <1>5. fraction \in Seq(Byte) /\ Len(fraction) = places
        /\ \A k \in 1 .. places : fraction[k] = Figure(b, w, k)
    <2>1. ASSUME NEW k \in 1 .. places PROVE Figure(b, w, k) \in Byte
      <3>1. CASE w + 1 + k <= Len(b)
        <4>1. w + 1 + k \in 1 .. Len(b)
          BY <1>0, <1>1, <3>1
        <4>2. b[w + 1 + k] \in Byte /\ 48 \in Byte
          BY <1>0, <4>1, ElementOfSeq DEF Byte
        <4> QED
          BY <4>2 DEF Figure
      <3>2. CASE ~ (w + 1 + k <= Len(b))
        BY <3>2 DEF Figure, Byte
      <3> QED
        BY <3>1, <3>2
    <2>2. fraction \in [1 .. places -> Byte]
      BY <2>1
    <2>3. \A k \in 1 .. places : fraction[k] = Figure(b, w, k)
      OBVIOUS
    <2> HIDE DEF fraction
    <2> QED
      BY <2>2, <2>3, TupleIs
  <1>6. PICK a \in Seq(Byte) : a = SubSeq(b, 1, w) /\ Len(a) = w /\ \A k \in 1 .. w : a[k] = b[k]
    <2>1. PICK t : t = SubSeq(b, 1, w)
      OBVIOUS
    <2>2. /\ t \in Seq(Byte) /\ Len(t) = w - 1 + 1
          /\ \A i \in 1 .. w - 1 + 1 : t[i] = b[1 + i - 1]
      <3>1. 1 \in 1 .. Len(b) + 1 /\ w \in 0 .. Len(b) /\ 1 <= w + 1
        BY <1>0, <1>1
      <3> QED
        BY <1>0, <2>1, <3>1, PartIs
    <2>3. w - 1 + 1 = w /\ \A i \in 1 .. w : 1 + i - 1 = i
      BY <1>0
    <2> QED
      BY <2>1, <2>2, <2>3
  <1>7. Txt!Decimal(b, places) = <<Txt!Number(a \o fraction)>>
    <2> DEFINE Read(n) ==
                 LET InFraction(k) == /\ n + 1 + k <= Len(b) /\ b[n + 1] = Txt!Point
                                      /\ \A j \in 1 .. k : Txt!IsDigit(b[n + 1 + j])
                     f == [k \in 1 .. places |-> IF InFraction(k) THEN b[n + 1 + k] ELSE 48]
                 IN IF n = 0 THEN <<>> ELSE <<Txt!Number(SubSeq(b, 1, n) \o f)>>
    <2>1. Txt!Decimal(b, places) = Read(CHOOSE n \in 0 .. L : AtFront(n))
      BY <1>1 DEF Txt!Decimal
    <2>2. Read(w) = <<Txt!Number(a \o fraction)>>
      BY <1>0, <1>6 DEF Figure, Txt!Point, Txt!IsDigit
    <2> HIDE DEF Read, AtFront
    <2> QED
      BY <1>4, <2>1, <2>2
  <1> HIDE DEF fraction
  <1>8. PICK s : s = a \o fraction
    OBVIOUS
  <1>9. Glued(s, a, fraction)
    BY <1>5, <1>8, ConcatIs
  <1>10. s \in Seq(Byte) /\ Len(s) = w + places
    BY <1>5, <1>6, <1>9 DEF Glued
  <1>11. \A k \in 1 .. w : s[k] = b[k]
    BY <1>6, <1>9 DEF Glued
  <1>12. \A k \in 1 .. places : s[w + k] = Figure(b, w, k)
    BY <1>5, <1>6, <1>9 DEF Glued
  <1> QED
    BY <1>7, <1>8, <1>10, <1>11, <1>12 DEF IsReadAs

(* The digits of two, three and four places.                               *)
LEMMA TwoAreWritten ==
    ASSUME NEW v \in Nat
    PROVE  \E d \in Seq(Byte) : /\ d = Decimals(v, 2) /\ Len(d) = 2
                                /\ Written(d, 1, DigitOf(v, 10)) /\ Written(d, 2, DigitOf(v, 1))
                                /\ \A k \in 1 .. 2 : d[k] \in 48 .. 57
  <1>1. /\ Decimals(v, 2) \in Seq(Byte) /\ Len(Decimals(v, 2)) = 2
        /\ \A k \in 1 .. 2 : /\ Written(Decimals(v, 2), k, DigitOf(v, Tens[2 - k + 1]))
                             /\ Decimals(v, 2)[k] \in 48 .. 57
    BY DecimalsAre
  <1>2. Tens[2 - 1 + 1] = 10 /\ Tens[2 - 2 + 1] = 1 /\ 1 \in 1 .. 2 /\ 2 \in 1 .. 2
    BY DEF Tens
  <1>3. PICK d : d = Decimals(v, 2)
    OBVIOUS
  <1>4. Written(d, 1, DigitOf(v, 10)) /\ Written(d, 2, DigitOf(v, 1))
    BY <1>1, <1>2, <1>3
  <1> QED
    BY <1>1, <1>3, <1>4

(* Three digits are written;                                               *)
LEMMA ThreeAreWritten ==
    ASSUME NEW v \in Nat
    PROVE  \E d \in Seq(Byte) : /\ d = Decimals(v, 3) /\ Len(d) = 3
                                /\ Written(d, 1, DigitOf(v, 100)) /\ Written(d, 2, DigitOf(v, 10))
                                /\ Written(d, 3, DigitOf(v, 1))
                                /\ \A k \in 1 .. 3 : d[k] \in 48 .. 57
  <1>1. /\ Decimals(v, 3) \in Seq(Byte) /\ Len(Decimals(v, 3)) = 3
        /\ \A k \in 1 .. 3 : /\ Written(Decimals(v, 3), k, DigitOf(v, Tens[3 - k + 1]))
                             /\ Decimals(v, 3)[k] \in 48 .. 57
    BY DecimalsAre
  <1>2. /\ Tens[3 - 1 + 1] = 100 /\ Tens[3 - 2 + 1] = 10 /\ Tens[3 - 3 + 1] = 1
        /\ 1 \in 1 .. 3 /\ 2 \in 1 .. 3 /\ 3 \in 1 .. 3
    BY DEF Tens
  <1>3. PICK d : d = Decimals(v, 3)
    OBVIOUS
  <1>4. Written(d, 1, DigitOf(v, 100)) /\ Written(d, 2, DigitOf(v, 10)) /\ Written(d, 3, DigitOf(v, 1))
    BY <1>1, <1>2, <1>3
  <1> QED
    BY <1>1, <1>3, <1>4

(* and four.                                                               *)
LEMMA FourAreWritten ==
    ASSUME NEW v \in Nat
    PROVE  \E d \in Seq(Byte) : /\ d = Decimals(v, 4) /\ Len(d) = 4
                                /\ Written(d, 1, DigitOf(v, 1000)) /\ Written(d, 2, DigitOf(v, 100))
                                /\ Written(d, 3, DigitOf(v, 10)) /\ Written(d, 4, DigitOf(v, 1))
                                /\ \A k \in 1 .. 4 : d[k] \in 48 .. 57
  <1>1. /\ Decimals(v, 4) \in Seq(Byte) /\ Len(Decimals(v, 4)) = 4
        /\ \A k \in 1 .. 4 : /\ Written(Decimals(v, 4), k, DigitOf(v, Tens[4 - k + 1]))
                             /\ Decimals(v, 4)[k] \in 48 .. 57
    BY DecimalsAre
  <1>2. /\ Tens[4 - 1 + 1] = 1000 /\ Tens[4 - 2 + 1] = 100 /\ Tens[4 - 3 + 1] = 10 /\ Tens[4 - 4 + 1] = 1
        /\ 1 \in 1 .. 4 /\ 2 \in 1 .. 4 /\ 3 \in 1 .. 4 /\ 4 \in 1 .. 4
    BY DEF Tens
  <1>3. PICK d : d = Decimals(v, 4)
    OBVIOUS
  <1>4. /\ Written(d, 1, DigitOf(v, 1000)) /\ Written(d, 2, DigitOf(v, 100))
        /\ Written(d, 3, DigitOf(v, 10)) /\ Written(d, 4, DigitOf(v, 1))
    BY <1>1, <1>2, <1>3
  <1> QED
    BY <1>1, <1>3, <1>4

(* A digit is from 0 to 9.                                                 *)
LEMMA DigitTyped ==
    ASSUME NEW v \in Nat
    PROVE  /\ DigitOf(v, 1000) \in Digit /\ DigitOf(v, 100) \in Digit
           /\ DigitOf(v, 10) \in Digit /\ DigitOf(v, 1) \in Digit
  BY DEF DigitOf, Digit

(* The speed has half a knot more.                                         *)
LEMMA SpeedIsRead ==
    ASSUME NEW v \in Nat, v < 1000
    PROVE  Txt!Decimal(Decimals(v, 3) \o <<46, 53>>, 2) = <<100 * v + 50>>
  <1>1. PICK d \in Seq(Byte) : /\ d = Decimals(v, 3) /\ Len(d) = 3
                               /\ Written(d, 1, DigitOf(v, 100)) /\ Written(d, 2, DigitOf(v, 10))
                               /\ Written(d, 3, DigitOf(v, 1))
                               /\ \A k \in 1 .. 3 : d[k] \in 48 .. 57
    BY ThreeAreWritten
  <1>2. PICK x \in Digit, y \in Digit, z \in Digit :
           x = DigitOf(v, 100) /\ y = DigitOf(v, 10) /\ z = DigitOf(v, 1) /\ 100 * x + 10 * y + z = v
    <2>1. DigitOf(v, 100) \in Digit /\ DigitOf(v, 10) \in Digit /\ DigitOf(v, 1) \in Digit
      BY DEF DigitOf, Digit
    <2> QED
      BY <2>1, DigitsMake
  <1>3. PICK h \in Seq(Byte) : h = <<46, 53>> /\ Len(h) = 2 /\ h[1] = 46 /\ h[2] = 53
    <2>1. {46, 53} \subseteq Byte
      BY DEF Byte
    <2>2. <<46, 53>> \in Seq(Byte) /\ Len(<<46, 53>>) = 2 /\ <<46, 53>>[1] = 46 /\ <<46, 53>>[2] = 53
      BY <2>1
    <2> QED
      BY <2>2
  <1>4. PICK b : b = d \o h
    OBVIOUS
  <1>5. Glued(b, d, h)
    BY <1>4, ConcatIs
  <1>6. b \in Seq(Byte) /\ Len(b) = 5 /\ (\A k \in 1 .. 3 : b[k] = d[k]) /\ b[4] = 46 /\ b[5] = 53
    <2>0. b \in Seq(Byte) /\ Len(b) = Len(d) + Len(h) /\ \A k \in 1 .. Len(d) : b[k] = d[k]
      BY <1>5 DEF Glued
    <2>1. /\ b \in Seq(Byte) /\ Len(b) = 5 /\ \A k \in 1 .. 3 : b[k] = d[k]
      <3>1. Len(d) = 3 /\ Len(h) = 2
        BY <1>1, <1>3
      <3> QED
        BY <2>0, <3>1
    <2>2. \A k \in 1 .. 2 : b[3 + k] = h[k]
      <3>1. \A k \in 1 .. Len(h) : b[Len(d) + k] = h[k]
        BY <1>5 DEF Glued
      <3>2. Len(d) = 3 /\ Len(h) = 2
        BY <1>1, <1>3
      <3> QED
        BY <3>1, <3>2
    <2>3. b[3 + 1] = 46 /\ b[3 + 2] = 53
      BY <1>3, <2>2
    <2>4. b[4] = 46 /\ b[5] = 53
      <3>1. 3 + 1 = 4 /\ 3 + 2 = 5
        OBVIOUS
      <3> QED
        BY <2>3, <3>1
    <2> QED
      BY <2>1, <2>4
  <1>7. PICK s \in Seq(Byte) :
              /\ Txt!Decimal(b, 2) = <<Txt!Number(s)>>
              /\ Len(s) = 3 + 2 /\ \A k \in 1 .. 3 : s[k] = b[k]
              /\ \A k \in 1 .. 2 : s[3 + k] = Figure(b, 3, k)
    <2>1. Begins(b, 3)
      <3>1. \A k \in 1 .. 3 : b[k] \in 48 .. 57
        <4> SUFFICES ASSUME NEW k \in 1 .. 3 PROVE b[k] \in 48 .. 57
          OBVIOUS
        <4>1. d[k] \in 48 .. 57
          BY <1>1, SMTT(30)
        <4>2. b[k] = d[k]
          BY <1>6
        <4> QED
          BY <4>1, <4>2
      <3>2. b \in Seq(Byte) /\ Len(b) = 5 /\ b[4] = 46
        BY <1>6
      <3>3. 3 <= Len(b) /\ b[3 + 1] = 46
        BY <3>2
      <3> QED
        BY <3>1, <3>2, <3>3 DEF Begins
    <2>2. PICK s : IsReadAs(b, 3, 2, s)
      BY <2>1, DecimalIs
    <2> QED
      BY <2>2, SMTT(30) DEF IsReadAs
  <1>8. Figure(b, 3, 1) = 53 /\ Figure(b, 3, 2) = 48
    <2>1. Len(b) = 5 /\ b[4] = 46 /\ b[5] = 53
      BY <1>6
    <2> QED
      BY <2>1 DEF Figure
  <1>9. s[4] = 53 /\ s[5] = 48
    <2>1. s[3 + 1] = Figure(b, 3, 1) /\ s[3 + 2] = Figure(b, 3, 2) /\ 3 + 1 = 4 /\ 3 + 2 = 5
      BY <1>7
    <2> QED
      BY <1>8, <2>1
  <1>10. /\ Written(s, 1, x) /\ Written(s, 2, y) /\ Written(s, 3, z)
         /\ Written(s, 4, 5) /\ Written(s, 5, 0) /\ 5 \in Digit /\ 0 \in Digit
    BY SMTT(30), <1>1, <1>2, <1>6, <1>7, <1>9 DEF Written, Digit
  <1>11. Txt!Number(s) = 100 * (100 * x + 10 * y + z) + 10 * 5 + 0
    BY <1>7, <1>10, NumberOfFive
  <1>12. Txt!Number(s) = 100 * v + 50
    BY <1>2, <1>11
  <1> QED
    BY <1>1, <1>3, <1>4, <1>7, <1>12

(* The course has no decimals.                                             *)
LEMMA CourseIsRead ==
    ASSUME NEW v \in Nat, v < 1000
    PROVE  Txt!Decimal(Decimals(v, 3), 2) = <<100 * v>>
  <1>1. PICK b \in Seq(Byte) : /\ b = Decimals(v, 3) /\ Len(b) = 3
                               /\ Written(b, 1, DigitOf(v, 100)) /\ Written(b, 2, DigitOf(v, 10))
                               /\ Written(b, 3, DigitOf(v, 1))
                               /\ \A k \in 1 .. 3 : b[k] \in 48 .. 57
    BY ThreeAreWritten
  <1>2. PICK x \in Digit, y \in Digit, z \in Digit :
           x = DigitOf(v, 100) /\ y = DigitOf(v, 10) /\ z = DigitOf(v, 1) /\ 100 * x + 10 * y + z = v
    BY DigitTyped, DigitsMake
  <1>3. PICK s \in Seq(Byte) :
              /\ Txt!Decimal(b, 2) = <<Txt!Number(s)>>
              /\ Len(s) = 3 + 2 /\ \A k \in 1 .. 3 : s[k] = b[k]
              /\ \A k \in 1 .. 2 : s[3 + k] = Figure(b, 3, k)
    <2>1. Begins(b, 3)
      BY <1>1 DEF Begins
    <2>2. PICK s : IsReadAs(b, 3, 2, s)
      BY <2>1, DecimalIs
    <2> QED
      BY <2>2 DEF IsReadAs
  <1>4. Figure(b, 3, 1) = 48 /\ Figure(b, 3, 2) = 48
    BY <1>1 DEF Figure
  <1>5. s[4] = 48 /\ s[5] = 48
    <2>1. s[3 + 1] = Figure(b, 3, 1) /\ s[3 + 2] = Figure(b, 3, 2) /\ 3 + 1 = 4 /\ 3 + 2 = 5
      BY <1>3
    <2> QED
      BY <1>4, <2>1
  <1>6. /\ Written(s, 1, x) /\ Written(s, 2, y) /\ Written(s, 3, z)
        /\ Written(s, 4, 0) /\ Written(s, 5, 0) /\ 0 \in Digit
    BY <1>1, <1>2, <1>3, <1>5 DEF Written, Digit
  <1>7. Txt!Number(s) = 100 * (100 * x + 10 * y + z) + 10 * 0 + 0
    BY <1>3, <1>6, NumberOfFive
  <1>8. Txt!Number(s) = 100 * v
    BY <1>2, <1>7
  <1> QED
    BY <1>1, <1>3, <1>8

(* Minutes and their ten-thousandths.                                      *)
LEMMA SevenAreRead ==
    ASSUME NEW b \in Seq(Byte), Len(b) = 7, b[3] = 46,
           NEW x \in Digit, NEW y \in Digit, Written(b, 1, x), Written(b, 2, y),
           NEW p \in Digit, NEW q \in Digit, NEW r \in Digit, NEW t \in Digit,
           Written(b, 4, p), Written(b, 5, q), Written(b, 6, r), Written(b, 7, t)
    PROVE  Txt!Decimal(b, 4) = <<10000 * (10 * x + y) + 1000 * p + 100 * q + 10 * r + t>>
  <1>1. /\ b[1] \in 48 .. 57 /\ b[2] \in 48 .. 57
        /\ b[4] \in 48 .. 57 /\ b[5] \in 48 .. 57 /\ b[6] \in 48 .. 57 /\ b[7] \in 48 .. 57
    BY DEF Written, Digit
  <1>2. PICK s : IsReadAs(b, 2, 4, s)
    <2>1. \A k \in 1 .. 2 : b[k] \in 48 .. 57
      BY <1>1
    <2>2. Begins(b, 2)
      BY <2>1 DEF Begins
    <2> QED
      BY <2>2, DecimalIs
  <1>3. s \in Seq(Byte) /\ Len(s) = 6 /\ Txt!Decimal(b, 4) = <<Txt!Number(s)>>
    BY <1>2 DEF IsReadAs
  <1>4. Figure(b, 2, 1) = b[4]
    BY <1>1 DEF Figure
  <1>5. Figure(b, 2, 2) = b[5]
    BY <1>1 DEF Figure
  <1>6. Figure(b, 2, 3) = b[6]
    BY <1>1 DEF Figure
  <1>7. Figure(b, 2, 4) = b[7]
    <2>1. \A j \in 1 .. 4 : j = 1 \/ j = 2 \/ j = 3 \/ j = 4
      OBVIOUS
    <2>2. \A j \in 1 .. 4 : b[2 + 1 + j] \in 48 .. 57
      BY <1>1, <2>1
    <2> QED
      BY <2>2 DEF Figure
  <1>8. s[1] = b[1] /\ s[2] = b[2]
    BY <1>2 DEF IsReadAs
  <1>9. s[2 + 1] = Figure(b, 2, 1) /\ s[2 + 2] = Figure(b, 2, 2)
        /\ s[2 + 3] = Figure(b, 2, 3) /\ s[2 + 4] = Figure(b, 2, 4)
    <2>1. \A k \in 1 .. 4 : s[2 + k] = Figure(b, 2, k)
      BY <1>2 DEF IsReadAs
    <2> QED
      BY <2>1
  <1>10. s[3] = b[4] /\ s[4] = b[5] /\ s[5] = b[6] /\ s[6] = b[7]
    <2>1. 2 + 1 = 3 /\ 2 + 2 = 4 /\ 2 + 3 = 5 /\ 2 + 4 = 6
      OBVIOUS
    <2> QED
      BY <1>4, <1>5, <1>6, <1>7, <1>9, <2>1
  <1>11. /\ Written(s, 1, x) /\ Written(s, 2, y) /\ Written(s, 3, p)
         /\ Written(s, 4, q) /\ Written(s, 5, r) /\ Written(s, 6, t)
    BY <1>8, <1>10 DEF Written
  <1>12. Txt!Number(s) = 10000 * (10 * x + y) + 1000 * p + 100 * q + 10 * r + t
    BY <1>3, <1>11, NumberOfSix
  <1> QED
    BY <1>3, <1>12

(* Where b holds the bytes of x.                                           *)
LEMMA HeldAt ==
    ASSUME NEW b, NEW at, NEW x, Holds(b, at, x)
    PROVE  \A j \in 1 .. Len(x) : b[at + j] = x[j]
  BY DEF Holds

(* Minutes and their decimals are in ten-thousandths.                      *)
LEMMA SumOfSix ==
    ASSUME NEW v \in Int, NEW x \in Int, v = x, NEW u \in Int,
           NEW p \in Int, NEW q \in Int, NEW r \in Int, NEW t \in Int,
           1000 * p + 100 * q + 10 * r + t = u
    PROVE  10000 * x + 1000 * p + 100 * q + 10 * r + t = 10000 * v + u
  OBVIOUS

(* b has v minutes and u ten-thousandths, as a tracker writes them.        *)
HasMinutes(b, v, u) ==
    /\ v \in Nat /\ v < 100 /\ u \in Nat /\ u < 10000
    /\ b \in Seq(Byte) /\ Len(b) = 7 /\ b[3] = 46
    /\ Holds(b, 0, Decimals(v, 2)) /\ Holds(b, 3, Decimals(u, 4))

(* They are read as written.                                               *)
LEMMA MinutesAreRead ==
    ASSUME NEW b, NEW v, NEW u, HasMinutes(b, v, u)
    PROVE  Txt!Decimal(b, 4) = <<10000 * v + u>>
  <1>0. b \in Seq(Byte) /\ Len(b) = 7 /\ b[3] = 46 /\ v \in Nat /\ u \in Nat
    BY DEF HasMinutes
  <1>1. PICK d \in Seq(Byte) : /\ d = Decimals(v, 2) /\ Len(d) = 2
                               /\ Written(d, 1, DigitOf(v, 10)) /\ Written(d, 2, DigitOf(v, 1))
    BY <1>0, TwoAreWritten
  <1>2. PICK h \in Seq(Byte) : /\ h = Decimals(u, 4) /\ Len(h) = 4
                               /\ Written(h, 1, DigitOf(u, 1000)) /\ Written(h, 2, DigitOf(u, 100))
                               /\ Written(h, 3, DigitOf(u, 10)) /\ Written(h, 4, DigitOf(u, 1))
    BY <1>0, FourAreWritten
  <1>3. PICK x \in Digit, y \in Digit :
           x = DigitOf(v, 10) /\ y = DigitOf(v, 1) /\ 10 * x + y = v
    BY DigitTyped, DigitsMake DEF HasMinutes
  <1>4. PICK p \in Digit, q \in Digit, r \in Digit, t \in Digit :
           /\ p = DigitOf(u, 1000) /\ q = DigitOf(u, 100) /\ r = DigitOf(u, 10) /\ t = DigitOf(u, 1)
           /\ 1000 * p + 100 * q + 10 * r + t = u
    BY DigitTyped, DigitsMake DEF HasMinutes
  <1>41. Holds(b, 0, d) /\ Holds(b, 3, h)
    BY <1>1, <1>2 DEF HasMinutes
  <1>5. b[1] = d[1] /\ b[2] = d[2]
    <2>1. \A j \in 1 .. Len(d) : b[0 + j] = d[j]
      BY <1>41, HeldAt
    <2>2. Len(d) = 2
      BY <1>1
    <2>3. 1 \in 1 .. Len(d) /\ 2 \in 1 .. Len(d) /\ 0 + 1 = 1 /\ 0 + 2 = 2
      BY <2>2
    <2> QED
      BY <2>1, <2>3
  <1>6. b[4] = h[1] /\ b[5] = h[2] /\ b[6] = h[3] /\ b[7] = h[4]
    <2>1. \A j \in 1 .. Len(h) : b[3 + j] = h[j]
      BY <1>41, HeldAt
    <2>2. /\ 1 \in 1 .. Len(h) /\ 2 \in 1 .. Len(h) /\ 3 \in 1 .. Len(h) /\ 4 \in 1 .. Len(h)
          /\ 3 + 1 = 4 /\ 3 + 2 = 5 /\ 3 + 3 = 6 /\ 3 + 4 = 7
      <3>1. Len(h) = 4
        BY <1>2
      <3> QED
        BY <3>1
    <2> QED
      BY <2>1, <2>2
  <1>7. /\ Written(b, 1, x) /\ Written(b, 2, y) /\ Written(b, 4, p)
        /\ Written(b, 5, q) /\ Written(b, 6, r) /\ Written(b, 7, t)
    BY <1>1, <1>2, <1>3, <1>4, <1>5, <1>6 DEF Written
  <1>8. Txt!Decimal(b, 4) = <<10000 * (10 * x + y) + 1000 * p + 100 * q + 10 * r + t>>
    BY <1>0, <1>7, SevenAreRead
  <1>9.
     10000 * (10 * x + y) + 1000 * p + 100 * q + 10 * r + t = 10000 * v + u
    <2>1. p \in Int /\ q \in Int /\ r \in Int /\ t \in Int /\ 10 * x + y \in Int /\ v \in Int /\ u \in Int
      BY <1>0 DEF Digit
    <2>2. PICK z \in Int : z = 10 * x + y
      BY <2>1
    <2>3. v = z /\ 1000 * p + 100 * q + 10 * r + t = u
      BY <1>3, <1>4, <2>2
    <2>4. 10000 * z + 1000 * p + 100 * q + 10 * r + t = 10000 * v + u
      BY <2>1, <2>3, SumOfSix
    <2> QED
      BY <2>2, <2>4
  <1> QED
    BY <1>8, <1>9

(* What is held by a part of what holds it.                                *)
LEMMA HeldInTail ==
    ASSUME NEW b, NEW at, NEW x, Holds(b, at, x), NEW k \in Nat, k <= at,
           NEW t \in Seq(Byte), Len(t) = Len(b) - k, \A i \in 1 .. Len(t) : t[i] = b[k + i]
    PROVE  Holds(t, at - k, x)
  <1>1. PICK l \in Nat, L \in Nat : l = Len(x) /\ L = Len(b)
    BY LenProperties DEF Holds
  <1>2. b \in Seq(Byte) /\ x \in Seq(Byte) /\ at \in Nat /\ at + l <= L
        /\ \A j \in 1 .. l : b[at + j] = x[j]
    BY <1>1 DEF Holds
  <1>3. at - k \in Nat /\ (at - k) + l <= L - k
    BY <1>1, <1>2
  <1>4. ASSUME NEW j \in 1 .. l PROVE t[(at - k) + j] = x[j]
    <2>1. (at - k) + j \in 1 .. Len(t) /\ k + ((at - k) + j) = at + j
      BY <1>1, <1>2
    <2>2. t[(at - k) + j] = b[k + ((at - k) + j)]
      BY <2>1
    <2> QED
      BY <1>2, <2>1, <2>2
  <1> QED
    BY <1>1, <1>2, <1>3, <1>4 DEF Holds

-----------------------------------------------------------------------------
(* GPS103: the coordinates.                                                *)

(* The parts of a coordinate.                                              *)
DegreesOf(v) == v \div 600000

(* The whole minutes of a coordinate,                                      *)
MinutesOf(v) == (v % 600000) \div 10000

(* and its ten-thousandths of a minute.                                    *)
FractionOf(v) == v % 10000

(* The parts of a coordinate make it.                                      *)
LEMMA PartsMake ==
    ASSUME NEW v \in Nat
    PROVE  /\ DegreesOf(v) \in Nat /\ MinutesOf(v) \in Nat /\ FractionOf(v) \in Nat
           /\ MinutesOf(v) < 100 /\ FractionOf(v) < 10000
           /\ 600000 * DegreesOf(v) + (10000 * MinutesOf(v) + FractionOf(v)) = v
  <1>1. v \div 600000 \in Nat /\ (v % 600000) \div 10000 \in Nat /\ v % 10000 \in Nat
    BY SMT
  <1>2. (v % 600000) \div 10000 < 100 /\ v % 10000 < 10000
    BY SMT
  <1>3. 600000 * (v \div 600000) + (10000 * ((v % 600000) \div 10000) + (v % 10000)) = v
    <2>1. PICK q \in Nat, r \in Nat : q = v \div 600000 /\ r = v % 600000 /\ v = 600000 * q + r /\ r < 600000
      BY SMT
    <2>2. v % 10000 = r % 10000
      BY <2>1, SMT
    <2>3. 10000 * (r \div 10000) + (r % 10000) = r
      BY SMT
    <2> QED
      BY <2>1, <2>2, <2>3, SMT
  <1> QED
    BY <1>1, <1>2, <1>3, SMT DEF DegreesOf, MinutesOf, FractionOf

(* How a coordinate is written, with n digits of degrees.                  *)
Coordinate(b, v, n) ==
    /\ b \in Seq(Byte) /\ Len(b) = n + 7 /\ b[n + 3] = 46
    /\ Holds(b, 0, Decimals(DegreesOf(v), n)) /\ Holds(b, n, Decimals(MinutesOf(v), 2))
    /\ Holds(b, n + 3, Decimals(FractionOf(v), 4))

(* Minutes writes them.                                                    *)
LEMMA MinutesIs ==
    ASSUME NEW v \in Nat, NEW n \in 2 .. 3
    PROVE  Coordinate(Minutes(v, n), v, n)
  <1>1. PICK d \in Seq(Byte), p \in Seq(Byte), r \in Seq(Byte) :
           /\ d = Decimals(DegreesOf(v), n) /\ Len(d) = n
           /\ p = Decimals(MinutesOf(v), 2) /\ Len(p) = 2
           /\ r = Decimals(FractionOf(v), 4) /\ Len(r) = 4
    <2>1. n \in 1 .. 4 /\ 2 \in 1 .. 4 /\ 4 \in 1 .. 4
      OBVIOUS
    <2>2. DegreesOf(v) \in Nat /\ MinutesOf(v) \in Nat /\ FractionOf(v) \in Nat
      BY PartsMake
    <2>3. Decimals(DegreesOf(v), n) \in Seq(Byte) /\ Len(Decimals(DegreesOf(v), n)) = n
      BY <2>1, <2>2, DecimalsAre
    <2>4. Decimals(MinutesOf(v), 2) \in Seq(Byte) /\ Len(Decimals(MinutesOf(v), 2)) = 2
      BY <2>1, <2>2, DecimalsAre
    <2>5. Decimals(FractionOf(v), 4) \in Seq(Byte) /\ Len(Decimals(FractionOf(v), 4)) = 4
      BY <2>1, <2>2, DecimalsAre
    <2> QED
      BY <2>3, <2>4, <2>5
  <1>2. PICK z \in Seq(Byte) : z = <<46>> /\ Len(z) = 1 /\ z[1] = 46
    <2>1. 46 \in Byte
      BY DEF Byte
    <2>2. <<46>> \in Seq(Byte)
      BY <2>1
    <2> QED
      BY <2>2, OneIs
  <1>3. PICK a : a = d \o p
    OBVIOUS
  <1>4. Extends(a, d, p) /\ Glued(a, d, p)
    BY <1>3, ConcatIs, ExtendsIs
  <1>5. PICK c : c = a \o z
    OBVIOUS
  <1>6. a \in Seq(Byte) /\ Len(a) = n + 2 /\ Holds(a, n, p)
    BY <1>1, <1>4 DEF Extends
  <1>7. Extends(c, a, z)
    BY <1>5, <1>6, ExtendsIs
  <1>8. c \in Seq(Byte) /\ Len(c) = n + 3 /\ Holds(c, n, p) /\ Holds(c, n + 2, z)
    BY <1>2, <1>6, <1>7 DEF Extends
  <1>9. PICK b : b = c \o r
    OBVIOUS
  <1>10. Extends(b, c, r)
    BY <1>8, <1>9, ExtendsIs
  <1>11. /\ b \in Seq(Byte) /\ Len(b) = n + 7 /\ Holds(b, n, p) /\ Holds(b, n + 2, z)
         /\ Holds(b, n + 3, r)
    BY <1>1, <1>8, <1>10 DEF Extends
  <1>12. Holds(a, 0, d)
    <2>1. \A i \in 1 .. n : a[i] = d[i]
      BY <1>1, <1>4 DEF Glued
    <2>2. 0 \in Nat /\ 0 + n <= Len(a) /\ \A i \in 1 .. n : 0 + i = i
      BY <1>6
    <2> QED
      BY <1>1, <1>6, <2>1, <2>2 DEF Holds
  <1>13. Holds(b, 0, d)
    <2>1. Holds(c, 0, d)
      BY <1>7, <1>12 DEF Extends
    <2> QED
      BY <1>10, <2>1 DEF Extends
  <1>14. b[n + 3] = 46
    <2>1. \A j \in 1 .. Len(z) : b[n + 2 + j] = z[j]
      BY <1>11, HeldAt
    <2>2. 1 \in 1 .. Len(z) /\ n + 2 + 1 = n + 3
      BY <1>2
    <2> QED
      BY <1>2, <2>1, <2>2
  <1>15. Minutes(v, n) = b
    BY <1>1, <1>2, <1>3, <1>5, <1>9 DEF Minutes, DegreesOf, MinutesOf, FractionOf
  <1> QED
    BY <1>1, <1>11, <1>13, <1>14, <1>15 DEF Coordinate

(* It is read again, up to the limit.                                      *)
Legible(b, v, n) == /\ Coordinate(b, v, n) /\ n \in 2 .. 3
                    /\ n = 2 => DegreesOf(v) < 100
                    /\ n = 3 => DegreesOf(v) < 1000

(* dmToDegrees reads the coordinate that was written, if it is on the      *)
(* Earth.                                                                  *)
LEMMA DegreesAreRead ==
    ASSUME NEW b, NEW v \in Nat, NEW n \in Nat, Legible(b, v, n), NEW h
    PROVE  Txt!ToDegrees(b, h, n) =
             IF v > 600000 * (IF n = 2 THEN 90 ELSE 180) THEN <<>>
             ELSE <<Txt!Signed(h \in {<<83>>, <<87>>}, v)>>
  <1>1. /\ b \in Seq(Byte) /\ Len(b) = n + 7 /\ b[n + 3] = 46
        /\ Holds(b, 0, Decimals(DegreesOf(v), n)) /\ Holds(b, n, Decimals(MinutesOf(v), 2))
        /\ Holds(b, n + 3, Decimals(FractionOf(v), 4))
    BY DEF Coordinate, Legible
  <1>2. PICK d \in Nat, p \in Nat, r \in Nat :
           /\ d = DegreesOf(v) /\ p = MinutesOf(v) /\ r = FractionOf(v) /\ p < 100 /\ r < 10000
    BY PartsMake, SMT
  <1>20. n \in 1 .. 4
    BY DEF Legible
  <1>21. PICK a : a = Decimals(d, n)
    OBVIOUS
  <1>22. a \in Seq(Byte)
    BY <1>20, <1>21, DecimalsAre
  <1>23. Len(a) = n
    BY <1>20, <1>21, DecimalsAre
  <1>24. \A k \in 1 .. n : a[k] \in 48 .. 57
    BY <1>20, <1>21, DecimalsAre
  <1>3. a \in Seq(Byte) /\ a = Decimals(d, n) /\ Len(a) = n /\ \A k \in 1 .. n : a[k] \in 48 .. 57
    BY <1>21, <1>22, <1>23, <1>24
  <1>4. SubSeq(b, 1, n) = a
    <2>0. Holds(b, 0, a)
      BY <1>1, <1>2, <1>3
    <2>1. SubSeq(b, 0 + 1, 0 + Len(a)) = a
      BY <2>0, HeldIsCut
    <2>2. Len(a) = n
      BY <1>23
    <2>3. 0 + 1 = 1 /\ 0 + Len(a) = n
      BY <2>2
    <2> QED
      BY <2>1, <2>3
  <1>5. Txt!AllDigits(a)
    <2>1. a # <<>>
      <3>1. Len(a) # 0
        BY <1>20, <1>23
      <3> QED
        BY <3>1, EmptyIs
    <2> QED
      BY <1>3, <2>1 DEF Txt!AllDigits, Txt!IsDigit
  <1>6. Txt!Number(a) = d
    <2>1. CASE n = 2
      <3>1. PICK s \in Seq(Byte) : /\ s = Decimals(d, 2) /\ Len(s) = 2
                                   /\ Written(s, 1, DigitOf(d, 10)) /\ Written(s, 2, DigitOf(d, 1))
        BY TwoAreWritten
      <3>2. DigitOf(d, 10) \in Digit /\ DigitOf(d, 1) \in Digit
        BY DigitTyped
      <3>3. Txt!Number(s) = 10 * DigitOf(d, 10) + DigitOf(d, 1)
        BY <3>1, <3>2, NumberOfTwo
      <3>4. d < 100
        BY <1>2, <2>1 DEF Legible
      <3>5. 10 * DigitOf(d, 10) + DigitOf(d, 1) = d
        BY <3>4, DigitsMake
      <3> QED
        BY <1>3, <2>1, <3>1, <3>3, <3>5
    <2>2. CASE n = 3
      <3>1. PICK s \in Seq(Byte) : /\ s = Decimals(d, 3) /\ Len(s) = 3
                                   /\ Written(s, 1, DigitOf(d, 100)) /\ Written(s, 2, DigitOf(d, 10))
                                   /\ Written(s, 3, DigitOf(d, 1))
        BY ThreeAreWritten
      <3>2. DigitOf(d, 100) \in Digit /\ DigitOf(d, 10) \in Digit /\ DigitOf(d, 1) \in Digit
        BY DigitTyped
      <3>3. Txt!Number(s) = 100 * DigitOf(d, 100) + 10 * DigitOf(d, 10) + DigitOf(d, 1)
        BY <3>1, <3>2, NumberOfThree
      <3>4. d < 1000
        BY <1>2, <2>2 DEF Legible
      <3>5. 100 * DigitOf(d, 100) + 10 * DigitOf(d, 10) + DigitOf(d, 1) = d
        BY <3>4, DigitsMake
      <3> QED
        BY <1>3, <2>2, <3>1, <3>3, <3>5
    <2> QED
      BY <2>1, <2>2 DEF Legible
  <1>7. PICK t \in Seq(Byte) : /\ t = SubSeq(b, n + 1, Len(b)) /\ Len(t) = 7
                               /\ \A i \in 1 .. 7 : t[i] = b[n + i]
    <2>1. PICK t : t = SubSeq(b, n + 1, Len(b))
      OBVIOUS
    <2>2. /\ t \in Seq(Byte) /\ Len(t) = Len(b) - (n + 1) + 1
          /\ \A i \in 1 .. Len(b) - (n + 1) + 1 : t[i] = b[n + 1 + i - 1]
      <3>1. n + 1 \in 1 .. Len(b) + 1 /\ Len(b) \in 0 .. Len(b) /\ n + 1 <= Len(b) + 1
        BY <1>1
      <3> QED
        BY <1>1, <2>1, <3>1, PartIs
    <2>3. Len(b) - (n + 1) + 1 = 7 /\ \A i \in 1 .. 7 : n + 1 + i - 1 = n + i
      BY <1>1
    <2>4. t \in Seq(Byte) /\ Len(t) = 7
      BY <2>2, <2>3
    <2>5. \A i \in 1 .. 7 : t[i] = b[n + i]
      BY <2>2, <2>3
    <2> QED
      BY <2>1, <2>4, <2>5
  <1>8. HasMinutes(t, p, r)
    <2>1. n \in Nat /\ n <= n /\ n <= n + 3 /\ Len(t) = Len(b) - n /\ n - n = 0 /\ (n + 3) - n = 3
          /\ n + 3 \in Nat
      BY <1>1, <1>7
    <2>2. \A i \in 1 .. Len(t) : t[i] = b[n + i]
      BY <1>7
    <2>3. Holds(t, n - n, Decimals(p, 2))
      <3>1. PICK x : x = Decimals(p, 2) /\ Holds(b, n, x)
        BY <1>1, <1>2
      <3>2. Holds(t, n - n, x)
        BY ZenonT(30), <1>7, <2>1, <2>2, <3>1, HeldInTail
      <3> QED
        BY <3>1, <3>2
    <2>4. Holds(t, (n + 3) - n, Decimals(r, 4))
      <3>0. PICK at \in Nat : at = n + 3
        BY <2>1
      <3>1. PICK x : x = Decimals(r, 4) /\ Holds(b, at, x)
        BY <1>1, <1>2, <3>0
      <3>2. n <= at
        BY <3>0
      <3>3. Holds(t, at - n, x)
        BY ZenonT(30), <1>7, <2>1, <2>2, <3>1, <3>2, HeldInTail
      <3> QED
        BY <3>0, <3>1, <3>3
    <2>5. t[3] = 46
      <3>1. 3 \in 1 .. 7
        OBVIOUS
      <3> QED
        BY <1>1, <1>7, <3>1
    <2>6. Holds(t, 0, Decimals(p, 2)) /\ Holds(t, 3, Decimals(r, 4))
      BY <2>1, <2>3, <2>4
    <2>7. p \in Nat /\ p < 100 /\ r \in Nat /\ r < 10000
      BY <1>2
    <2>8. t \in Seq(Byte) /\ Len(t) = 7
      BY <1>7
    <2> QED
      BY <2>5, <2>6, <2>7, <2>8 DEF HasMinutes
  <1>9. Txt!Decimal(t, 4) = <<10000 * p + r>>
    BY <1>8, MinutesAreRead
  <1>10. PICK x : x = 10000 * p + r
    OBVIOUS
  <1>11. ~ (Len(b) < n + 1) /\ <<x>> # <<>> /\ <<x>>[1] = x
    <2>1. Len(<<x>>) # 0
      BY OneIs
    <2> QED
      BY <1>1, <2>1, EmptyIs
  <1>12. 600000 * Txt!Number(a) + x = v
    <2>1. 600000 * d + (10000 * p + r) = v
      BY <1>2, PartsMake, SMT
    <2> QED
      BY <1>6, <1>10, <2>1, SMT
  <1> DEFINE limit == IF n = 2 THEN 90 ELSE 180
             Out(front, minutes) ==
               IF Len(b) < n + 1 \/ ~Txt!AllDigits(front) \/ minutes = <<>> THEN <<>>
               ELSE IF 600000 * Txt!Number(front) + minutes[1] > 600000 * limit THEN <<>>
                    ELSE <<Txt!Signed(h \in {<<83>>, <<87>>}, 600000 * Txt!Number(front) + minutes[1])>>
  <1>13. Txt!ToDegrees(b, h, n) = Out(SubSeq(b, 1, n), Txt!Decimal(SubSeq(b, n + 1, Len(b)), 4))
    BY SMT DEF Txt!ToDegrees
  <1>14. Out(a, <<x>>) = IF v > 600000 * limit THEN <<>>
                         ELSE <<Txt!Signed(h \in {<<83>>, <<87>>}, v)>>
    <2> HIDE DEF limit
    <2> QED
      BY <1>5, <1>11, <1>12, SMT
  <1>15. Txt!ToDegrees(b, h, n) = Out(a, <<x>>)
    <2>1. Txt!Decimal(SubSeq(b, n + 1, Len(b)), 4) = <<x>>
      BY <1>7, <1>9, <1>10
    <2> HIDE DEF Out
    <2> QED
      BY <1>4, <1>13, <2>1
  <1> QED
    BY <1>14, <1>15, SMT

-----------------------------------------------------------------------------
(* GPS103: a text is joined and split.                                     *)

(* A text without commas.                                                  *)
Plain(x) == x \in Seq(Byte) /\ \A y \in 1 .. Len(x) : x[y] # 44

(* What is joined of texts without commas has none.                        *)
LEMMA PlainJoin ==
    ASSUME NEW a, NEW b, Plain(a), Plain(b)
    PROVE  Plain(a \o b)
  <1>1. a \in Seq(Byte) /\ b \in Seq(Byte)
    BY DEF Plain
  <1>2. PICK n \in Nat, k \in Nat : n = Len(a) /\ k = Len(b)
    BY <1>1, LenProperties
  <1>3. PICK q : q = a \o b
    OBVIOUS
  <1>4. Glued(q, a, b)
    BY <1>1, <1>3, ConcatIs
  <1>5. /\ q \in Seq(Byte) /\ Len(q) = n + k
        /\ \A i \in 1 .. n : q[i] = a[i] /\ a[i] # 44
        /\ \A i \in 1 .. k : q[n + i] = b[i] /\ b[i] # 44
    BY <1>2, <1>4 DEF Glued, Plain
  <1>6. ASSUME NEW y \in 1 .. n + k PROVE q[y] # 44
    <2>1. CASE y \in 1 .. n
      BY <1>5, <2>1
    <2>2. CASE y \notin 1 .. n
      <3>1. PICK i \in 1 .. k : n + i = y
        <4>1. y - n \in 1 .. k /\ n + (y - n) = y
          BY <2>2
        <4> QED
          BY <4>1
      <3> QED
        BY <1>5, <3>1
    <2> QED
      BY <2>1, <2>2
  <1> QED
    BY <1>3, <1>5, <1>6 DEF Plain

(* Digits are no commas.                                                   *)
LEMMA DecimalsArePlain ==
    ASSUME NEW v \in Nat, NEW n \in 1 .. 4
    PROVE  Plain(Decimals(v, n))
  <1>1. PICK d : d = Decimals(v, n)
    OBVIOUS
  <1>2. d \in Seq(Byte) /\ Len(d) = n
    BY <1>1, DecimalsAre
  <1>3. \A k \in 1 .. n : d[k] \in 48 .. 57
    BY <1>1, DecimalsAre
  <1> QED
    BY <1>1, <1>2, <1>3 DEF Plain

(* Neither is another byte.                                                *)
LEMMA ByteIsPlain ==
    ASSUME NEW c \in Byte, c # 44
    PROVE  Plain(<<c>>) /\ Len(<<c>>) = 1 /\ <<c>>[1] = c
  <1>1. <<c>> \in Seq(Byte)
    OBVIOUS
  <1>2. Len(<<c>>) = 1 /\ <<c>>[1] = c
    BY OneIs
  <1> QED
    BY <1>1, <1>2 DEF Plain

(* What is held by what is held.                                           *)
LEMMA HeldInHeld ==
    ASSUME NEW b, NEW at, NEW x, Holds(b, at, x), NEW k, NEW y, Holds(x, k, y)
    PROVE  Holds(b, at + k, y)
  <1>1. PICK l \in Nat, w \in Nat, L \in Nat : l = Len(x) /\ w = Len(y) /\ L = Len(b)
    BY LenProperties DEF Holds
  <1>2. b \in Seq(Byte) /\ x \in Seq(Byte) /\ at \in Nat /\ at + l <= L
        /\ \A j \in 1 .. l : b[at + j] = x[j]
    BY <1>1 DEF Holds
  <1>3. y \in Seq(Byte) /\ k \in Nat /\ k + w <= l
        /\ \A j \in 1 .. w : x[k + j] = y[j]
    BY <1>1 DEF Holds
  <1>4. ASSUME NEW j \in 1 .. w PROVE b[(at + k) + j] = y[j]
    <2>1. k + j \in 1 .. l /\ (at + k) + j = at + (k + j)
      BY <1>2, <1>3
    <2> QED
      BY <1>2, <1>3, <2>1
  <1>5. at + k \in Nat /\ (at + k) + w <= L
    BY <1>2, <1>3
  <1> QED
    BY <1>1, <1>2, <1>3, <1>4, <1>5 DEF Holds

(* A whole sequence holds what it begins with.                             *)
LEMMA FrontIsHeld ==
    ASSUME NEW a \in Seq(Byte), NEW b \in Seq(Byte)
    PROVE  Holds(a \o b, 0, a)
  <1>1. PICK n \in Nat, k \in Nat : n = Len(a) /\ k = Len(b)
    BY LenProperties
  <1>2. PICK q : q = a \o b
    OBVIOUS
  <1>3. Glued(q, a, b)
    BY <1>2, ConcatIs
  <1>4. q \in Seq(Byte) /\ Len(q) = n + k /\ \A i \in 1 .. n : q[i] = a[i]
    BY <1>1, <1>3 DEF Glued
  <1>5. \A j \in 1 .. n : q[0 + j] = a[j]
    BY <1>4
  <1>6. 0 \in Nat /\ 0 + n <= n + k
    OBVIOUS
  <1> QED
    BY <1>1, <1>2, <1>4, <1>5, <1>6 DEF Holds

(* The fields that a text is split into: one and those that follow it.     *)
SplitAs(q, head, fields) ==
    /\ q \in FieldSeqs /\ Len(q) = Len(fields) + 1 /\ q[1] = head
    /\ \A k \in 1 .. Len(fields) : q[k + 1] = fields[k]

(* A field with its comma.                                                 *)
Piece44(x) == <<44>> \o x

(* A field and its comma.                                                  *)
LEMMA PieceHolds ==
    ASSUME NEW b, NEW at, NEW x, x \in Seq(Byte), Holds(b, at, Piece44(x))
    PROVE  /\ Holds(b, at + 1, x) /\ b[at + 1] = 44 /\ at + 1 <= Len(b)
           /\ Len(Piece44(x)) = 1 + Len(x)
  <1>1. PICK z \in Seq(Byte) : z = <<44>> /\ Len(z) = 1 /\ z[1] = 44
    <2>1. 44 \in Byte
      BY DEF Byte
    <2>2. <<44>> \in Seq(Byte)
      BY <2>1
    <2> QED
      BY <2>2, OneIs
  <1>2. PICK y : y = z \o x
    OBVIOUS
  <1>3. Extends(y, z, x)
    BY <1>2, ExtendsIs
  <1>4. Holds(b, at, y) /\ Piece44(x) = y
    BY <1>1, <1>2 DEF Piece44
  <1>5. y \in Seq(Byte) /\ Len(y) = 1 + Len(x) /\ Holds(y, 1, x)
    BY <1>1, <1>3 DEF Extends
  <1>6. Holds(b, at + 1, x)
    BY <1>4, <1>5, HeldInHeld
  <1>7. y[1] = 44
    <2>1. Holds(y, 0, z)
      BY <1>2, FrontIsHeld
    <2>2. \A j \in 1 .. Len(z) : y[0 + j] = z[j]
      BY <2>1, HeldAt
    <2>3. 1 \in 1 .. Len(z) /\ 0 + 1 = 1
      BY <1>1
    <2> QED
      BY <1>1, <2>2, <2>3
  <1>8. Len(x) \in Nat
    BY LenProperties
  <1>9. 1 \in 1 .. Len(y)
    BY <1>5, <1>8
  <1>10. b[at + 1] = y[1]
    BY <1>4, <1>9, HeldAt
  <1>11. at + 1 <= Len(b)
    <2>1. at \in Nat /\ at + Len(y) <= Len(b) /\ Len(b) \in Nat
      BY <1>4, LenProperties DEF Holds
    <2> QED
      BY <1>5, <1>8, <2>1
  <1> QED
    BY <1>4, <1>5, <1>6, <1>7, <1>10, <1>11

(* The fields lie one behind another.                                      *)
LEMMA JoinedIsLaid ==
    ASSUME NEW head \in Seq(Byte), NEW fields \in FieldSeqs
    PROVE  \E b \in Seq(Byte) : \E at \in [0 .. Len(fields) -> Nat] :
              /\ b = head \o Joined(fields)
              /\ at[0] = Len(head) /\ at[Len(fields)] = Len(b) /\ Holds(b, 0, head)
              /\ \A k \in 1 .. Len(fields) : /\ Holds(b, at[k - 1], Piece44(fields[k]))
                                             /\ at[k] = at[k - 1] + Len(Piece44(fields[k]))
  <1>1. PICK n \in Nat : n = Len(fields)
    BY LenProperties DEF FieldSeqs
  <1>2. \A k \in 1 .. n : fields[k] \in Seq(Byte)
    BY <1>1, ElementOfSeq DEF FieldSeqs
  <1>3. PICK z \in Seq(Byte) : z = <<44>>
    <2>1. 44 \in Byte
      BY DEF Byte
    <2>2. <<44>> \in Seq(Byte)
      BY <2>1
    <2> QED
      BY <2>2
  <1>4. ASSUME NEW x \in Seq(Byte) PROVE Piece44(x) \in Seq(Byte)
    BY <1>3, ConcatProperties DEF Piece44
  <1>5. PICK items \in Seq(Seq(Byte)) :
           /\ items = [k \in 1 .. Len(fields) |-> <<44>> \o fields[k]] /\ Len(items) = n
           /\ \A k \in 1 .. n : items[k] = Piece44(fields[k])
    <2>1. PICK i : i = [k \in 1 .. n |-> Piece44(fields[k])]
      OBVIOUS
    <2>2. i \in [1 .. n -> Seq(Byte)]
      BY <1>2, <1>4, <2>1
    <2>3. i \in Seq(Seq(Byte)) /\ Len(i) = n
      BY <2>2, TupleIs
    <2>4. i = [k \in 1 .. Len(fields) |-> <<44>> \o fields[k]]
      BY <1>1, <2>1 DEF Piece44
    <2>5. \A k \in 1 .. n : i[k] = Piece44(fields[k])
      BY <2>1
    <2> QED
      BY <2>3, <2>4, <2>5
  <1>6. PICK g : Concatenates(g, items)
    BY JoinExists
  <1>7. /\ g[0] = <<>>
        /\ \A k \in 0 .. n : g[k] \in Seq(Byte)
        /\ \A k \in 1 .. n : g[k] = g[k - 1] \o items[k]
    BY <1>5, <1>6 DEF Concatenates
  <1>8. Joined(fields) = g[n]
    <2>1. FlattenSeq(SubSeq(items, 1, n)) = g[n]
      <3>1. n \in 0 .. Len(items)
        BY <1>5
      <3> QED
        BY <1>6, <3>1, FlattenIsJoined
    <2>2. SubSeq(items, 1, n) = items
      BY <1>5, SubSeqFull
    <2>3. Joined(fields) = FlattenSeq(items)
      BY <1>5 DEF Joined, Txt!Comma
    <2> QED
      BY <2>1, <2>2, <2>3
  <1> DEFINE p(k) == head \o g[k]
  <1>9. ASSUME NEW k \in 1 .. n
        PROVE  k - 1 \in 0 .. n /\ k \in 0 .. n /\ Extends(p(k), p(k - 1), items[k])
    <2>1. k - 1 \in 0 .. n /\ k \in 0 .. n
      OBVIOUS
    <2>2. g[k - 1] \in Seq(Byte) /\ items[k] \in Seq(Byte)
      BY <1>5, <1>7, <2>1, ElementOfSeq
    <2>3. head \o (g[k - 1] \o items[k]) = (head \o g[k - 1]) \o items[k]
      BY <2>2, BytesAssociate
    <2>4. head \o g[k - 1] \in Seq(Byte)
      BY <2>2, ConcatProperties
    <2>5. Extends((head \o g[k - 1]) \o items[k], head \o g[k - 1], items[k])
      BY <2>2, <2>4, ExtendsIs
    <2> QED
      BY <1>7, <2>1, <2>3, <2>5
  <1>10. ASSUME NEW k \in 0 .. n PROVE p(k) \in Seq(Byte) /\ Len(p(k)) \in Nat /\ Holds(p(k), 0, head)
    <2>1. Holds(p(k), 0, head)
      BY <1>7, FrontIsHeld
    <2> HIDE DEF p
    <2>2. p(k) \in Seq(Byte)
      BY <2>1 DEF Holds
    <2> QED
      BY <2>1, <2>2, LenProperties
  <1>11. p(0) = head
    BY <1>7, ConcatEmptySeq
  <1>12. head \o Joined(fields) = p(n)
    BY <1>8
  <1> HIDE DEF p
  <1> DEFINE at == [k \in 0 .. n |-> Len(p(k))]
  <1>13. at \in [0 .. n -> Nat] /\ at[0] = Len(head) /\ \A k \in 0 .. n : at[k] = Len(p(k))
    BY <1>10, <1>11
  <1> HIDE DEF at
  <1>14. ASSUME NEW k \in 1 .. n
         PROVE  at[k] = at[k - 1] + Len(items[k]) /\ Holds(p(k), at[k - 1], items[k])
    BY <1>9, <1>13 DEF Extends
  <1> DEFINE K == {k \in 0 .. n : \A j \in 1 .. k : Holds(p(k), at[j - 1], items[j])}
  <1>15. 0 \in K
    OBVIOUS
  <1>16. ASSUME NEW k \in K, k < n PROVE k + 1 \in K
    <2>1. k \in 0 .. n /\ k < n /\ \A j \in 1 .. k : Holds(p(k), at[j - 1], items[j])
      BY <1>16
    <2>2. PICK i \in 1 .. n : i = k + 1 /\ i - 1 = k /\ i \in 0 .. n
      BY <2>1
    <2>3. \A y, w : Holds(p(k), y, w) => Holds(p(i), y, w)
      <3>1. Extends(p(i), p(k), items[i])
        BY <1>9, <2>2
      <3> QED
        BY <3>1 DEF Extends
    <2>4. ASSUME NEW j \in 1 .. i PROVE Holds(p(i), at[j - 1], items[j])
      <3>1. CASE j = i
        BY <1>14, <3>1
      <3>2. CASE j # i
        <4>1. j \in 1 .. k
          BY <2>2, <3>2
        <4> QED
          BY <2>1, <2>3, <4>1
      <3> QED
        BY <3>1, <3>2
    <2> QED
      BY <2>2, <2>4
  <1>17. n \in K
    <2> HIDE DEF K
    <2>1. K \in SUBSET (0 .. n) /\ n \in Nat
      BY DEF K
    <2>2. K = 0 .. n
      BY <1>15, <1>16, <2>1, FiniteInduction
    <2> QED
      BY <2>2
  <1>18. \A k \in 1 .. n : Holds(p(n), at[k - 1], items[k])
    BY <1>17
  <1> HIDE DEF K
  <1>19. \A k \in 1 .. n : /\ Holds(p(n), at[k - 1], Piece44(fields[k]))
                           /\ at[k] = at[k - 1] + Len(Piece44(fields[k]))
    BY <1>5, <1>14, <1>18
  <1>20. at[n] = Len(p(n)) /\ Holds(p(n), 0, head) /\ p(n) \in Seq(Byte)
    BY <1>10, <1>13
  <1> QED
    BY <1>1, <1>12, <1>13, <1>19, <1>20

(* split gives the fields that were joined.                                *)
LEMMA JoinedSplits ==
    ASSUME NEW head, Plain(head), NEW fields \in FieldSeqs, \A k \in 1 .. Len(fields) : Plain(fields[k])
    PROVE  /\ head \o Joined(fields) \in Seq(Byte)
           /\ SplitAs(Txt!Fields(head \o Joined(fields)), head, fields)
  <1>1. PICK n \in Nat : n = Len(fields)
    BY LenProperties DEF FieldSeqs
  <1>2. head \in Seq(Byte) /\ \A y \in 1 .. Len(head) : head[y] # 44
    BY DEF Plain
  <1>3. PICK b \in Seq(Byte) : \E at \in [0 .. n -> Nat] :
              /\ b = head \o Joined(fields)
              /\ at[0] = Len(head) /\ at[n] = Len(b) /\ Holds(b, 0, head)
              /\ \A k \in 1 .. n : /\ Holds(b, at[k - 1], Piece44(fields[k]))
                                   /\ at[k] = at[k - 1] + Len(Piece44(fields[k]))
    BY <1>1, <1>2, JoinedIsLaid
  <1>4. PICK at \in [0 .. n -> Nat] :
              /\ b = head \o Joined(fields)
              /\ at[0] = Len(head) /\ at[n] = Len(b) /\ Holds(b, 0, head)
              /\ \A k \in 1 .. n : /\ Holds(b, at[k - 1], Piece44(fields[k]))
                                   /\ at[k] = at[k - 1] + Len(Piece44(fields[k]))
    BY <1>3
  <1>5. ASSUME NEW k \in 1 .. n
        PROVE  /\ fields[k] \in Seq(Byte) /\ \A y \in 1 .. Len(fields[k]) : fields[k][y] # 44
               /\ Len(fields[k]) \in Nat
               /\ Holds(b, at[k - 1] + 1, fields[k]) /\ b[at[k - 1] + 1] = 44
               /\ at[k - 1] + 1 <= Len(b) /\ at[k] = at[k - 1] + (1 + Len(fields[k]))
    <2>1. Plain(fields[k])
      BY <1>1
    <2>2. fields[k] \in Seq(Byte) /\ \A y \in 1 .. Len(fields[k]) : fields[k][y] # 44
      BY <2>1 DEF Plain
    <2>3. Holds(b, at[k - 1], Piece44(fields[k])) /\ at[k] = at[k - 1] + Len(Piece44(fields[k]))
      BY <1>4
    <2>4. /\ Holds(b, at[k - 1] + 1, fields[k]) /\ b[at[k - 1] + 1] = 44 /\ at[k - 1] + 1 <= Len(b)
          /\ Len(Piece44(fields[k])) = 1 + Len(fields[k])
      BY SMTT(30), <2>2, <2>3, PieceHolds
    <2> QED
      BY <2>2, <2>3, <2>4, LenProperties
  <1>6. PICK p : p = [k \in 1 .. n + 1 |-> IF k = 1 THEN head ELSE fields[k - 1]]
    OBVIOUS
  <1>7. p[1] = head /\ \A k \in 1 .. n : p[k + 1] = fields[k]
    <2>1. 1 \in 1 .. n + 1 /\ \A k \in 1 .. n : k + 1 \in 1 .. n + 1 /\ k + 1 # 1 /\ (k + 1) - 1 = k
      OBVIOUS
    <2> QED
      BY <1>6, <2>1
  <1>8. p \in FieldSeqs /\ Len(p) = n + 1
    <2>1. \A k \in 1 .. n + 1 : k # 1 => k - 1 \in 1 .. n
      OBVIOUS
    <2>2. p \in [1 .. n + 1 -> Seq(Byte)]
      BY <1>2, <1>5, <1>6, <2>1
    <2>3. n + 1 \in Nat
      OBVIOUS
    <2> QED
      BY <2>2, <2>3, TupleIs DEF FieldSeqs
  <1>9. SplitAs(p, head, fields)
    BY <1>1, <1>7, <1>8 DEF SplitAs
  <1>10. PICK start : start = [k \in 1 .. n + 1 |-> IF k = 1 THEN 0 ELSE at[k - 2] + 1]
    OBVIOUS
  <1>11. start[1] = 0 /\ \A k \in 1 .. n : start[k + 1] = at[k - 1] + 1
    <2>1. 1 \in 1 .. n + 1 /\ \A k \in 1 .. n : k + 1 \in 1 .. n + 1 /\ k + 1 # 1 /\ (k + 1) - 2 = k - 1
      OBVIOUS
    <2> QED
      BY <1>10, <2>1
  <1>12. start \in [1 .. n + 1 -> Nat]
    <2>1. \A k \in 1 .. n + 1 : k # 1 => at[k - 2] + 1 \in Nat
      <3>1. \A k \in 1 .. n + 1 : k # 1 => k - 2 \in 0 .. n
        OBVIOUS
      <3> QED
        BY <3>1
    <2> QED
      BY <1>10, <2>1
  <1>13. ASSUME NEW k \in 1 .. n + 1
         PROVE  Holds(b, start[k], p[k]) /\ \A y \in 1 .. Len(p[k]) : p[k][y] # 44
    <2>1. CASE k = 1
      BY <1>2, <1>4, <1>7, <1>11, <2>1
    <2>2. CASE k # 1
      <3>1. PICK j \in 1 .. n : j + 1 = k
        <4>1. k - 1 \in 1 .. n /\ (k - 1) + 1 = k
          BY <2>2
        <4> QED
          BY <4>1
      <3>2. p[k] = fields[j]
        BY <1>7, <3>1
      <3>3. start[k] = at[j - 1] + 1
        BY <1>11, <3>1
      <3>4. Holds(b, at[j - 1] + 1, fields[j]) /\ \A y \in 1 .. Len(fields[j]) : fields[j][y] # 44
        BY <1>5
      <3> QED
        BY <3>2, <3>3, <3>4
    <2> QED
      BY <2>1, <2>2
  <1>14. ASSUME NEW k \in 1 .. n
         PROVE  /\ start[k + 1] = start[k] + Len(p[k]) + 1
                /\ start[k + 1] <= Len(b) /\ b[start[k + 1]] = 44
    <2>1. start[k + 1] = start[k] + Len(p[k]) + 1
      <3>1. CASE k = 1
        <4>1. start[1 + 1] = at[1 - 1] + 1
          BY <1>11, <3>1
        <4>2. 1 - 1 = 0
          OBVIOUS
        <4>3. Len(head) \in Nat
          BY <1>2, LenProperties
        <4> QED
          BY SMTT(30), <1>4, <1>7, <1>11, <3>1, <4>1, <4>2, <4>3
      <3>2. CASE k # 1
        <4>1. PICK j \in 1 .. n : j + 1 = k /\ k - 1 = j
          <5>1. k - 1 \in 1 .. n /\ (k - 1) + 1 = k
            BY <3>2
          <5> QED
            BY <5>1
        <4>2. start[k] = at[j - 1] + 1 /\ p[k] = fields[j] /\ start[k + 1] = at[j] + 1
          BY <1>7, <1>11, <4>1
        <4>3. at[j] = at[j - 1] + (1 + Len(fields[j])) /\ Len(fields[j]) \in Nat
          BY <1>5
        <4>4. at[j - 1] \in Nat
          <5>1. j - 1 \in 0 .. n
            OBVIOUS
          <5> QED
            BY <5>1
        <4>5. PICK l \in Nat, y \in Nat : l = Len(fields[j]) /\ y = at[j - 1]
          BY <4>3, <4>4
        <4>6. start[k + 1] = (y + (1 + l)) + 1
          BY <4>2, <4>3, <4>5
        <4>7. start[k] + Len(p[k]) + 1 = (y + 1) + l + 1
          BY <4>2, <4>5
        <4>8. (y + (1 + l)) + 1 = (y + 1) + l + 1
          OBVIOUS
        <4> QED
          BY <4>6, <4>7, <4>8
      <3> QED
        BY <3>1, <3>2
    <2> QED
      BY <1>5, <1>11, <2>1
  <1>15. Len(b) = start[n + 1] + Len(p[n + 1])
    <2>1. CASE n = 0
      <3>1. Len(head) \in Nat
        BY <1>2, LenProperties
      <3> QED
        BY <1>4, <1>7, <1>11, <2>1, <3>1
    <2>2. CASE n # 0
      <3>1. n \in 1 .. n
        BY <2>2
      <3>2. at[n] = at[n - 1] + (1 + Len(fields[n])) /\ Len(fields[n]) \in Nat
        BY <1>5, <3>1
      <3>3. start[n + 1] = at[n - 1] + 1 /\ p[n + 1] = fields[n]
        BY <1>7, <1>11, <3>1
      <3>4. at[n - 1] \in Nat
        <4>1. n - 1 \in 0 .. n
          BY <3>1
        <4> QED
          BY <4>1
      <3>5. PICK l \in Nat, y \in Nat : l = Len(fields[n]) /\ y = at[n - 1]
        BY <3>2, <3>4
      <3>6. Len(b) = at[n]
        BY <1>4
      <3>7. Len(b) = y + (1 + l)
        BY <3>2, <3>5, <3>6
      <3>8. start[n + 1] + Len(p[n + 1]) = (y + 1) + l
        BY <3>3, <3>5
      <3>9. y + (1 + l) = (y + 1) + l
        OBVIOUS
      <3> QED
        BY <3>7, <3>8, <3>9
    <2> QED
      BY <2>1, <2>2
  <1>16. Parted(b, p, start)
    <2>1. n + 1 >= 1 /\ (n + 1) - 1 = n
      OBVIOUS
    <2> QED
      BY <1>8, <1>11, <1>12, <1>13, <1>14, <1>15, <2>1 DEF Parted
  <1>17. Txt!Fields(b) = p
    BY <1>16, FieldsAre
  <1> QED
    BY <1>4, <1>9, <1>17

(* The text of a frame is what comes before its semicolon.                 *)
LEMMA TextIsCut ==
    ASSUME NEW t \in Seq(Byte)
    PROVE  /\ SubSeq(t \o <<59>>, 1, Len(t \o <<59>>) - 1) = t
           /\ t \o <<59>> \in Seq(Byte) /\ (t # <<>> => (t \o <<59>>)[1] = t[1])
  <1>1. PICK z \in Seq(Byte) : z = <<59>> /\ Len(z) = 1
    <2>1. 59 \in Byte
      BY DEF Byte
    <2>2. <<59>> \in Seq(Byte)
      BY <2>1
    <2> QED
      BY <2>2, OneIs
  <1>2. PICK f : f = t \o z
    OBVIOUS
  <1>3. Holds(f, 0, t)
    BY <1>2, FrontIsHeld
  <1>4. SubSeq(f, 0 + 1, 0 + Len(t)) = t
    BY <1>3, HeldIsCut
  <1>5. Glued(f, t, z)
    BY <1>2, ConcatIs
  <1>6. f \in Seq(Byte) /\ Len(f) = Len(t) + 1 /\ Len(t) \in Nat
    BY <1>1, <1>5, LenProperties DEF Glued
  <1>7. 0 + 1 = 1 /\ 0 + Len(t) = Len(f) - 1
    BY <1>6
  <1>8. t # <<>> => f[1] = t[1]
    <2>1. t # <<>> => Len(t) # 0
      BY EmptySeq
    <2>2. \A j \in 1 .. Len(t) : f[0 + j] = t[j]
      BY <1>3, HeldAt
    <2>3. Len(t) # 0 => 1 \in 1 .. Len(t) /\ 0 + 1 = 1
      BY <1>6
    <2> QED
      BY <2>1, <2>2, <2>3
  <1> QED
    BY <1>1, <1>2, <1>4, <1>6, <1>7, <1>8

(* Two digits that are held at a place.                                    *)
TwoAt(b, at, v) == v \in 0 .. 99 /\ Holds(b, at, Decimals(v, 2))

(* Two digits are read as written.                                         *)
LEMMA TwoAreRead ==
    ASSUME NEW b, NEW at, NEW v, TwoAt(b, at, v)
    PROVE  /\ b[at + 1] \in 48 .. 57 /\ b[at + 2] \in 48 .. 57
           /\ Txt!Number(Txt!Part(b, at + 1, 2)) = v
           /\ at \in Nat /\ at + 2 <= Len(b)
  <1>1. v \in Nat /\ v < 100 /\ Holds(b, at, Decimals(v, 2))
    BY DEF TwoAt
  <1>2. PICK d \in Seq(Byte) : /\ d = Decimals(v, 2) /\ Len(d) = 2
                               /\ Written(d, 1, DigitOf(v, 10)) /\ Written(d, 2, DigitOf(v, 1))
                               /\ \A k \in 1 .. 2 : d[k] \in 48 .. 57
    BY <1>1, TwoAreWritten
  <1>3. Holds(b, at, d)
    BY <1>1, <1>2
  <1>4. SubSeq(b, at + 1, at + Len(d)) = d
    BY <1>3, HeldIsCut
  <1>5. at \in Nat /\ at + 2 <= Len(b) /\ \A j \in 1 .. 2 : b[at + j] = d[j]
    BY <1>2, <1>3 DEF Holds
  <1>6. Txt!Part(b, at + 1, 2) = d
    <2>1. (at + 1) + 2 - 1 = at + 2
      BY <1>5
    <2>2. Txt!Part(b, at + 1, 2) = SubSeq(b, at + 1, (at + 1) + 2 - 1)
      BY DEF Txt!Part
    <2> QED
      BY <1>2, <1>4, <2>1, <2>2
  <1>7. Txt!Number(d) = v
    <2>1. DigitOf(v, 10) \in Digit /\ DigitOf(v, 1) \in Digit
      BY <1>1, DigitTyped
    <2>2. Txt!Number(d) = 10 * DigitOf(v, 10) + DigitOf(v, 1)
      BY <1>2, <2>1, NumberOfTwo
    <2>3. 10 * DigitOf(v, 10) + DigitOf(v, 1) = v
      BY <1>1, DigitsMake
    <2> QED
      BY <2>2, <2>3
  <1>8. b[at + 1] \in 48 .. 57 /\ b[at + 2] \in 48 .. 57
    <2>1. 1 \in 1 .. 2 /\ 2 \in 1 .. 2
      OBVIOUS
    <2> QED
      BY <1>2, <1>5, <2>1
  <1> QED
    BY <1>5, <1>6, <1>7, <1>8

(* Two digits more.                                                        *)
LEMMA TwoMore ==
    ASSUME NEW p \in Seq(Byte), NEW v \in 0 .. 99
    PROVE  \E q \in Seq(Byte) : /\ q = p \o Decimals(v, 2) /\ Len(q) = Len(p) + 2
                                /\ TwoAt(q, Len(p), v)
                                /\ \A at, w : TwoAt(p, at, w) => TwoAt(q, at, w)
  <1>1. PICK d \in Seq(Byte) : d = Decimals(v, 2) /\ Len(d) = 2
    <2>1. v \in Nat
      OBVIOUS
    <2> QED
      BY <2>1, TwoAreWritten
  <1>2. PICK q : q = p \o d
    OBVIOUS
  <1>3. Extends(q, p, d)
    BY <1>2, ExtendsIs
  <1>4. q \in Seq(Byte) /\ Len(q) = Len(p) + 2 /\ Holds(q, Len(p), d)
    BY <1>1, <1>3 DEF Extends
  <1>5. TwoAt(q, Len(p), v)
    BY <1>1, <1>4 DEF TwoAt
  <1>6. \A at, w : TwoAt(p, at, w) => TwoAt(q, at, w)
    BY <1>3 DEF Extends, TwoAt
  <1> QED
    BY <1>1, <1>2, <1>4, <1>5, <1>6

(* A day and an hour as they are written.                                  *)
DayOf(time) == Decimals(time[1], 2) \o Decimals(time[2], 2) \o Decimals(time[3], 2)
                 \o Decimals(time[4], 2) \o Decimals(time[5], 2)

(* and the hour that follows them.                                         *)
HourOf(time) == Decimals(time[4], 2) \o Decimals(time[5], 2) \o Decimals(time[6], 2)
                  \o <<46, 48, 48, 48>>

(* The day is written in ten digits.                                       *)
LEMMA DayIs ==
    ASSUME NEW time, \A k \in 1 .. 6 : time[k] \in 0 .. 99
    PROVE  /\ DayOf(time) \in Seq(Byte) /\ Len(DayOf(time)) = 10
           /\ TwoAt(DayOf(time), 0, time[1]) /\ TwoAt(DayOf(time), 2, time[2])
           /\ TwoAt(DayOf(time), 4, time[3]) /\ TwoAt(DayOf(time), 6, time[4])
           /\ TwoAt(DayOf(time), 8, time[5])
  <1>0. PICK e \in Seq(Byte) : e = <<>> /\ Len(e) = 0
    <2>1. <<>> \in Seq(Byte) /\ Len(<<>>) = 0
      OBVIOUS
    <2> QED
      BY <2>1
  <1>1. PICK t1 \in 0 .. 99, t2 \in 0 .. 99, t3 \in 0 .. 99, t4 \in 0 .. 99, t5 \in 0 .. 99 :
           t1 = time[1] /\ t2 = time[2] /\ t3 = time[3] /\ t4 = time[4] /\ t5 = time[5]
    <2>1. 1 \in 1 .. 6 /\ 2 \in 1 .. 6 /\ 3 \in 1 .. 6 /\ 4 \in 1 .. 6 /\ 5 \in 1 .. 6
      OBVIOUS
    <2>2. time[1] \in 0 .. 99 /\ time[2] \in 0 .. 99 /\ time[3] \in 0 .. 99 /\ time[4] \in 0 .. 99 /\ time[5] \in 0 .. 99
      BY <2>1
    <2> QED
      BY <2>2
  <1>2. PICK a \in Seq(Byte) : /\ a = e \o Decimals(t1, 2) /\ Len(a) = Len(e) + 2
                               /\ TwoAt(a, Len(e), t1)
    BY TwoMore
  <1>3. Len(a) = 2 /\ TwoAt(a, 0, t1)
    BY <1>0, <1>2
  <1>4. PICK b \in Seq(Byte) : /\ b = a \o Decimals(t2, 2) /\ Len(b) = Len(a) + 2
                               /\ TwoAt(b, Len(a), t2) /\ \A at, w : TwoAt(a, at, w) => TwoAt(b, at, w)
    BY TwoMore
  <1>5. Len(b) = 4 /\ TwoAt(b, 0, t1) /\ TwoAt(b, 2, t2)
    BY <1>3, <1>4
  <1>6. PICK c \in Seq(Byte) : /\ c = b \o Decimals(t3, 2) /\ Len(c) = Len(b) + 2
                               /\ TwoAt(c, Len(b), t3) /\ \A at, w : TwoAt(b, at, w) => TwoAt(c, at, w)
    BY TwoMore
  <1>7. Len(c) = 6 /\ TwoAt(c, 0, t1) /\ TwoAt(c, 2, t2) /\ TwoAt(c, 4, t3)
    BY <1>5, <1>6
  <1>8. PICK d \in Seq(Byte) : /\ d = c \o Decimals(t4, 2) /\ Len(d) = Len(c) + 2
                               /\ TwoAt(d, Len(c), t4) /\ \A at, w : TwoAt(c, at, w) => TwoAt(d, at, w)
    BY TwoMore
  <1>9. Len(d) = 8 /\ TwoAt(d, 0, t1) /\ TwoAt(d, 2, t2) /\ TwoAt(d, 4, t3) /\ TwoAt(d, 6, t4)
    BY <1>7, <1>8
  <1>10. PICK f \in Seq(Byte) : /\ f = d \o Decimals(t5, 2) /\ Len(f) = Len(d) + 2
                                /\ TwoAt(f, Len(d), t5) /\ \A at, w : TwoAt(d, at, w) => TwoAt(f, at, w)
    BY TwoMore
  <1>11. Len(f) = 10 /\ TwoAt(f, 0, t1) /\ TwoAt(f, 2, t2) /\ TwoAt(f, 4, t3) /\ TwoAt(f, 6, t4) /\ TwoAt(f, 8, t5)
    BY <1>9, <1>10
  <1>12. a = Decimals(t1, 2)
    <2>1. t1 \in Nat
      OBVIOUS
    <2>2. Decimals(t1, 2) \in Seq(Byte)
      BY <2>1, TwoAreWritten
    <2> QED
      BY <1>0, <1>2, <2>2, ConcatEmptySeq
  <1>13. DayOf(time) = f
    BY <1>1, <1>4, <1>6, <1>8, <1>10, <1>12 DEF DayOf
  <1> QED
    BY <1>1, <1>11, <1>13

(* The hour in six, and decimals.                                          *)
LEMMA HourIs ==
    ASSUME NEW time, \A k \in 1 .. 6 : time[k] \in 0 .. 99
    PROVE  /\ HourOf(time) \in Seq(Byte) /\ Len(HourOf(time)) = 10
           /\ TwoAt(HourOf(time), 0, time[4]) /\ TwoAt(HourOf(time), 2, time[5])
           /\ TwoAt(HourOf(time), 4, time[6])
           /\ HourOf(time)[7] = 46 /\ \A k \in 8 .. 10 : HourOf(time)[k] = 48
  <1>0. PICK e \in Seq(Byte) : e = <<>> /\ Len(e) = 0
    <2>1. <<>> \in Seq(Byte) /\ Len(<<>>) = 0
      OBVIOUS
    <2> QED
      BY <2>1
  <1>1. PICK t1 \in 0 .. 99, t2 \in 0 .. 99, t3 \in 0 .. 99 :
           t1 = time[4] /\ t2 = time[5] /\ t3 = time[6]
    <2>1. 4 \in 1 .. 6 /\ 5 \in 1 .. 6 /\ 6 \in 1 .. 6
      OBVIOUS
    <2>2. time[4] \in 0 .. 99 /\ time[5] \in 0 .. 99 /\ time[6] \in 0 .. 99
      BY <2>1
    <2> QED
      BY <2>2
  <1>2. PICK a \in Seq(Byte) : /\ a = e \o Decimals(t1, 2) /\ Len(a) = Len(e) + 2
                               /\ TwoAt(a, Len(e), t1)
    BY TwoMore
  <1>3. Len(a) = 2 /\ TwoAt(a, 0, t1)
    BY <1>0, <1>2
  <1>4. PICK b \in Seq(Byte) : /\ b = a \o Decimals(t2, 2) /\ Len(b) = Len(a) + 2
                               /\ TwoAt(b, Len(a), t2) /\ \A at, w : TwoAt(a, at, w) => TwoAt(b, at, w)
    BY TwoMore
  <1>5. Len(b) = 4 /\ TwoAt(b, 0, t1) /\ TwoAt(b, 2, t2)
    BY <1>3, <1>4
  <1>6. PICK c \in Seq(Byte) : /\ c = b \o Decimals(t3, 2) /\ Len(c) = Len(b) + 2
                               /\ TwoAt(c, Len(b), t3) /\ \A at, w : TwoAt(b, at, w) => TwoAt(c, at, w)
    BY TwoMore
  <1>7. Len(c) = 6 /\ TwoAt(c, 0, t1) /\ TwoAt(c, 2, t2) /\ TwoAt(c, 4, t3)
    BY <1>5, <1>6
  <1>8. PICK z \in Seq(Byte) : /\ z = <<46, 48, 48, 48>> /\ Len(z) = 4
                               /\ z[1] = 46 /\ z[2] = 48 /\ z[3] = 48 /\ z[4] = 48
    <2>1. {46, 48} \subseteq Byte
      BY DEF Byte
    <2>2. <<46, 48, 48, 48>> \in Seq(Byte)
      BY <2>1
    <2> QED
      BY <2>2
  <1>9. PICK f : f = c \o z
    OBVIOUS
  <1>10. Extends(f, c, z)
    BY <1>9, ExtendsIs
  <1>11. f \in Seq(Byte) /\ Len(f) = 10
    BY <1>7, <1>8, <1>10 DEF Extends
  <1>12. TwoAt(f, 0, t1) /\ TwoAt(f, 2, t2) /\ TwoAt(f, 4, t3)
    BY <1>7, <1>10 DEF Extends, TwoAt
  <1>13. f[7] = 46 /\ \A k \in 8 .. 10 : f[k] = 48
    <2>1. Holds(f, 6, z)
      BY <1>7, <1>10 DEF Extends
    <2>2. \A j \in 1 .. Len(z) : f[6 + j] = z[j]
      BY <2>1, HeldAt
    <2>3. f[6 + 1] = z[1] /\ f[6 + 2] = z[2] /\ f[6 + 3] = z[3] /\ f[6 + 4] = z[4]
      BY <1>8, <2>2
    <2>4. \A k \in 8 .. 10 : k = 8 \/ k = 9 \/ k = 10
      OBVIOUS
    <2> QED
      BY <1>8, <2>3, <2>4
  <1>14. a = Decimals(t1, 2)
    <2>1. t1 \in Nat
      OBVIOUS
    <2>2. Decimals(t1, 2) \in Seq(Byte)
      BY <2>1, TwoAreWritten
    <2> QED
      BY <1>0, <1>2, <2>2, ConcatEmptySeq
  <1>15. HourOf(time) = f
    BY <1>1, <1>4, <1>6, <1>8, <1>9, <1>14 DEF HourOf
  <1> QED
    BY <1>1, <1>11, <1>12, <1>13, <1>15

(* The date of a fix is read again.                                        *)
LEMMA DateIsRead ==
    ASSUME NEW fix \in Fix
    PROVE  Txt!Date(DayOf(fix.time), HourOf(fix.time)) = fix.time
  <1>1. PICK t : t = fix.time
    OBVIOUS
  <1>2. /\ t \in Seq(Byte) /\ Len(t) = 6 /\ DateUtc(t) = t
        /\ \A k \in 1 .. 6 : t[k] \in 0 .. 99
    BY <1>1, FixIs
  <1>3. PICK b : b = DayOf(t)
    OBVIOUS
  <1>4. /\ b \in Seq(Byte) /\ Len(b) = 10
        /\ TwoAt(b, 0, t[1]) /\ TwoAt(b, 2, t[2]) /\ TwoAt(b, 4, t[3]) /\ TwoAt(b, 6, t[4])
        /\ TwoAt(b, 8, t[5])
    BY <1>2, <1>3, DayIs
  <1>5. PICK h : h = HourOf(t)
    OBVIOUS
  <1>6. /\ h \in Seq(Byte) /\ Len(h) = 10 /\ TwoAt(h, 0, t[4]) /\ TwoAt(h, 2, t[5]) /\ TwoAt(h, 4, t[6])
        /\ h[7] = 46 /\ \A k \in 8 .. 10 : h[k] = 48
    BY <1>2, <1>5, HourIs
  <1>7. Txt!AllDigits(b)
    <2>1. /\ b[0 + 1] \in 48 .. 57 /\ b[0 + 2] \in 48 .. 57 /\ b[2 + 1] \in 48 .. 57 /\ b[2 + 2] \in 48 .. 57
          /\ b[4 + 1] \in 48 .. 57 /\ b[4 + 2] \in 48 .. 57 /\ b[6 + 1] \in 48 .. 57 /\ b[6 + 2] \in 48 .. 57
          /\ b[8 + 1] \in 48 .. 57 /\ b[8 + 2] \in 48 .. 57
      BY <1>4, TwoAreRead
    <2>2. \A i \in 1 .. 10 : b[i] \in 48 .. 57
      BY <2>1
    <2>3. b # <<>>
      <3>1. Len(b) # 0
        BY <1>4
      <3> QED
        BY <3>1, EmptyIs
    <2>4. Len(b) = 10
      BY <1>4
    <2> QED
      BY <2>2, <2>3, <2>4 DEF Txt!AllDigits, Txt!IsDigit
  <1>8. Txt!IsHour(h)
    <2>1. /\ h[0 + 1] \in 48 .. 57 /\ h[0 + 2] \in 48 .. 57 /\ h[2 + 1] \in 48 .. 57 /\ h[2 + 2] \in 48 .. 57
          /\ h[4 + 1] \in 48 .. 57 /\ h[4 + 2] \in 48 .. 57
      BY <1>6, TwoAreRead
    <2>2. \A i \in 1 .. 6 : h[i] \in 48 .. 57
      BY <2>1
    <2>3. h \in Seq(Byte) /\ Len(h) = 10 /\ h[7] = 46
      BY <1>6
    <2>4. PICK u : u = SubSeq(h, 1, 6)
      OBVIOUS
    <2>5. /\ u \in Seq(Byte) /\ Len(u) = 6 - 1 + 1 /\ \A i \in 1 .. 6 - 1 + 1 : u[i] = h[1 + i - 1]
      <3>1. 1 \in 1 .. Len(h) + 1 /\ 6 \in 0 .. Len(h) /\ 1 <= 6 + 1
        BY <2>3
      <3> QED
        BY <2>3, <2>4, <3>1, PartIs
    <2>6. Len(u) = 6 /\ \A i \in 1 .. 6 : u[i] \in 48 .. 57
      BY <2>2, <2>5
    <2>7. PICK w : w = SubSeq(h, 8, 10)
      OBVIOUS
    <2>8. /\ w \in Seq(Byte) /\ Len(w) = 10 - 8 + 1 /\ \A i \in 1 .. 10 - 8 + 1 : w[i] = h[8 + i - 1]
      <3>1. 8 \in 1 .. Len(h) + 1 /\ 10 \in 0 .. Len(h) /\ 8 <= 10 + 1
        BY <2>3
      <3> QED
        BY <2>3, <2>7, <3>1, PartIs
    <2>9. Len(w) = 3 /\ \A i \in 1 .. 3 : w[i] \in 48 .. 57
      <3>1. \A i \in 1 .. 3 : i \in 1 .. 10 - 8 + 1 /\ 8 + i - 1 \in 8 .. 10
        OBVIOUS
      <3>2. \A k \in 8 .. 10 : h[k] = 48
        BY <1>6
      <3> QED
        BY <2>8, <3>1, <3>2
    <2>10. Txt!AllDigits(u)
      <3>1. u # <<>>
        BY <2>6, EmptyIs
      <3> QED
        BY <2>6, <3>1 DEF Txt!AllDigits, Txt!IsDigit
    <2>11. Txt!AllDigits(w)
      <3>1. w # <<>>
        BY <2>9, EmptyIs
      <3> QED
        BY <2>9, <3>1 DEF Txt!AllDigits, Txt!IsDigit
    <2> HIDE DEF Txt!AllDigits
    <2> QED
      BY <2>3, <2>4, <2>7, <2>10, <2>11 DEF Txt!IsHour, Txt!Point
  <1>9. /\ Txt!Number(Txt!Part(b, 1, 2)) = t[1] /\ Txt!Number(Txt!Part(b, 3, 2)) = t[2]
        /\ Txt!Number(Txt!Part(b, 5, 2)) = t[3] /\ Txt!Number(Txt!Part(b, 7, 2)) = t[4]
        /\ Txt!Number(Txt!Part(b, 9, 2)) = t[5]
    <2>1. /\ Txt!Number(Txt!Part(b, 0 + 1, 2)) = t[1] /\ Txt!Number(Txt!Part(b, 2 + 1, 2)) = t[2]
          /\ Txt!Number(Txt!Part(b, 4 + 1, 2)) = t[3] /\ Txt!Number(Txt!Part(b, 6 + 1, 2)) = t[4]
          /\ Txt!Number(Txt!Part(b, 8 + 1, 2)) = t[5]
      BY <1>4, TwoAreRead
    <2>2. 0 + 1 = 1 /\ 2 + 1 = 3 /\ 4 + 1 = 5 /\ 6 + 1 = 7 /\ 8 + 1 = 9
      OBVIOUS
    <2> QED
      BY <2>1, <2>2
  <1>10. Txt!Number(Txt!Part(h, 5, 2)) = t[6]
    <2>0. TwoAt(h, 4, t[6])
      BY <1>6
    <2>1. Txt!Number(Txt!Part(h, 4 + 1, 2)) = t[6]
      BY <2>0, TwoAreRead
    <2>2. 4 + 1 = 5
      OBVIOUS
    <2> QED
      BY <2>1, <2>2
  <1>11. PICK f : f = [k \in 1 .. 6 |-> IF k < 6 THEN Txt!Number(Txt!Part(b, 2 * k - 1, 2))
                                        ELSE IF Txt!IsHour(h) THEN Txt!Number(Txt!Part(h, 5, 2)) ELSE 0]
    OBVIOUS
  <1>12. ASSUME NEW k \in 1 .. 6 PROVE f[k] = t[k]
    <2>1. k = 1 \/ k = 2 \/ k = 3 \/ k = 4 \/ k = 5 \/ k = 6
      OBVIOUS
    <2>2. 2 * 1 - 1 = 1 /\ 2 * 2 - 1 = 3 /\ 2 * 3 - 1 = 5 /\ 2 * 4 - 1 = 7 /\ 2 * 5 - 1 = 9
      OBVIOUS
    <2>3. k < 6 => f[k] = Txt!Number(Txt!Part(b, 2 * k - 1, 2))
      BY <1>11
    <2>4. ~ (k < 6) => f[k] = Txt!Number(Txt!Part(h, 5, 2))
      BY <1>8, <1>11
    <2> HIDE DEF Txt!Number, Txt!Part
    <2>5. CASE k < 6
      BY <1>9, <2>1, <2>2, <2>3, <2>5
    <2>6. CASE ~ (k < 6)
      BY <1>10, <2>1, <2>4, <2>6
    <2> QED
      BY <2>5, <2>6
  <1>13. f = t
    <2>1. \A k \in 1 .. 6 : t[k] \in Byte
      BY <1>2, ElementOfSeq
    <2>2. f \in [1 .. 6 -> Byte]
      BY <1>11, <1>12, <2>1
    <2>3. f \in Seq(Byte) /\ Len(f) = 6
      BY <2>2, TupleIs
    <2> QED
      BY <1>2, <1>12, <2>3, SeqEqual
  <1>14. Txt!Date(b, h) = Txt!DateUtc(f)
    BY <1>4, <1>7, <1>11 DEF Txt!Date
  <1>15. Txt!DateUtc(f) = t
    BY <1>2, <1>13, SameDate
  <1> QED
    BY <1>1, <1>3, <1>5, <1>14, <1>15

-----------------------------------------------------------------------------
(* GPS103: the texts.                                                      *)

(* A text of GPS103 that begins with the prefix of an IMEI.                *)
LEMMA TextPrefix ==
    /\ \E p \in Seq(Byte) : p = Txt!Prefix /\ Len(p) = 5 /\ p[1] = 105 /\ Plain(p)
    /\ \E h \in Seq(Byte) : h = Txt!Hello /\ Len(h) = 8 /\ h[1] = 35
  <1>1. PICK p : p = <<105, 109, 101, 105, 58>>
    OBVIOUS
  <1>2. p \in Seq(Byte) /\ Len(p) = 5 /\ p[1] = 105 /\ \A k \in 1 .. 5 : p[k] # 44
    <2>1. {105, 109, 101, 58} \subseteq Byte
      BY DEF Byte
    <2>2. p \in Seq(Byte) /\ Len(p) = 5 /\ p[1] = 105
      BY <1>1, <2>1
    <2>3. p[1] = 105 /\ p[2] = 109 /\ p[3] = 101 /\ p[4] = 105 /\ p[5] = 58
      BY <1>1
    <2>4. \A k \in 1 .. 5 : k = 1 \/ k = 2 \/ k = 3 \/ k = 4 \/ k = 5
      OBVIOUS
    <2> QED
      BY <2>2, <2>3, <2>4
  <1>3. PICK w \in Seq(Byte) : w = <<35, 35, 44>> /\ Len(w) = 3 /\ w[1] = 35
    <2>1. {35, 44} \subseteq Byte
      BY DEF Byte
    <2>2. <<35, 35, 44>> \in Seq(Byte) /\ Len(<<35, 35, 44>>) = 3 /\ <<35, 35, 44>>[1] = 35
      BY <2>1
    <2> QED
      BY <2>2
  <1>4. PICK h : h = w \o p
    OBVIOUS
  <1>5. Glued(h, w, p)
    BY <1>2, <1>3, <1>4, ConcatIs
  <1>6. h \in Seq(Byte) /\ Len(h) = 8 /\ h[1] = 35
    BY <1>2, <1>3, <1>5 DEF Glued
  <1>7. Txt!Prefix = p /\ Txt!Hello = h
    BY <1>1, <1>3, <1>4 DEF Txt!Prefix, Txt!Hello
  <1>8. Plain(p)
    BY <1>2 DEF Plain
  <1> QED
    BY <1>2, <1>6, <1>7, <1>8

(* A text that holds the prefix first; what follows it.                    *)
LEMMA AfterIs ==
    ASSUME NEW b, Holds(b, 0, Txt!Prefix)
    PROVE  /\ Txt!StartsWith(b, Txt!Prefix) /\ ~ Txt!StartsWith(b, Txt!Hello)
           /\ b # <<>> /\ b[1] = 105
           /\ Txt!After(b, Txt!Prefix) \in Seq(Byte)
           /\ Len(Txt!After(b, Txt!Prefix)) = Len(b) - 5
           /\ \A i \in 1 .. Len(b) - 5 : Txt!After(b, Txt!Prefix)[i] = b[5 + i]
  <1>1. PICK p \in Seq(Byte) : p = Txt!Prefix /\ Len(p) = 5 /\ p[1] = 105
    BY TextPrefix
  <1>2. b \in Seq(Byte) /\ 0 + 5 <= Len(b) /\ \A j \in 1 .. 5 : b[0 + j] = p[j]
    BY <1>1 DEF Holds
  <1>3. PICK n \in Nat : n = Len(b) /\ n >= 5
    BY <1>2, LenProperties
  <1>4. b[1] = 105
    <2>1. 1 \in 1 .. 5 /\ 0 + 1 = 1
      OBVIOUS
    <2> QED
      BY <1>1, <1>2, <2>1
  <1>5. SubSeq(b, 1, 5) = p
    <2>1. SubSeq(b, 0 + 1, 0 + Len(p)) = p
      BY <1>1, HeldIsCut
    <2>2. 0 + 1 = 1 /\ 0 + Len(p) = 5
      BY <1>1
    <2> QED
      BY <2>1, <2>2
  <1>6. Txt!StartsWith(b, p)
    BY <1>1, <1>3, <1>5 DEF Txt!StartsWith
  <1>7. ~ Txt!StartsWith(b, Txt!Hello)
    <2>1. PICK h \in Seq(Byte) : h = Txt!Hello /\ Len(h) = 8 /\ h[1] = 35
      BY TextPrefix
    <2>2. SUFFICES ASSUME Txt!StartsWith(b, h) PROVE FALSE
      BY <2>1
    <2>3. n >= 8 /\ SubSeq(b, 1, 8) = h
      BY <1>3, <2>1, <2>2 DEF Txt!StartsWith
    <2>4. \A i \in 1 .. 8 - 1 + 1 : SubSeq(b, 1, 8)[i] = b[1 + i - 1]
      <3>1. 1 \in 1 .. Len(b) + 1 /\ 8 \in 0 .. Len(b) /\ 1 <= 8 + 1
        BY <1>3, <2>3
      <3> QED
        BY <1>2, <3>1, PartIs
    <2>5. 1 \in 1 .. 8 - 1 + 1 /\ 1 + 1 - 1 = 1
      OBVIOUS
    <2>6. h[1] = b[1]
      BY <2>3, <2>4, <2>5
    <2> QED
      BY <1>4, <2>1, <2>6
  <1>8. b # <<>>
    <2>1. Len(b) # 0
      BY <1>3
    <2> QED
      BY <2>1, EmptyIs
  <1>9. PICK a : a = SubSeq(b, 6, n)
    OBVIOUS
  <1>10. a \in Seq(Byte) /\ Len(a) = n - 6 + 1 /\ \A i \in 1 .. n - 6 + 1 : a[i] = b[6 + i - 1]
    <2>1. 6 \in 1 .. Len(b) + 1 /\ n \in 0 .. Len(b) /\ 6 <= n + 1
      BY <1>3
    <2> QED
      BY <1>2, <1>9, <2>1, PartIs
  <1>11. n - 6 + 1 = n - 5 /\ \A i \in 1 .. n - 5 : 6 + i - 1 = 5 + i
    OBVIOUS
  <1>12. Txt!After(b, p) = a
    <2>1. Len(p) + 1 = 6
      BY <1>1
    <2> QED
      BY <1>3, <1>9, <2>1 DEF Txt!After
  <1> QED
    BY <1>1, <1>3, <1>4, <1>6, <1>7, <1>8, <1>10, <1>11, <1>12

(* Who sends a text, in digits.                                            *)
Named(digits) == digits \in Seq(0 .. 9) /\ digits # <<>>

(* Digits in ASCII are read as they were.                                  *)
LEMMA AsciiReads ==
    ASSUME NEW digits, Named(digits)
    PROVE  /\ J!Ascii(digits) \in Seq(Byte) /\ Len(J!Ascii(digits)) >= 1
           /\ Plain(J!Ascii(digits)) /\ Txt!AllDigits(J!Ascii(digits))
           /\ Txt!Values(J!Ascii(digits)) = digits
  <1>1. PICK T : T = 0 .. 9
    OBVIOUS
  <1>2. digits \in Seq(T) /\ digits # <<>>
    BY <1>1 DEF Named
  <1>3. PICK n \in Nat : n = Len(digits) /\ n >= 1
    <2>1. Len(digits) \in Nat
      BY <1>2, LenProperties
    <2>2. Len(digits) # 0
      BY <1>2, EmptySeq
    <2> QED
      BY <2>1, <2>2
  <1>4. \A k \in 1 .. n : digits[k] \in T
    BY <1>2, <1>3, ElementOfSeq
  <1>5. \A x \in T : x < 10 /\ 48 + x \in Byte /\ 48 + x \in 48 .. 57 /\ 48 + x # 44 /\ (48 + x) - 48 = x
    BY <1>1 DEF Byte
  <1>6. PICK a : a = J!Ascii(digits)
    OBVIOUS
  <1>7. a = [k \in 1 .. n |-> IF digits[k] < 10 THEN 48 + digits[k] ELSE 87 + digits[k]]
    BY <1>3, <1>6 DEF J!Ascii
  <1>8. \A k \in 1 .. n : a[k] = 48 + digits[k]
    BY <1>4, <1>5, <1>7
  <1>9. a \in [1 .. n -> Byte]
    BY <1>4, <1>5, <1>7
  <1>10. a \in Seq(Byte) /\ Len(a) = n
    BY <1>9, TupleIs
  <1>11. Txt!AllDigits(a)
    <2>1. a # <<>>
      <3>1. Len(a) # 0
        BY <1>3, <1>10
      <3> QED
        BY <3>1, EmptyIs
    <2>2. \A i \in 1 .. Len(a) : a[i] \in 48 .. 57
      BY <1>4, <1>5, <1>8, <1>10
    <2> QED
      BY <2>1, <2>2 DEF Txt!AllDigits, Txt!IsDigit
  <1>12. Plain(a)
    BY <1>4, <1>5, <1>8, <1>10 DEF Plain
  <1>13. Txt!Values(a) = digits
    <2>1. PICK v : v = [k \in 1 .. n |-> a[k] - 48]
      OBVIOUS
    <2>2. \A k \in 1 .. n : v[k] = digits[k]
      BY <1>4, <1>5, <1>8, <2>1
    <2>3. v \in [1 .. n -> T]
      BY <1>4, <2>1, <2>2
    <2>4. v \in Seq(T) /\ Len(v) = n
      BY <2>3, TupleIs
    <2>5. v = digits
      BY <1>2, <1>3, <2>2, <2>4, SeqEqual
    <2> QED
      BY <1>10, <2>1, <2>5 DEF Txt!Values
  <1> QED
    BY <1>3, <1>6, <1>10, <1>11, <1>12, <1>13

(* The prefix and the digits of who sends a text.                          *)
Imei(digits) == Txt!Prefix \o J!Ascii(digits)

(* An IMEI is its prefix and its digits.                                   *)
LEMMA ImeiIs ==
    ASSUME NEW digits, Named(digits)
    PROVE  /\ Imei(digits) \in Seq(Byte) /\ Plain(Imei(digits)) /\ Holds(Imei(digits), 0, Txt!Prefix)
           /\ Txt!After(Imei(digits), Txt!Prefix) = J!Ascii(digits)
           /\ Len(Imei(digits)) = 5 + Len(J!Ascii(digits))
  <1>1. PICK p \in Seq(Byte) : p = Txt!Prefix /\ Len(p) = 5 /\ Plain(p)
    BY TextPrefix
  <1>2. PICK a \in Seq(Byte) : a = J!Ascii(digits) /\ Plain(a)
    BY AsciiReads
  <1>3. PICK h : h = p \o a
    OBVIOUS
  <1>4. Imei(digits) = h
    BY <1>1, <1>2, <1>3 DEF Imei
  <1>5. Extends(h, p, a)
    BY <1>3, ExtendsIs
  <1>6. h \in Seq(Byte) /\ Len(h) = 5 + Len(a) /\ Holds(h, 5, a)
    BY <1>1, <1>5 DEF Extends
  <1>7. Plain(h)
    BY <1>1, <1>2, <1>3, PlainJoin
  <1>8. Holds(h, 0, p)
    BY <1>3, FrontIsHeld
  <1>9. Txt!After(h, p) = a
    <2>1. SubSeq(h, 5 + 1, 5 + Len(a)) = a
      BY <1>6, HeldIsCut
    <2>2. Len(p) + 1 = 5 + 1 /\ Len(h) = 5 + Len(a)
      BY <1>1, <1>6
    <2> QED
      BY <2>1, <2>2 DEF Txt!After
  <1> QED
    BY <1>1, <1>2, <1>4, <1>6, <1>7, <1>8, <1>9

(* A text that goes on behind the IMEI with a comma is no heartbeat.       *)
LEMMA CommaIsNoDigit ==
    ASSUME NEW digits, Named(digits), NEW b, Holds(b, 0, Imei(digits)),
           Len(Imei(digits)) + 1 <= Len(b), b[Len(Imei(digits)) + 1] = 44
    PROVE  /\ ~ Txt!AllDigits(Txt!After(b, Txt!Prefix))
           /\ Txt!StartsWith(b, Txt!Prefix) /\ ~ Txt!StartsWith(b, Txt!Hello)
           /\ b # <<>> /\ b[1] = 105
  <1>1. PICK h \in Seq(Byte) : h = Imei(digits) /\ Holds(h, 0, Txt!Prefix) /\ Len(h) = 5 + Len(J!Ascii(digits))
    BY ImeiIs
  <1>2. PICK n \in Nat : n = Len(J!Ascii(digits)) /\ n >= 1
    BY AsciiReads, LenProperties
  <1>3. Holds(b, 0, Txt!Prefix)
    <2>1. Holds(b, 0 + 0, Txt!Prefix)
      BY <1>1, HeldInHeld
    <2>2. 0 + 0 = 0
      OBVIOUS
    <2> QED
      BY <2>1, <2>2
  <1>4. /\ Txt!StartsWith(b, Txt!Prefix) /\ ~ Txt!StartsWith(b, Txt!Hello)
        /\ b # <<>> /\ b[1] = 105
        /\ Len(Txt!After(b, Txt!Prefix)) = Len(b) - 5
        /\ \A i \in 1 .. Len(b) - 5 : Txt!After(b, Txt!Prefix)[i] = b[5 + i]
    BY <1>3, AfterIs
  <1>5. PICK L \in Nat : L = Len(b)
    BY LenProperties DEF Holds
  <1>6. Len(h) + 1 = 5 + (n + 1) /\ n + 1 \in 1 .. L - 5
    BY <1>1, <1>2, <1>5
  <1>7. Txt!After(b, Txt!Prefix)[n + 1] = 44
    <2>1. Txt!After(b, Txt!Prefix)[n + 1] = b[5 + (n + 1)]
      BY <1>4, <1>5, <1>6
    <2> QED
      BY <1>1, <1>6, <2>1
  <1>8. n + 1 \in 1 .. Len(Txt!After(b, Txt!Prefix))
    BY <1>4, <1>5, <1>6
  <1>9. ~ Txt!AllDigits(Txt!After(b, Txt!Prefix))
    BY <1>7, <1>8 DEF Txt!AllDigits, Txt!IsDigit
  <1> QED
    BY <1>4, <1>9

(* The fields of a report, without commas.                                 *)
LEMMA MinutesArePlain ==
    ASSUME NEW v \in Nat, NEW n \in 2 .. 3
    PROVE  Plain(Minutes(v, n))
  <1>1. PICK d, p, z, r : /\ d = Decimals(DegreesOf(v), n) /\ p = Decimals(MinutesOf(v), 2)
                          /\ z = <<46>> /\ r = Decimals(FractionOf(v), 4)
    OBVIOUS
  <1>2. Plain(d) /\ Plain(p) /\ Plain(r)
    <2>1. n \in 1 .. 4 /\ 2 \in 1 .. 4 /\ 4 \in 1 .. 4
      OBVIOUS
    <2>2. DegreesOf(v) \in Nat /\ MinutesOf(v) \in Nat /\ FractionOf(v) \in Nat
      BY PartsMake
    <2> QED
      BY <1>1, <2>1, <2>2, DecimalsArePlain
  <1>3. Plain(z)
    <2>1. 46 \in Byte /\ 46 # 44
      BY DEF Byte
    <2> QED
      BY <1>1, <2>1, ByteIsPlain
  <1>4. Plain(((d \o p) \o z) \o r)
    BY <1>2, <1>3, PlainJoin
  <1>5. Minutes(v, n) = ((d \o p) \o z) \o r
    BY <1>1 DEF Minutes, DegreesOf, MinutesOf, FractionOf
  <1> QED
    BY <1>4, <1>5

(* A report as it is split.                                                *)
Reported(p, m, fix) ==
    /\ Len(p) = 13 /\ p[1] = Imei(m.digits) /\ p[2] = m.text
    /\ p[3] = DayOf(fix.time) /\ p[5] = <<70>> /\ p[6] = HourOf(fix.time)
    /\ p[7] = <<IF fix.fixed THEN 65 ELSE 86>>
    /\ p[8] = Minutes(3 * Abs(fix.lat), 2) /\ p[9] = <<IF fix.lat < 0 THEN 83 ELSE 78>>
    /\ p[10] = Minutes(3 * Abs(fix.lon), 3) /\ p[11] = <<IF fix.lon < 0 THEN 87 ELSE 69>>
    /\ p[12] = Decimals(fix.speed, 3) \o <<46, 53>> /\ p[13] = Decimals(fix.course, 3)

(* A sequence of twelve.                                                   *)
LEMMA TwelveAre ==
    ASSUME NEW T, NEW a \in T, NEW b \in T, NEW c \in T, NEW d \in T, NEW e \in T, NEW f \in T,
           NEW g \in T, NEW h \in T, NEW i \in T, NEW j \in T, NEW k \in T, NEW l \in T
    PROVE  /\ <<a, b, c, d, e, f, g, h, i, j, k, l>> \in Seq(T)
           /\ Len(<<a, b, c, d, e, f, g, h, i, j, k, l>>) = 12
  OBVIOUS

(* A date has no commas,                                                   *)
LEMMA HourIsPlain ==
    ASSUME NEW fix \in Fix
    PROVE  Plain(DayOf(fix.time)) /\ Plain(HourOf(fix.time))
  <1>0. PICK t : t = fix.time
    OBVIOUS
  <1>1. t = fix.time /\ \A k \in 1 .. 6 : t[k] \in 0 .. 99
    BY <1>0, FixIs
  <1>2. \A k \in 1 .. 6 : t[k] \in Nat
    BY <1>1
  <1>3. 2 \in 1 .. 4
    OBVIOUS
  <1>4. \A k \in 1 .. 6 : Plain(Decimals(t[k], 2))
    BY <1>2, <1>3, DecimalsArePlain
  <1>5. PICK a, b, c, d, e, f : /\ a = Decimals(t[1], 2) /\ b = Decimals(t[2], 2) /\ c = Decimals(t[3], 2)
                                /\ d = Decimals(t[4], 2) /\ e = Decimals(t[5], 2) /\ f = Decimals(t[6], 2)
    OBVIOUS
  <1>6. Plain(a) /\ Plain(b) /\ Plain(c) /\ Plain(d) /\ Plain(e) /\ Plain(f)
    <2>1. 1 \in 1 .. 6 /\ 2 \in 1 .. 6 /\ 3 \in 1 .. 6 /\ 4 \in 1 .. 6 /\ 5 \in 1 .. 6 /\ 6 \in 1 .. 6
      OBVIOUS
    <2> QED
      BY <1>4, <1>5, <2>1
  <1>7. PICK z : z = <<46, 48, 48, 48>>
    OBVIOUS
  <1>8. Plain(z)
    <2>1. {46, 48} \subseteq Byte
      BY DEF Byte
    <2>2. z \in Seq(Byte) /\ Len(z) = 4 /\ z[1] = 46 /\ z[2] = 48 /\ z[3] = 48 /\ z[4] = 48
      BY <1>7, <2>1
    <2>3. \A k \in 1 .. 4 : k = 1 \/ k = 2 \/ k = 3 \/ k = 4
      OBVIOUS
    <2> QED
      BY <2>2, <2>3 DEF Plain
  <1>9. Plain((((a \o b) \o c) \o d) \o e)
    <2>1. Plain((a \o b) \o c)
      BY <1>6, PlainJoin
    <2> QED
      BY <1>6, <2>1, PlainJoin
  <1>10. Plain(((d \o e) \o f) \o z)
    <2>1. Plain((d \o e) \o f)
      BY <1>6, PlainJoin
    <2> QED
      BY <1>8, <2>1, PlainJoin
  <1>11. DayOf(t) = (((a \o b) \o c) \o d) \o e /\ HourOf(t) = ((d \o e) \o f) \o z
    BY <1>5, <1>7 DEF DayOf, HourOf
  <1> QED
    BY <1>1, <1>9, <1>10, <1>11

(* nor have a speed and a course.                                          *)
LEMMA SpeedIsPlain ==
    ASSUME NEW v \in Nat, NEW u \in Nat
    PROVE  Plain(Decimals(v, 3) \o <<46, 53>>) /\ Plain(Decimals(u, 3))
  <1>1. PICK z : z = <<46, 53>>
    OBVIOUS
  <1>2. Plain(z)
    <2>1. {46, 53} \subseteq Byte
      BY DEF Byte
    <2>2. z \in Seq(Byte) /\ Len(z) = 2 /\ z[1] = 46 /\ z[2] = 53
      BY <1>1, <2>1
    <2>3. \A k \in 1 .. 2 : k = 1 \/ k = 2
      OBVIOUS
    <2> QED
      BY <2>2, <2>3 DEF Plain
  <1>3. 3 \in 1 .. 4
    OBVIOUS
  <1>4. Plain(Decimals(v, 3)) /\ Plain(Decimals(u, 3))
    BY <1>3, DecimalsArePlain
  <1> QED
    BY <1>1, <1>2, <1>4, PlainJoin

(* The twelve fields of a report.                                          *)
ReportRow(r, m, fix) ==
    /\ r = Report(m, fix) /\ Len(r) = 12 /\ \A k \in 1 .. 12 : Plain(r[k])
    /\ r[1] = m.text /\ r[2] = DayOf(fix.time) /\ r[4] = <<70>> /\ r[5] = HourOf(fix.time)
    /\ r[6] = <<IF fix.fixed THEN 65 ELSE 86>>
    /\ r[7] = Minutes(3 * Abs(fix.lat), 2) /\ r[8] = <<IF fix.lat < 0 THEN 83 ELSE 78>>
    /\ r[9] = Minutes(3 * Abs(fix.lon), 3) /\ r[10] = <<IF fix.lon < 0 THEN 87 ELSE 69>>
    /\ r[11] = Decimals(fix.speed, 3) \o <<46, 53>> /\ r[12] = Decimals(fix.course, 3)

(* A report has them.                                                      *)
LEMMA ReportIs ==
    ASSUME NEW m, Plain(m.text), NEW fix \in Fix
    PROVE  \E r \in FieldSeqs : ReportRow(r, m, fix)
  <1>0. /\ Abs(fix.lat) \in Nat /\ Abs(fix.lon) \in Nat /\ fix.speed \in Nat /\ fix.course \in Nat
    <2>1. fix.speed \in Byte /\ fix.course \in 0 .. 360 /\ Abs(fix.lat) \in Nat /\ Abs(fix.lon) \in Nat
      BY FixIs
    <2> QED
      BY <2>1 DEF Byte
  <1>1. PICK a : a = m.text
    OBVIOUS
  <1>2. PICK b, c : b = DayOf(fix.time) /\ c = <<>>
    OBVIOUS
  <1>3. PICK d, e : d = <<70>> /\ e = HourOf(fix.time)
    OBVIOUS
  <1>4. PICK f, g : f = <<IF fix.fixed THEN 65 ELSE 86>> /\ g = Minutes(3 * Abs(fix.lat), 2)
    OBVIOUS
  <1>5. PICK h, i : h = <<IF fix.lat < 0 THEN 83 ELSE 78>> /\ i = Minutes(3 * Abs(fix.lon), 3)
    OBVIOUS
  <1>6. PICK j, k : j = <<IF fix.lon < 0 THEN 87 ELSE 69>> /\ k = Decimals(fix.speed, 3) \o <<46, 53>>
    OBVIOUS
  <1>7. PICK l : l = Decimals(fix.course, 3)
    OBVIOUS
  <1>8. PICK r : r = <<a, b, c, d, e, f, g, h, i, j, k, l>>
    OBVIOUS
  <1>9. Report(m, fix) = r
    BY <1>1, <1>2, <1>3, <1>4, <1>5, <1>6, <1>7, <1>8 DEF Report, DayOf, HourOf
  <1>10. Plain(b) /\ Plain(e)
    BY <1>2, <1>3, HourIsPlain
  <1>11. Plain(c)
    <2>1. <<>> \in Seq(Byte) /\ Len(<<>>) = 0
      OBVIOUS
    <2> QED
      BY <1>2, <2>1 DEF Plain
  <1>12. Plain(d) /\ Plain(f) /\ Plain(h) /\ Plain(j)
    <2>1. {70, 65, 86, 83, 78, 87, 69} \subseteq Byte /\ \A x \in {70, 65, 86, 83, 78, 87, 69} : x # 44
      BY DEF Byte
    <2>2. ASSUME NEW x \in {70, 65, 86, 83, 78, 87, 69} PROVE Plain(<<x>>)
      <3>1. x \in Byte /\ x # 44
        BY <2>1
      <3> QED
        BY <3>1, ByteIsPlain
    <2>3. PICK x, y, z : /\ x = (IF fix.fixed THEN 65 ELSE 86) /\ y = (IF fix.lat < 0 THEN 83 ELSE 78)
                         /\ z = (IF fix.lon < 0 THEN 87 ELSE 69)
      OBVIOUS
    <2>4. f = <<x>> /\ h = <<y>> /\ j = <<z>>
      BY <1>4, <1>5, <1>6, <2>3
    <2>5. x \in {65, 86} /\ y \in {83, 78} /\ z \in {87, 69}
      BY <2>3
    <2> QED
      BY <1>3, <2>2, <2>4, <2>5
  <1>13. Plain(g) /\ Plain(i)
    <2>1. 3 * Abs(fix.lat) \in Nat /\ 3 * Abs(fix.lon) \in Nat /\ 2 \in 2 .. 3 /\ 3 \in 2 .. 3
      BY <1>0
    <2> QED
      BY <1>4, <1>5, <2>1, MinutesArePlain
  <1>14. Plain(k) /\ Plain(l)
    BY <1>0, <1>6, <1>7, SpeedIsPlain
  <1>15. Plain(a)
    BY <1>1
  <1>16. PICK T : T = Seq(Byte)
    OBVIOUS
  <1>17. /\ a \in T /\ b \in T /\ c \in T /\ d \in T /\ e \in T /\ f \in T
         /\ g \in T /\ h \in T /\ i \in T /\ j \in T /\ k \in T /\ l \in T
    BY <1>10, <1>11, <1>12, <1>13, <1>14, <1>15, <1>16 DEF Plain
  <1>18. r \in FieldSeqs /\ Len(r) = 12
    BY <1>8, <1>16, <1>17, TwelveAre DEF FieldSeqs
  <1>19. /\ r[1] = a /\ r[2] = b /\ r[3] = c /\ r[4] = d /\ r[5] = e /\ r[6] = f
         /\ r[7] = g /\ r[8] = h /\ r[9] = i /\ r[10] = j /\ r[11] = k /\ r[12] = l
    BY <1>8
  <1>20. \A y \in 1 .. 12 : Plain(r[y])
    <2>1. \A y \in 1 .. 12 : \/ y = 1 \/ y = 2 \/ y = 3 \/ y = 4 \/ y = 5 \/ y = 6
                             \/ y = 7 \/ y = 8 \/ y = 9 \/ y = 10 \/ y = 11 \/ y = 12
      OBVIOUS
    <2> QED
      BY <1>10, <1>11, <1>12, <1>13, <1>14, <1>15, <1>19, <2>1
  <1>21. /\ r[1] = m.text /\ r[2] = DayOf(fix.time) /\ r[4] = <<70>> /\ r[5] = HourOf(fix.time)
    BY <1>1, <1>2, <1>3, <1>19
  <1>22. /\ r[6] = <<IF fix.fixed THEN 65 ELSE 86>>
         /\ r[7] = Minutes(3 * Abs(fix.lat), 2) /\ r[8] = <<IF fix.lat < 0 THEN 83 ELSE 78>>
    BY <1>4, <1>5, <1>19
  <1>23. /\ r[9] = Minutes(3 * Abs(fix.lon), 3) /\ r[10] = <<IF fix.lon < 0 THEN 87 ELSE 69>>
         /\ r[11] = Decimals(fix.speed, 3) \o <<46, 53>> /\ r[12] = Decimals(fix.course, 3)
    BY <1>5, <1>6, <1>7, <1>19
  <1> QED
    BY <1>9, <1>18, <1>20, <1>21, <1>22, <1>23 DEF ReportRow

(* A report is split into its fields.                                      *)
LEMMA ReportSplits ==
    ASSUME NEW m, Plain(m.text), Named(m.digits), NEW fix \in Fix
    PROVE  \E t \in Seq(Byte) :
              /\ t = Imei(m.digits) \o Joined(Report(m, fix))
              /\ Reported(Txt!Fields(t), m, fix)
              /\ ~ Txt!AllDigits(Txt!After(t, Txt!Prefix))
              /\ Txt!StartsWith(t, Txt!Prefix) /\ ~ Txt!StartsWith(t, Txt!Hello)
              /\ t # <<>> /\ t[1] = 105
  <1>0. PICK r \in FieldSeqs : ReportRow(r, m, fix)
    BY ReportIs
  <1>1. /\ r = Report(m, fix) /\ Len(r) = 12 /\ \A k \in 1 .. 12 : Plain(r[k])
        /\ r[1] = m.text /\ r[2] = DayOf(fix.time) /\ r[4] = <<70>> /\ r[5] = HourOf(fix.time)
        /\ r[6] = <<IF fix.fixed THEN 65 ELSE 86>>
        /\ r[7] = Minutes(3 * Abs(fix.lat), 2) /\ r[8] = <<IF fix.lat < 0 THEN 83 ELSE 78>>
        /\ r[9] = Minutes(3 * Abs(fix.lon), 3) /\ r[10] = <<IF fix.lon < 0 THEN 87 ELSE 69>>
        /\ r[11] = Decimals(fix.speed, 3) \o <<46, 53>> /\ r[12] = Decimals(fix.course, 3)
    BY <1>0 DEF ReportRow
  <1>2. PICK h \in Seq(Byte) : h = Imei(m.digits) /\ Plain(h) /\ Holds(h, 0, Txt!Prefix)
    BY ImeiIs
  <1>3. Len(r) = 12 /\ \A k \in 1 .. 12 : Plain(r[k])
    BY <1>1
  <1>4. PICK t : t = h \o Joined(r)
    OBVIOUS
  <1>5. t \in Seq(Byte) /\ SplitAs(Txt!Fields(t), h, r)
    BY <1>2, <1>3, <1>4, JoinedSplits
  <1>6. PICK p : p = Txt!Fields(t)
    OBVIOUS
  <1>7. Len(p) = 13 /\ p[1] = h /\ \A k \in 1 .. 12 : p[k + 1] = r[k]
    BY <1>3, <1>5, <1>6 DEF SplitAs
  <1>8. /\ p[2] = r[1] /\ p[3] = r[2] /\ p[5] = r[4] /\ p[6] = r[5] /\ p[7] = r[6]
        /\ p[8] = r[7] /\ p[9] = r[8] /\ p[10] = r[9] /\ p[11] = r[10] /\ p[12] = r[11] /\ p[13] = r[12]
    <2>1. /\ p[1 + 1] = r[1] /\ p[2 + 1] = r[2] /\ p[4 + 1] = r[4] /\ p[5 + 1] = r[5] /\ p[6 + 1] = r[6]
          /\ p[7 + 1] = r[7] /\ p[8 + 1] = r[8] /\ p[9 + 1] = r[9] /\ p[10 + 1] = r[10]
          /\ p[11 + 1] = r[11] /\ p[12 + 1] = r[12]
      BY <1>7
    <2> QED
      BY <2>1
  <1>9. Reported(p, m, fix)
    BY <1>1, <1>2, <1>7, <1>8 DEF Reported
  <1>10. Holds(t, 0, h) /\ Len(h) + 1 <= Len(t) /\ t[Len(h) + 1] = 44
    <2>1. PICK b \in Seq(Byte) : \E at \in [0 .. Len(r) -> Nat] :
              /\ b = h \o Joined(r)
              /\ at[0] = Len(h) /\ at[Len(r)] = Len(b) /\ Holds(b, 0, h)
              /\ \A k \in 1 .. Len(r) : /\ Holds(b, at[k - 1], Piece44(r[k]))
                                        /\ at[k] = at[k - 1] + Len(Piece44(r[k]))
      BY JoinedIsLaid
    <2>2. PICK at \in [0 .. Len(r) -> Nat] :
              /\ at[0] = Len(h) /\ Holds(b, 0, h)
              /\ \A k \in 1 .. Len(r) : Holds(b, at[k - 1], Piece44(r[k]))
      BY <2>1
    <2>3. 1 \in 1 .. Len(r) /\ 1 - 1 = 0
      BY <1>3
    <2>4. Holds(b, at[0], Piece44(r[1]))
      BY <2>2, <2>3
    <2>5. r[1] \in Seq(Byte)
      <3>1. 1 \in 1 .. 12
        OBVIOUS
      <3> QED
        BY <1>3, <3>1 DEF Plain
    <2>6. b[at[0] + 1] = 44 /\ at[0] + 1 <= Len(b)
      BY <2>4, <2>5, PieceHolds
    <2> QED
      BY <1>4, <2>1, <2>2, <2>6
  <1>11. /\ ~ Txt!AllDigits(Txt!After(t, Txt!Prefix))
         /\ Txt!StartsWith(t, Txt!Prefix) /\ ~ Txt!StartsWith(t, Txt!Hello)
         /\ t # <<>> /\ t[1] = 105
    BY <1>2, <1>10, CommaIsNoDigit
  <1>12. t = Imei(m.digits) \o Joined(Report(m, fix))
    BY <1>1, <1>2, <1>4
  <1> QED
    BY <1>5, <1>6, <1>9, <1>11, <1>12

(* A coordinate that is written is read, with its sign, up to its limit.   *)
LEMMA CoordinateSays ==
    ASSUME NEW c \in Int, NEW n \in 2 .. 3, NEW d \in Int, d = Degrees(1000),
           Abs(c) <= d, Abs(c) \in Nat, n = 2 => Abs(c) < Degrees(100),
           n = 3 => Abs(c) < d,
           NEW h, h \in {<< 83 >>, << 87 >>} <=> c < 0
    PROVE  Txt!ToDegrees(Minutes(3 * Abs(c), n), h, n) =
             IF Abs(c) <= Degrees(IF n = 2 THEN 90 ELSE 180) THEN <<3 * c>> ELSE <<>>
  <1>1. PICK v \in Nat : v = 3 * Abs(c)
    OBVIOUS
  <1>2. PICK b : b = Minutes(v, n)
    OBVIOUS
  <1>3. Coordinate(b, v, n)
    BY <1>2, MinutesIs
  <1>4. n = 2 => DegreesOf(v) < 100
    <2>1. n = 2 => v < 60000000
      <3>1. Degrees(100) = 20000000
        BY SMT DEF Degrees
      <3> QED
        BY <1>1, <3>1, SMT
    <2>2. v < 60000000 => v \div 600000 < 100
      BY SMT
    <2> QED
      BY <2>1, <2>2, SMT DEF DegreesOf
  <1>5. n = 3 => DegreesOf(v) < 1000
    <2>1. n = 3 => v < 600000000
      <3>1. Degrees(1000) = 200000000
        BY SMT DEF Degrees
      <3> QED
        BY <1>1, <3>1, SMT
    <2>2. v < 600000000 => v \div 600000 < 1000
      BY SMT
    <2> QED
      BY <2>1, <2>2, SMT DEF DegreesOf
  <1>6. Legible(b, v, n)
    BY <1>3, <1>4, <1>5 DEF Legible
  <1>7. Txt!ToDegrees(b, h, n) =
             IF v > 600000 * (IF n = 2 THEN 90 ELSE 180) THEN <<>>
             ELSE <<Txt!Signed(h \in {<<83>>, <<87>>}, v)>>
    <2>1. n \in Nat
      OBVIOUS
    <2> QED
      BY <1>6, <2>1, DegreesAreRead, SMT
  <1>8. v > 600000 * (IF n = 2 THEN 90 ELSE 180) <=> ~ (Abs(c) <= Degrees(IF n = 2 THEN 90 ELSE 180))
    <2>1. Degrees(90) = 18000000 /\ Degrees(180) = 36000000
      BY SMT DEF Degrees
    <2> QED
      BY <1>1, <2>1, SMT
  <1>9. Txt!Signed(h \in {<<83>>, <<87>>}, v) = 3 * c
    <2>1. Abs(c) = IF c < 0 THEN -c ELSE c
      BY DEF Abs
    <2>2. CASE c < 0
      <3>1. Txt!Signed(h \in {<<83>>, <<87>>}, v) = -v
        BY <2>2 DEF Txt!Signed
      <3>2. v = 3 * (-c)
        BY <1>1, <2>1, <2>2
      <3> QED
        BY <3>1, <3>2
    <2>3. CASE ~ (c < 0)
      <3>1. Txt!Signed(h \in {<<83>>, <<87>>}, v) = v
        BY <2>3 DEF Txt!Signed
      <3>2. v = 3 * c
        BY <1>1, <2>1, <2>3
      <3> QED
        BY <3>1, <3>2
    <2> QED
      BY <2>2, <2>3
  <1> QED
    BY <1>1, <1>2, <1>7, <1>8, <1>9, SMT

(* What is read of a report says its fix.                                  *)
Typable(fix) == fix \in Fix /\ Abs(fix.lat) < Degrees(100) /\ Abs(fix.lon) < Degrees(1000)

(* A sequence of two.                                                      *)
LEMMA TwoOnes ==
    ASSUME NEW x, NEW y
    PROVE  <<x>> \o <<y>> = <<x, y>>
  <1>1. PICK T : x \in T /\ y \in T
    <2>1. x \in {x, y} /\ y \in {x, y}
      OBVIOUS
    <2> QED
      BY <2>1
  <1>2. PICK s \in Seq(T), t \in Seq(T), u \in Seq(T) : s = <<x>> /\ t = <<y>> /\ u = <<x, y>>
    <2>1. <<x>> \in Seq(T)
      BY <1>1
    <2>2. <<y>> \in Seq(T)
      BY <1>1
    <2>3. <<x, y>> \in Seq(T)
      BY <1>1
    <2> QED
      BY <2>1, <2>2, <2>3
  <1>3. Len(s) = 1 /\ s[1] = x /\ Len(t) = 1 /\ t[1] = y /\ Len(u) = 2 /\ u[1] = x /\ u[2] = y
    BY <1>2
  <1>4. PICK q : q = s \o t
    OBVIOUS
  <1>5. /\ q \in Seq(T) /\ Len(q) = Len(s) + Len(t)
        /\ \A i \in 1 .. Len(s) + Len(t) : q[i] = IF i <= Len(s) THEN s[i] ELSE t[i - Len(s)]
    BY <1>4, ConcatProperties
  <1>6. Len(q) = 2 /\ q[1] = x /\ q[2] = y
    BY <1>3, <1>5
  <1>7. q = u
    <2>1. \A i \in 1 .. 2 : i = 1 \/ i = 2
      OBVIOUS
    <2> QED
      BY <1>3, <1>5, <1>6, <2>1, SeqEqual
  <1> QED
    BY <1>2, <1>4, <1>7

(* A text says 0,0 where it is.                                            *)
LEMMA OnTheEarth ==
    ASSUME NEW fix \in Fix
    PROVE  Somewhere([fix EXCEPT !.lat = IF @ = 0 THEN 1 ELSE @])
             <=> fix.fixed /\ Abs(fix.lat) <= Degrees(90) /\ Abs(fix.lon) <= Degrees(180)
  <1>1. PICK x \in Int : x = fix.lat
    BY FixIs
  <1>2. PICK y : y = IF x = 0 THEN 1 ELSE x
    OBVIOUS
  <1>3. PICK f : f = [fix EXCEPT !.lat = IF @ = 0 THEN 1 ELSE @]
    OBVIOUS
  <1>4. f.lat = y /\ f.lon = fix.lon /\ f.fixed = fix.fixed
    BY <1>1, <1>2, <1>3 DEF Fix
  <1>5. <<y, fix.lon>> # <<0, 0>>
    BY <1>1, <1>2
  <1>6. Abs(y) <= Degrees(90) <=> Abs(x) <= Degrees(90)
    <2>1. Degrees(90) = 18000000
      BY SMT DEF Degrees
    <2> QED
      BY <1>1, <1>2, <2>1, SMT DEF Abs
  <1>7. Somewhere(f) <=> f.fixed /\ Abs(y) <= Degrees(90) /\ Abs(fix.lon) <= Degrees(180)
    BY <1>4, <1>5 DEF Somewhere
  <1> QED
    BY <1>1, <1>3, <1>4, <1>6, <1>7

(* The position of a report says what its fix was.                         *)
LEMMA TextPositionSays ==
    ASSUME NEW m, NEW fix, Typable(fix), NEW p, Reported(p, m, fix)
    PROVE  SaysTextFix(Txt!Position(p), fix)
  <1>0. fix \in Fix
    BY DEF Typable
  <1>1. /\ Len(p) = 13 /\ p[3] = DayOf(fix.time) /\ p[6] = HourOf(fix.time)
        /\ p[12] = Decimals(fix.speed, 3) \o <<46, 53>> /\ p[13] = Decimals(fix.course, 3)
    BY DEF Reported
  <1>2. /\ p[7] = <<IF fix.fixed THEN 65 ELSE 86>>
        /\ p[8] = Minutes(3 * Abs(fix.lat), 2) /\ p[9] = <<IF fix.lat < 0 THEN 83 ELSE 78>>
        /\ p[10] = Minutes(3 * Abs(fix.lon), 3) /\ p[11] = <<IF fix.lon < 0 THEN 87 ELSE 69>>
    BY DEF Reported
  <1>3. /\ fix.lat \in Int /\ fix.lon \in Int /\ Abs(fix.lat) \in Nat /\ Abs(fix.lon) \in Nat
        /\ fix.fixed \in BOOLEAN /\ fix.speed \in Byte /\ fix.course \in 0 .. 360
    BY <1>0, FixIs
  <1>4. PICK d \in Int : d = Degrees(1000)
    <2>1. Degrees(1000) \in Int
      BY SMT DEF Degrees
    <2> QED
      BY <2>1
  <1>5. Abs(fix.lat) < Degrees(100) /\ Abs(fix.lat) <= d /\ Abs(fix.lon) < d /\ Abs(fix.lon) <= d
    <2>1. Abs(fix.lat) < Degrees(100) /\ Abs(fix.lon) < d
      BY <1>4 DEF Typable
    <2>2. PICK y \in Int : y = Degrees(100) /\ y <= d
      <3>1. Degrees(100) \in Int /\ Degrees(100) <= Degrees(1000)
        BY SMT DEF Degrees
      <3> QED
        BY <1>4, <3>1
    <2> QED
      BY <1>3, <2>1, <2>2
  <1>6. PICK x : x = Txt!ToDegrees(p[8], p[9], 2)
    OBVIOUS
  <1>7. x = IF Abs(fix.lat) <= Degrees(90) THEN <<3 * fix.lat>> ELSE <<>>
    <2>1. PICK h : h = <<IF fix.lat < 0 THEN 83 ELSE 78>>
      OBVIOUS
    <2>2. h \in {<<83>>, <<87>>} <=> fix.lat < 0
      BY <2>1
    <2>3. 2 \in 2 .. 3
      OBVIOUS
    <2>4. Txt!ToDegrees(Minutes(3 * Abs(fix.lat), 2), h, 2) =
             IF Abs(fix.lat) <= Degrees(IF 2 = 2 THEN 90 ELSE 180) THEN <<3 * fix.lat>> ELSE <<>>
      BY <1>3, <1>4, <1>5, <2>2, <2>3, CoordinateSays
    <2> QED
      BY <1>2, <1>6, <2>1, <2>4
  <1>8. PICK y : y = Txt!ToDegrees(p[10], p[11], 3)
    OBVIOUS
  <1>9. y = IF Abs(fix.lon) <= Degrees(180) THEN <<3 * fix.lon>> ELSE <<>>
    <2>1. PICK h : h = <<IF fix.lon < 0 THEN 87 ELSE 69>>
      OBVIOUS
    <2>2. h \in {<<83>>, <<87>>} <=> fix.lon < 0
      BY <2>1
    <2>3. 3 \in 2 .. 3
      OBVIOUS
    <2>4. Txt!ToDegrees(Minutes(3 * Abs(fix.lon), 3), h, 3) =
             IF Abs(fix.lon) <= Degrees(IF 3 = 2 THEN 90 ELSE 180) THEN <<3 * fix.lon>> ELSE <<>>
      BY <1>3, <1>4, <1>5, <2>2, <2>3, CoordinateSays
    <2> QED
      BY <1>2, <1>8, <2>1, <2>4
  <1>10. p[7] = <<65>> <=> fix.fixed
    BY <1>2
  <1>11. \A n : <<n>> # <<>>
    BY OneIs, EmptyIs
  <1>12. PICK r : r = Txt!Position(p)
    OBVIOUS
  <1>13. r.point = IF p[7] = <<65>> /\ x # <<>> /\ y # <<>> THEN x \o y ELSE <<>>
    BY <1>6, <1>8, <1>12 DEF Txt!Position
  <1>14. r.point = IF fix.fixed /\ Abs(fix.lat) <= Degrees(90) /\ Abs(fix.lon) <= Degrees(180)
                   THEN <<3 * fix.lat, 3 * fix.lon>> ELSE <<>>
    <2>1. CASE fix.fixed /\ Abs(fix.lat) <= Degrees(90) /\ Abs(fix.lon) <= Degrees(180)
      <3>1. x = <<3 * fix.lat>> /\ y = <<3 * fix.lon>> /\ p[7] = <<65>>
        BY <1>7, <1>9, <1>10, <2>1
      <3>2. x # <<>> /\ y # <<>>
        BY <1>11, <3>1
      <3>3. r.point = x \o y
        BY <1>13, <3>1, <3>2
      <3> QED
        BY <2>1, <3>1, <3>3, TwoOnes
    <2>2. CASE ~ (fix.fixed /\ Abs(fix.lat) <= Degrees(90) /\ Abs(fix.lon) <= Degrees(180))
      <3>1. ~ (p[7] = <<65>> /\ x # <<>> /\ y # <<>>)
        BY <1>7, <1>9, <1>10, <2>2
      <3> QED
        BY <1>13, <2>2, <3>1
    <2> QED
      BY <2>1, <2>2
  <1>15. r.point = IF Somewhere([fix EXCEPT !.lat = IF @ = 0 THEN 1 ELSE @]) THEN Point(fix, 3) ELSE <<>>
    <2>1. Point(fix, 3) = <<3 * fix.lat, 3 * fix.lon>>
      BY DEF Point
    <2> QED
      BY <1>0, <1>14, <2>1, OnTheEarth
  <1>16. r.time = fix.time
    <2>1. r.time = Txt!Date(p[3], p[6])
      BY <1>12 DEF Txt!Position
    <2> QED
      BY <1>0, <1>1, <2>1, DateIsRead
  <1>17. r.speed = <<100 * fix.speed + 50>>
    <2>1. r.speed = Txt!Decimal(p[12], 2)
      BY <1>12 DEF Txt!Position
    <2>2. fix.speed \in Nat /\ fix.speed < 1000
      BY <1>3 DEF Byte
    <2> QED
      BY <1>1, <2>1, <2>2, SpeedIsRead
  <1>18. r.course = <<100 * fix.course>>
    <2>1. fix.course \in Nat /\ fix.course < 1000 /\ 100 * fix.course <= 36000
      BY <1>3
    <2>6. Txt!Decimal(Decimals(fix.course, 3), 2) = <<100 * fix.course>>
      BY <2>1, CourseIsRead
    <2>7. p[13] = Decimals(fix.course, 3)
      BY <1>1
    <2>2. Txt!Decimal(p[13], 2) = <<100 * fix.course>>
      BY <2>6, <2>7
    <2>3. PICK c : c = Txt!Decimal(p[13], 2)
      OBVIOUS
    <2>4. c # <<>> /\ c[1] = 100 * fix.course
      BY <1>11, <2>2, <2>3, OneIs
    <2>5. r.course = IF c # <<>> /\ c[1] <= 36000 THEN c ELSE <<>>
      <3>1. Len(p) >= 13
        BY <1>1
      <3> QED
        BY <1>12, <2>3, <3>1 DEF Txt!Position
    <2> QED
      BY <2>1, <2>2, <2>3, <2>4, <2>5
  <1> QED
    BY <1>12, <1>15, <1>16, <1>17, <1>18 DEF SaysTextFix

(* What decode makes of the fields of a text that is no login and no       *)
(* heartbeat.                                                              *)
Later(p) ==
    LET position == Txt!Position(p)
    IN IF Len(p) < 12 \/ p[5] \notin {<<70>>, <<76>>}
       THEN Txt!Message("evento", Txt!Values(Txt!After(p[1], Txt!Prefix)))
       ELSE [Txt!Message(IF p[2] = Txt!Tracker THEN "posicion" ELSE "alarma",
                         Txt!Values(Txt!After(p[1], Txt!Prefix))) EXCEPT
                !.alarm = IF p[2] = Txt!Tracker THEN <<>> ELSE p[2],
                !.positions = <<position>>,
                !.errors = (IF p[7] # <<65>> THEN {"fix"} ELSE {})
                      \cup (IF position.time = <<>> THEN {"fecha"} ELSE {})]

(* decode, of the text alone.                                              *)
DecodeText(text) ==
    LET shaken == SubSeq(text, Len(Txt!Hello) + 1, Len(text) - Len(Txt!Accept))
    IN IF /\ Txt!StartsWith(text, Txt!Hello) /\ text = Txt!Hello \o shaken \o Txt!Accept
          /\ Txt!AllDigits(shaken)
       THEN Txt!Message("login", Txt!Values(shaken))
       ELSE IF Txt!StartsWith(text, Txt!Prefix) /\ Txt!AllDigits(Txt!After(text, Txt!Prefix))
       THEN Txt!Message("heartbeat", Txt!Values(Txt!After(text, Txt!Prefix)))
       ELSE IF ~ Txt!StartsWith(text, Txt!Prefix)
       THEN [Txt!Message("invalido", <<>>) EXCEPT !.errors = {"prefijo"}]
       ELSE Later(Txt!Fields(text))

(* decode takes the semicolon away.                                        *)
LEMMA DecodeTextIs ==
    ASSUME NEW t \in Seq(Byte)
    PROVE  Txt!Decode(t \o <<59>>) = DecodeText(t)
  <1>1. PICK f : f = t \o <<59>>
    OBVIOUS
  <1>2. SubSeq(f, 1, Len(f) - 1) = t
    BY <1>1, TextIsCut
  <1>3. Txt!Decode(f) = DecodeText(SubSeq(f, 1, Len(f) - 1))
    BY Zenon DEF Txt!Decode, DecodeText, Later
  <1> QED
    BY <1>1, <1>2, <1>3

(* What is no login and no heartbeat is read by its fields.                *)
LEMMA LaterIs ==
    ASSUME NEW t \in Seq(Byte), NEW f, f = t \o << 59 >>,
           ~ Txt!AllDigits(Txt!After(t, Txt!Prefix)),
           Txt!StartsWith(t, Txt!Prefix), ~ Txt!StartsWith(t, Txt!Hello)
    PROVE  Txt!Decode(f) = Later(Txt!Fields(t))
  <1>1. Txt!Decode(f) = DecodeText(t)
    BY DecodeTextIs
  <1>2. DecodeText(t) = Later(Txt!Fields(t))
    BY DEF DecodeText
  <1> QED
    BY <1>1, <1>2

(* The forms of a text are four.                                           *)
LEMMA TextIds == Txt!Login = 1 /\ Txt!Heartbeat = 2 /\ Txt!Event = 3 /\ Txt!Report = 4
  BY DEF Txt!Login, Txt!Heartbeat, Txt!Event, Txt!Report

(* The text of m is read as it was meant, and begins as a text does.       *)
Heard(m) == /\ SaysText(Txt!Decode(TextFrame(m)), m)
            /\ TextFrame(m) \in Seq(Byte) /\ TextFrame(m)[1] \in {35, 105}

(* A report is read as it was meant.                                       *)
LEMMA ReportSays ==
    ASSUME NEW m, m.id = Txt!Report, Named(m.digits), Plain(m.text),
           Len(m.fixes) = 1, Typable(m.fixes[1])
    PROVE  Heard(m)
  <1>0. PICK fix \in Fix : fix = m.fixes[1]
    BY DEF Typable
  <1>1. PICK t \in Seq(Byte) :
              /\ t = Imei(m.digits) \o Joined(Report(m, fix))
              /\ Reported(Txt!Fields(t), m, fix)
              /\ ~ Txt!AllDigits(Txt!After(t, Txt!Prefix))
              /\ Txt!StartsWith(t, Txt!Prefix) /\ ~ Txt!StartsWith(t, Txt!Hello)
              /\ t # <<>> /\ t[1] = 105
    BY ReportSplits
  <1>2. PICK f : f = t \o <<59>>
    OBVIOUS
  <1>3. f \in Seq(Byte) /\ f[1] = 105
    BY <1>1, <1>2, TextIsCut
  <1>4. TextFrame(m) = f
    <2>1. m.id = 4
      BY TextIds
    <2>2. TextFrame(m) = (Imei(m.digits) \o Joined(Report(m, m.fixes[1]))) \o <<59>>
      BY <2>1, TextIds DEF TextFrame, Imei
    <2>3. t = Imei(m.digits) \o Joined(Report(m, m.fixes[1]))
      BY <1>0, <1>1
    <2> QED
      BY <1>2, <2>2, <2>3
  <1>5. PICK p : p = Txt!Fields(t)
    OBVIOUS
  <1>6. Reported(p, m, fix)
    BY <1>1, <1>5
  <1>7. Txt!Decode(f) = Later(p)
    BY <1>1, <1>2, <1>5, LaterIs
  <1>8. Len(p) = 13 /\ p[1] = Imei(m.digits) /\ p[2] = m.text /\ p[5] = <<70>>
    BY <1>6 DEF Reported
  <1>9. PICK o : o = Txt!Position(p)
    OBVIOUS
  <1>10. SaysTextFix(o, fix)
    BY <1>0, <1>6, <1>9, TextPositionSays
  <1>11. Txt!Values(Txt!After(p[1], Txt!Prefix)) = m.digits
    <2>1. Txt!After(Imei(m.digits), Txt!Prefix) = J!Ascii(m.digits)
      BY ImeiIs
    <2>2. Txt!Values(J!Ascii(m.digits)) = m.digits
      BY AsciiReads
    <2> QED
      BY <1>8, <2>1, <2>2
  <1>12. PICK r : r = Later(p)
    OBVIOUS
  <1>13. /\ r.type = IF m.text = Txt!Tracker THEN "posicion" ELSE "alarma"
         /\ r.from = m.digits /\ r.positions = <<o>>
         /\ r.alarm = IF m.text = Txt!Tracker THEN <<>> ELSE m.text
    <2>1. ~ (Len(p) < 12 \/ p[5] \notin {<<70>>, <<76>>})
      BY <1>8
    <2> HIDE DEF Txt!Position, Txt!Values, Txt!After
    <2> QED
      BY <1>8, <1>9, <1>11, <1>12, <2>1 DEF Later, Txt!Message
  <1>14. Len(r.positions) = Len(m.fixes) /\ \A k \in 1 .. Len(m.fixes) : SaysTextFix(r.positions[k], m.fixes[k])
    <2>1. Len(r.positions) = 1 /\ r.positions[1] = o
      BY <1>13, OneIs
    <2>2. \A k \in 1 .. 1 : k = 1
      OBVIOUS
    <2> QED
      BY <1>0, <1>10, <2>1, <2>2
  <1>15. SaysText(r, m)
    BY <1>13, <1>14, TextIds DEF SaysText
  <1> QED
    BY <1>3, <1>4, <1>7, <1>12, <1>15 DEF Heard

(* The parts of an event, grouped as they are written and as they are      *)
(* read.                                                                   *)
Regroups(h, c, x, z) == ((h \o c) \o x) \o (c \o z) = (h \o ((c \o x) \o c)) \o z

(* Joining s, t and u associates.                                          *)
Associates(s, t, u) == s \o (t \o u) = (s \o t) \o u

(* It does, of bytes.                                                      *)
LEMMA AnyAssociate ==
    ASSUME NEW s \in Seq(Byte), NEW t \in Seq(Byte), NEW u \in Seq(Byte)
    PROVE  Associates(s, t, u)
  BY BytesAssociate DEF Associates

(* And so are the parts of an event.                                       *)
LEMMA Regrouped ==
    ASSUME NEW h \in Seq(Byte), NEW c \in Seq(Byte), NEW x \in Seq(Byte), NEW z \in Seq(Byte)
    PROVE  Regroups(h, c, x, z)
  <1>1. PICK k \in Seq(Byte), y \in Seq(Byte) : k = c \o x /\ y = h \o k
    <2>1. c \o x \in Seq(Byte)
      BY ConcatProperties
    <2>2. h \o (c \o x) \in Seq(Byte)
      BY <2>1, ConcatProperties
    <2> QED
      BY <2>1, <2>2
  <1>2. (h \o c) \o x = y
    <2>1. Associates(h, c, x)
      BY AnyAssociate
    <2> QED
      BY <1>1, <2>1 DEF Associates
  <1>3. y \o (c \o z) = (y \o c) \o z
    <2>1. Associates(y, c, z)
      BY AnyAssociate
    <2> QED
      BY <2>1 DEF Associates
  <1>4. h \o (k \o c) = y \o c
    <2>1. Associates(h, k, c)
      BY AnyAssociate
    <2> QED
      BY <1>1, <2>1 DEF Associates
  <1> QED
    BY <1>1, <1>2, <1>3, <1>4 DEF Regroups

(* An event, which is what cannot be read as a report.                     *)
MeansEvent(m) == m.id = Txt!Event /\ Named(m.digits) /\ Plain(m.text) /\ m.fixes = <<>>

(* The frame of an event.                                                  *)
LEMMA EventFrame ==
    ASSUME NEW m, m.id = Txt!Event
    PROVE  TextFrame(m) = ((Imei(m.digits) \o <<44>>) \o m.text) \o <<44, 59>>
  <1> DEFINE a == <<35, 35, Txt!Comma>> \o Imei(m.digits) \o Txt!Accept \o <<59>>
             b == Imei(m.digits) \o <<59>>
             c == Imei(m.digits) \o <<Txt!Comma>> \o m.text \o <<Txt!Comma, 59>>
             d == Imei(m.digits) \o Joined(Report(m, m.fixes[1])) \o <<59>>
  <1>1. TextFrame(m) = CASE m.id = Txt!Login -> a [] m.id = Txt!Heartbeat -> b
                         [] m.id = Txt!Event -> c [] m.id = Txt!Report -> d
    BY Zenon DEF TextFrame, Imei
  <1> HIDE DEF a, b, c, d
  <1>3. TextFrame(m) = c
    BY <1>1, TextIds
  <1>2. TextFrame(m) = ((Imei(m.digits) \o <<Txt!Comma>>) \o m.text) \o <<Txt!Comma, 59>>
    BY <1>3 DEF c
  <1> QED
    BY <1>2 DEF Txt!Comma

(* An event is read as it was meant.                                       *)
LEMMA EventSays ==
    ASSUME NEW m, MeansEvent(m)
    PROVE  Heard(m)
  <1>0. m.id = Txt!Event /\ Named(m.digits) /\ Plain(m.text)
    BY DEF MeansEvent
  <1>1. PICK h \in Seq(Byte) : h = Imei(m.digits) /\ Plain(h) /\ Holds(h, 0, Txt!Prefix)
    BY <1>0, ImeiIs
  <1>2. PICK x \in Seq(Byte) : x = m.text /\ Plain(x)
    BY <1>0 DEF Plain
  <1>3. PICK e \in Seq(Byte) : e = <<>> /\ Plain(e)
    <2>0. PICK e : e = <<>>
      OBVIOUS
    <2>1. e \in Seq(Byte) /\ Len(e) = 0
      BY <2>0
    <2>2. Plain(e)
      BY <2>1 DEF Plain
    <2> QED
      BY <2>0, <2>1, <2>2
  <1>4. PICK r : r = <<x, e>>
    OBVIOUS
  <1>5. /\ r \in FieldSeqs /\ Len(r) = 2 /\ r[1] = x /\ r[2] = e
        /\ \A k \in 1 .. Len(r) : Plain(r[k])
    <2>1. PICK T : T = Seq(Byte)
      OBVIOUS
    <2>2. x \in T /\ e \in T
      BY <2>1
    <2>3. r \in Seq(T) /\ Len(r) = 2 /\ r[1] = x /\ r[2] = e
      BY <1>4, <2>2
    <2>4. \A k \in 1 .. 2 : k = 1 \/ k = 2
      OBVIOUS
    <2> QED
      BY <1>2, <1>3, <2>1, <2>3, <2>4 DEF FieldSeqs
  <1>6. PICK t : t = h \o Joined(r)
    OBVIOUS
  <1>7. t \in Seq(Byte) /\ SplitAs(Txt!Fields(t), h, r)
    BY <1>1, <1>5, <1>6, JoinedSplits
  <1>8. PICK p : p = Txt!Fields(t)
    OBVIOUS
  <1>9. Len(p) = 3 /\ p[1] = h
    BY <1>5, <1>7, <1>8 DEF SplitAs
  <1>10. Holds(t, 0, h) /\ Len(h) + 1 <= Len(t) /\ t[Len(h) + 1] = 44
    <2>1. PICK b \in Seq(Byte) : \E at \in [0 .. Len(r) -> Nat] :
              /\ b = h \o Joined(r)
              /\ at[0] = Len(h) /\ at[Len(r)] = Len(b) /\ Holds(b, 0, h)
              /\ \A k \in 1 .. Len(r) : /\ Holds(b, at[k - 1], Piece44(r[k]))
                                        /\ at[k] = at[k - 1] + Len(Piece44(r[k]))
      BY <1>5, JoinedIsLaid
    <2>2. PICK at \in [0 .. Len(r) -> Nat] :
              /\ at[0] = Len(h) /\ Holds(b, 0, h)
              /\ \A k \in 1 .. Len(r) : Holds(b, at[k - 1], Piece44(r[k]))
      BY <2>1
    <2>3. 1 \in 1 .. Len(r) /\ 1 - 1 = 0
      BY <1>5
    <2>4. Holds(b, at[0], Piece44(x))
      BY <1>5, <2>2, <2>3
    <2>5. b[at[0] + 1] = 44 /\ at[0] + 1 <= Len(b)
      BY <2>4, PieceHolds
    <2> QED
      BY <1>6, <2>1, <2>2, <2>5
  <1>11. /\ ~ Txt!AllDigits(Txt!After(t, Txt!Prefix))
         /\ Txt!StartsWith(t, Txt!Prefix) /\ ~ Txt!StartsWith(t, Txt!Hello)
         /\ t # <<>> /\ t[1] = 105
    BY <1>0, <1>1, <1>10, CommaIsNoDigit
  <1>12. PICK f : f = t \o <<59>>
    OBVIOUS
  <1>13. f \in Seq(Byte) /\ f[1] = 105
    BY <1>7, <1>11, <1>12, TextIsCut
  <1>14. Txt!Decode(f) = Later(p)
    BY <1>7, <1>8, <1>11, <1>12, LaterIs
  <1>15. Txt!Values(Txt!After(p[1], Txt!Prefix)) = m.digits
    <2>1. Txt!After(Imei(m.digits), Txt!Prefix) = J!Ascii(m.digits)
      BY <1>0, ImeiIs
    <2>2. Txt!Values(J!Ascii(m.digits)) = m.digits
      BY <1>0, AsciiReads
    <2> QED
      BY <1>1, <1>9, <2>1, <2>2
  <1>16. Later(p) = Txt!Message("evento", m.digits)
    <2>1. Len(p) < 12
      BY <1>9
    <2> QED
      BY <1>15, <2>1 DEF Later
  <1>17. PICK d : d = Later(p)
    OBVIOUS
  <1>18. d.type = "evento" /\ d.from = m.digits /\ d.positions = <<>>
    BY <1>16, <1>17 DEF Txt!Message
  <1>19. SaysText(d, m)
    <2>1. Len(d.positions) = Len(m.fixes) /\ Len(m.fixes) = 0
      BY <1>18, WholeNone DEF MeansEvent
    <2>2. \A k : k \notin 1 .. 0
      OBVIOUS
    <2>3. m.id = 3
      BY <1>0, TextIds
    <2> QED
      BY <1>18, <2>1, <2>2, <2>3, TextIds DEF SaysText
  <1>20. TextFrame(m) = f
    <2>0. TextFrame(m) = ((Imei(m.digits) \o <<44>>) \o m.text) \o <<44, 59>>
      BY <1>0, EventFrame
    <2>2. TextFrame(m) = ((h \o <<44>>) \o x) \o <<44, 59>>
      BY <1>1, <1>2, <2>0
    <2>3. PICK c \in Seq(Byte), z \in Seq(Byte) : c = <<44>> /\ z = <<59>>
      <3>1. 44 \in Byte /\ 59 \in Byte
        BY DEF Byte
      <3>2. <<44>> \in Seq(Byte) /\ <<59>> \in Seq(Byte)
        BY <3>1
      <3> QED
        BY <3>2
    <2>4. <<44, 59>> = c \o z
      BY <2>3, TwoOnes
    <2>5. Joined(r) = (c \o x) \o (c \o e)
      <3>1. PICK u \in Seq(Byte), v \in Seq(Byte) : u = c \o x /\ v = c \o e
        BY ConcatProperties
      <3>2. PICK items : items = [k \in 1 .. Len(r) |-> <<Txt!Comma>> \o r[k]]
        OBVIOUS
      <3>3. items[1] = u /\ items[2] = v /\ items \in [1 .. 2 -> Seq(Byte)]
        <4>1. \A k \in 1 .. 2 : k = 1 \/ k = 2
          OBVIOUS
        <4> QED
          BY <1>5, <2>3, <3>1, <3>2, <4>1 DEF Txt!Comma
      <3>4. items \in Seq(Seq(Byte)) /\ Len(items) = 2
        BY <3>3, TupleIs
      <3>5. PICK g : Concatenates(g, items)
        BY <3>4, JoinExists
      <3>6. g[0] = <<>> /\ g[1] = g[0] \o u /\ g[2] = g[1] \o v
        <4>1. g[0] = <<>> /\ \A k \in 1 .. 2 : g[k] = g[k - 1] \o items[k]
          BY <3>4, <3>5 DEF Concatenates
        <4>3. 1 \in 1 .. 2 /\ 2 \in 1 .. 2 /\ 1 - 1 = 0 /\ 2 - 1 = 1
          OBVIOUS
        <4>2. g[1] = g[1 - 1] \o items[1] /\ g[2] = g[2 - 1] \o items[2] /\ 1 - 1 = 0 /\ 2 - 1 = 1
          BY <4>1, <4>3
        <4> QED
          BY <3>3, <4>1, <4>2
      <3>7. g[1] = u
        BY <3>6, ConcatEmptySeq
      <3>8. FlattenSeq(items) = g[2]
        <4>1. FlattenSeq(SubSeq(items, 1, 2)) = g[2]
          <5>1. 2 \in 0 .. Len(items)
            BY <3>4
          <5> QED
            BY <3>4, <3>5, <5>1, FlattenIsJoined
        <4>2. SubSeq(items, 1, 2) = items
          BY <3>4, SubSeqFull
        <4> QED
          BY <4>1, <4>2
      <3>9. Joined(r) = FlattenSeq(items)
        BY <3>2 DEF Joined
      <3> QED
        BY <3>1, <3>6, <3>7, <3>8, <3>9
    <2>6. c \o e = c
      BY <1>3, ConcatEmptySeq
    <2>7. f = (h \o ((c \o x) \o c)) \o z
      BY <1>6, <1>12, <2>3, <2>5, <2>6
    <2>8. TextFrame(m) = ((h \o c) \o x) \o (c \o z)
      BY <2>2, <2>3, <2>4
    <2>9. Regroups(h, c, x, z)
      BY Regrouped
    <2> QED
      BY <2>7, <2>8, <2>9 DEF Regroups
  <1> QED
    BY <1>13, <1>14, <1>17, <1>19, <1>20 DEF Heard

(* A message without fixes, of the digits it was sent with.                *)
Bare(m, id) == m.id = id /\ Named(m.digits) /\ m.fixes = <<>>

(* What is read of it without positions says it.                           *)
LEMMA BareSays ==
    ASSUME NEW m, NEW type, NEW id, Bare(m, id),
           \/ id = Txt!Login /\ type = "login"
           \/ id = Txt!Heartbeat /\ type = "heartbeat"
           \/ id = Txt!Event /\ type = "evento"
    PROVE  SaysText(Txt!Message(type, m.digits), m)
  <1>1. PICK d : d = Txt!Message(type, m.digits)
    OBVIOUS
  <1>2. d.type = type /\ d.from = m.digits /\ d.positions = <<>>
    BY <1>1 DEF Txt!Message
  <1>3. Len(d.positions) = Len(m.fixes) /\ Len(m.fixes) = 0
    BY <1>2, WholeNone DEF Bare
  <1>4. \A k : k \notin 1 .. 0
    OBVIOUS
  <1>5. m.id = id
    BY DEF Bare
  <1> QED
    BY <1>1, <1>2, <1>3, <1>4, <1>5, TextIds DEF SaysText

(* The frames of a login and of a heartbeat.                               *)
LEMMA BareFrames ==
    ASSUME NEW m
    PROVE  /\ m.id = Txt!Login =>
                TextFrame(m) = ((<<35, 35, 44>> \o Imei(m.digits)) \o Txt!Accept) \o <<59>>
           /\ m.id = Txt!Heartbeat => TextFrame(m) = Imei(m.digits) \o <<59>>
  <1> DEFINE a == <<35, 35, Txt!Comma>> \o Imei(m.digits) \o Txt!Accept \o <<59>>
             b == Imei(m.digits) \o <<59>>
             c == Imei(m.digits) \o <<Txt!Comma>> \o m.text \o <<Txt!Comma, 59>>
             d == Imei(m.digits) \o Joined(Report(m, m.fixes[1])) \o <<59>>
  <1>1. TextFrame(m) = CASE m.id = Txt!Login -> a [] m.id = Txt!Heartbeat -> b
                         [] m.id = Txt!Event -> c [] m.id = Txt!Report -> d
    BY Zenon DEF TextFrame, Imei
  <1> HIDE DEF a, b, c, d
  <1>2. m.id = Txt!Login => TextFrame(m) = a
    BY <1>1, TextIds
  <1>3. m.id = Txt!Heartbeat => TextFrame(m) = b
    BY <1>1, TextIds
  <1>4. a = ((<<35, 35, 44>> \o Imei(m.digits)) \o Txt!Accept) \o <<59>>
    BY DEF a, Txt!Comma
  <1> QED
    BY <1>2, <1>3, <1>4 DEF b

(* A heartbeat is read as it was meant.                                    *)
LEMMA HeartbeatSays ==
    ASSUME NEW m, Bare(m, Txt!Heartbeat)
    PROVE  Heard(m)
  <1>0. m.id = Txt!Heartbeat /\ Named(m.digits)
    BY DEF Bare
  <1>1. PICK t \in Seq(Byte) : t = Imei(m.digits) /\ Holds(t, 0, Txt!Prefix)
                               /\ Txt!After(t, Txt!Prefix) = J!Ascii(m.digits)
    BY <1>0, ImeiIs
  <1>2. /\ Txt!StartsWith(t, Txt!Prefix) /\ ~ Txt!StartsWith(t, Txt!Hello)
        /\ t # <<>> /\ t[1] = 105
    BY <1>1, AfterIs
  <1>3. PICK f : f = t \o <<59>>
    OBVIOUS
  <1>4. f \in Seq(Byte) /\ f[1] = 105
    BY <1>2, <1>3, TextIsCut
  <1>5. Txt!Decode(f) = DecodeText(t)
    BY <1>3, DecodeTextIs
  <1>6. Txt!AllDigits(Txt!After(t, Txt!Prefix)) /\ Txt!Values(Txt!After(t, Txt!Prefix)) = m.digits
    BY <1>0, <1>1, AsciiReads
  <1>7. DecodeText(t) = Txt!Message("heartbeat", m.digits)
    BY <1>2, <1>6 DEF DecodeText
  <1>8. SaysText(Txt!Decode(f), m)
    BY <1>5, <1>7, BareSays
  <1>9. TextFrame(m) = f
    BY <1>0, <1>1, <1>3, BareFrames
  <1> QED
    BY <1>4, <1>8, <1>9 DEF Heard

(* The text of a login.                                                    *)
HelloOf(digits) == (<<35, 35, 44>> \o Imei(digits)) \o Txt!Accept

(* It begins with the handshake and holds the digits behind it.            *)
LEMMA HelloIs ==
    ASSUME NEW digits, Named(digits)
    PROVE  \E t \in Seq(Byte), h \in Seq(Byte), a \in Seq(Byte), c \in Seq(Byte) :
              /\ t = HelloOf(digits) /\ h = Txt!Hello /\ a = J!Ascii(digits) /\ c = Txt!Accept
              /\ Len(h) = 8 /\ Len(c) = 2 /\ Len(t) = 10 + Len(a) /\ t[1] = 35
              /\ t = (h \o a) \o c /\ Holds(t, 0, h) /\ Holds(t, 8, a)
  <1>1. PICK p \in Seq(Byte) : p = Txt!Prefix /\ p = <<105, 109, 101, 105, 58>>
    BY TextPrefix DEF Txt!Prefix
  <1>2. PICK h \in Seq(Byte) : h = Txt!Hello /\ Len(h) = 8 /\ h[1] = 35
    BY TextPrefix
  <1>3. PICK a \in Seq(Byte) : a = J!Ascii(digits)
    BY AsciiReads
  <1>4. PICK w \in Seq(Byte) : w = <<35, 35, 44>>
    <2>1. {35, 44} \subseteq Byte
      BY DEF Byte
    <2>2. <<35, 35, 44>> \in Seq(Byte)
      BY <2>1
    <2> QED
      BY <2>2
  <1>5. PICK c \in Seq(Byte) : c = Txt!Accept /\ Len(c) = 2
    <2>1. 44 \in Byte /\ 65 \in Byte
      BY DEF Byte
    <2>2. <<44, 65>> \in Seq(Byte) /\ Len(<<44, 65>>) = 2
      BY <2>1
    <2> QED
      BY <2>2 DEF Txt!Accept
  <1>6. h = w \o p
    BY <1>1, <1>2, <1>4 DEF Txt!Hello, Txt!Prefix
  <1>7. PICK g : g = h \o a
    OBVIOUS
  <1>8. Extends(g, h, a)
    BY <1>7, ExtendsIs
  <1>9. g \in Seq(Byte) /\ Len(g) = 8 + Len(a) /\ Holds(g, 8, a) /\ Holds(g, 0, h)
    <2>1. Holds(g, 0, h)
      BY <1>7, FrontIsHeld
    <2> QED
      BY <1>2, <1>8, <2>1 DEF Extends
  <1>10. PICK t : t = g \o c
    OBVIOUS
  <1>11. Extends(t, g, c)
    BY <1>9, <1>10, ExtendsIs
  <1>12. t \in Seq(Byte) /\ Holds(t, 8, a) /\ Holds(t, 0, h)
    BY <1>9, <1>11 DEF Extends
  <1>13. Len(t) = 10 + Len(a)
    <2>1. PICK n \in Nat : n = Len(a)
      BY LenProperties
    <2>2. Len(t) = Len(g) + Len(c)
      BY <1>11 DEF Extends
    <2> QED
      BY <1>5, <1>9, <2>1, <2>2
  <1>14. t[1] = 35
    <2>1. \A j \in 1 .. Len(h) : t[0 + j] = h[j]
      BY <1>12 DEF Holds
    <2>2. t[0 + 1] = h[1] /\ 0 + 1 = 1
      BY <1>2, <2>1
    <2> QED
      BY <1>2, <2>2
  <1>15. w \o (p \o a) = g
    <2>1. w \o (p \o a) = (w \o p) \o a
      BY BytesAssociate
    <2> QED
      BY <1>6, <1>7, <2>1
  <1>16. HelloOf(digits) = t
    <2>1. HelloOf(digits) = (w \o (p \o a)) \o c
      BY <1>1, <1>3, <1>4, <1>5 DEF HelloOf, Imei
    <2> QED
      BY <1>10, <1>15, <2>1
  <1> QED
    BY <1>2, <1>3, <1>5, <1>7, <1>10, <1>12, <1>13, <1>14, <1>16

(* A login is read as it was meant.                                        *)
LEMMA LoginSays ==
    ASSUME NEW m, Bare(m, Txt!Login)
    PROVE  Heard(m)
  <1>0. m.id = Txt!Login /\ Named(m.digits)
    BY DEF Bare
  <1>1. PICK t \in Seq(Byte), h \in Seq(Byte), a \in Seq(Byte), c \in Seq(Byte) :
              /\ t = HelloOf(m.digits) /\ h = Txt!Hello /\ a = J!Ascii(m.digits) /\ c = Txt!Accept
              /\ Len(h) = 8 /\ Len(c) = 2 /\ Len(t) = 10 + Len(a) /\ t[1] = 35
              /\ t = (h \o a) \o c /\ Holds(t, 0, h) /\ Holds(t, 8, a)
    BY <1>0, HelloIs
  <1>2. PICK n \in Nat : n = Len(a)
    BY LenProperties
  <1>3. SubSeq(t, Len(Txt!Hello) + 1, Len(t) - Len(Txt!Accept)) = a
    <2>1. SubSeq(t, 8 + 1, 8 + Len(a)) = a
      BY <1>1, HeldIsCut
    <2>2. Len(Txt!Hello) + 1 = 8 + 1 /\ Len(t) - Len(Txt!Accept) = 8 + Len(a)
      BY <1>1, <1>2
    <2> QED
      BY <2>1, <2>2
  <1>4. Txt!StartsWith(t, Txt!Hello)
    <2>1. SubSeq(t, 0 + 1, 0 + Len(h)) = h
      BY <1>1, HeldIsCut
    <2>2. 0 + 1 = 1 /\ 0 + Len(h) = Len(h)
      BY <1>1
    <2>3. Len(t) >= Len(h)
      BY <1>1, <1>2
    <2> QED
      BY <1>1, <2>1, <2>2, <2>3 DEF Txt!StartsWith
  <1>5. Txt!AllDigits(a) /\ Txt!Values(a) = m.digits
    BY <1>0, <1>1, AsciiReads
  <1>6. DecodeText(t) = Txt!Message("login", m.digits)
    <2>1. t = Txt!Hello \o SubSeq(t, Len(Txt!Hello) + 1, Len(t) - Len(Txt!Accept)) \o Txt!Accept
      BY <1>1, <1>3
    <2> QED
      BY <1>3, <1>4, <1>5, <2>1 DEF DecodeText
  <1>7. PICK f : f = t \o <<59>>
    OBVIOUS
  <1>8. t # <<>>
    BY <1>1, <1>2, EmptyIs
  <1>9. f \in Seq(Byte) /\ f[1] = 35
    BY <1>1, <1>7, <1>8, TextIsCut
  <1>10. Txt!Decode(f) = DecodeText(t)
    BY <1>7, DecodeTextIs
  <1>11. SaysText(Txt!Decode(f), m)
    BY <1>6, <1>10, BareSays
  <1>12. TextFrame(m) = f
    <2>1. TextFrame(m) = ((<<35, 35, 44>> \o Imei(m.digits)) \o Txt!Accept) \o <<59>>
      BY <1>0, BareFrames
    <2> QED
      BY <1>1, <1>7, <2>1 DEF HelloOf
  <1> QED
    BY <1>9, <1>11, <1>12 DEF Heard

(* What a tracker of GPS103 may mean is said.                              *)
LEMMA TextSays ==
    ASSUME NEW m, TextMeant(m)
    PROVE  Heard(m)
  <1>1. Named(m.digits)
    BY DEF TextMeant, Named
  <1>2. Plain(m.text)
    <2>1. m.text \in Seq(Byte \ {44})
      BY DEF TextMeant, Txt!Comma
    <2>2. PICK T : T = Byte \ {44}
      OBVIOUS
    <2>3. m.text \in Seq(T)
      BY <2>1, <2>2
    <2>4. \A y \in 1 .. Len(m.text) : m.text[y] \in T
      BY <2>3, ElementOfSeq
    <2>5. T \subseteq Byte
      BY <2>2
    <2>6. m.text \in Seq(Byte)
      BY <2>3, <2>5
    <2> QED
      BY <2>2, <2>4, <2>6 DEF Plain
  <1>3. CASE m.id = Txt!Login /\ m.fixes = <<>>
    <2>1. Bare(m, Txt!Login)
      BY <1>1, <1>3 DEF Bare
    <2> QED
      BY <2>1, LoginSays
  <1>4. CASE m.id = Txt!Heartbeat /\ m.fixes = <<>>
    <2>1. Bare(m, Txt!Heartbeat)
      BY <1>1, <1>4 DEF Bare
    <2> QED
      BY <2>1, HeartbeatSays
  <1>5. CASE m.id = Txt!Event /\ m.fixes = <<>>
    <2>1. MeansEvent(m)
      BY <1>1, <1>2, <1>5 DEF MeansEvent
    <2> QED
      BY <2>1, EventSays
  <1>6. CASE /\ m.id = Txt!Report /\ m.fixes \in Seq(Fix) /\ Len(m.fixes) = 1
             /\ Abs(m.fixes[1].lat) < Degrees(100) /\ Abs(m.fixes[1].lon) < Degrees(1000)
    <2>1. m.fixes[1] \in Fix
      <3>1. 1 \in 1 .. Len(m.fixes)
        BY <1>6
      <3> QED
        BY <1>6, <3>1, ElementOfSeq
    <2>2. Typable(m.fixes[1])
      BY <1>6, <2>1 DEF Typable
    <2> QED
      BY <1>1, <1>2, <1>6, <2>2, ReportSays
  <1> QED
    BY <1>3, <1>4, <1>5, <1>6 DEF TextMeant

(* The answer of GPS103 is to what was read.                               *)
LEMMA TextIsAnswered ==
    ASSUME NEW m, TextMeant(m), m.protocol = "gps103"
    PROVE  Answers(Txt!Reply(Txt!Decode(TextFrame(m))), m)
  <1>1. PICK d : d = Txt!Decode(TextFrame(m))
    OBVIOUS
  <1>2. SaysText(d, m)
    BY <1>1, TextSays DEF Heard
  <1>3. d.type = CASE m.id = Txt!Login -> "login" [] m.id = Txt!Heartbeat -> "heartbeat"
                   [] m.id = Txt!Event -> "evento"
                   [] m.id = Txt!Report -> IF m.text = Txt!Tracker THEN "posicion" ELSE "alarma"
    BY <1>2 DEF SaysText
  <1>4. m.id \in {Txt!Login, Txt!Heartbeat, Txt!Event, Txt!Report}
    BY DEF TextMeant
  <1>5. MustBeAnswered(m) <=> m.id \in {Txt!Login, Txt!Heartbeat}
    BY DEF MustBeAnswered
  <1>6. CASE m.id = Txt!Login
    <2>1. d.type = "login"
      BY <1>3, <1>6, TextIds
    <2>2. Txt!Reply(d) = Txt!Load
      BY <2>1 DEF Txt!Reply
    <2>3. Txt!Load # <<>>
      BY DEF Txt!Load
    <2> QED
      BY <1>1, <1>5, <1>6, <2>2, <2>3 DEF Answers, AnswersText
  <1>7. CASE m.id = Txt!Heartbeat
    <2>1. d.type = "heartbeat"
      BY <1>3, <1>7, TextIds
    <2>2. Txt!Reply(d) = Txt!On
      BY <2>1 DEF Txt!Reply
    <2>3. Txt!On # <<>>
      BY DEF Txt!On
    <2>4. m.id # Txt!Login
      BY <1>7, TextIds
    <2> QED
      BY <1>1, <1>5, <1>7, <2>2, <2>3, <2>4 DEF Answers, AnswersText
  <1>8. CASE m.id = Txt!Event \/ m.id = Txt!Report
    <2>1. d.type \in {"evento", "posicion", "alarma"}
      BY <1>3, <1>8, TextIds
    <2>2. Txt!Reply(d) = <<>>
      BY <2>1 DEF Txt!Reply
    <2>3. ~ MustBeAnswered(m)
      BY <1>5, <1>8, TextIds
    <2> QED
      BY <1>1, <2>2, <2>3 DEF Answers
  <1> QED
    BY <1>4, <1>6, <1>7, <1>8

(* What is answered to what was decoded from a frame, with the serial s of *)
(* the platform.                                                           *)
Answered(frame, m, s) == IF frame[1] = Delimiter THEN J!Reply(m, s)
                         ELSE IF frame[1] \in {Byte78, Byte79} THEN G!Reply(m, Now)
                         ELSE Txt!Reply(m)

(* A message of any of the three protocols is read as it was meant, and is *)
(* answered as its tracker expects.                                        *)
LEMMA MeantIsHandled ==
    ASSUME NEW m, Meant(m), NEW s \in TwoBytes
    PROVE  /\ Says(Decoded(Frame(m)), m)
           /\ Answers(Answered(Frame(m), Decoded(Frame(m)), s), m)
  <1> USE DEF Byte78, Byte79, Delimiter
  <1>1. CASE m.protocol = "jt808"
    <2>1. Frame(m) = Jt808Frame(m) /\ Jt808Meant(m)
      BY <1>1 DEF Frame, Meant
    <2>2. PICK f, d : f = Jt808Frame(m) /\ d = J!Decode(f)
      OBVIOUS
    <2>3. /\ SaysBinary(d, m) /\ f[1] = 126
          /\ d.id = m.id /\ d.serial = m.serial /\ d.from = m.digits /\ d.terminalBytes = 6
      BY <1>1, <2>1, <2>2, Jt808Says
    <2>4. Decoded(f) = d
      BY <2>2, <2>3 DEF Decoded
    <2>5. Answers(J!Reply(d, s), m)
      BY <1>1, <2>1, <2>3, Jt808IsAnswered
    <2>6. Answered(f, d, s) = J!Reply(d, s)
      BY <2>3 DEF Answered
    <2>7. Says(d, m)
      BY <1>1, <2>3 DEF Says
    <2> QED
      BY <2>1, <2>2, <2>4, <2>5, <2>6, <2>7
  <1>2. CASE m.protocol = "gt06"
    <2>1. Frame(m) = Gt06Frame(m) /\ Gt06Meant(m)
      BY <1>2 DEF Frame, Meant
    <2>2. PICK f, d : f = Gt06Frame(m) /\ d = G!Decode(f)
      OBVIOUS
    <2>3. SaysBinary(d, m) /\ f[1] = 120
      BY <1>2, <2>1, <2>2, Gt06Says
    <2>4. Decoded(f) = d
      BY <2>2, <2>3 DEF Decoded
    <2>5. d.id = m.id /\ d.serial = m.serial
      BY <2>3 DEF SaysBinary
    <2>6. Answers(G!Reply(d, Now), m)
      BY <1>2, <2>1, <2>5, Gt06IsAnswered, NowAssumption
    <2>7. Answered(f, d, s) = G!Reply(d, Now)
      BY <2>3 DEF Answered
    <2>8. Says(d, m)
      BY <1>2, <2>3 DEF Says
    <2> QED
      BY <2>1, <2>2, <2>4, <2>6, <2>7, <2>8
  <1>3. CASE m.protocol = "gps103"
    <2>1. Frame(m) = TextFrame(m) /\ TextMeant(m)
      BY <1>3 DEF Frame, Meant
    <2>2. PICK f, d : f = TextFrame(m) /\ d = Txt!Decode(f)
      OBVIOUS
    <2>3. SaysText(d, m) /\ f[1] \in {35, 105}
      BY <2>1, <2>2, TextSays DEF Heard
    <2>4. Decoded(f) = d
      BY <2>2, <2>3 DEF Decoded
    <2>5. Answers(Txt!Reply(d), m)
      BY <1>3, <2>1, <2>2, TextIsAnswered
    <2>6. Answered(f, d, s) = Txt!Reply(d)
      BY <2>3 DEF Answered
    <2>7. Says(d, m)
      BY <1>3, <2>3 DEF Says
    <2> QED
      BY <2>1, <2>2, <2>4, <2>5, <2>6, <2>7
  <1> QED
    BY <1>1, <1>2, <1>3 DEF Meant

-----------------------------------------------------------------------------
(* The line: what was read and answered.                                   *)

(* What a frame may be decoded to, and what may be answered.               *)
Decodings == {Decoded(f) : f \in Seq(Byte)}

(* And what may be answered.                                               *)
Replies == {Answered(f, d, s) : f \in Seq(Byte), d \in Decodings, s \in TwoBytes} \cup {<<>>}

(* The k-th frame was read as it is and, while the socket lives, answered  *)
(* with one of the serials of the platform.                                *)
Served(k) == /\ read[k] = Decoded(frames[k])
             /\ rejected = "no" =>
                   \E s \in TwoBytes : replies[k] = Answered(frames[k], read[k], s)

(* The invariant of a line.                                                *)
WireInv == /\ platformSerial \in TwoBytes
           /\ read \in Seq(Decodings) /\ replies \in Seq(Replies)
           /\ Len(read) = Len(replies) /\ Len(read) <= Len(frames)
           /\ \A k \in 1 .. Len(read) : Served(k)

(* The accumulator only adds frames, and a rejection is for good.          *)
Adds == /\ stream' = stream
        /\ Len(frames) <= Len(frames') /\ \A k \in 1 .. Len(frames) : frames'[k] = frames[k]
        /\ rejected' = "no" => rejected = "no"

(* A frame that is delivered is added,                                     *)
LEMMA DeliverAdds ==
    ASSUME frames \in Seq(Seq(Byte)), NEW b, NEW i, NEW j, Deliver(b, i, j)
    PROVE  Adds
  <1>1. PICK g : g = SubSeq(b, i, j)
    OBVIOUS
  <1>2. PICK S : S = Seq(Byte) \cup {g}
    OBVIOUS
  <1>3. frames \in Seq(S) /\ g \in S
    BY <1>2
  <1>4. frames' = Append(frames, g) /\ UNCHANGED <<stream, rejected>>
    BY <1>1 DEF Deliver
  <1>5. Len(frames) <= Len(frames') /\ \A k \in 1 .. Len(frames) : frames'[k] = frames[k]
    <2>1. /\ Len(Append(frames, g)) = Len(frames) + 1
          /\ \A k \in 1 .. Len(frames) : Append(frames, g)[k] = frames[k]
      BY <1>3, AppendProperties
    <2>2. Len(frames) \in Nat
      BY LenProperties
    <2> QED
      BY <1>4, <2>1, <2>2
  <1> QED
    BY <1>4, <1>5 DEF Adds

(* what changes no frame adds none,                                        *)
LEMMA KeepsAdds ==
    ASSUME frames \in Seq(Seq(Byte)), UNCHANGED <<stream, frames>>,
           rejected' = "no" => rejected = "no"
    PROVE  Adds
  <1>1. Len(frames) \in Nat
    BY LenProperties
  <1> QED
    BY <1>1 DEF Adds

(* nor does the end of the loop,                                           *)
LEMMA StopAdds ==
    ASSUME frames \in Seq(Seq(Byte)), NEW b, Stop(b)
    PROVE  Adds
  BY KeepsAdds DEF Stop

(* so that every step of the accumulator only adds.                        *)
LEMMA NextAdds ==
    ASSUME TypeOK, [Next]_vars
    PROVE  Adds
  <1>1. frames \in Seq(Seq(Byte))
    BY DEF TypeOK, Byte
  <1>2. CASE UNCHANGED vars
    BY <1>1, <1>2, KeepsAdds DEF vars
  <1>3. ASSUME NEW n \in 1 .. MaxChunk, Data(n) PROVE Adds
    BY <1>1, <1>3, KeepsAdds DEF Data
  <1>4. CASE NoStart
    BY <1>1, <1>4, StopAdds DEF NoStart
  <1>5. CASE Gt06
    BY <1>1, <1>5, StopAdds, DeliverAdds DEF Gt06
  <1>6. CASE Jt808
    BY <1>1, <1>6, StopAdds, DeliverAdds DEF Jt808
  <1>7. CASE Gps103
    BY <1>1, <1>7, StopAdds, DeliverAdds DEF Gps103
  <1> QED
    BY <1>2, <1>3, <1>4, <1>5, <1>6, <1>7 DEF Next

(* What was read and answered stays so when frames are added.              *)
LEMMA AddsKeeps ==
    ASSUME WireInv, frames \in Seq(Seq(Byte)), frames' \in Seq(Seq(Byte)), Adds,
           UNCHANGED <<read, replies, platformSerial>>
    PROVE  WireInv'
  <1>1. PICK n \in Nat : n = Len(read) /\ n <= Len(frames)
    BY LenProperties DEF WireInv
  <1>2. Len(frames) \in Nat /\ Len(frames') \in Nat
    BY LenProperties
  <1>3. Len(read) <= Len(frames')
    BY <1>1, <1>2 DEF Adds
  <1>4. ASSUME NEW k \in 1 .. n PROVE Served(k)'
    <2>1. Served(k) /\ k \in 1 .. Len(frames)
      BY <1>1, <1>2 DEF WireInv
    <2>2. frames'[k] = frames[k] /\ (rejected' = "no" => rejected = "no")
      BY <2>1 DEF Adds
    <2> QED
      BY <2>1, <2>2 DEF Served
  <1> QED
    BY <1>1, <1>3, <1>4 DEF WireInv

(* Each frame is decoded, and answered with the next serial.               *)
LEMMA HandleServes ==
    ASSUME WireInv, TypeOK, Handle
    PROVE  WireInv'
  <1>1. PICK n \in Nat : n = Len(read) /\ n = Len(replies) /\ n + 1 <= Len(frames)
    <2>1. Len(read) \in Nat /\ Len(frames) \in Nat
      BY LenProperties DEF WireInv, TypeOK
    <2> QED
      BY <2>1 DEF WireInv, Handle
  <1>2. frames \in Seq(Seq(Byte))
    BY DEF TypeOK, Byte
  <1>3. PICK f \in Seq(Byte) : f = frames[n + 1]
    <2>1. Len(frames) \in Nat
      BY <1>2, LenProperties
    <2>2. n + 1 \in 1 .. Len(frames)
      BY <1>1, <2>1
    <2> QED
      BY <1>2, <2>2, ElementOfSeq
  <1>4. PICK d \in Decodings : d = Decoded(f)
    BY DEF Decodings
  <1>5. PICK s \in TwoBytes : s = NextPlatformSerial
    <2>1. platformSerial \in TwoBytes
      BY DEF WireInv
    <2> QED
      BY <2>1, SMT DEF NextPlatformSerial, TwoBytes
  <1>6. PICK a : a = Answered(f, d, s)
    OBVIOUS
  <1>7. a \in Replies
    BY <1>6 DEF Replies
  <1>8. ReplyTo(f, d) = a
    BY <1>5, <1>6 DEF ReplyTo, Answered
  <1>9. PICK r \in Replies : r = IF rejected = "no" THEN a ELSE <<>>
    BY <1>7 DEF Replies
  <1>10. /\ read' = Append(read, d) /\ replies' = Append(replies, r)
         /\ platformSerial' \in {s, platformSerial}
         /\ UNCHANGED <<frames, rejected>>
    BY <1>1, <1>3, <1>4, <1>5, <1>8, <1>9 DEF Handle, vars
  <1>11. /\ read' \in Seq(Decodings) /\ Len(read') = n + 1
         /\ read'[n + 1] = d /\ \A k \in 1 .. n : read'[k] = read[k]
    BY <1>1, <1>10, AppendProperties DEF WireInv
  <1>12. /\ replies' \in Seq(Replies) /\ Len(replies') = n + 1
         /\ replies'[n + 1] = r /\ \A k \in 1 .. n : replies'[k] = replies[k]
    BY <1>1, <1>10, AppendProperties DEF WireInv
  <1>13. ASSUME NEW k \in 1 .. n + 1 PROVE Served(k)'
    <2>1. CASE k = n + 1
      BY <1>3, <1>4, <1>6, <1>9, <1>10, <1>11, <1>12, <2>1 DEF Served
    <2>2. CASE k \in 1 .. n
      <3>1. Served(k)
        BY <1>1, <2>2 DEF WireInv
      <3> QED
        BY <1>10, <1>11, <1>12, <2>2, <3>1 DEF Served
    <2> QED
      BY <2>1, <2>2
  <1>14. platformSerial' \in TwoBytes
    BY <1>10 DEF WireInv
  <1> QED
    BY <1>1, <1>10, <1>11, <1>12, <1>13, <1>14 DEF WireInv

(* Every step keeps the invariant,                                         *)
LEMMA WireStep ==
    ASSUME WireInv, TypeOK, TypeOK', [ServeNext]_wireVars
    PROVE  WireInv'
  <1>1. frames \in Seq(Seq(Byte)) /\ frames' \in Seq(Seq(Byte))
    BY DEF TypeOK, Byte
  <1>2. CASE Receive
    <2>1. Adds
      BY <1>2, NextAdds DEF Receive
    <2> QED
      BY <1>1, <1>2, <2>1, AddsKeeps DEF Receive
  <1>3. CASE UNCHANGED wireVars
    <2>1. Adds
      BY <1>3, NextAdds DEF wireVars
    <2> QED
      BY <1>1, <1>3, <2>1, AddsKeeps DEF wireVars
  <1>4. CASE Handle
    BY <1>4, HandleServes
  <1> QED
    BY <1>2, <1>3, <1>4 DEF ServeNext

(* which holds at first;                                                   *)
LEMMA WireInitInv == ServeInit => WireInv
  <1> SUFFICES ASSUME ServeInit PROVE WireInv
    OBVIOUS
  <1>1. read = <<>> /\ replies = <<>> /\ platformSerial = 0 /\ frames = <<>>
    BY DEF ServeInit, Init
  <1>2. read \in Seq(Decodings) /\ replies \in Seq(Replies) /\ Len(read) = 0
        /\ Len(replies) = 0 /\ Len(frames) = 0
    BY <1>1
  <1>3. platformSerial \in TwoBytes
    BY <1>1 DEF TwoBytes
  <1>4. \A k : k \notin 1 .. 0
    OBVIOUS
  <1> QED
    BY <1>2, <1>3, <1>4 DEF WireInv

(* A line serves an accumulator.                                           *)
LEMMA ServeIsFraming == Serve => Spec
  <1>1. ServeInit => Init
    BY DEF ServeInit
  <1>2. [ServeNext]_wireVars => [Next]_vars
    BY DEF ServeNext, Receive, Handle, wireVars
  <1> QED
    BY <1>1, <1>2, PTL DEF Serve, Spec

(* so it always holds, with the types of the accumulator.                  *)
LEMMA WireInvHolds ==
    ASSUME \A x \in Streams : Octets(x), MaxBuffer \in Nat, MaxChunk \in Nat
    PROVE  Serve => [](WireInv /\ TypeOK)
  <1>1. Serve => []TypeOK
    BY ServeIsFraming, FramingTyped, PTL
  <1>2. WireInv /\ TypeOK /\ TypeOK' /\ [ServeNext]_wireVars => WireInv'
    BY WireStep
  <1> QED
    BY <1>1, <1>2, WireInitInv, PTL DEF Serve

(* Each message that was handled is the one that was sent in its place.    *)
LEMMA HandledIsSent ==
    ASSUME WireInv, TypeOK, FramesAreRead, Spoken(stream), Intact, rejected = "no",
           NEW k \in 1 .. Len(read), k <= Len(stream.said)
    PROVE  Says(read[k], stream.said[k]) /\ Answers(replies[k], stream.said[k])
  <1>1. PICK n \in Nat : n = Len(frames)
    BY LenProperties DEF TypeOK
  <1>2. Len(read) \in Nat /\ Len(read) <= n
    BY <1>1, LenProperties DEF WireInv
  <1>3. k \in 1 .. n
    BY <1>2
  <1>4. frames \in Seq(Seq(Byte)) /\ stream.frames \in Seq(Seq(Byte))
    BY DEF TypeOK, Byte, Spoken, Readable, Octets
  <1>5. frames[k] = stream.frames[k]
    <2>1. IsPrefix(frames, stream.frames)
      BY DEF FramesAreRead
    <2> QED
      BY <1>1, <1>3, <1>4, <2>1, PrefixIs
  <1>6. PICK m : m = stream.said[k]
    OBVIOUS
  <1>7. Meant(m) /\ frames[k] = Frame(m)
    <2>1. k \in 1 .. Len(stream.frames)
      <3>1. IsPrefix(frames, stream.frames) /\ Len(stream.frames) \in Nat
        BY <1>4, LenProperties DEF FramesAreRead
      <3>2. n <= Len(stream.frames)
        BY <1>1, <1>4, <3>1, PrefixIs
      <3> QED
        BY <1>3, <3>1, <3>2
    <2> QED
      BY <1>5, <1>6, <2>1 DEF Spoken
  <1>8. PICK s \in TwoBytes : replies[k] = Answered(frames[k], read[k], s)
                              /\ read[k] = Decoded(frames[k])
    BY DEF WireInv, Served
  <1> QED
    BY <1>6, <1>7, <1>8, MeantIsHandled

(* However TCP cuts the stream, each message that came is read as it was   *)
(* meant.                                                                  *)
THEOREM MeantIsRead ==
    ASSUME \A x \in Streams : Octets(x), MaxBuffer \in Nat, MaxChunk \in Nat
    PROVE  Serve => [](Spoken(stream) => ReadAsMeant)
  <1>1. Spec => [](Readable(stream) => FramesAreRead)
    BY FramesAreReadWhole
  <1>2. WireInv /\ TypeOK /\ (Readable(stream) => FramesAreRead)
          => (Spoken(stream) => ReadAsMeant)
    BY HandledIsSent DEF Spoken, ReadAsMeant
  <1> QED
    BY <1>1, <1>2, ServeIsFraming, WireInvHolds, PTL

(* And each that expects an answer gets the one that its tracker reads.    *)
THEOREM MeantIsAnswered ==
    ASSUME \A x \in Streams : Octets(x), MaxBuffer \in Nat, MaxChunk \in Nat
    PROVE  Serve => [](Spoken(stream) => EachIsAnswered)
  <1>1. Spec => [](Readable(stream) => FramesAreRead)
    BY FramesAreReadWhole
  <1>2. WireInv /\ TypeOK /\ (Readable(stream) => FramesAreRead)
          => (Spoken(stream) => EachIsAnswered)
    <2> SUFFICES ASSUME WireInv, TypeOK, Readable(stream) => FramesAreRead, Spoken(stream),
                        Intact, rejected = "no", NEW k \in 1 .. Len(replies),
                        k <= Len(stream.said)
                 PROVE  Answers(replies[k], stream.said[k])
      BY DEF EachIsAnswered
    <2>1. k \in 1 .. Len(read)
      BY DEF WireInv
    <2>2. FramesAreRead
      BY DEF Spoken
    <2> QED
      BY <2>1, <2>2, HandledIsSent
  <1> QED
    BY <1>1, <1>2, ServeIsFraming, WireInvHolds, PTL
=============================================================================
