------------------------- MODULE ConnectionLimiter -------------------------
(***************************************************************************)
(* The per-IP limiter of the ingest port (tcp/ratelimit.js) together with  *)
(* the part of the TCP server that calls it: one tryAcquire per accepted   *)
(* socket, one release per socket through the `liberado' flag, and a       *)
(* sweep every 60 s (tcp/server.js).                                       *)
(*                                                                         *)
(* The clock is kept as the age of every admission, capped at Window: the  *)
(* code only ever compares now - t with windowMs.  Date.now() is taken to  *)
(* be monotonic.  The array `intentos' holds one timestamp per admitted    *)
(* connection, so it is modelled as the set of those connections; the      *)
(* timestamp of c is age[c] ticks ago.                                     *)
(***************************************************************************)
EXTENDS Naturals, FiniteSets

CONSTANTS Ips,            \* remote addresses
          Conns,          \* TCP connections; each one is accepted once
          MaxConcurrent,  \* config.tcp.maxConnPerIp
          MaxPerWindow,   \* config.tcp.connRatePerIp
          Window          \* config.tcp.connRateWindowMs, in ticks

ASSUME ConnsFinite == IsFiniteSet(Conns)
ASSUME LimitsAssumption == /\ MaxConcurrent \in Nat
                           /\ MaxPerWindow \in Nat
                           /\ Window \in Nat

VARIABLES phase,     \* life of the socket of each connection
          ipOf,      \* its remote address, fixed when it is accepted
          age,       \* ticks since tryAcquire admitted it, at most Window
          known,     \* the keys of limiter.state
          activas,   \* limiter.state[ip].activas (0 where there is no entry)
          intentos   \* limiter.state[ip].intentos ({} where there is no entry)

limiterVars == <<phase, ipOf, age, known, activas, intentos>>

Phases == {"new", "open", "destroyed", "closed", "rejected"}

(* What the clock and the sockets say, whatever the limiter believes. *)
Admitted(ip) == {c \in Conns : /\ phase[c] \in {"open", "destroyed", "closed"}
                               /\ ipOf[c] = ip}
Held(ip)     == {c \in Conns : /\ phase[c] \in {"open", "destroyed"}
                               /\ ipOf[c] = ip}
Recent(S)    == {c \in S : age[c] < Window}

LimiterInit == /\ phase = [c \in Conns |-> "new"]
               /\ ipOf \in [Conns -> Ips]
               /\ age = [c \in Conns |-> 0]
               /\ known = {}
               /\ activas = [ip \in Ips |-> 0]
               /\ intentos = [ip \in Ips |-> {}]

(* tryAcquire admits: below both limits once the old attempts are dropped. *)
MayEnter(ip) == /\ activas[ip] < MaxConcurrent
                /\ Cardinality(Recent(intentos[ip])) < MaxPerWindow

Admit(c) ==
    LET ip == ipOf[c] IN
    /\ phase[c] = "new"
    /\ MayEnter(ip)
    /\ phase' = [phase EXCEPT ![c] = "open"]
    /\ known' = known \cup {ip}
    /\ activas' = [activas EXCEPT ![ip] = @ + 1]
    /\ intentos' = [intentos EXCEPT ![ip] = Recent(@) \cup {c}]
    /\ UNCHANGED <<ipOf, age>>

(* A refused socket is destroyed at once and has no 'close' handler: it    *)
(* never releases anything.                                                *)
Reject(c) ==
    LET ip == ipOf[c] IN
    /\ phase[c] = "new"
    /\ ~MayEnter(ip)
    /\ phase' = [phase EXCEPT ![c] = "rejected"]
    /\ known' = known \cup {ip}
    /\ intentos' = [intentos EXCEPT ![ip] = Recent(@)]
    /\ UNCHANGED <<ipOf, age, activas>>

(* release: Math.max(0, activas - 1). *)
Decrement(n) == IF n = 0 THEN 0 ELSE n - 1

(* Mutant: destroying releases the slot, and the 'close' event again. *)
DestroyReleasing(c) ==
    /\ phase[c] = "open"
    /\ phase' = [phase EXCEPT ![c] = "destroyed"]
    /\ activas' = [activas EXCEPT ![ipOf[c]] = Decrement(@)]
    /\ UNCHANGED <<ipOf, age, known, intentos>>

(* socket.destroy() after rejected bytes or the inactivity timeout, or the *)
(* peer closing: the slot is still held until the 'close' event.           *)
Destroy(c) ==
    /\ phase[c] = "open"
    /\ phase' = [phase EXCEPT ![c] = "destroyed"]
    /\ UNCHANGED <<ipOf, age, known, activas, intentos>>

(* Mutants: the entry is dropped as soon as no socket is open; never. *)
IdleBySocketsOnly(n, attempts) == n = 0
NeverIdle(n, attempts) == FALSE

(* The entry is dropped only when nothing in it is worth remembering;      *)
(* release does not filter intentos first.                                 *)
Idle(n, attempts) == n = 0 /\ attempts = {}

(* Deleting the Map entry loses its counters. *)
Forget(S) ==
    /\ known' = known \ S
    /\ activas' = [ip \in Ips |-> IF ip \in S THEN 0 ELSE activas[ip]]
    /\ intentos' = [ip \in Ips |-> IF ip \in S THEN {} ELSE intentos[ip]]

(* The 'close' handler: release(ip), once per admitted socket. *)
CloseEvent(c) ==
    LET ip == ipOf[c]
        left == Decrement(activas[ip]) IN
    /\ phase[c] = "destroyed"
    /\ phase' = [phase EXCEPT ![c] = "closed"]
    /\ IF ip \notin known
       THEN UNCHANGED <<known, activas, intentos>>
       ELSE IF Idle(left, intentos[ip])
            THEN Forget({ip})
            ELSE /\ activas' = [activas EXCEPT ![ip] = left]
                 /\ UNCHANGED <<known, intentos>>
    /\ UNCHANGED <<ipOf, age>>

(* limiter.sweep(), from the server's setInterval. *)
Sweep ==
    LET kept == [ip \in Ips |-> Recent(intentos[ip])]
        gone == {ip \in known : Idle(activas[ip], kept[ip])} IN
    /\ known' = known \ gone
    /\ activas' = [ip \in Ips |-> IF ip \in gone THEN 0 ELSE activas[ip]]
    /\ intentos' = [ip \in Ips |-> IF ip \in gone THEN {} ELSE kept[ip]]
    /\ UNCHANGED <<phase, ipOf, age>>

Tick == /\ age' = [c \in Conns |->
                     IF phase[c] \in {"open", "destroyed", "closed"} /\ age[c] < Window
                     THEN age[c] + 1 ELSE age[c]]
        /\ UNCHANGED <<phase, ipOf, known, activas, intentos>>

LimiterNext == \/ \E c \in Conns : \/ Admit(c)
                                   \/ Reject(c)
                                   \/ Destroy(c)
                                   \/ CloseEvent(c)
               \/ Sweep
               \/ Tick

(* The interval timer fires for as long as the process lives, and time     *)
(* passes; nothing obliges a peer to connect or to leave.                  *)
Fairness == WF_limiterVars(Sweep) /\ WF_limiterVars(Tick)

LimiterSpec == LimiterInit /\ [][LimiterNext]_limiterVars
FairSpec == LimiterSpec /\ Fairness

-----------------------------------------------------------------------------
(* Types of the variables; the ages never pass the window. *)
LimiterTypeOK == /\ phase \in [Conns -> Phases]
                 /\ ipOf \in [Conns -> Ips]
                 /\ age \in [Conns -> 0 .. Window]
                 /\ known \subseteq Ips
                 /\ activas \in [Ips -> Nat]
                 /\ intentos \in [Ips -> SUBSET Conns]

(* `activas' is exactly the number of admitted sockets whose 'close' has   *)
(* not run: across rejects, timeouts, sweeps and closes in any order no    *)
(* slot leaks and none is given back twice (liberado, server.js:36).       *)
SlotsMatchSockets == \A ip \in Ips : activas[ip] = Cardinality(Held(ip))

(* Never more than maxConnPerIp sockets of one address are held at once    *)
(* (ratelimit.js:31), counted on the sockets and not on the counter.       *)
MaxSimultaneous == \A ip \in Ips : Cardinality(Held(ip)) <= MaxConcurrent

(* In the window that ends at any moment at most connRatePerIp connections *)
(* of one address were admitted (ratelimit.js:34), although release and    *)
(* sweep delete entries in between: forgetting an address never reopens    *)
(* its window.                                                             *)
WindowBound ==
    \A ip \in Ips : Cardinality(Recent(Admitted(ip))) <= MaxPerWindow

(* An address without an entry has no open socket and no attempt in the    *)
(* window: dropping entries (ratelimit.js:50, 58) loses nothing.           *)
ForgottenIsIdle ==
    \A ip \in Ips \ known : Held(ip) = {} /\ Recent(Admitted(ip)) = {}

(* "Limpieza ... para que el Map no crezca sin fin" (ratelimit.js:53): an  *)
(* address with no socket left is eventually forgotten, or comes back.     *)
IdleIpForgotten ==
    \A ip \in Ips :
        (Held(ip) = {}) ~> (ip \notin known \/ Held(ip) # {})
=============================================================================
