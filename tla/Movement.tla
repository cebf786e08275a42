------------------------------- MODULE Movement -------------------------------
(***************************************************************************)
(* Stopped or moving: annotateMovementStates (tracking/movement.js) over   *)
(* the history of one device, and getCurrentMovementState (db/repo.js)     *)
(* over its last three fixes, as positions arrive.                         *)
(*                                                                         *)
(* Positions lie on a line; of the haversine distance the algorithm only   *)
(* compares it with the radius.  Positions arrive in the order of the      *)
(* device's clock: a buffer that comes late goes into the middle of the    *)
(* history (repo.js:400) but is last for the live state (repo.js:301).     *)
(***************************************************************************)
EXTENDS Integers, Sequences, FiniteSets

CONSTANTS NoFix,      \* a position without coordinates
          Radius,     \* STOP_RADIUS_METERS
          MinPulses,  \* STOP_MIN_PULSES
          MaxPulses   \* bound: positions that arrive

VARIABLES history,    \* the positions, in order
          live        \* the movement state published with the last fix

Distance(a, b) == IF a <= b THEN b - a ELSE a - b
Usable(p) == p # NoFix

Moving == [state |-> "moving", pulses |-> 0, since |-> 0]
Stopped(n, c) == [state |-> "stopped", pulses |-> n, since |-> c]

(* Mutant: the distance is to the previous pulse. *)
ContinuesByStep(track, c, i) ==
    /\ c < i /\ Usable(track[c]) /\ Usable(track[i - 1])
    /\ Distance(track[i - 1], track[i]) <= Radius

(* Pulse i belongs to the cluster of anchor c.                             *)
Continues(track, c, i) ==
    /\ Usable(track[c])
    /\ Distance(track[c], track[i]) <= Radius

(* clusterStart after each iteration of the loop; the first is at 1.       *)
ClusterStart(track) ==
    LET start[i \in 0 .. Len(track)] ==
            IF i = 0 THEN 1
            ELSE LET before == start[i - 1]
                 IN IF ~Usable(track[i]) THEN i + 1
                    ELSE IF Continues(track, before, i) THEN before ELSE i
    IN start

(* Mutants: one pulse more is needed; only the pulse that confirms counts. *)
ConfirmedLate(n) == n > MinPulses
ConfirmedExactly(n) == n = MinPulses

Confirmed(n) == n >= MinPulses

(* Every pulse of a cluster of MinPulses is marked, with its final count.  *)
Annotate(track) ==
    LET start == ClusterStart(track)
        Cluster(c) == {j \in 1 .. Len(track) : Usable(track[j]) /\ start[j] = c}
    IN [i \in 1 .. Len(track) |->
          LET n == Cardinality(Cluster(start[i]))
          IN IF Usable(track[i]) /\ Confirmed(n) THEN Stopped(n, start[i]) ELSE Moving]

(* The fixes of the history: where they are in it.                         *)
FixesUpTo(track, n) == {j \in 1 .. n : Usable(track[j])}

(* WHERE valid ... ORDER BY server_time DESC LIMIT 3, reversed: the places *)
(* in the history of the last three fixes.                                 *)
LastThree(track) ==
    LET fixes == FixesUpTo(track, Len(track))
        k == IF Cardinality(fixes) < 3 THEN Cardinality(fixes) ELSE 3
    IN [i \in 1 .. k |->
          CHOOSE j \in fixes : Cardinality({m \in fixes : m > j}) = k - i]

(* currentMovementState of those rows.                                     *)
Current(track) ==
    LET at == LastThree(track)
        rows == [i \in 1 .. Len(at) |-> track[at[i]]]
        last == IF rows = <<>> THEN Moving ELSE Annotate(rows)[Len(rows)]
    IN IF last = Moving THEN Moving ELSE Stopped(last.pulses, at[last.since])

(* savePosition: the row, then the state that is published with it.        *)
Pulse(p) == /\ Len(history) < MaxPulses
            /\ history' = Append(history, p)
            /\ live' = Current(history')

-----------------------------------------------------------------------------
(* Only a run is a stop: a pulse that is stopped lies in at least          *)
(* MinPulses consecutive fixes within the radius of the first, which is    *)
(* its stopped_since, and the run is not cut short: the pulse after it, if *)
(* there is one, has no fix or lies outside (MEJORAS_GPS.md:12).           *)
StoppedInRun ==
    LET marks == Annotate(history) IN
    \A i \in 1 .. Len(history) : marks[i].state = "stopped" =>
        LET c == marks[i].since
            e == c + marks[i].pulses - 1
        IN /\ i \in c .. e /\ e <= Len(history) /\ marks[i].pulses >= MinPulses
           /\ \A j \in c .. e : /\ Usable(history[j])
                                /\ Distance(history[c], history[j]) <= Radius
                                /\ marks[j] = marks[i]
           /\ e < Len(history) => \/ ~Usable(history[e + 1])
                                  \/ Distance(history[c], history[e + 1]) > Radius

(* Consecutive fixes that are within the radius of one another.            *)
Stay(a, e) == \A i, j \in a .. e : /\ Usable(history[i]) /\ Usable(history[j])
                                   /\ Distance(history[i], history[j]) <= Radius

(* And a stay is not missed.  Three pulses may be: on 0, 10, 20 and 20 m   *)
(* the anchor at 0 takes the second pulse, and the last two are too few.   *)
(* But of a stay of 2 * MinPulses - 2 pulses or more, whatever came before *)
(* and after it, fewer than MinPulses are not stopped.                     *)
StayIsStopped ==
    LET marks == Annotate(history) IN
    \A a, e \in 1 .. Len(history) : Stay(a, e) /\ e - a + 1 >= 2 * MinPulses - 2 =>
        Cardinality({i \in a .. e : marks[i].state = "moving"}) < MinPulses

(* Stops are runs within the radius, and long enough stays are stops.      *)
StopsAreRuns == StoppedInRun /\ StayIsStopped

(* "una parada se confirma al tercer pulso consecutivo" (docs/API.md:48),  *)
(* in the history and in the state that is published: three fixes at one   *)
(* place, in the order they were taken in, are stopped in both, though one *)
(* looks at all of them and the other at three, and neither says that the  *)
(* stop began after the first.                                             *)
ParkedIsStopped ==
    LET n == Len(history)
        marks == Annotate(history)
    IN n >= 3 /\ (\A j \in n - 2 .. n : Usable(history[j]) /\ history[j] = history[n]) =>
          /\ marks[n].state = "stopped" /\ live.state = "stopped"
          /\ marks[n].since <= live.since /\ live.since <= n - 2

(* "mantiene parado mientras sigan llegando pulsos en el mismo lugar"      *)
(* (test/movement.test.js): what arrives later, and is later by the clock  *)
(* of the device, never takes a stop back nor moves its beginning.         *)
StopIsKept ==
    LET before == Annotate(history)
        after  == Annotate(history')
    IN \A i \in 1 .. Len(history) : before[i].state = "stopped" =>
           /\ after[i].state = "stopped"
           /\ after[i].since = before[i].since
           /\ after[i].pulses >= before[i].pulses
=============================================================================
