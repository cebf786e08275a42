------------------------------- MODULE Track -------------------------------
(***************************************************************************)
(* A track as it is stored and as it is shown: each row has its movement   *)
(* state when it is stored (Movement), and the rows are annotated again    *)
(* and adjusted to the roads when they are asked for (MapMatch, in GET     *)
(* /devices/:imei/positions), or made into a line (route.geojson).         *)
(***************************************************************************)
EXTENDS MapMatch

CONSTANTS Radius,     \* STOP_RADIUS_METERS
          MinPulses   \* STOP_MIN_PULSES

(* The radius is within what a row inherits from (Near), and the three     *)
(* rows that the live state looks at are enough pulses.                    *)
ASSUME StopsAssumption == Radius \in 0 .. 25 /\ MinPulses \in 1 .. 3

VARIABLE live    \* the movement state published with the last fix

M == INSTANCE Movement WITH history <- [k \in 1 .. Len(trace) |-> trace[k].place],
                            MaxPulses <- MaxTrace

(* savePosition: the row, then the state that is published with it.        *)
Arrive(place) == Point(place) /\ M!Pulse(place)

TrackInit == Init /\ live = M!Moving
TrackNext == \/ \E place \in Places \cup {NoFix} : Arrive(place)
             \/ Adjust /\ UNCHANGED live

TrackSpec == TrackInit /\ [][TrackNext]_<<vars, live>> /\ Fairness

-----------------------------------------------------------------------------
(* GET /api/v1/devices/:imei/route.geojson. *)

Lines == LET drawable == Only(drawn, {piece \in ToSet(drawn) : Len(piece.points) >= 2})
         IN [k \in 1 .. Len(drawable) |-> drawable[k].points]

(* Mutant: no line of two points is left, and none is made of the rows. *)
FeatureAdjustedOnly(fixes) ==
    IF Len(fixes) = 1 THEN [type |-> "Point", lines |-> <<fixes>>]
    ELSE IF Len(Lines) = 1 THEN [type |-> "LineString", lines |-> Lines]
    ELSE [type |-> "MultiLineString", lines |-> Lines]

(* Without a line of two points the rows themselves make one.              *)
Feature(fixes) ==
    LET lines == IF Lines = <<>> /\ Len(fixes) >= 2 THEN <<fixes>> ELSE Lines
    IN IF Len(fixes) = 1 THEN [type |-> "Point", lines |-> <<fixes>>]
       ELSE IF Len(lines) = 1 THEN [type |-> "LineString", lines |-> lines]
       ELSE [type |-> "MultiLineString", lines |-> lines]

-----------------------------------------------------------------------------
(* Of Movement, while rows arrive: the answer to a request changes none.   *)
StopsAreRuns == phase = "trace" => M!StopsAreRuns
ParkedIsStopped == phase = "trace" => M!ParkedIsStopped
StopsAreKept == [][phase = "trace" => M!StopIsKept]_trace

(* "así las paradas tampoco reaparecen fuera de vía" (map-match.js:185):   *)
(* once the first pulse of a stop is on the road, every pulse of it is     *)
(* shown there, whether the filter dropped it or the service lost it.      *)
StopsStayOnRoads == phase = "done" =>
    LET marks == M!Annotate([k \in 1 .. Len(trace) |-> trace[k].place]) IN
    \A i \in 1 .. Len(trace) :
        marks[i].state = "stopped" /\ trace[marks[i].since] \in snapped
        => trace[i] \in SnappedPoints

(* The line that is handed out can be drawn, whatever was filtered out,    *)
(* cut or not adjusted: a point for one fix, and otherwise lines of two    *)
(* points or more.                                                         *)
RouteIsDrawable == phase = "done" /\ Valid(trace) # <<>> =>
    LET feature == Feature(Valid(trace)) IN
    /\ feature.lines # <<>>
    /\ (feature.type = "Point") = (Len(Valid(trace)) = 1)
    /\ feature.type # "Point" => \A k \in 1 .. Len(feature.lines) : Len(feature.lines[k]) >= 2
=============================================================================
