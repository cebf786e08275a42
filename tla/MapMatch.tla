------------------------------- MODULE MapMatch -------------------------------
(***************************************************************************)
(* The adjustment of a track to the roads (tracking/map-match.js): what is *)
(* filtered out, how the rest is cut, and the requests to an external      *)
(* router that may answer, fail or take too long.                          *)
(*                                                                         *)
(* Places are on a line, in metres; two points less than 1 m apart are at  *)
(* one place.  Of the coordinates projected on the roads the model keeps   *)
(* which rows have one.                                                    *)
(***************************************************************************)
EXTENDS Integers, Sequences, SequencesExt

CONSTANTS Enabled,    \* MAP_MATCH_ENABLED
          Places,     \* coordinates, in metres
          NoFix,      \* a row without coordinates
          Waits,      \* the ticks that may pass between two rows
          PerTick,    \* the metres of a tick at 220 km/h
          Gap,        \* gapSeconds: 600 s
          MaxPoints,  \* MAP_MATCH_MAX_POINTS: 400
          ChunkSize,  \* MAX_CHUNK_POINTS: 40
          Limit,      \* MAP_MATCH_TIMEOUT_MS, in ticks of its own
          MaxTrace    \* bound: rows of a track

ASSUME PlacesAssumption == Places \subseteq Int /\ NoFix \notin Int
ASSUME TimesAssumption == Waits \subseteq Nat /\ Gap \in Nat
ASSUME SizesAssumption == MaxPoints \in Nat /\ ChunkSize \in Nat \ {0, 1} /\ Limit \in Nat

VARIABLES trace,   \* the positions, by device_time
          phase,   \* "trace", then "match" or "route" for the first chunk, "done"
          todo,    \* the chunks that are left
          drawn,   \* segments: through which points, how found, for which chunk
          snapped, \* snappedPoints, as the services give them
          spent    \* Date.now() since the call

vars == <<trace, phase, todo, drawn, snapped, spent>>

Points == [place : Places, time : Nat]
Rows == [place : Places \cup {NoFix}, time : Nat]

-----------------------------------------------------------------------------
(* The pure functions. *)

(* What a loop over s leaves in out, which it begins with first: FoldLeft  *)
(* of the community modules, as a recursion on the length.                 *)
Loop(Step(_, _), first, s) ==
    LET out[n \in 0 .. Len(s)] == IF n = 0 THEN first ELSE Step(out[n - 1], s[n])
    IN  out[Len(s)]

(* The elements of s that are in S, in order.                              *)
Only(s, S) == Loop(LAMBDA out, x : IF x \in S THEN Append(out, x) ELSE out, <<>>, s)

Distance(a, b) == IF a.place > b.place THEN a.place - b.place ELSE b.place - a.place

(* A jump of more than 250 m that takes more than 220 km/h.                *)
Impossible(a, b) == Distance(a, b) > 250 /\ Distance(a, b) > PerTick * (b.time - a.time)

(* A point is compared with the last that was kept.                        *)
Keep(out, p) ==
    IF out = <<>> \/ (Distance(Last(out), p) > 0 /\ ~Impossible(Last(out), p))
    THEN Append(out, p) ELSE out

(* filterGpsTrace: of the latest points only.                              *)
Valid(s) == Only(s, {row \in ToSet(s) : row.place # NoFix})
Recent(s) == LET n == IF MaxPoints > 2 THEN MaxPoints ELSE 2
             IN  IF Len(s) <= n THEN s ELSE SubSeq(s, Len(s) - n + 1, Len(s))
Filtered(s) == Loop(Keep, <<>>, Recent(Valid(s)))

(* A point goes on with the group of the point before it.                  *)
Joins(group, p) == p.time - Last(group).time <= Gap

(* splitTrace.                                                             *)
Placed(groups, p) == IF groups # <<>> /\ Joins(Last(groups), p)
                     THEN [groups EXCEPT ![Len(groups)] = Append(@, p)]
                     ELSE Append(groups, <<p>>)
Groups(s) == Loop(Placed, <<>>, s)

(* Mutant: chunks that do not overlap. *)
AdvanceWhole == ChunkSize

(* A chunk begins with the last point of the one before it.                *)
Advance == ChunkSize - 1

(* chunksWithOverlap: what is left of one point is in the chunk before it. *)
Chunks(g) ==
    IF Len(g) <= ChunkSize THEN <<g>>
    ELSE LET From(k) == 1 + (k - 1) * Advance
             To(k) == IF From(k) + ChunkSize - 1 < Len(g) THEN From(k) + ChunkSize - 1 ELSE Len(g)
             all == [k \in 1 .. (Len(g) - 1) \div Advance + 1 |-> SubSeq(g, From(k), To(k))]
         IN  Only(all, {c \in ToSet(all) : Len(c) >= 2})

Work(s) == Loop(LAMBDA all, g : all \o Chunks(g), <<>>, Groups(s))

-----------------------------------------------------------------------------
Init == /\ trace = <<>> /\ phase = "trace"
        /\ todo = <<>> /\ drawn = <<>> /\ snapped = {} /\ spent = 0

(* Another row of listPositions, which orders them by time.                *)
Point(place) ==
    /\ phase = "trace" /\ Len(trace) < MaxTrace
    /\ \E wait \in Waits :
          trace' = Append(trace, [place |-> place,
                                  time |-> IF trace = <<>> THEN 0 ELSE Last(trace).time + wait])
    /\ UNCHANGED <<phase, todo, drawn, snapped, spent>>

Piece(points, how, chunk) == [points |-> points, how |-> how, chunk |-> chunk]

(* buildMatchedTrace, up to its loop.                                      *)
Begin == /\ phase = "trace" /\ trace # <<>>
         /\ LET kept == Filtered(trace) IN
            IF ~Enabled \/ Len(kept) < 2
            THEN /\ phase' = "done" /\ UNCHANGED todo
                 /\ drawn' = IF kept = <<>> THEN <<>> ELSE <<Piece(kept, "raw", kept)>>
            ELSE phase' = "match" /\ todo' = Work(kept) /\ UNCHANGED drawn
         /\ UNCHANGED <<trace, snapped, spent>>

Add(how) == /\ drawn' = Append(drawn, Piece(Head(todo), how, Head(todo)))
            /\ todo' = Tail(todo)

(* A group of one point is not asked for.                                  *)
Single == /\ phase = "match" /\ todo # <<>> /\ Len(Head(todo)) = 1
          /\ Add("raw")
          /\ UNCHANGED <<trace, phase, snapped, spent>>

(* A request is given the time that is left.                               *)
Takes(t) == spent + t <= Limit /\ spent' = spent + t

TimeLeft == spent < Limit

(* What Match may answer for a chunk: one segment or several, each by the  *)
(* places of its points; a point may be in none (a null tracepoint).       *)
Answers(c) ==
    LET segments == {S \in SUBSET (1 .. Len(c)) : \E i, j \in S : i < j}
    IN UNION {{m \in [1 .. n -> segments] : \A k \in 2 .. n : \A i \in m[k - 1], j \in m[k] : i < j} :
              n \in 1 .. Len(c) \div 2}

PointsOf(c, S) == {c[i] : i \in S}
Segments(c, m) == [k \in 1 .. Len(m) |-> Piece(Only(c, PointsOf(c, m[k])), "match", c)]

(* The first service answers with segments, or anything else happens.      *)
Match == /\ phase = "match" /\ todo # <<>> /\ Len(Head(todo)) >= 2 /\ TimeLeft
         /\ \E t \in 0 .. Limit : Takes(t)
         /\ \/ \E m \in Answers(Head(todo)) :
                  /\ drawn' = drawn \o Segments(Head(todo), m)
                  /\ snapped' = snapped \cup PointsOf(Head(todo), UNION Range(m))
                  /\ todo' = Tail(todo) /\ UNCHANGED phase
            \/ phase' = "route" /\ UNCHANGED <<drawn, todo, snapped>>
         /\ UNCHANGED trace

(* The second service answers with a route, or the chunk stays raw.        *)
Route == /\ phase = "route" /\ TimeLeft
         /\ \E t \in 0 .. Limit : Takes(t)
         /\ phase' = "match"
         /\ \/ Add("route") /\ snapped' = snapped \cup ToSet(Head(todo))
            \/ Add("raw") /\ UNCHANGED snapped
         /\ UNCHANGED trace

(* Mutant: a chunk without time goes back to the queue. *)
OutOfTimeRetries == /\ ~TimeLeft /\ phase \in {"match", "route"} /\ todo # <<>>
                    /\ Len(Head(todo)) >= 2
                    /\ phase' = IF phase = "match" THEN "route" ELSE "match"
                    /\ UNCHANGED <<trace, todo, drawn, snapped, spent>>

(* Less than 100 ms are left: neither service is asked.                    *)
OutOfTime == /\ ~TimeLeft /\ phase \in {"match", "route"} /\ todo # <<>>
             /\ Len(Head(todo)) >= 2
             /\ phase' = "match" /\ Add("raw")
             /\ UNCHANGED <<trace, snapped, spent>>

Finish == /\ phase = "match" /\ todo = <<>>
          /\ phase' = "done"
          /\ UNCHANGED <<trace, todo, drawn, snapped, spent>>

Done == phase = "done" /\ UNCHANGED vars

Adjust == Begin \/ Single \/ Match \/ Route \/ OutOfTime \/ Finish \/ Done

(* fetch is aborted when its time is over.                                 *)
Fairness == WF_vars(Single \/ Match \/ Route \/ OutOfTime \/ Finish)

(* Mutant: only what was filtered out as a duplicate inherits. *)
NearSamePlace(a, b) == Distance(a, b) = 0

Near(a, b) == Distance(a, b) <= 25

(* A row that was not found inherits from a filtered point that was, or    *)
(* has inherited, in the order of the rows.                                *)
Inherit(shown, row) ==
    IF row.place # NoFix /\ \E k \in 1 .. Len(Filtered(trace)) :
                               Filtered(trace)[k] \in shown /\ Near(row, Filtered(trace)[k])
    THEN shown \cup {row} ELSE shown
SnappedPoints == Loop(Inherit, snapped, trace)

-----------------------------------------------------------------------------
(* Types of the variables.                                                 *)
Pieces == [points : Seq(Points), how : {"raw", "match", "route"}, chunk : Seq(Points)]
TypeOK == /\ trace \in Seq(Rows)
          /\ phase \in {"trace", "match", "route", "done"}
          /\ todo \in Seq(Seq(Points))
          /\ drawn \in Seq(Pieces)
          /\ snapped \subseteq Points
          /\ spent \in Nat

(* The line is cut where it has to be and nowhere else: two points in a    *)
(* row of the filtered track that are at most ten minutes apart are drawn  *)
(* in one piece, across the limit of a chunk too, unless Match was asked   *)
(* for both together and itself split or lost them; and no piece joins two *)
(* that are further apart (MEJORAS_GPS.md:96).  The filter comes first: a  *)
(* longer stop at the very same coordinates is a cut, signal or not.       *)
InOnePiece(a, b) == \E n \in 1 .. Len(drawn) : {a, b} \subseteq ToSet(drawn[n].points)
AskedTogether(a, b) ==
    \E n \in 1 .. Len(drawn) : drawn[n].how = "match" /\ {a, b} \subseteq ToSet(drawn[n].chunk)

CutExactlyAtGaps == phase = "done" /\ Enabled =>
    LET kept == Filtered(trace) IN
    \A k \in 1 .. Len(kept) - 1 :
        IF kept[k + 1].time - kept[k].time <= Gap
        THEN InOnePiece(kept[k], kept[k + 1]) \/ AskedTogether(kept[k], kept[k + 1])
        ELSE ~InOnePiece(kept[k], kept[k + 1])

(* "El ajuste ... nunca impide mostrar el recorrido" (MEJORAS_GPS.md:107): *)
(* whatever the router does, there is an answer.                           *)
AlwaysAnswered == phase \in {"match", "route"} ~> phase = "done" /\ drawn # <<>>
=============================================================================
