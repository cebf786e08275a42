--------------------------- MODULE PositionJournal ---------------------------
(***************************************************************************)
(* What the server promises of the positions of a device, whatever its     *)
(* sockets, the queries that fail and the restarts do: a journal to which  *)
(* they are appended, the interface that is told of them, and the tracker, *)
(* which erases what it gets an answer for.  PositionIngest is shown to    *)
(* implement it.                                                           *)
(***************************************************************************)
EXTENDS Naturals, Sequences

CONSTANTS Sockets, Times,
          NoTime,      \* of a position that is never a retransmission
          MaxItems     \* positions of one frame, at most

VARIABLES received,    \* the frames: their socket and the times of their positions
          journal,     \* the positions, in the order they were written
          missed,      \* those whose writing failed: <<frame, item>>
          announced,   \* the places of the journal that the interface was told of
          answered     \* the frames with an answer

vars == <<received, journal, missed, announced, answered>>

Init == /\ received = <<>> /\ journal = <<>>
        /\ missed = {} /\ announced = {} /\ answered = {}

Entry(f, n) == [stamp |-> received[f].stamps[n], frame |-> f, item |-> n]

Before(f, n, g, m) == f < g \/ (f = g /\ n < m)

(* An attempt is over for the item, with an entry or without.              *)
Tried == missed \cup {<<journal[r].frame, journal[r].item>> : r \in DOMAIN journal}

(* The items of a socket take their turns, and each has one.               *)
InTurn(f, n) ==
    \A tried \in Tried : received[tried[1]].socket = received[f].socket
                         => Before(tried[1], tried[2], f, n)

Fresh(stamp) == stamp = NoTime \/ \A r \in DOMAIN journal : journal[r].stamp # stamp

(* One frame more.                                                         *)
Receive == /\ DOMAIN received' # DOMAIN received
           /\ \E s \in Sockets : \E stamps \in UNION {[1 .. n -> Times] : n \in 0 .. MaxItems} :
                 received' = Append(received, [socket |-> s, stamps |-> stamps])
           /\ UNCHANGED <<journal, missed, announced, answered>>

Write(f, n) == /\ journal' = Append(journal, Entry(f, n))
               /\ Fresh(received[f].stamps[n])

Store(f, n) == /\ Write(f, n)
               /\ InTurn(f, n)
               /\ UNCHANGED <<received, missed, announced, answered>>

(* The failure is noticed, but the position may have been written.         *)
Miss(f, n) == /\ missed' = missed \cup {<<f, n>>}
              /\ InTurn(f, n)
              /\ Write(f, n) \/ UNCHANGED journal
              /\ UNCHANGED <<received, announced, answered>>

(* Each entry at most once, before its frame is answered, and those of a   *)
(* socket in the order of the journal.                                     *)
Announce(r) ==
    /\ announced' = announced \cup {r}
    /\ journal[r].frame \notin answered
    /\ <<journal[r].frame, journal[r].item>> \notin missed
    /\ \A q \in announced :
          received[journal[q].frame].socket = received[journal[r].frame].socket => q < r
    /\ UNCHANGED <<received, journal, missed, answered>>

(* Of a position with a time the journal has that time; one without has an *)
(* entry of its own.                                                       *)
Held(f, n) == \E r \in DOMAIN journal :
                 /\ journal[r].stamp = received[f].stamps[n]
                 /\ journal[r].stamp = NoTime => journal[r].frame = f /\ journal[r].item = n

(* The answer comes when each position of the frame is held, and the       *)
(* interface knows of those that this frame brought.                       *)
Answer(f) ==
    /\ answered' = answered \cup {f}
    /\ \A n \in DOMAIN received[f].stamps : <<f, n>> \in missed \/ Held(f, n)
    /\ \A r \in DOMAIN journal :
          journal[r].frame = f => r \in announced \/ <<f, journal[r].item>> \in missed
    /\ UNCHANGED <<received, journal, missed, announced>>

Next == \/ Receive
        \/ \E f \in DOMAIN received \ answered :
              \/ \E n \in DOMAIN received[f].stamps : Store(f, n) \/ Miss(f, n)
              \/ Answer(f)
        \/ \E r \in DOMAIN journal \ announced : Announce(r)

Spec == Init /\ [][Next]_vars
=============================================================================
