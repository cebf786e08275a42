-------------------------------- MODULE Wire --------------------------------
(***************************************************************************)
(* The line of one tracker: the accumulator of its socket (Framing), the   *)
(* decoder that each frame goes through and the answers that are written   *)
(* back (manejarTrama, tcp/server.js).  The frames of a socket are handled *)
(* one after another, while bytes go on arriving.  What is stored between  *)
(* decoding and answering is PositionIngest.                               *)
(***************************************************************************)
EXTENDS Framing, Tracker

CONSTANT Now    \* the date of the server, for trackers that ask for it
ASSUME NowAssumption == Now \in [1 .. 6 -> Byte]

VARIABLES read,     \* what each frame was decoded to
          replies,  \* what was answered to each, or nothing
          platformSerial

wireVars == <<vars, read, replies, platformSerial>>

ServeInit == Init /\ read = <<>> /\ replies = <<>> /\ platformSerial = 0

Receive == Next /\ UNCHANGED <<read, replies, platformSerial>>

(* decodeFrame.                                                            *)
Decoded(frame) ==
    IF frame[1] = Delimiter THEN J!Decode(frame)
    ELSE IF frame[1] \in {Byte78, Byte79} THEN G!Decode(frame)
    ELSE Txt!Decode(frame)

(* Each answer of JT808 takes the next serial of the platform.             *)
NextPlatformSerial == (platformSerial + 1) % 65536

ReplyTo(frame, m) == IF frame[1] = Delimiter THEN J!Reply(m, NextPlatformSerial)
                     ELSE IF frame[1] \in {Byte78, Byte79} THEN G!Reply(m, Now)
                     ELSE Txt!Reply(m)

(* manejarTrama.  Nothing is written to a socket that was destroyed.       *)
Handle == /\ Len(read) < Len(frames)
          /\ LET frame == frames[Len(read) + 1]
                 m == Decoded(frame)
                 reply == ReplyTo(frame, m)
             IN /\ read' = Append(read, m)
                /\ replies' = Append(replies, IF rejected = "no" THEN reply ELSE <<>>)
                /\ platformSerial' = IF frame[1] = Delimiter /\ reply # <<>>
                                     THEN NextPlatformSerial ELSE platformSerial
          /\ UNCHANGED vars

ServeNext == Receive \/ Handle

Serve == ServeInit /\ [][ServeNext]_wireVars

-----------------------------------------------------------------------------
(* The first frames are of messages that a tracker may mean.               *)
Spoken(x) ==
    /\ Readable(x)
    /\ \A k \in 1 .. Len(x.frames) :
          k <= Len(x.said) => Meant(x.said[k]) /\ x.frames[k] = Frame(x.said[k])

(* However TCP cuts the stream and whatever bytes the escape had to hide,  *)
(* each message is read as it was meant: its sender, its serial, its fixes *)
(* with their signs and their dates, and none where there is no fix; an    *)
(* item of a batch that cannot be read costs no other ("un payload más     *)
(* corto de lo esperado no tumba el decoder", test/gt06.test.js:338).      *)
ReadAsMeant ==
    Intact /\ rejected = "no" =>
        \A k \in 1 .. Len(read) :
            k <= Len(stream.said) => Says(read[k], stream.said[k])

(* A byte that is damaged on the way is noticed: what is decoded without   *)
(* errors is one of the frames that were sent, and they are in order.      *)
Clean == SelectSeq([k \in 1 .. Len(read) |-> k],
                   LAMBDA k : frames[k][1] \notin {Text[1], Handshake[1]} /\ read[k].errors = {})
DamageIsNoticed ==
    ~Intact => \E at \in [1 .. Len(Clean) -> 1 .. Len(stream.frames)] :
                  /\ \A k \in 1 .. Len(Clean) : frames[Clean[k]] = stream.frames[at[k]]
                  /\ \A k \in 2 .. Len(Clean) : at[k - 1] < at[k]

(* A tracker that expects an answer gets one that it can read, cut out of  *)
(* what comes back, to that message and no other; a login without one goes *)
(* into a loop of reconnections (gt06.js:533).                             *)
EachIsAnswered ==
    Intact /\ rejected = "no" =>
        \A k \in 1 .. Len(replies) :
            k <= Len(stream.said) => Answers(replies[k], stream.said[k])
=============================================================================
