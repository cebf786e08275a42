------------------------------- MODULE Framing -------------------------------
(***************************************************************************)
(* The accumulator of one socket (tcp/framing.js): the frames of a tracker *)
(* come out of a stream of bytes that TCP cuts where it likes.             *)
(*                                                                         *)
(* push() is synchronous: no chunk arrives inside its loop, of which each  *)
(* call of extractOne is a step here.  A frame is judged by its delimiters *)
(* alone: its CRC and content are the decoder's.  The detected protocol    *)
(* and the count of dropped bytes are only logged and left out.            *)
(***************************************************************************)
EXTENDS Integers, Sequences, FiniteSets, SequencesExt

CONSTANTS Streams,    \* what may come: noise, the frames behind it and a damaged byte
          MaxBuffer,  \* maxBufferBytes
          MaxChunk    \* bytes of the largest chunk that the socket hands over

VARIABLES stream,     \* what this socket receives
          pos,        \* how many of its bytes have been handed over
          buffer,     \* this.buffer
          frames,     \* the frames delivered
          rejected,   \* "no", "http" or "full"
          busy        \* push is in its loop

vars == <<stream, pos, buffer, frames, rejected, busy>>

Byte78 == 120
Byte79 == 121
Delimiter == 126      \* 0x7E
Semicolon == 59
Text == <<105, 109, 101, 105, 58>>      \* "imei:"
Handshake == <<35, 35>>                 \* "##"
HttpPrefixes == {<<71, 69, 84, 32>>, <<80, 79, 83, 84, 32>>, <<72, 69, 65, 68, 32>>}

(* The damage is one byte, at the place hit of the stream, or none (0).    *)
Intact == stream.hit = 0
AllOf(x) == x.noise \o FlattenSeq(x.frames)
Sent == LET b == AllOf(stream)
        IN IF Intact THEN b ELSE [b EXCEPT ![stream.hit] = stream.byte]
From(b, i) == SubSeq(b, i, Len(b))

Init == /\ stream \in Streams
        /\ pos = 0 /\ buffer = <<>> /\ frames = <<>>
        /\ rejected = "no" /\ busy = FALSE

-----------------------------------------------------------------------------
(* push. *)

IsHttp(b) == Len(b) >= 4 /\ \E p \in HttpPrefixes : IsPrefix(p, b)

TooLong(b) == Len(b) > MaxBuffer

Data(n) ==
    /\ ~busy /\ rejected = "no" /\ pos + n <= Len(Sent)
    /\ pos' = pos + n
    /\ LET b == buffer \o SubSeq(Sent, pos + 1, pos + n)
           verdict == IF IsHttp(b) THEN "http" ELSE IF TooLong(b) THEN "full" ELSE "no"
       IN /\ rejected' = verdict
          /\ buffer' = IF verdict = "no" THEN b ELSE <<>>
          /\ busy' = (verdict = "no")
    /\ UNCHANGED <<stream, frames>>

-----------------------------------------------------------------------------
(* extractOne. *)

(* A text may begin here: it does, or too few bytes are left to tell.      *)
MayBeText(b, i) ==
    /\ b[i] \in {Text[1], Handshake[1]}
    /\ \/ IsPrefix(Text, From(b, i)) \/ IsPrefix(Handshake, From(b, i))
       \/ Len(From(b, i)) < Len(Text)

Starts(b) == {i \in 1 .. Len(b) : b[i] \in {Byte78, Byte79, Delimiter} \/ MayBeText(b, i)}
Rest == From(buffer, CHOOSE i \in Starts(buffer) : \A j \in Starts(buffer) : i <= j)

Stop(b) == buffer' = b /\ busy' = FALSE /\ UNCHANGED <<stream, pos, frames, rejected>>

(* The frame at the places i .. j of b is delivered; the loop goes on.     *)
Deliver(b, i, j) == /\ frames' = Append(frames, SubSeq(b, i, j))
                    /\ buffer' = From(b, j + 1)
                    /\ UNCHANGED <<stream, pos, rejected, busy>>

Kept == 8

(* No start in the buffer, or no bytes: a short tail is kept, in case one  *)
(* was cut in two.                                                         *)
NoStart == /\ busy /\ Starts(buffer) = {}
           /\ Stop(IF Len(buffer) > Kept THEN From(buffer, Len(buffer) - Kept + 1) ELSE buffer)

(* Mutant: the length byte is taken to count the final 0D 0A. *)
FrameLengthWithoutStop(b) == IF Len(b) < 3 THEN 0 ELSE IF b[2] # b[1] THEN -1 ELSE 3 + b[3]

(* gt06.frameLength: 0 when bytes are missing, -1 when it is no GT06.      *)
FrameLength(b) ==
    IF Len(b) < 2 THEN 0
    ELSE IF b[1] = Byte78 /\ b[2] = Byte78 THEN IF Len(b) < 3 THEN 0 ELSE 5 + b[3]
    ELSE IF b[1] = Byte79 /\ b[2] = Byte79
         THEN IF Len(b) < 4 THEN 0 ELSE 6 + 256 * b[3] + b[4]
    ELSE -1

Gt06 ==
    /\ busy /\ Starts(buffer) # {} /\ Rest[1] \in {Byte78, Byte79}
    /\ LET total == FrameLength(Rest)
       IN \/ total = 0 /\ Stop(Rest)
          \/ total < 0 /\ Stop(From(Rest, 2))
          \/ total > MaxBuffer /\ Stop(From(Rest, 3))
          \/ total \in 1 .. MaxBuffer /\ Len(Rest) < total /\ Stop(Rest)
          \/ total \in 1 .. MaxBuffer /\ Len(Rest) >= total /\ Deliver(Rest, 1, total)

(* jt808.findFrame: repeated delimiters are skipped.                       *)
Bodies(b) == {i \in 2 .. Len(b) : b[i] # Delimiter}

Opening(b) == (CHOOSE i \in Bodies(b) : \A j \in Bodies(b) : i <= j) - 1
Closings(b) == {i \in 1 .. Len(b) : b[i] = Delimiter /\ Bodies(b) # {} /\ i > Opening(b)}

Jt808 ==
    /\ busy /\ Starts(buffer) # {} /\ Rest[1] = Delimiter
    /\ \/ Closings(Rest) = {} /\ Stop(Rest)
       \/ \E j \in Closings(Rest) : /\ \A k \in Closings(Rest) : j <= k
                                    /\ Deliver(Rest, Opening(Rest), j)

Gps103 ==
    /\ busy /\ Starts(buffer) # {} /\ Rest[1] \in {Text[1], Handshake[1]}
    /\ LET ends == {i \in 1 .. Len(Rest) : Rest[i] = Semicolon}
       IN \/ ends = {} /\ Stop(Rest)
          \/ \E j \in ends : (\A k \in ends : j <= k) /\ Deliver(Rest, 1, j)

Next == (\E n \in 1 .. MaxChunk : Data(n)) \/ NoStart \/ Gt06 \/ Jt808 \/ Gps103

Spec == Init /\ [][Next]_vars

-----------------------------------------------------------------------------
(* What a frame looks like from outside: its length is where its header    *)
(* says, or it ends at its only delimiter.                                 *)
IsShort(f) == f[1] = Byte78 /\ f[2] = Byte78 /\ Len(f) = 5 + f[3]
IsLong(f) == f[1] = Byte79 /\ f[2] = Byte79 /\ Len(f) = 6 + 256 * f[3] + f[4]
IsJt808(f) == f[1] = Delimiter /\ {i \in 2 .. Len(f) : f[i] = Delimiter} = {Len(f)}
IsText(f) == /\ IsPrefix(Text, f) \/ IsPrefix(Handshake, f)
             /\ {i \in 1 .. Len(f) : f[i] = Semicolon} = {Len(f)}
IsFrame(f) == Len(f) \in 4 .. MaxBuffer /\ (IsShort(f) \/ IsLong(f) \/ IsJt808(f) \/ IsText(f))

(* The byte at i begins no frame, and what follows it at the end of a      *)
(* chunk is not taken for a short text.                                    *)
Quiet(b, i) ==
    /\ b[i] \notin {Byte78, Byte79, Delimiter}
    /\ b[i] \in {Text[1], Handshake[1]} =>
          /\ ~IsPrefix(Text, From(b, i)) /\ ~IsPrefix(Handshake, From(b, i))
          /\ \A j \in 1 .. Len(b) : j - i \in 1 .. 3 => b[j] # Semicolon

(* A stream of bytes; and one of frames behind noise in which nothing      *)
(* begins.                                                                 *)
Octets(x) == /\ x.noise \in Seq(0 .. 255) /\ x.frames \in Seq(Seq(0 .. 255))
             /\ x.byte \in 0 .. 255
Readable(x) == /\ Octets(x)
               /\ \A k \in 1 .. Len(x.frames) : IsFrame(x.frames[k])
               /\ \A i \in 1 .. Len(x.noise) : Quiet(AllOf(x), i)

-----------------------------------------------------------------------------
(* Types of the variables; a delimiter alone is no frame.                  *)
TypeOK == /\ stream \in Streams
          /\ pos \in 0 .. Len(Sent)
          /\ buffer \in Seq(0 .. 255)
          /\ frames \in Seq(Seq(0 .. 255))
          /\ \A k \in 1 .. Len(frames) :
                Len(frames[k]) >= (IF frames[k][1] = Delimiter THEN 3 ELSE 2)
          /\ rejected \in {"no", "http", "full"}
          /\ busy \in BOOLEAN

(* The first k frames of the stream have arrived whole.                    *)
Arrived(k) == Len(stream.noise) + Len(FlattenSeq(SubSeq(stream.frames, 1, k))) <= pos
Whole == {k \in 0 .. Len(stream.frames) : Arrived(k)}

(* "Un chunk de TCP NO equivale a un paquete: puede llegar media trama, o  *)
(* dos pegadas, o una y media ... solo entrega tramas completas"           *)
(* (framing.js:8) and "la basura previa se descarta y la trama siguiente   *)
(* se recupera" (test/framing.test.js): however the stream is cut, the     *)
(* frames delivered are those sent, and none waits for bytes behind it.    *)
FramesAreRead ==
    rejected = "no" /\ Intact =>
        /\ IsPrefix(frames, stream.frames)
        /\ ~busy => \A k \in Whole : k <= Len(frames)
=============================================================================
