------------------------------- MODULE MCWire -------------------------------
(* Finite instances of Wire for TLC: what the socket of a tracker receives. *)
EXTENDS Wire

Stream(noise, said, sent) ==
    [noise |-> noise, frames |-> sent, said |-> said, hit |-> 0, byte |-> 0]
Plain(noise, sent) == Stream(noise, <<>>, sent)
Talk(said) == Stream(<<>>, said, [k \in 1 .. Len(said) |-> Frame(said[k])])

-----------------------------------------------------------------------------
(* Frames that only have delimiters, behind noise. *)

Short == <<120, 120, 1, 126, 13, 10>>            \* GT06, with a 0x7E inside
Long16 == <<121, 121, 0, 2, 59, 120, 13, 10>>    \* GT06 of 16-bit length
Terminal == <<126, 2, 120, 126>>                 \* JT808, with a 0x78 inside
Hello == <<35, 35, 44, 59>>                      \* ##,;
Beat  == <<105, 109, 101, 105, 58, 49, 59>>      \* imei:1;

(* Noise without a start, shorter and longer than the tail, or that ends   *)
(* like one.                                                               *)
Noises == {<<>>, <<0>>, <<22, 3, 1>>, [i \in 1 .. 10 |-> 17], <<17, 105>>}

Mixed == {<<Short, Long16>>, <<Short, Terminal, Short>>, <<Terminal, Terminal>>,
          <<Hello, Beat>>, <<Beat, Short>>, <<Long16, Beat>>}

Requests == {Plain(p \o <<47>>, <<>>) : p \in HttpPrefixes}
Endless == Plain(Text \o [i \in 1 .. MaxBuffer |-> 49], <<>>)
Broken == {Plain(<<120, 0, 0>>, <<>>), Plain(<<121, 121, 255, 255, 0>>, <<>>),
           Plain(<<126, 126, 126>>, <<>>)}
Repeated == Plain(<<Delimiter, Delimiter>>, <<Terminal, Short>>)

Delimited == {Plain(noise, sent) : noise \in Noises, sent \in Mixed}
               \cup Requests \cup Broken \cup {Endless, Repeated}

-----------------------------------------------------------------------------
(* Conversations. *)

(* 20.28 N, 99.99 W: their bytes hold 7D 7E and 7D 02; and the south and   *)
(* the east, no fix, 0,0 and a place off the Earth.                        *)
Home == [lat |-> 4056550, lon |-> -19837594, fixed |-> TRUE, time |-> <<25, 8, 12, 17, 30, 0>>,
         speed |-> 40, course |-> 90, satellites |-> 11, cut |-> FALSE]
Far == [Home EXCEPT !.lat = -4027194, !.lon = 19850701, !.time = <<24, 2, 29, 23, 59, 59>>]
Fixes == {Home, Far, [Home EXCEPT !.fixed = FALSE], [Home EXCEPT !.lat = 0, !.lon = 0],
          [Home EXCEPT !.lat = 18000001], [Home EXCEPT !.lon = -36000001],
          [Home EXCEPT !.lat = -18000000, !.lon = 36000000]}

Number == <<8, 4, 0, 6, 2, 0, 2, 0, 4, 4, 7, 3>>
Imei == <<3, 5, 1>> \o Number
Serials == {5, 32126, 32381}      \* 0005, 7D7E, 7E7D

Message(protocol, id, digits, serial) ==
    [protocol |-> protocol, id |-> id, digits |-> digits, serial |-> serial, fixes |-> <<>>,
     command |-> <<>>, flag |-> <<>>, text |-> <<>>]
Terminals(id, serial) == Message("jt808", id, Number, serial)
Padded == Message("jt808", J!Heartbeat, <<4, 7, 3>>, 1)
Gps(id, serial) == Message("gt06", id, Imei, serial)
Written(id, event) == [Message("gps103", id, Imei, 0) EXCEPT !.text = event]
With(m, fixes) == [m EXCEPT !.fixes = fixes]

Answer == [Gps(G!StringPacket, 3) EXCEPT !.command = <<83, 84, 35>>, !.flag = <<0, 1, 126, 7>>,
                                         !.text = <<79, 75>>]
Sos == [With(Gps(G!Alarm, 4), <<Home>>) EXCEPT !.text = <<1>>]

Talks ==
    {<<Terminals(J!Register, s), Terminals(J!Auth, s), Terminals(J!Logout, 9)>> : s \in Serials}
    \cup {<<With(Terminals(J!LocationMsg, 6), <<fix>>), Padded>> : fix \in Fixes}
    \cup {<<With(Terminals(J!LocationBatch, 7), <<Home, [Far EXCEPT !.cut = TRUE], Far>>)>>,
          <<Gps(G!Login, 1), Gps(G!Status, 2), Answer>>,
          <<Sos, Gps(G!TimeRequest, 32381), Answer>>}
    \cup {<<With(Gps(G!LocationPacket, 2), <<fix>>), Gps(G!Status, 30840)>> : fix \in Fixes}
    \cup {<<Written(Txt!Login, <<>>), Written(Txt!Heartbeat, <<>>), Written(Txt!Event, <<97, 99>>)>>,
          <<With(Written(Txt!Report, <<115, 111, 115>>), <<Home>>), Written(Txt!Heartbeat, <<>>)>>}
    \cup {<<With(Written(Txt!Report, Txt!Tracker), <<fix>>)>> : fix \in Fixes}

(* A byte of the first frame is replaced; 124 undoes an escape unnoticed   *)
(* by the checksum.                                                        *)
Damages(said) ==
    {[Talk(said) EXCEPT !.hit = at, !.byte = byte] :
        at \in 1 .. Len(Frame(said[1])), byte \in {0, 120, 124, 125, 126}}

Damaged == UNION {Damages(<<Terminals(J!Heartbeat, 32381), Terminals(J!Heartbeat, 8)>>),
                  Damages(<<Gps(G!Status, 1), Gps(G!Status, 2)>>)}

Today == <<25, 8, 12, 17, 31, 0>>

AllStreams == Delimited \cup {Talk(said) : said \in Talks} \cup Damaged
(* What the proofs suppose of a stream: these are bytes, and all but what  *)
(* is malformed on purpose is readable, and is spoken as it is meant.      *)
ASSUME StreamsAreBytes == \A s \in AllStreams : Octets(s)
ASSUME MostAreReadable ==
    \A s \in AllStreams \ (Broken \cup {Endless, Repeated}) : Readable(s) /\ Spoken(s)
=============================================================================
