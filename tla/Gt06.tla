------------------------------- MODULE Gt06 -------------------------------
(***************************************************************************)
(* The GT06 decoder (protocols/gt06.js), as functions of the bytes of one  *)
(* frame, and the frames that the server sends: acknowledgements, the hour *)
(* and commands.  Attributes that are only shown are left out.             *)
(***************************************************************************)
EXTENDS Bytes

Login == 1
LocationPacket == 18     \* 0x12
Status == 19             \* 0x13
StringPacket == 21       \* 0x15
Alarm == 22              \* 0x16
CommandResponse == 33    \* 0x21
LocationExt == 34        \* 0x22
Command == 128           \* 0x80
TimeRequest == 138       \* 0x8A
Info == 148              \* 0x94
StopBytes == <<13, 10>>

-----------------------------------------------------------------------------
(* encodeFrame, and what is built with it. *)

EncodeFrame(number, payload, serial) ==
    LET content == <<Len(payload) + 5, number>> \o payload \o WordBytes(serial)
    IN <<120, 120>> \o content \o WordBytes(CrcItu(content)) \o StopBytes

(* buildTimeResponse; the date is that of the server.                      *)
TimeResponse(serial, date) == EncodeFrame(TimeRequest, date, serial)

(* buildCommandFrame: of a text of 2 to 180 printable characters.          *)
CommandFrame(text, flag, serial) ==
    EncodeFrame(Command, <<4 + Len(text)>> \o flag \o text \o WordBytes(2), serial)

(* buildReply; an acknowledgement has no payload.                          *)
Reply(m, date) ==
    IF m.id \in {Login, Status, Alarm} THEN EncodeFrame(m.id, <<>>, m.serial)
    ELSE IF m.id = TimeRequest THEN TimeResponse(m.serial, date)
    ELSE <<>>

-----------------------------------------------------------------------------
(* The payloads. *)

(* A terminal of 16 digits loses the zero that fills it up to them.        *)
Imei(b) == LET d == Digits(b) IN IF d[1] = 0 THEN Tail(d) ELSE d

GpsSize == 18

(* Mutant: bit 11 is read as its name says, on for the east. *)
PointEast(b) ==
    IF ~Bit(b[17], 4) THEN <<>>
    ELSE <<Signed(~Bit(b[17], 2), Long(b, 8)), Signed(~Bit(b[17], 3), Long(b, 12))>>

(* Bits 10, 11 and 12 of the flags: north, west and fixed.                 *)
Point(b) ==
    IF \/ LongAbove(b, 8, 162000000) \/ LongAbove(b, 12, 324000000)
       \/ \A i \in 8 .. 15 : b[i] = 0
       \/ ~Bit(b[17], 4)
    THEN <<>>
    ELSE <<Signed(~Bit(b[17], 2), Long(b, 8)), Signed(Bit(b[17], 3), Long(b, 12))>>

(* readGpsBlock of GpsSize bytes or more.                                  *)
Position(b) ==
    LET course == Word(b, 17) % 1024
        time == DateUtc(Part(b, 1, 6))
    IN [point |-> Point(b), time |-> time, speed |-> b[16],
        course |-> IF course <= 360 THEN <<course>> ELSE <<>>,
        satellites |-> <<b[7] % 16>>,
        errors |-> (IF course > 360 THEN {"rumbo"} ELSE {})
              \cup (IF LongAbove(b, 8, 162000000) \/ LongAbove(b, 12, 324000000)
                    THEN {"rango"} ELSE {})
              \cup (IF time = <<>> THEN {"fecha"} ELSE {})]

(* What follows the GPS block in an alarm: the cell, of one byte more if   *)
(* its length is there, then three bytes and the word of the alarm.        *)
AlarmCode(b) ==
    LET lte == Len(b) - GpsSize >= 15 /\ b[GpsSize + 1] = 9
        cell == IF lte THEN 10 ELSE 8
        after == GpsSize + (IF Len(b) - GpsSize >= cell THEN cell ELSE 0)
    IN IF Len(b) >= after + 5 THEN <<b[after + 4]>> ELSE <<>>

(* decodeString: the flag of a command, and the text without final zeros.  *)
TextOf(b) ==
    LET first == IF Len(b) >= 5 THEN 6 ELSE 2
        shown == {i \in first .. Len(b) : i < first + b[1] - 4 /\ b[i] # 0}
    IN IF shown = {} THEN <<>>
       ELSE SubSeq(b, first, CHOOSE i \in shown : \A j \in shown : j <= i)
FlagOf(b) == IF Len(b) >= 5 THEN Part(b, 2, 4) ELSE <<>>

-----------------------------------------------------------------------------
(* decode, of a frame of the length that its header says. *)

Unread == [type |-> "invalido", errors |-> {"corto"}, from |-> <<>>, serial |-> 0, id |-> 0,
           positions |-> <<>>, alarm |-> <<>>, flag |-> <<>>, text |-> <<>>]

Names == [id \in {Login, LocationPacket, LocationExt, Status, Alarm, TimeRequest,
                  StringPacket, CommandResponse, Info}
            |-> CASE id = Login -> "login"
                  [] id \in {LocationPacket, LocationExt} -> "posicion"
                  [] id = Status -> "heartbeat"
                  [] id = Alarm -> "alarma"
                  [] id = TimeRequest -> "solicitud_hora"
                  [] id \in {StringPacket, CommandResponse} -> "texto"
                  [] id = Info -> "informacion"]

(* The bytes that a payload of this kind may not lack.                     *)
Needed(id) == IF id = Login THEN 8
              ELSE IF id \in {LocationPacket, LocationExt, Alarm} THEN GpsSize ELSE 0

Content(id, b) ==
    LET m == [from |-> <<>>, positions |-> <<>>, alarm |-> <<>>, flag |-> <<>>, text |-> <<>>,
              errors |-> {}]
    IN IF Len(b) < Needed(id) THEN [m EXCEPT !.errors = {"corto"}]
       ELSE IF id = Login THEN [m EXCEPT !.from = Imei(Part(b, 1, 8))]
       ELSE IF id \in {LocationPacket, LocationExt, Alarm}
            THEN [m EXCEPT !.positions = <<Position(b)>>, !.errors = Position(b).errors,
                           !.alarm = IF id = Alarm THEN AlarmCode(b) ELSE <<>>]
       ELSE IF id = Status /\ Len(b) >= 5 THEN [m EXCEPT !.alarm = <<b[4]>>]
       ELSE IF id \in {StringPacket, CommandResponse} /\ b # <<>>
            THEN [m EXCEPT !.flag = FlagOf(b), !.text = TextOf(b)]
       ELSE m

(* The CRC goes from the length to the serial.                             *)
FrameErrors(frame, first) ==
    LET crcAt == Len(frame) - 3
    IN (IF Part(frame, crcAt + 2, 2) # StopBytes THEN {"terminador"} ELSE {})
       \cup (IF Word(frame, crcAt) # CrcItu(SubSeq(frame, 3, crcAt - 1)) THEN {"crc"} ELSE {})

Decode(frame) ==
    LET first == IF frame[1] = 121 THEN 5 ELSE 4
        number == frame[first]
        serialAt == Len(frame) - 5
        content == Content(number, SubSeq(frame, first + 1, serialAt - 1))
    IN IF first + 1 > serialAt THEN Unread
       ELSE [type |-> IF number \in DOMAIN Names THEN Names[number] ELSE "desconocido",
             errors |-> FrameErrors(frame, first) \cup content.errors,
             from |-> content.from, serial |-> Word(frame, serialAt), id |-> number,
             positions |-> content.positions, alarm |-> content.alarm,
             flag |-> content.flag, text |-> content.text]
=============================================================================
