------------------------------ MODULE Tracker ------------------------------
(***************************************************************************)
(* The other end of the line: what a tracker sends and how it reads the    *)
(* answers, as scripts/simulate.js and the builders of test/ do it.        *)
(*                                                                         *)
(* A message is a record: the protocol, its number, the digits of who      *)
(* sends it, its serial, and fixes (a batch has several), or the command   *)
(* that it answers.  Coordinates are in units of five millionths of a      *)
(* degree, exact in both protocols.                                        *)
(***************************************************************************)
EXTENDS Bytes, SequencesExt

J == INSTANCE Jt808
G == INSTANCE Gt06
Txt == INSTANCE Gps103

Degrees(n) == 200000 * n

(* What a tracker may have measured; and what a message may say.           *)
Dates == {d \in [1 .. 6 -> 0 .. 99] : DateUtc(d) = d}
Fix == [lat : -Degrees(1000) .. Degrees(1000), lon : -Degrees(1000) .. Degrees(1000),
        fixed : BOOLEAN, time : Dates, speed : Byte, course : 0 .. 360, satellites : 0 .. 15,
        cut : BOOLEAN]

Abs(n) == IF n < 0 THEN -n ELSE n
Bits(b) == (IF b[1] THEN 1 ELSE 0) + (IF b[2] THEN 2 ELSE 0) + (IF b[3] THEN 4 ELSE 0)

(* payloadPosicionJt808; a fix that is cut keeps 20 of its bytes.          *)
Jt808Body(fix) ==
    LET b == <<0, 0, 0, 0, 0, 0, 0, 1 + 2 * Bits(<<fix.fixed, fix.lat < 0, fix.lon < 0>>)>>
               \o LongBytes(Abs(fix.lat) * 5) \o LongBytes(Abs(fix.lon) * 5)
               \o WordBytes(1920) \o WordBytes(fix.speed * 10) \o WordBytes(fix.course)
               \o [k \in 1 .. 6 |-> 16 * (fix.time[k] \div 10) + (fix.time[k] % 10)]
               \o <<49, 1, fix.satellites, 48, 1, 28>>
    IN IF fix.cut THEN SubSeq(b, 1, 20) ELSE b

(* payloadPosicionGt06.                                                    *)
Gt06Payload(fix) ==
    fix.time \o <<192 + fix.satellites>>
      \o LongBytes(Abs(fix.lat) * 9) \o LongBytes(Abs(fix.lon) * 9) \o <<fix.speed>>
      \o WordBytes(1024 * Bits(<<fix.lat >= 0, fix.lon < 0, fix.fixed>>) + fix.course)
      \o <<1, 78, 20, 26, 43, 60, 77, 94>>

(* The batch 0x0704 of test/jt808.test.js: 1 marks what was kept offline.  *)
BatchBody(fixes) ==
    WordBytes(Len(fixes)) \o <<1>>
      \o FlattenSeq([k \in 1 .. Len(fixes) |->
                       WordBytes(Len(Jt808Body(fixes[k]))) \o Jt808Body(fixes[k])])

(* responderComando: the answer carries the flag of the command.           *)
Respond(frame, answer, serial) ==
    LET p == SubSeq(frame, 5, Len(frame) - 6)
    IN G!EncodeFrame(G!StringPacket,
                     <<4 + Len(answer)>> \o SubSeq(p, 2, 5) \o answer \o WordBytes(2), serial)

Jt808Frame(m) ==
    J!BuildFrame(m.id, m.digits,
                 CASE m.id = J!LocationMsg -> Jt808Body(m.fixes[1])
                   [] m.id = J!LocationBatch -> BatchBody(m.fixes)
                   [] m.id = J!Auth -> J!Ascii(m.digits)
                   [] m.id = J!Register -> <<0, 44, 0, 100, 83, 69, 69, 87, 79>>
                   [] OTHER -> <<>>,
                 m.serial, 6)

Gt06Frame(m) ==
    IF m.id = G!StringPacket
    THEN Respond(G!CommandFrame(m.command, m.flag, m.serial), m.text, m.serial)
    ELSE G!EncodeFrame(m.id,
                       CASE m.id = G!Login -> BcdEncode(m.digits, 8)
                         [] m.id = G!LocationPacket -> Gt06Payload(m.fixes[1])
                         [] m.id = G!Alarm -> Gt06Payload(m.fixes[1]) \o <<70, 6, 4>>
                                                \o m.text \o <<2>>
                         [] m.id = G!Status -> <<70, 4, 4, 0, 1>>
                         [] OTHER -> <<>>,
                       m.serial)

(* Numbers in ASCII, of n digits.                                          *)
Tens == <<1, 10, 100, 1000>>
Decimals(v, n) == [k \in 1 .. n |-> 48 + ((v \div Tens[n - k + 1]) % 10)]

(* Degrees and minutes with four decimals; n digits of degrees.            *)
Minutes(v, n) == Decimals(v \div 600000, n) \o Decimals((v % 600000) \div 10000, 2)
                   \o <<46>> \o Decimals(v % 10000, 4)

(* The texts of gps103.js and test/framing.test.js.                        *)
Report(m, fix) ==
    LET Two(k) == Decimals(fix.time[k], 2)
    IN <<m.text, Two(1) \o Two(2) \o Two(3) \o Two(4) \o Two(5), <<>>, <<70>>,
         Two(4) \o Two(5) \o Two(6) \o <<46, 48, 48, 48>>, <<IF fix.fixed THEN 65 ELSE 86>>,
         Minutes(3 * Abs(fix.lat), 2), <<IF fix.lat < 0 THEN 83 ELSE 78>>,
         Minutes(3 * Abs(fix.lon), 3), <<IF fix.lon < 0 THEN 87 ELSE 69>>,
         Decimals(fix.speed, 3) \o <<46, 53>>, Decimals(fix.course, 3)>>

Joined(fields) == FlattenSeq([k \in 1 .. Len(fields) |-> <<Txt!Comma>> \o fields[k]])

TextFrame(m) ==
    LET imei == Txt!Prefix \o J!Ascii(m.digits)
    IN CASE m.id = Txt!Login -> <<35, 35, Txt!Comma>> \o imei \o Txt!Accept \o <<59>>
         [] m.id = Txt!Heartbeat -> imei \o <<59>>
         [] m.id = Txt!Event -> imei \o <<Txt!Comma>> \o m.text \o <<Txt!Comma, 59>>
         [] m.id = Txt!Report -> imei \o Joined(Report(m, m.fixes[1])) \o <<59>>

Frame(m) == CASE m.protocol = "jt808" -> Jt808Frame(m)
              [] m.protocol = "gt06" -> Gt06Frame(m)
              [] m.protocol = "gps103" -> TextFrame(m)

-----------------------------------------------------------------------------
(* What a tracker may mean: an IMEI in a login, one fix in a report, as    *)
(* many as fit in a batch, an alarm of one byte, a text without zeros in   *)
(* the answer to a command, fields without commas and degrees of no more   *)
(* than two and three digits in a text.                                    *)

Gt06Meant(m) ==
    /\ m.serial \in TwoBytes
    /\ \/ m.id = G!Login /\ m.digits \in [1 .. 15 -> 0 .. 9] /\ m.fixes = <<>>
       \/ m.id \in {G!Status, G!TimeRequest} /\ m.fixes = <<>>
       \/ /\ m.id \in {G!LocationPacket, G!Alarm}
          /\ m.fixes \in Seq(Fix) /\ Len(m.fixes) = 1 /\ ~m.fixes[1].cut
          /\ m.id = G!Alarm => \E code \in Byte : m.text = <<code>>
       \/ /\ m.id = G!StringPacket /\ m.fixes = <<>>
          /\ m.command \in Seq(Byte) /\ Len(m.command) \in 2 .. 180
          /\ m.flag \in [1 .. 4 -> Byte]
          /\ m.text \in Seq(1 .. 255) /\ Len(m.text) <= 243

Jt808Meant(m) ==
    /\ m.serial \in TwoBytes
    /\ m.digits \in Seq(0 .. 9) /\ Len(m.digits) \in 1 .. 12 /\ m.digits[1] # 0
    /\ \/ m.id \in {J!Register, J!Auth, J!Heartbeat, J!Logout} /\ m.fixes = <<>>
       \/ m.id = J!LocationMsg /\ m.fixes \in Seq(Fix) /\ Len(m.fixes) = 1
       \/ m.id = J!LocationBatch /\ m.fixes \in Seq(Fix) /\ Len(m.fixes) <= 28

TextMeant(m) ==
    /\ m.digits \in Seq(0 .. 9) /\ m.digits # <<>>
    /\ m.text \in Seq(Byte \ {Txt!Comma})
    /\ \/ m.id \in {Txt!Login, Txt!Heartbeat, Txt!Event} /\ m.fixes = <<>>
       \/ /\ m.id = Txt!Report
          /\ m.fixes \in Seq(Fix) /\ Len(m.fixes) = 1
          /\ Abs(m.fixes[1].lat) < Degrees(100) /\ Abs(m.fixes[1].lon) < Degrees(1000)

Meant(m) == CASE m.protocol = "jt808" -> Jt808Meant(m)
              [] m.protocol = "gt06" -> Gt06Meant(m)
              [] m.protocol = "gps103" -> TextMeant(m)
              [] OTHER -> FALSE

-----------------------------------------------------------------------------
(* What the message says, whatever the bytes are.                          *)

(* A point on the Earth that is not the 0,0 of a receiver without a fix.   *)
Somewhere(fix) == /\ fix.fixed
                  /\ Abs(fix.lat) <= Degrees(90) /\ Abs(fix.lon) <= Degrees(180)
                  /\ <<fix.lat, fix.lon>> # <<0, 0>>

(* Does the decoded position say what the fix was?                         *)
Point(fix, scale) == <<scale * fix.lat, scale * fix.lon>>
SaysFix(position, fix, scale, speed) ==
    /\ position.point = IF Somewhere(fix) THEN Point(fix, scale) ELSE <<>>
    /\ position.time = fix.time
    /\ position.speed = speed * fix.speed
    /\ position.course = <<fix.course>>
    /\ position.satellites = <<fix.satellites>>

(* The fixes that were not cut.                                            *)
WholeFixes(m) ==
    Loop([whole \in Seq(Fix) |-> [fix \in Fix |-> IF fix.cut THEN whole ELSE Append(whole, fix)]],
         <<>>, m.fixes)

(* A text says 0,0 too; it has half a knot more than the speed.            *)
SaysTextFix(position, fix) ==
    /\ position.point = IF Somewhere([fix EXCEPT !.lat = IF @ = 0 THEN 1 ELSE @])
                        THEN Point(fix, 3) ELSE <<>>
    /\ position.time = fix.time
    /\ position.speed = <<100 * fix.speed + 50>> /\ position.course = <<100 * fix.course>>

SaysText(read, m) ==
    /\ read.from = m.digits
    /\ read.type = CASE m.id = Txt!Login -> "login" [] m.id = Txt!Heartbeat -> "heartbeat"
                     [] m.id = Txt!Event -> "evento"
                     [] m.id = Txt!Report -> IF m.text = Txt!Tracker THEN "posicion" ELSE "alarma"
    /\ Len(read.positions) = Len(m.fixes)
    /\ \A k \in 1 .. Len(m.fixes) : SaysTextFix(read.positions[k], m.fixes[k])
    /\ read.type = "alarma" => read.alarm = m.text

(* Does the decoded message say what the tracker meant?                    *)
SaysBinary(read, m) ==
    /\ read.id = m.id /\ read.serial = m.serial
    /\ Len(read.positions) = Len(WholeFixes(m))
    /\ \A k \in 1 .. Len(read.positions) :
          IF m.protocol = "jt808" THEN SaysFix(read.positions[k], WholeFixes(m)[k], 5, 10)
          ELSE SaysFix(read.positions[k], WholeFixes(m)[k], 9, 1)
    /\ m.protocol = "jt808" \/ m.id = G!Login => read.from = m.digits
    /\ m.protocol = "gt06" => /\ m.id = G!StringPacket => read.flag = m.flag /\ read.text = m.text
                              /\ m.id = G!Alarm => read.alarm = m.text
    /\ (\A k \in 1 .. Len(m.fixes) : Somewhere(m.fixes[k]) /\ ~m.fixes[k].cut)
         => read.errors = {}

Says(read, m) == IF m.protocol = "gps103" THEN SaysText(read, m) ELSE SaysBinary(read, m)

-----------------------------------------------------------------------------
(* How the tracker reads what comes back.                                  *)

(* test/jt808.test.js:134: of a frame with the old header.                 *)
AnswersJt808(reply, m) ==
    LET data == J!Unescape(SubSeq(reply, 2, Len(reply) - 1))
        body == SubSeq(data, 13, Len(data) - 1)
    IN /\ \A i \in 1 .. Len(reply) : reply[i] = J!Delimiter <=> i \in {1, Len(reply)}
       /\ XorChecksum(SubSeq(data, 1, Len(data) - 1)) = data[Len(data)]
       /\ J!Terminal(Part(data, 5, 6)) = m.digits
       /\ Len(body) = Word(data, 3)
       /\ IF m.id = J!Register
          THEN /\ Word(data, 1) = J!RegisterResponse
               /\ body = WordBytes(m.serial) \o <<0>> \o J!Ascii(m.digits)
          ELSE /\ Word(data, 1) = J!PlatformResponse
               /\ body = WordBytes(m.serial) \o WordBytes(m.id) \o <<0>>

(* gt06.parseFrame, which the simulator reads with.                        *)
AnswersGt06(reply, m) ==
    /\ Len(reply) = reply[3] + 5 /\ reply[4] = m.id
    /\ G!FrameErrors(reply, 4) = {}
    /\ Word(reply, Len(reply) - 5) = m.serial

MustBeAnswered(m) ==
    m.id \in CASE m.protocol = "jt808" -> {J!Register, J!Auth, J!Heartbeat, J!Logout,
                                          J!LocationMsg, J!LocationBatch}
               [] m.protocol = "gt06" -> {G!Login, G!Status, G!Alarm, G!TimeRequest}
               [] m.protocol = "gps103" -> {Txt!Login, Txt!Heartbeat}

AnswersText(reply, m) == reply = IF m.id = Txt!Login THEN Txt!Load ELSE Txt!On

Answers(reply, m) ==
    IF ~MustBeAnswered(m) THEN reply = <<>>
    ELSE /\ reply # <<>>
         /\ CASE m.protocol = "jt808" -> AnswersJt808(reply, m)
              [] m.protocol = "gt06" -> AnswersGt06(reply, m)
              [] m.protocol = "gps103" -> AnswersText(reply, m)
=============================================================================
