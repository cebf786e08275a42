------------------------------- MODULE Jt808 -------------------------------
(***************************************************************************)
(* The JT/T 808 decoder (protocols/jt808.js), as functions of the bytes of *)
(* one frame: what is read from it, what is wrong with it and how it is    *)
(* answered.  Attributes that are only shown are left out.                 *)
(***************************************************************************)
EXTENDS Bytes

Delimiter == 126
EscapeByte == 125

TerminalResponse == 1
Heartbeat == 2
Logout == 3
Register == 256          \* 0x0100
Auth == 258              \* 0x0102
LocationMsg == 512       \* 0x0200
LocationBatch == 1796    \* 0x0704
PlatformResponse == 32769   \* 0x8001
RegisterResponse == 33024   \* 0x8100

-----------------------------------------------------------------------------
(* The escape of 7D and 7E inside a frame. *)

Pairs(b) == {i \in 1 .. Len(b) - 1 : b[i] = EscapeByte /\ b[i + 1] \in {1, 2}}

Unescape(b) ==
    LET pairs == Pairs(b)
        step == [out \in Seq(Byte) |-> [i \in 1 .. Len(b) |->
                   IF i - 1 \in pairs THEN out
                   ELSE Append(out, IF i \in pairs THEN 124 + b[i + 1] ELSE b[i])]]
    IN  Loop(step, <<>>, [i \in 1 .. Len(b) |-> i])

Malformed(b) == \E i \in 1 .. Len(b) : b[i] = EscapeByte /\ i \notin Pairs(b)

Escape(b) ==
    Loop([out \in Seq(Byte) |-> [x \in Byte |->
            out \o IF x \in {EscapeByte, Delimiter} THEN <<EscapeByte, x - 124>> ELSE <<x>>]],
         <<>>, b)

-----------------------------------------------------------------------------
(* The body of a position. *)

(* parseBcdDateUtc.                                                        *)
BcdDate(b) ==
    LET d == Digits(b)
    IN IF \E k \in 1 .. 12 : d[k] > 9 THEN <<>>
       ELSE DateUtc([k \in 1 .. 6 |-> 10 * d[2 * k - 1] + d[2 * k]])

(* decodeExtras, from the place first: the satellites, and whether an      *)
(* element says it is longer than what is left.  Each turn takes two bytes *)
(* or more, so there are no more turns than bytes.                         *)
Elements == [at : Nat \ {0}, satellites : Seq(Byte), cut : BOOLEAN]
NextElement(b, e) ==
    IF e.at + 1 > Len(b) THEN e
    ELSE LET size == b[e.at + 1]
         IN  IF e.at + 1 + size > Len(b) THEN [e EXCEPT !.at = Len(b), !.cut = TRUE]
             ELSE [e EXCEPT !.at = @ + 2 + size,
                            !.satellites = IF b[e.at] = 49 /\ size = 1 THEN <<b[e.at + 2]>> ELSE @]
Extras(b, first) ==
    Loop([e \in Elements |-> [x \in Byte |-> NextElement(b, e)]],
         [at |-> first, satellites |-> <<>>, cut |-> FALSE], b)

(* The lowest bit of the word of alarms names the alarm.                   *)
AlarmBit(b) ==
    LET on == {k \in 0 .. 31 : Bit(b[4 - k \div 8], k % 8)}
    IN IF on = {} THEN <<>> ELSE <<CHOOSE k \in on : \A j \in on : k <= j>>

BodySize == 28

(* Without a fix, out of range or at zero there is no point.               *)
Point(b) ==
    IF \/ LongAbove(b, 9, 90000000) \/ LongAbove(b, 13, 180000000)
       \/ \A i \in 9 .. 16 : b[i] = 0
       \/ ~Bit(b[8], 1)
    THEN <<>>
    ELSE <<Signed(Bit(b[8], 2), Long(b, 9)), Signed(Bit(b[8], 3), Long(b, 13))>>

(* decodeLocationBody of BodySize bytes or more.                           *)
Position(b) ==
    LET course == Word(b, 21)
        time == BcdDate(Part(b, 23, 6))
        extras == Extras(b, BodySize + 1)
    IN [point |-> Point(b), time |-> time, speed |-> Word(b, 19),
        course |-> IF course <= 360 THEN <<course>> ELSE <<>>,
        satellites |-> extras.satellites,
        errors |-> (IF course > 360 THEN {"rumbo"} ELSE {})
              \cup (IF LongAbove(b, 9, 90000000) \/ LongAbove(b, 13, 180000000)
                    THEN {"rango"} ELSE {})
              \cup (IF time = <<>> THEN {"fecha"} ELSE {})
              \cup (IF extras.cut THEN {"extra"} ELSE {})]

Nothing == [positions |-> <<>>, errors |-> {}, alarm |-> <<>>]

(* A position that is too short is an error of the frame.                  *)
Single(b) ==
    IF Len(b) < BodySize THEN [Nothing EXCEPT !.errors = {"corto"}]
    ELSE [positions |-> <<Position(b)>>, errors |-> Position(b).errors, alarm |-> AlarmBit(b)]

(* Mutant: an item that cannot be read ends the batch. *)
AfterItemStops(batch, item) ==
    IF Len(item) < BodySize THEN [batch EXCEPT !.errors = @ \cup {"item"}, !.left = 0]
    ELSE [batch EXCEPT !.items = Append(@, item)]

(* An item that cannot be read costs only itself.                          *)
AfterItem(batch, item) ==
    IF Len(item) < BodySize THEN [batch EXCEPT !.errors = @ \cup {"item"}]
    ELSE [batch EXCEPT !.items = Append(@, item)]

(* decodeLocationBatch: of each item its length and a body.  Each turn     *)
(* takes two bytes or more.                                                *)
Batches == [at : Nat \ {0}, left : Int, items : Seq(Seq(Byte)), errors : SUBSET {"item", "lote"}]
NextItem(b, batch) ==
    IF batch.left = 0 \/ batch.at + 1 > Len(b) THEN batch
    ELSE LET size == Word(b, batch.at)
         IN  IF batch.at + 1 + size > Len(b)
             THEN [batch EXCEPT !.left = 0, !.errors = @ \cup {"lote"}]
             ELSE AfterItem([batch EXCEPT !.at = @ + 2 + size, !.left = @ - 1],
                            Part(b, batch.at + 2, size))
Batch(b) ==
    IF Len(b) < 3 THEN [Nothing EXCEPT !.errors = {"corto"}]
    ELSE LET all == Loop([batch \in Batches |-> [x \in Byte |-> NextItem(b, batch)]],
                         [at |-> 4, left |-> Word(b, 1), items |-> <<>>, errors |-> {}], b)
         IN  [Nothing EXCEPT !.positions = [k \in 1 .. Len(all.items) |-> Position(all.items[k])],
                             !.errors = all.errors]

-----------------------------------------------------------------------------
(* buildFrame and the replies. *)

BuildFrame(id, digits, body, serial, terminalBytes) ==
    LET content == WordBytes(id) \o WordBytes(Len(body) % 1024)
                     \o BcdEncode(digits, terminalBytes) \o WordBytes(serial) \o body
    IN <<Delimiter>> \o Escape(Append(content, XorChecksum(content))) \o <<Delimiter>>

Ascii(digits) == [k \in 1 .. Len(digits) |->
                    IF digits[k] < 10 THEN 48 + digits[k] ELSE 87 + digits[k]]

(* Mutant: the register is answered like the rest. *)
ReplyGeneralOnly(m, serial) ==
    IF m.id \in {Register, Auth, LocationMsg, LocationBatch, Heartbeat, Logout}
    THEN BuildFrame(PlatformResponse, m.from,
                    WordBytes(m.serial) \o WordBytes(m.id) \o <<0>>, serial, m.terminalBytes)
    ELSE <<>>

(* buildReply; the serial is that of the platform.                         *)
Reply(m, serial) ==
    IF m.id = Register
    THEN BuildFrame(RegisterResponse, m.from,
                    WordBytes(m.serial) \o <<0>> \o Ascii(m.from), serial, m.terminalBytes)
    ELSE IF m.id \in {Auth, LocationMsg, LocationBatch, Heartbeat, Logout}
    THEN BuildFrame(PlatformResponse, m.from,
                    WordBytes(m.serial) \o WordBytes(m.id) \o <<0>>, serial, m.terminalBytes)
    ELSE <<>>

-----------------------------------------------------------------------------
(* decode, of a frame with its delimiters. *)

Unread(type) == [type |-> type, errors |-> {type}, from |-> <<>>, serial |-> 0, id |-> 0,
                 terminalBytes |-> 6, positions |-> <<>>, alarm |-> <<>>]

(* The zeros of the padding are taken off, unless there is nothing else.   *)
Terminal(b) ==
    LET d == Digits(b)
        real == {k \in 1 .. Len(d) : d[k] # 0}
    IN IF real = {} THEN d ELSE SubSeq(d, CHOOSE k \in real : \A j \in real : k <= j, Len(d))

Names == [id \in {Register, Auth, Heartbeat, Logout, LocationMsg, LocationBatch, TerminalResponse}
            |-> CASE id = Register -> "registro"
                  [] id = Auth -> "autenticacion"
                  [] id = Heartbeat -> "heartbeat"
                  [] id = Logout -> "logout"
                  [] id = LocationMsg -> "posicion"
                  [] id = LocationBatch -> "posiciones_lote"
                  [] id = TerminalResponse -> "respuesta_terminal"]

(* Mutant: the length in the header is not compared with the body. *)
HeaderErrorsWithoutLength(inner, all, head, attrs) ==
         (IF Malformed(inner) THEN {"escape"} ELSE {})
    \cup (IF XorChecksum(all) # Unescape(inner)[Len(all) + 1] THEN {"checksum"} ELSE {})
    \cup (IF (attrs \div 1024) % 8 # 0 THEN {"cifrado"} ELSE {})

HeaderErrors(inner, all, head, attrs) ==
         (IF Malformed(inner) THEN {"escape"} ELSE {})
    \cup (IF XorChecksum(all) # Unescape(inner)[Len(all) + 1] THEN {"checksum"} ELSE {})
    \cup (IF (attrs \div 1024) % 8 # 0 THEN {"cifrado"} ELSE {})
    \cup (IF Len(all) - head # attrs % 1024 THEN {"longitud"} ELSE {})

(* A header that is cut makes decode itself throw.                         *)
Decode(frame) ==
    LET inner == SubSeq(frame, 2, Len(frame) - 1)
        data == Unescape(inner)
        all == SubSeq(data, 1, Len(data) - 1)
        attrs == Word(all, 3)
        terminalBytes == IF Bit(attrs, 14) THEN 10 ELSE 6
        terminalAt == IF Bit(attrs, 14) THEN 6 ELSE 5
        head == terminalAt + terminalBytes + 1 + (IF Bit(attrs, 13) THEN 4 ELSE 0)
        id == Word(all, 1)
        body == SubSeq(all, head + 1, Len(all))
        ciphered == (attrs \div 1024) % 8 # 0
        content == IF ciphered THEN Nothing
                   ELSE IF id = LocationMsg THEN Single(body)
                   ELSE IF id = LocationBatch THEN Batch(body)
                   ELSE Nothing
    IN IF Len(data) < 13 THEN Unread("invalido")
       ELSE IF Len(all) < head THEN Unread("excepcion")
       ELSE [type |-> IF ciphered THEN "cifrado"
                      ELSE IF id \in DOMAIN Names THEN Names[id] ELSE "desconocido",
             errors |-> HeaderErrors(inner, all, head, attrs) \cup content.errors,
             from |-> Terminal(Part(all, terminalAt, terminalBytes)),
             serial |-> Word(all, terminalAt + terminalBytes), id |-> id,
             terminalBytes |-> terminalBytes,
             positions |-> content.positions, alarm |-> content.alarm]
=============================================================================
