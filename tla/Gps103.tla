------------------------------- MODULE Gps103 -------------------------------
(***************************************************************************)
(* The GPS103 decoder (protocols/gps103.js): a text of fields between      *)
(* commas that ends in a semicolon.  A number without a sign is read here, *)
(* as trackers write them.                                                 *)
(***************************************************************************)
EXTENDS Bytes

Comma == 44
Point == 46
Prefix == <<105, 109, 101, 105, 58>>         \* "imei:"
Hello == <<35, 35, 44>> \o Prefix            \* "##,imei:"
Accept == <<44, 65>>                         \* ",A"
Tracker == <<116, 114, 97, 99, 107, 101, 114>>
Load == <<76, 79, 65, 68>>
On == <<79, 78>>

(* The forms of a text. *)
Login == 1
Heartbeat == 2
Event == 3
Report == 4

IsDigit(c) == c \in 48 .. 57
AllDigits(b) == b # <<>> /\ \A i \in 1 .. Len(b) : IsDigit(b[i])
StartsWith(b, p) == Len(b) >= Len(p) /\ SubSeq(b, 1, Len(p)) = p
After(b, p) == SubSeq(b, Len(p) + 1, Len(b))
Values(b) == [k \in 1 .. Len(b) |-> b[k] - 48]

Number(b) == Loop([v \in Int |-> [c \in Byte |-> 10 * v + c - 48]], 0, b)

(* split(','): a field is empty, never undefined, up to the last comma.    *)
Fields(b) ==
    Loop([p \in Seq(Seq(Byte)) |-> [c \in Byte |->
            IF c = Comma THEN Append(p, <<>>) ELSE [p EXCEPT ![Len(p)] = Append(@, c)]]],
         << <<>> >>, b)

(* parseFloat, in units of 10^-places: none if no number comes first.      *)
Decimal(b, places) ==
    LET whole == CHOOSE n \in 0 .. Len(b) :
                    /\ \A k \in 1 .. n : IsDigit(b[k])
                    /\ n = Len(b) \/ ~IsDigit(b[n + 1])
        InFraction(k) == /\ whole + 1 + k <= Len(b) /\ b[whole + 1] = Point
                         /\ \A j \in 1 .. k : IsDigit(b[whole + 1 + j])
        fraction == [k \in 1 .. places |-> IF InFraction(k) THEN b[whole + 1 + k] ELSE 48]
    IN IF whole = 0 THEN <<>> ELSE <<Number(SubSeq(b, 1, whole) \o fraction)>>

-----------------------------------------------------------------------------
(* dmToDegrees: degrees of two or three digits and then minutes, in        *)
(* ten-thousandths of a minute; S and W are negative.                      *)
ToDegrees(b, hemisphere, digits) ==
    LET minutes == Decimal(SubSeq(b, digits + 1, Len(b)), 4)
        limit == IF digits = 2 THEN 90 ELSE 180
    IN IF Len(b) < digits + 1 \/ ~AllDigits(SubSeq(b, 1, digits)) \/ minutes = <<>> THEN <<>>
       ELSE LET d == 600000 * Number(SubSeq(b, 1, digits)) + minutes[1]
            IN IF d > 600000 * limit THEN <<>>
               ELSE <<Signed(hemisphere \in {<<83>>, <<87>>}, d)>>

(* parseGps103DateUtc: only the seconds come from the hour, if it is one.  *)
IsHour(b) == /\ Len(b) >= 6 /\ AllDigits(SubSeq(b, 1, 6))
             /\ Len(b) = 6 \/ (b[7] = Point /\ AllDigits(SubSeq(b, 8, Len(b))))
Date(day, hour) ==
    IF Len(day) # 10 \/ ~AllDigits(day) THEN <<>>
    ELSE DateUtc([k \in 1 .. 6 |->
                    IF k < 6 THEN Number(Part(day, 2 * k - 1, 2))
                    ELSE IF IsHour(hour) THEN Number(Part(hour, 5, 2)) ELSE 0])

-----------------------------------------------------------------------------
Message(type, from) == [type |-> type, errors |-> {}, from |-> from, positions |-> <<>>,
                        alarm |-> <<>>]

(* A fix of state A whose two coordinates can be read; 0,0 is one.  The    *)
(* speed, in knots, and the course are in hundredths.                      *)
Position(p) ==
    LET lat == ToDegrees(p[8], p[9], 2)
        lon == ToDegrees(p[10], p[11], 3)
        course == IF Len(p) >= 13 THEN Decimal(p[13], 2) ELSE <<>>
    IN [point |-> IF p[7] = <<65>> /\ lat # <<>> /\ lon # <<>> THEN lat \o lon ELSE <<>>,
        time |-> Date(p[3], p[6]),
        speed |-> Decimal(p[12], 2),
        course |-> IF course # <<>> /\ course[1] <= 36000 THEN course ELSE <<>>]

(* decode, of a text with its semicolon.                                   *)
Decode(frame) ==
    LET text == SubSeq(frame, 1, Len(frame) - 1)
        p == Fields(text)
        from == After(p[1], Prefix)
        shaken == SubSeq(text, Len(Hello) + 1, Len(text) - Len(Accept))
        position == Position(p)
    IN IF StartsWith(text, Hello) /\ text = Hello \o shaken \o Accept /\ AllDigits(shaken)
       THEN Message("login", Values(shaken))
       ELSE IF StartsWith(text, Prefix) /\ AllDigits(After(text, Prefix))
       THEN Message("heartbeat", Values(After(text, Prefix)))
       ELSE IF ~StartsWith(text, Prefix)
       THEN [Message("invalido", <<>>) EXCEPT !.errors = {"prefijo"}]
       ELSE IF Len(p) < 12 \/ p[5] \notin {<<70>>, <<76>>}
       THEN Message("evento", Values(from))
       ELSE [Message(IF p[2] = Tracker THEN "posicion" ELSE "alarma", Values(from)) EXCEPT
                !.alarm = IF p[2] = Tracker THEN <<>> ELSE p[2],
                !.positions = <<position>>,
                !.errors = (IF p[7] # <<65>> THEN {"fix"} ELSE {})
                      \cup (IF position.time = <<>> THEN {"fecha"} ELSE {})]

Reply(m) == IF m.type = "login" THEN Load ELSE IF m.type = "heartbeat" THEN On ELSE <<>>
=============================================================================
