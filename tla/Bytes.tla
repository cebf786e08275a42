------------------------------- MODULE Bytes -------------------------------
(***************************************************************************)
(* What the decoders share: big-endian numbers, BCD, the two checksums     *)
(* (protocols/crc.js) and the dates that Date.UTC accepts unchanged.       *)
(***************************************************************************)
EXTENDS Integers, Sequences

Byte == 0 .. 255
TwoBytes == {n \in Nat : n < 65536}

(* What a loop over s leaves, whose steps are a function.                  *)
Loop(step, first, s) ==
    LET out[n \in 0 .. Len(s)] == IF n = 0 THEN first ELSE step[out[n - 1]][s[n]]
    IN  out[Len(s)]

Weights == <<1, 2, 4, 8, 16, 32, 64, 128, 256, 512, 1024, 2048, 4096, 8192, 16384, 32768>>
Bit(n, k) == (n \div Weights[k + 1]) % 2 = 1
Part(b, i, n) == SubSeq(b, i, i + n - 1)
Word(b, i) == 256 * b[i] + b[i + 1]
WordBytes(n) == <<n \div 256, n % 256>>
LongBytes(n) == WordBytes(n \div 65536) \o WordBytes(n % 65536)

(* The four bytes at i as a number; TLC's integers hold it below 2^31.     *)
Long(b, i) == 65536 * Word(b, i) + Word(b, i + 2)
LongAbove(b, i, limit) ==
    \/ Word(b, i) > limit \div 65536
    \/ Word(b, i) = limit \div 65536 /\ Word(b, i + 2) > limit % 65536

Signed(negative, n) == IF negative THEN -n ELSE n

-----------------------------------------------------------------------------
(* The two digits of each byte; bcdEncode takes the last digits that fit.  *)
Digits(b) == [k \in 1 .. 2 * Len(b) |->
                IF k % 2 = 1 THEN b[(k + 1) \div 2] \div 16 ELSE b[k \div 2] % 16]

BcdEncode(digits, n) ==
    LET At(k) == LET j == Len(digits) - 2 * n + k IN IF j >= 1 THEN digits[j] ELSE 0
    IN [k \in 1 .. n |-> 16 * At(2 * k - 1) + At(2 * k)]

(* The bits in which two bytes, or two numbers of two bytes, differ.       *)
XorByte(a, b) ==
    LET Differ(w) == w * ((a \div w + b \div w) % 2)
    IN  Differ(1) + Differ(2) + Differ(4) + Differ(8)
          + Differ(16) + Differ(32) + Differ(64) + Differ(128)
Xor(a, b) == 256 * XorByte(a \div 256, b \div 256) + XorByte(a % 256, b % 256)

XorChecksum(b) == Loop([x \in Byte |-> [y \in Byte |-> XorByte(x, y)]], 0, b)

(* CRC-16/X-25, reflected polynomial 0x8408: a byte takes eight shifts.    *)
Shift(c) == IF c % 2 = 1 THEN Xor(c \div 2, 33800) ELSE c \div 2
FourShifts(c) == Shift(Shift(Shift(Shift(c))))
CrcTable == [byte \in Byte |-> FourShifts(FourShifts(byte))]

CrcItu(b) ==
    65535 - Loop([crc \in TwoBytes |-> [byte \in Byte |->
                    Xor(crc \div 256, CrcTable[XorByte(crc % 256, byte)])]], 65535, b)

-----------------------------------------------------------------------------
LeapYear(y) == y % 4 = 0 /\ (y % 100 # 0 \/ y % 400 = 0)
DaysIn(month, year) == IF month = 2 THEN IF LeapYear(year) THEN 29 ELSE 28
                       ELSE IF month \in {4, 6, 9, 11} THEN 30 ELSE 31

(* year, month, day, hour, minute, second: the instant, or none.           *)
DateUtc(d) == IF /\ d[2] \in 1 .. 12 /\ d[3] \in 1 .. DaysIn(d[2], 2000 + d[1])
                 /\ d[4] <= 23 /\ d[5] <= 59 /\ d[6] <= 59
              THEN d ELSE <<>>
=============================================================================
