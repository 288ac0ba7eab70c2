---------------------------- MODULE Conversions ----------------------------
(***************************************************************************)
(* Bytes, packed decimals (BCD), bytes as text, checksums, and the packed  *)
(* time of a record.                                                       *)
(***************************************************************************)
EXTENDS Integers, Sequences

Byte == 0..255
Char(n) == n % 256

\* One byte holds two decimal digits.
BCDToHex(b) == Char((b \div 16) * 10 + (b % 16))
HexToBCD(n) == Char((n \div 10) * 16 + (n % 10))

\* Four bytes hold the eight digits of an amount.
TwoDigits(n, place) == HexToBCD(Char(n \div place))
ChgUlongToBCDString(n) ==
  <<TwoDigits(n, 100 * 100 * 100), TwoDigits(n % (100 * 100 * 100), 100 * 100),
    TwoDigits(n % (100 * 100), 100), TwoDigits(n % 100, 1)>>
ChgBCDStringToUlong(p) ==
  BCDToHex(p[1]) * (100 * 100 * 100) + BCDToHex(p[2]) * (100 * 100)
    + BCDToHex(p[3]) * 100 + BCDToHex(p[4])

\* The checksum of the first n bytes of b: the complement of their sum.
RunningSum(b) ==
  LET sum[k \in 0..Len(b)] == IF k = 0 THEN 0 ELSE Char(sum[k - 1] + b[k])
  IN  sum
CalCheckSum(b, n) == 255 - RunningSum(b)[n]

\* 0: the last of len bytes is the checksum of the others (two bytes at least:
\* the counter of the loop wraps otherwise).
BytesCheckSum(b, len) == IF CalCheckSum(b, len - 1) = b[len] THEN 0 ELSE 1

\* The two bytes of a word change places between this processor and the network.
DoubleBigToSmall(a) == (a % 256) * 256 + a \div 256

\* Bytes as text, two characters each: records in the journal, keys in the file.
HexChar(d) == IF d <= 9 THEN 48 + d ELSE 87 + d
HexDigit(c) == IF c <= 57 THEN c - 48 ELSE (c % 32) + 9
gdHexGroupToHexString(b) ==
  [i \in 1..(2 * Len(b)) |->
     HexChar(IF i % 2 = 1 THEN b[(i + 1) \div 2] \div 16 ELSE b[i \div 2] % 16)]
gdHexStringToHexGroup(s) ==
  [i \in 1..(Len(s) \div 2) |-> Char(HexDigit(s[2 * i - 1]) * 16 + HexDigit(s[2 * i]))]

\* Packed decimals up to n, and the times a record can hold.
Packable(n) == {b \in Byte : b % 16 <= 9 /\ b \div 16 <= 9 /\ BCDToHex(b) <= n}
IsTime(t) ==
  /\ Len(t) = 6
  /\ t[1] \in Packable(63) /\ t[2] \in Packable(12) /\ t[3] \in Packable(31)
  /\ t[4] \in Packable(23) /\ t[5] \in Packable(59) /\ t[6] \in Packable(59)

\* Comparison of byte strings of the same length, as memcmp does it.
Less(s, t) ==
  \E i \in DOMAIN s : s[i] < t[i] /\ \A j \in 1..(i - 1) : s[j] = t[j]

\* Year, month, day, hour, minute and second in four bytes: 6, 4, 5, 5, 6 and 6
\* bits.  A local variable of the code is one byte wide.
Packed(y, mo, d, h, mi, s) ==
  <<Char(Char(y * 4) + (mo % 16) \div 4),
    Char(Char((mo % 16) * 64) + Char(d * 2) + (IF h >= 16 THEN 1 ELSE 0)),
    Char((h % 16) * 16 + mi \div 4),
    Char(Char(mi * 64) + s)>>

\* Mutant: the fifth bit of the hour is left out.
TimeToRecordNoCarry(t) ==
  Packed(BCDToHex(t[1]), BCDToHex(t[2]), BCDToHex(t[3]),
         BCDToHex(t[4]) % 16, BCDToHex(t[5]), BCDToHex(t[6]))
ChgTimeToRecordDatas(t) ==
  Packed(BCDToHex(t[1]), BCDToHex(t[2]), BCDToHex(t[3]),
         BCDToHex(t[4]), BCDToHex(t[5]), BCDToHex(t[6]))

\* What the layout promises to whoever reads a record (the server).
ChgRecordDatasToTime(p) ==
  <<HexToBCD(p[1] \div 4),
    HexToBCD((p[1] % 4) * 4 + p[2] \div 64),
    HexToBCD((p[2] \div 2) % 32),
    HexToBCD((p[2] % 2) * 16 + p[3] \div 16),
    HexToBCD((p[3] % 16) * 4 + p[4] \div 64),
    HexToBCD(p[4] % 64)>>
=============================================================================
