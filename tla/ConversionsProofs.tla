-------------------------- MODULE ConversionsProofs --------------------------
(***************************************************************************)
(* What is converted can be converted back: times, amounts, words, texts.  *)
(* The components take an amount, a time and a row for themselves, and not *)
(* for the bytes on a card, in a record, in the journal or on the network. *)
(***************************************************************************)
EXTENDS Conversions, NatLemmas

------------------------------------------------------------------------------
\* The packed time of a record.

LEMMA BCDRoundTrip ==
  ASSUME NEW n \in 0..99, NEW b \in Packable(n)
  PROVE  /\ BCDToHex(b) \in 0..n
         /\ HexToBCD(BCDToHex(b)) = b
<1>1. b \in 0..255 /\ b % 16 \in 0..9 /\ b \div 16 \in 0..9 /\ b = 16 * (b \div 16) + (b % 16)
  BY DEF Packable, Byte
<1>2. BCDToHex(b) = (b \div 16) * 10 + (b % 16)
  BY <1>1 DEF BCDToHex, Char
<1>3. BCDToHex(b) \div 10 = b \div 16 /\ BCDToHex(b) % 10 = b % 16
  BY <1>1, <1>2
<1>4. HexToBCD(BCDToHex(b)) = (b \div 16) * 16 + (b % 16)
  BY <1>1, <1>3 DEF HexToBCD, Char
<1> QED
  BY <1>1, <1>2, <1>4 DEF Packable

\* The four bytes p hold these fields.
Holds(p, y, mo, d, h, mi, s) ==
  /\ p[1] \div 4 = y
  /\ (p[1] % 4) * 4 + (p[2] \div 64) = mo
  /\ (p[2] \div 2) % 32 = d
  /\ (p[2] % 2) * 16 + (p[3] \div 16) = h
  /\ (p[3] % 16) * 4 + (p[4] \div 64) = mi
  /\ p[4] % 64 = s
  /\ p \in Seq(Byte) /\ Len(p) = 4

LEMMA PackedFields ==
  ASSUME NEW y \in 0..63, NEW mo \in 0..12, NEW d \in 0..31,
         NEW h \in 0..23, NEW mi \in 0..59, NEW s \in 0..59,
         NEW p, p = Packed(y, mo, d, h, mi, s)
  PROVE  Holds(p, y, mo, d, h, mi, s)
<1> DEFINE c == IF h >= 16 THEN 1 ELSE 0
<1>1. /\ p[1] = Char(Char(y * 4) + (mo % 16) \div 4)
      /\ p[2] = Char(Char((mo % 16) * 64) + Char(d * 2) + c)
      /\ p[3] = Char((h % 16) * 16 + mi \div 4)
      /\ p[4] = Char(Char(mi * 64) + s)
      /\ Len(p) = 4
  BY DEF Packed
<1>2. p[1] = 4 * y + mo \div 4
  BY <1>1 DEF Char
<1>3. p[2] = 64 * (mo % 4) + 2 * d + c
  BY <1>1 DEF Char
<1>4. p[3] = 16 * (h % 16) + mi \div 4
  BY <1>1 DEF Char
<1>5. p[4] = 64 * (mi % 4) + s
  BY <1>1 DEF Char
<1>6. p[1] \div 4 = y /\ p[1] % 4 = mo \div 4
  BY <1>2
<1>7. p[2] \div 64 = mo % 4 /\ (p[2] \div 2) % 32 = d /\ p[2] % 2 = c
  BY <1>3
<1>8. p[3] \div 16 = h % 16 /\ p[3] % 16 = mi \div 4
  BY <1>4
<1>9. p[4] \div 64 = mi % 4 /\ p[4] % 64 = s
  BY <1>5
<1>10. /\ p[1] \in Byte /\ p[2] \in Byte /\ p[3] \in Byte /\ p[4] \in Byte
  BY <1>2, <1>3, <1>4, <1>5 DEF Byte
<1>11. p \in Seq(Byte)
  <2>1. \A n \in Int : Char(n) \in Byte
    BY DEF Char, Byte
  <2>2. PICK a \in Byte, b \in Byte, e \in Byte, f \in Byte : p = <<a, b, e, f>>
    BY <1>10, Zenon DEF Packed
  <2> QED
    BY <2>2
<1>12. (mo \div 4) * 4 + (mo % 4) = mo
  OBVIOUS
<1>13. c * 16 + (h % 16) = h
  OBVIOUS
<1>14. (mi \div 4) * 4 + (mi % 4) = mi
  OBVIOUS
<1> QED
  BY <1>1, <1>6, <1>7, <1>8, <1>9, <1>11, <1>12, <1>13, <1>14 DEF Holds

\* A time that the clock chip gives is read back from the record unchanged.
THEOREM TimeRoundTrip ==
  ASSUME NEW t \in Seq(Byte), IsTime(t)
  PROVE  /\ ChgRecordDatasToTime(ChgTimeToRecordDatas(t)) = t
         /\ ChgTimeToRecordDatas(t) \in Seq(Byte)
         /\ Len(ChgTimeToRecordDatas(t)) = 4
<1> DEFINE y == BCDToHex(t[1])
           mo == BCDToHex(t[2])
           d == BCDToHex(t[3])
           h == BCDToHex(t[4])
           mi == BCDToHex(t[5])
           s == BCDToHex(t[6])
           p == ChgTimeToRecordDatas(t)
<1>1. /\ y \in 0..63 /\ HexToBCD(y) = t[1]
      /\ mo \in 0..12 /\ HexToBCD(mo) = t[2]
      /\ d \in 0..31 /\ HexToBCD(d) = t[3]
      /\ h \in 0..23 /\ HexToBCD(h) = t[4]
      /\ mi \in 0..59 /\ HexToBCD(mi) = t[5]
      /\ s \in 0..59 /\ HexToBCD(s) = t[6]
  BY BCDRoundTrip DEF IsTime
<1>2. /\ y \in 0..63 /\ mo \in 0..12 /\ d \in 0..31
      /\ h \in 0..23 /\ mi \in 0..59 /\ s \in 0..59
  BY <1>1
<1>3. p = Packed(y, mo, d, h, mi, s)
  BY DEF ChgTimeToRecordDatas
<1> HIDE DEF p, y, mo, d, h, mi, s
<1>4. Holds(p, y, mo, d, h, mi, s)
  BY <1>2, <1>3, PackedFields
<1>5. ChgRecordDatasToTime(p) = <<t[1], t[2], t[3], t[4], t[5], t[6]>>
  BY <1>1, <1>4 DEF ChgRecordDatasToTime, Holds
<1>6. t = <<t[1], t[2], t[3], t[4], t[5], t[6]>>
  BY DEF IsTime
<1> QED
  BY <1>4, <1>5, <1>6 DEF p, Holds

------------------------------------------------------------------------------
\* Amounts.

LEMMA DecimalRoundTrip ==
  ASSUME NEW n \in 0..99 PROVE BCDToHex(HexToBCD(n)) = n /\ HexToBCD(n) \in Byte
<1>1. n \div 10 \in 0..9 /\ n % 10 \in 0..9 /\ n = 10 * (n \div 10) + (n % 10)
  OBVIOUS
<1>2. HexToBCD(n) = (n \div 10) * 16 + (n % 10) /\ HexToBCD(n) \in 0..255
  BY <1>1 DEF HexToBCD, Char
<1>3. HexToBCD(n) \div 16 = n \div 10 /\ HexToBCD(n) % 16 = n % 10
  BY <1>1, <1>2
<1> QED
  BY <1>1, <1>2, <1>3 DEF BCDToHex, Char, Byte

\* An amount of eight digits or less comes back from the bytes of a purse block
\* (readWriteCard.c:475) or a record (ykt_app.c:429).
THEOREM AmountRoundTrip ==
  ASSUME NEW n \in Nat, n < 100 * 100 * 100 * 100
  PROVE  ChgBCDStringToUlong(ChgUlongToBCDString(n)) = n
<1> DEFINE a == n \div (100 * 100 * 100)
           b == (n % (100 * 100 * 100)) \div (100 * 100)
           c == (n % (100 * 100)) \div 100
           d == n % 100
<1>1. a \in 0..99 /\ b \in 0..99 /\ c \in 0..99 /\ d \in 0..99
  OBVIOUS
<1>2. n = a * (100 * 100 * 100) + b * (100 * 100) + c * 100 + d
  <2>1. n = a * (100 * 100 * 100) + (n % (100 * 100 * 100))
    OBVIOUS
  <2>2. n % (100 * 100 * 100) = b * (100 * 100) + (n % (100 * 100))
    <3>1. (n % (100 * 100 * 100)) % (100 * 100) = n % (100 * 100)
      OBVIOUS
    <3> QED
      BY <3>1
  <2>3. n % (100 * 100) = c * 100 + (n % 100)
    <3>1. (n % (100 * 100)) % 100 = n % 100
      OBVIOUS
    <3> QED
      BY <3>1
  <2> QED
    BY <1>1, <2>1, <2>2, <2>3
<1>3. ChgUlongToBCDString(n) = <<HexToBCD(a), HexToBCD(b), HexToBCD(c), HexToBCD(d)>>
  BY <1>1 DEF ChgUlongToBCDString, TwoDigits, Char
<1>4. /\ BCDToHex(HexToBCD(a)) = a /\ BCDToHex(HexToBCD(b)) = b
      /\ BCDToHex(HexToBCD(c)) = c /\ BCDToHex(HexToBCD(d)) = d
  BY <1>1, DecimalRoundTrip
<1> HIDE DEF a, b, c, d
<1>5. ChgBCDStringToUlong(ChgUlongToBCDString(n))
        = a * (100 * 100 * 100) + b * (100 * 100) + c * 100 + d
  BY <1>3, <1>4 DEF ChgBCDStringToUlong
<1> QED
  BY <1>2, <1>5

------------------------------------------------------------------------------
\* Words.

LEMMA HighAndLow ==
  ASSUME NEW x \in 0..255, NEW y \in 0..255
  PROVE  (x * 256 + y) \div 256 = x /\ (x * 256 + y) % 256 = y
<1>1. (x * 256 + y) \div 256 = x
  OBVIOUS
<1>2. (x * 256 + y) % 256 = y
  BY <1>1
<1> QED
  BY <1>1, <1>2

\* A word of two bytes that is swapped twice is the word: the receive thread swaps
\* it, and the answer swaps it back (ykt_app.c:698, udp_data_analyse.c:953).
THEOREM SwapTwice ==
  ASSUME NEW a \in Nat, a < 256 * 256
  PROVE  DoubleBigToSmall(DoubleBigToSmall(a)) = a
<1>1. a % 256 \in 0..255 /\ a \div 256 \in 0..255 /\ a = 256 * (a \div 256) + (a % 256)
  OBVIOUS
<1> DEFINE b == DoubleBigToSmall(a)
<1>2. b = (a % 256) * 256 + a \div 256
  BY DEF DoubleBigToSmall
<1> HIDE DEF b
<1>3. b \div 256 = a % 256 /\ b % 256 = a \div 256
  <2>1. \A x, y \in 0..255 :
          (x * 256 + y) \div 256 = x /\ (x * 256 + y) % 256 = y
    BY HighAndLow
  <2> QED
    BY <1>1, <1>2, <2>1
<1>4. DoubleBigToSmall(b) = (a \div 256) * 256 + (a % 256)
  BY <1>3 DEF DoubleBigToSmall
<1>5. DoubleBigToSmall(b) = a
  BY <1>1, <1>4
<1> QED
  BY <1>5 DEF b

------------------------------------------------------------------------------
\* Texts.

LEMMA DigitRoundTrip ==
  ASSUME NEW d \in 0..15 PROVE HexDigit(HexChar(d)) = d
<1>1. CASE d <= 9
  BY <1>1 DEF HexChar, HexDigit
<1>2. CASE d > 9
  <2>1. HexChar(d) = 87 + d /\ (87 + d) % 32 = d - 9
    BY <1>2 DEF HexChar
  <2> QED
    BY <1>2, <2>1 DEF HexDigit
<1> QED
  BY <1>1, <1>2

LEMMA HalfBytes ==
  ASSUME NEW x \in 0..255
  PROVE  /\ x \div 16 \in 0..15 /\ x % 16 \in 0..15
         /\ (x \div 16) * 16 + (x % 16) = x /\ Char(x) = x
  BY DEF Char

LEMMA BytesOf ==
  ASSUME NEW B, NEW b \in Seq(B) PROVE \A i \in 1..Len(b) : b[i] \in B
  OBVIOUS

\* The characters of the i-th byte.
LEMMA OddAndEven ==
  ASSUME NEW n \in Nat, NEW i \in 1..n
  PROVE  /\ 2 * i \in 1..(2 * n) /\ 2 * i - 1 \in 1..(2 * n)
         /\ (2 * i - 1) % 2 = 1 /\ (2 * i) % 2 = 0
         /\ ((2 * i - 1) + 1) \div 2 = i /\ (2 * i) \div 2 = i
<1>1. 2 * i \in 1..(2 * n) /\ 2 * i - 1 \in 1..(2 * n)
  OBVIOUS
<1>2. (2 * i - 1) % 2 = 1 /\ (2 * i) % 2 = 0
  OBVIOUS
<1>3. ((2 * i - 1) + 1) \div 2 = i /\ (2 * i) \div 2 = i
  OBVIOUS
<1> QED
  BY <1>1, <1>2, <1>3

\* Bytes come back from their text: a row of the journal (ykt_app.c:465,
\* udp_data_analyse.c:757), a key of the parameter file (ykt_app.c:952).
THEOREM TextRoundTrip ==
  ASSUME NEW b \in Seq(Byte)
  PROVE  gdHexStringToHexGroup(gdHexGroupToHexString(b)) = b
<1> DEFINE n == Len(b)
           s == gdHexGroupToHexString(b)
           r == gdHexStringToHexGroup(s)
<1>1. n \in Nat /\ DOMAIN b = 1..n /\ b = [i \in 1..n |-> b[i]]
  OBVIOUS
<1>2. \A i \in 1..n : b[i] \in 0..255
  <2>1. \A i \in 1..n : b[i] \in Byte
    BY BytesOf
  <2> QED
    BY <2>1 DEF Byte
<1>3. s = [i \in 1..(2 * n) |->
             HexChar(IF i % 2 = 1 THEN b[(i + 1) \div 2] \div 16 ELSE b[i \div 2] % 16)]
  BY DEF gdHexGroupToHexString
<1>4. ASSUME NEW i \in 1..n
      PROVE  s[2 * i - 1] = HexChar(b[i] \div 16) /\ s[2 * i] = HexChar(b[i] % 16)
  <2>1. /\ 2 * i \in 1..(2 * n) /\ 2 * i - 1 \in 1..(2 * n)
        /\ (2 * i - 1) % 2 = 1 /\ (2 * i) % 2 = 0
        /\ ((2 * i - 1) + 1) \div 2 = i /\ (2 * i) \div 2 = i
    BY <1>1, OddAndEven
  <2> HIDE DEF s
  <2>2. s[2 * i - 1] = HexChar(b[i] \div 16)
    <3> DEFINE k == 2 * i - 1
    <3>1. s[k] = HexChar(IF k % 2 = 1 THEN b[(k + 1) \div 2] \div 16 ELSE b[k \div 2] % 16)
      BY <1>3, <2>1
    <3> QED
      BY <2>1, <3>1
  <2>3. s[2 * i] = HexChar(b[i] % 16)
    <3> DEFINE k == 2 * i
    <3>1. s[k] = HexChar(IF k % 2 = 1 THEN b[(k + 1) \div 2] \div 16 ELSE b[k \div 2] % 16)
      BY <1>3, <2>1
    <3> QED
      BY <2>1, <3>1
  <2> QED
    BY <2>2, <2>3
<1>5. Len(s) \div 2 = n
  BY <1>1 DEF gdHexGroupToHexString
<1> HIDE DEF s
<1>6. r = [i \in 1..n |-> Char(HexDigit(s[2 * i - 1]) * 16 + HexDigit(s[2 * i]))]
  BY <1>5 DEF gdHexStringToHexGroup
<1>7. \A i \in 1..n : Char(HexDigit(s[2 * i - 1]) * 16 + HexDigit(s[2 * i])) = b[i]
  <2> SUFFICES ASSUME NEW i \in 1..n
               PROVE  Char(HexDigit(s[2 * i - 1]) * 16 + HexDigit(s[2 * i])) = b[i]
    OBVIOUS
  <2>1. /\ b[i] \div 16 \in 0..15 /\ b[i] % 16 \in 0..15
        /\ (b[i] \div 16) * 16 + (b[i] % 16) = b[i] /\ Char(b[i]) = b[i]
    BY <1>2, HalfBytes
  <2>2. HexDigit(s[2 * i - 1]) = b[i] \div 16 /\ HexDigit(s[2 * i]) = b[i] % 16
    BY <1>4, <2>1, DigitRoundTrip
  <2> QED
    BY <2>1, <2>2
<1>8. r = [i \in 1..n |-> b[i]]
  BY <1>6, <1>7
<1> QED
  BY <1>1, <1>8 DEF s

------------------------------------------------------------------------------
\* Checksums.

\* What the running sum is defined to be, for the bytes up to n: there is such a
\* function for every n, or else for a least n there is none, and the function
\* for n - 1 can be extended.
IsSum(b, n, f) ==
  f = [k \in 0..n |-> IF k = 0 THEN 0 ELSE Char(f[k - 1] + b[k])]

LEMMA SumExists ==
  ASSUME NEW b \in Seq(Byte), NEW m \in 0..Len(b)
  PROVE  \E f : IsSum(b, m, f)
<1> DEFINE Without == {n \in 0..Len(b) : ~ \E f : IsSum(b, n, f)}
<1> SUFFICES ASSUME Without # {} PROVE FALSE
  OBVIOUS
<1>1. Without \in SUBSET Nat
  OBVIOUS
<1>2. PICK n \in Without : \A k \in Without : n <= k
  <2> HIDE DEF Without
  <2> QED
    BY <1>1, LeastNat
<1>3. n # 0
  <2>1. IsSum(b, 0, [k \in 0..0 |-> 0])
    BY DEF IsSum
  <2> QED
    BY <1>2, <2>1
<1>4. PICK f : IsSum(b, n - 1, f)
  <2>1. n - 1 \in 0..Len(b) /\ ~(n <= n - 1)
    BY <1>2, <1>3
  <2> QED
    BY <1>2, <2>1
<1> DEFINE g == [k \in 0..n |-> IF k = n THEN Char(f[n - 1] + b[n]) ELSE f[k]]
<1>5. n \in Nat
  BY <1>2
<1>6. \A k \in 0..(n - 1) : f[k] = IF k = 0 THEN 0 ELSE Char(f[k - 1] + b[k])
  BY <1>4 DEF IsSum
<1>7. ASSUME NEW k \in 0..n
      PROVE  g[k] = IF k = 0 THEN 0 ELSE Char(g[k - 1] + b[k])
  <2>1. CASE k = n
    <3>1. g[k] = Char(f[n - 1] + b[n]) /\ g[k - 1] = f[n - 1]
      BY <1>3, <1>5, <2>1
    <3> QED
      BY <1>3, <2>1, <3>1
  <2>2. CASE k # n
    <3>1. k \in 0..(n - 1) /\ g[k] = f[k] /\ (k # 0 => g[k - 1] = f[k - 1])
      BY <1>5, <2>2
    <3> QED
      BY <1>6, <3>1
  <2> QED
    BY <2>1, <2>2
<1>8. IsSum(b, n, g)
  <2>1. g = [k \in 0..n |-> g[k]]
    OBVIOUS
  <2> HIDE DEF g
  <2> QED
    BY <1>7, <2>1 DEF IsSum
<1> QED
  BY <1>2, <1>8

LEMMA CharOfSum ==
  ASSUME NEW z \in 0..510
  PROVE  /\ Char(z) \in 0..255
         /\ Char(z) = IF z < 256 THEN z ELSE z - 256
<1>1. CASE z < 256
  BY <1>1 DEF Char
<1>2. CASE ~(z < 256)
  <2>1. z - 256 \in 0..254 /\ z = 256 + (z - 256)
    BY <1>2
  <2> QED
    BY <1>2, <2>1 DEF Char
<1> QED
  BY <1>1, <1>2

LEMMA OneDiffers ==
  ASSUME NEW z \in 0..510, NEW w \in 0..510, z # w, z - w < 256, w - z < 256
  PROVE  Char(z) # Char(w)
<1>1. Char(z) = IF z < 256 THEN z ELSE z - 256
  BY CharOfSum
<1>2. Char(w) = IF w < 256 THEN w ELSE w - 256
  BY CharOfSum
<1> QED
  BY <1>1, <1>2

\* The running sums of bytes are bytes.
LEMMA SumOfBytes ==
  ASSUME NEW b \in Seq(Byte)
  PROVE  /\ RunningSum(b)[0] = 0
         /\ \A k \in 1..Len(b) : RunningSum(b)[k] = Char(RunningSum(b)[k - 1] + b[k])
         /\ \A k \in 0..Len(b) : RunningSum(b)[k] \in 0..255
<1> DEFINE s == RunningSum(b)
<1>1. IsSum(b, Len(b), s)
  <2>1. s = CHOOSE f : IsSum(b, Len(b), f)
    BY DEF RunningSum, IsSum
  <2>2. \E f : IsSum(b, Len(b), f)
    BY SumExists
  <2> HIDE DEF s
  <2> QED
    BY <2>1, <2>2
<1> HIDE DEF s
<1>2. Len(b) \in Nat /\ \A k \in 1..Len(b) : b[k] \in 0..255
  BY BytesOf DEF Byte
<1>3. s[0] = 0 /\ \A k \in 1..Len(b) : s[k] = Char(s[k - 1] + b[k])
  BY <1>1, <1>2 DEF IsSum
<1>4. \A k \in 0..Len(b) : s[k] \in 0..255
  <2> DEFINE Wrong == {k \in 0..Len(b) : s[k] \notin 0..255}
  <2> SUFFICES ASSUME Wrong # {} PROVE FALSE
    OBVIOUS
  <2>1. Wrong \in SUBSET Nat
    OBVIOUS
  <2>2. PICK n \in Wrong : \A k \in Wrong : n <= k
    <3> HIDE DEF Wrong
    <3> QED
      BY <2>1, LeastNat
  <2>3. n \in 1..Len(b) /\ n - 1 \in 0..Len(b) /\ ~(n <= n - 1)
    <3>1. n \in 0..Len(b) /\ s[n] \notin 0..255
      BY <2>2
    <3>2. s[0] \in 0..255
      BY <1>3
    <3>3. n # 0
      BY <3>1, <3>2
    <3> QED
      BY <1>2, <3>1, <3>3
  <2>4. PICK x \in 0..255 : x = s[n - 1]
    BY <2>2, <2>3
  <2>5. PICK y \in 0..255 : y = b[n]
    BY <1>2, <2>3
  <2>6. s[n] = Char(x + y)
    BY <1>3, <2>3, <2>4, <2>5
  <2>7. s[n] \in 0..255
    <3>1. PICK z \in 0..510 : z = x + y
      OBVIOUS
    <3>2. Char(z) \in 0..255
      BY CharOfSum
    <3> QED
      BY <2>6, <3>1, <3>2
  <2> QED
    BY <2>2, <2>7
<1> QED
  BY <1>3, <1>4 DEF s

\* Sums of bytes that are the same up to n are the same.
LEMMA SameSums ==
  ASSUME NEW b \in Seq(Byte), NEW c \in Seq(Byte), NEW n \in 0..Len(b), n <= Len(c),
         \A k \in 1..n : b[k] = c[k]
  PROVE  RunningSum(b)[n] = RunningSum(c)[n]
<1> DEFINE s == RunningSum(b)
           t == RunningSum(c)
           Differ == {k \in 0..n : s[k] # t[k]}
<1>1. /\ s[0] = 0 /\ \A k \in 1..Len(b) : s[k] = Char(s[k - 1] + b[k])
      /\ t[0] = 0 /\ \A k \in 1..Len(c) : t[k] = Char(t[k - 1] + c[k])
      /\ Len(b) \in Nat /\ Len(c) \in Nat
  BY SumOfBytes
<1> HIDE DEF s, t
<1> SUFFICES ASSUME Differ # {} PROVE FALSE
  BY DEF s, t
<1>2. Differ \in SUBSET Nat
  OBVIOUS
<1>3. PICK m \in Differ : \A k \in Differ : m <= k
  <2> HIDE DEF Differ
  <2> QED
    BY <1>2, LeastNat
<1>4. m \in 1..n /\ m - 1 \in 0..n /\ ~(m <= m - 1)
  BY <1>1, <1>3
<1>5. s[m - 1] = t[m - 1]
  BY <1>3, <1>4
<1>6. s[m] = t[m]
  <2>1. m \in 1..Len(b) /\ m \in 1..Len(c)
    BY <1>1, <1>4
  <2> QED
    BY <1>1, <1>4, <1>5, <2>1
<1> QED
  BY <1>3, <1>6

\* Sums of bytes that differ in one place differ from there on.
LEMMA OtherSums ==
  ASSUME NEW b \in Seq(Byte), NEW c \in Seq(Byte), NEW n \in 0..Len(b), n <= Len(c),
         NEW i \in 1..n, b[i] # c[i],
         \A k \in 1..n : k # i => b[k] = c[k]
  PROVE  RunningSum(b)[n] # RunningSum(c)[n]
<1> DEFINE s == RunningSum(b)
           t == RunningSum(c)
           Equal == {k \in i..n : s[k] = t[k]}
<1>1. /\ \A k \in 1..Len(b) : s[k] = Char(s[k - 1] + b[k])
      /\ \A k \in 1..Len(c) : t[k] = Char(t[k - 1] + c[k])
      /\ \A k \in 0..Len(b) : s[k] \in 0..255
      /\ \A k \in 0..Len(c) : t[k] \in 0..255
      /\ Len(b) \in Nat /\ Len(c) \in Nat
  BY SumOfBytes
<1>2. /\ \A k \in 1..Len(b) : b[k] \in 0..255
      /\ \A k \in 1..Len(c) : c[k] \in 0..255
  BY BytesOf DEF Byte
<1>3. s[i - 1] = t[i - 1]
  <2>1. i - 1 \in 0..Len(b) /\ i - 1 <= Len(c) /\ \A k \in 1..(i - 1) : b[k] = c[k]
    BY <1>1
  <2> QED
    BY <2>1, SameSums
<1> HIDE DEF s, t
<1> SUFFICES ASSUME Equal # {} PROVE FALSE
  BY DEF s, t
<1>4. Equal \in SUBSET Nat
  OBVIOUS
<1>5. PICK m \in Equal : \A k \in Equal : m <= k
  <2> HIDE DEF Equal
  <2> QED
    BY <1>4, LeastNat
<1>6. /\ m \in i..n /\ m \in 1..Len(b) /\ m \in 1..Len(c) /\ s[m] = t[m]
      /\ m - 1 \in 0..Len(b) /\ m - 1 \in 0..Len(c)
  BY <1>1, <1>5
<1> HIDE DEF Equal
<1>7. PICK x \in 0..255, y \in 0..255, u \in 0..255, v \in 0..255 :
        x = s[m - 1] /\ y = t[m - 1] /\ u = b[m] /\ v = c[m]
  <2>1. s[m - 1] \in 0..255 /\ t[m - 1] \in 0..255
    BY <1>1, <1>6
  <2>2. b[m] \in 0..255 /\ c[m] \in 0..255
    BY <1>2, <1>6
  <2> QED
    BY <2>1, <2>2
<1>8. Char(x + u) = Char(y + v)
  BY <1>1, <1>6, <1>7
<1>9. (x = y /\ u # v) \/ (x # y /\ u = v)
  <2>1. CASE m = i
    BY <1>3, <1>7, <2>1
  <2>2. CASE m # i
    <3>1. m - 1 \in i..n /\ ~(m <= m - 1)
      BY <1>1, <1>6, <2>2
    <3>2. x # y
      BY <1>5, <1>7, <3>1 DEF Equal
    <3>3. m \in 1..n
      BY <1>1, <1>6
    <3> QED
      BY <1>7, <2>2, <3>2, <3>3
  <2> QED
    BY <2>1, <2>2
<1>10. PICK z \in 0..510 : z = x + u
  <2>1. x + u \in 0..510
    OBVIOUS
  <2> QED
    BY <2>1
<1>11. PICK w \in 0..510 : w = y + v
  <2>1. y + v \in 0..510
    OBVIOUS
  <2> QED
    BY <2>1
<1>12. z # w /\ z - w < 256 /\ w - z < 256
  BY <1>9, <1>10, <1>11
<1>13. Char(z) # Char(w)
  BY <1>12, OneDiffers
<1> QED
  BY <1>8, <1>10, <1>11, <1>13

\* A block, a record or a command that ends in the checksum of its other bytes
\* passes the check (readWriteCard.c:517 and :300, ykt_app.c:462 and
\* udp_data_analyse.c:524).
THEOREM SealIsAccepted ==
  ASSUME NEW b \in Seq(Byte), Len(b) >= 1
  PROVE  BytesCheckSum(Append(b, CalCheckSum(b, Len(b))), Len(b) + 1) = 0
<1> DEFINE n == Len(b)
           check == CalCheckSum(b, n)
           sealed == Append(b, check)
<1>1. n \in Nat /\ n \in 0..n
  OBVIOUS
<1>2. check \in Byte
  <2>1. PICK r \in 0..255 : r = RunningSum(b)[n]
    BY <1>1, SumOfBytes
  <2>2. check = 255 - r
    BY <2>1 DEF CalCheckSum
  <2>3. 255 - r \in 0..255
    OBVIOUS
  <2> QED
    BY <2>2, <2>3 DEF Byte
<1> HIDE DEF check
<1>3. /\ sealed \in Seq(Byte) /\ Len(sealed) = n + 1 /\ sealed[n + 1] = check
      /\ \A k \in 1..n : sealed[k] = b[k]
  BY <1>1, <1>2
<1> HIDE DEF sealed
<1>4. RunningSum(sealed)[n] = RunningSum(b)[n]
  BY <1>1, <1>3, SameSums
<1>5. CalCheckSum(sealed, n) = check
  BY <1>4 DEF CalCheckSum, check
<1>6. (n + 1) - 1 = n
  BY <1>1
<1>7. BytesCheckSum(sealed, n + 1) = 0
  BY <1>3, <1>5, <1>6 DEF BytesCheckSum
<1> QED
  BY <1>7 DEF sealed, check

\* A single wrong byte is noticed, wherever it is.
THEOREM WrongByteIsNoticed ==
  ASSUME NEW b \in Seq(Byte), NEW c \in Seq(Byte), Len(c) = Len(b), Len(b) >= 2,
         NEW i \in 1..Len(b), b[i] # c[i],
         \A k \in 1..Len(b) : k # i => b[k] = c[k],
         BytesCheckSum(b, Len(b)) = 0
  PROVE  BytesCheckSum(c, Len(c)) = 1
<1> DEFINE n == Len(b)
<1>1. n \in Nat /\ n - 1 \in 0..n /\ n \in 1..n
  OBVIOUS
<1>2. /\ RunningSum(b)[n - 1] \in 0..255 /\ RunningSum(c)[n - 1] \in 0..255
  BY <1>1, SumOfBytes
<1>3. 255 - RunningSum(b)[n - 1] = b[n]
  BY DEF BytesCheckSum, CalCheckSum
<1>4. 255 - RunningSum(c)[n - 1] # c[n]
  <2>1. CASE i = n
    <3>1. RunningSum(b)[n - 1] = RunningSum(c)[n - 1]
      BY <1>1, <2>1, SameSums
    <3> QED
      BY <1>3, <2>1, <3>1
  <2>2. CASE i # n
    <3>1. i \in 1..(n - 1) /\ b[n] = c[n]
      BY <1>1, <2>2
    <3>2. /\ n - 1 \in 0..Len(b) /\ n - 1 <= Len(c)
          /\ \A k \in 1..(n - 1) : k # i => b[k] = c[k]
      BY <1>1
    <3>3. RunningSum(b)[n - 1] # RunningSum(c)[n - 1]
      <4> DEFINE m == n - 1
      <4>1. m \in 0..Len(b) /\ m <= Len(c) /\ i \in 1..m
            /\ \A k \in 1..m : k # i => b[k] = c[k]
        BY <3>1, <3>2
      <4> HIDE DEF m
      <4>2. RunningSum(b)[m] # RunningSum(c)[m]
        BY <4>1, OtherSums
      <4> QED
        BY <4>2 DEF m
    <3>4. PICK x \in 0..255, y \in 0..255 :
            x = RunningSum(b)[n - 1] /\ y = RunningSum(c)[n - 1]
      BY <1>2
    <3>5. x # y /\ 255 - x = b[n]
      BY <1>3, <3>3, <3>4
    <3>6. 255 - y # b[n]
      BY <3>5
    <3> QED
      BY <3>1, <3>4, <3>6
  <2> QED
    BY <2>1, <2>2
<1> QED
  BY <1>4 DEF BytesCheckSum, CalCheckSum
=============================================================================
