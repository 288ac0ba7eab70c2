------------------------------ MODULE MCTariff ------------------------------
(* An instance of Tariff for TLC: two sorts of cards, two meals a day. *)
EXTENDS Tariff

Plan(sort, start, end, times, times2) ==
  [sort |-> sort, start |-> start, end |-> end, price |-> 2, times |-> times,
   price2 |-> 5, times2 |-> times2]

Student == [number |-> 1, sort |-> 1]
Teacher == [number |-> 2, sort |-> 2]
MCCards == {Student, Teacher}

\* In BCD: lunch from 11:30 to 13:00, dinner from 17:00 to 18:30.
Lunch == Plan(1, <<17, 48>>, <<19, 0>>, 1, 1)
Dinner == Plan(1, <<23, 0>>, <<24, 48>>, 1, 0)
Staff == Plan(2, <<17, 48>>, <<19, 0>>, 0, 0)
MCPlans == {Lunch, Dinner, Staff}

\* 24-12-09 17:59:59; 24-12-10 11:00:07 and 12:59:30.
MCCalendar ==
  <<<<36, 18, 9, 23, 89, 89>>, <<36, 18, 16, 17, 0, 7>>, <<36, 18, 16, 18, 89, 48>>>>

MCInstalled == <<[id |-> 0, plan |-> Lunch], [id |-> 1, plan |-> Staff]>>
MCDownloads == {<<Staff, Dinner>>}

\* What a block of three bytes and its checksum are when one byte is another.
Sealed(b) == Append(b, CalCheckSum(b, Len(b)))
ASSUME SumOfBytes ==
  /\ CalCheckSum(<<160, 255, 7>>, 3) = 89
  /\ \A x \in {0, 1, 127, 255}, y \in Byte :
       LET block == Sealed(<<x, 200, y>>)
       IN  /\ BytesCheckSum(block, 4) = 0
           /\ \A i \in 1..4 : \A z \in {0, 128, 254, 255} \ {block[i]} :
                BytesCheckSum([block EXCEPT ![i] = z], 4) = 1

\* The bytes the conversions give, and all values of a byte and of a word there
\* and back.
ASSUME AmountBytes ==
  /\ ChgUlongToBCDString(12345678) = <<18, 52, 86, 120>>
  /\ \A n \in (0..10100) \cup {99999999} :
       ChgBCDStringToUlong(ChgUlongToBCDString(n)) = n
ASSUME WordBytes ==
  /\ DoubleBigToSmall(258) = 513
  /\ \A a \in 0..65535 : DoubleBigToSmall(DoubleBigToSmall(a)) = a
ASSUME TextOfBytes ==
  /\ gdHexGroupToHexString(<<26, 240>>) = <<49, 97, 102, 48>>
  /\ gdHexStringToHexGroup(<<49, 65>>) = <<26>>
  /\ \A b \in Byte : gdHexStringToHexGroup(gdHexGroupToHexString(<<b, 7>>)) = <<b, 7>>
=============================================================================
