----------------------------- MODULE ConsumeProofs -----------------------------
(***************************************************************************)
(* Proofs about paying by card, for any number of cards, amounts, debits   *)
(* and days, and any width of the purse counter.                           *)
(*                                                                         *)
(* Types are correct whatever fails.  The records of a card keep the limit *)
(* of the day, or of the month, at a single terminal (OneTerminal), torn   *)
(* blocks and failed reads included; the run Consume_daylimit shows what a *)
(* second terminal does, and Consume_daytotal what a repetition may write. *)
(* PurseProofs and TillProofs go on from here: with the money on a card,   *)
(* and with a payment as a whole.                                          *)
(***************************************************************************)
EXTENDS Consume, NatLemmas

\* A name for one value and one for a tuple of variables.
USE DEF OnFailure, history

CardType == [purse : [Purses -> [Blocks -> Block]], day : DayBlock]

CardIsServed ==
  ConsumCase \in {"3", "3.purse", "3.day", "3.record", "4"} =>
    CardSerialNumBak \in Cards

\* TypeOK with the shape of the functions and records spelled out.
TInv ==
  /\ TypeOK
  /\ card \in [Cards -> CardType]
  /\ PurseWrBufferBak \in [block : Blocks, data : Block]
  /\ selected => field # NoCard
  /\ CardIsServed

------------------------------------------------------------------------------
\* Types.

\* Amounts are natural numbers of the width of the card's field.
LEMMA MoneyIsNat ==
  /\ Amounts \cup Prices \cup {0} \in SUBSET Nat
  /\ ULONG \in Nat \ {0} /\ CNT \in Nat /\ CNT > 2
  /\ Opening \in Money /\ SubOpening \in Money
  /\ Minimum \in Nat /\ DayLimit \in Nat
BY MoneyAssumption, CounterAssumption DEF Money

LEMMA BlockFacts ==
  /\ \A b \in Blocks : Other(b) \in Blocks /\ Other(b) # b /\ Other(Other(b)) = b
  /\ \A b, k \in Blocks : k = b \/ k = Other(b)
  /\ \A block \in Block : /\ Torn(block) \in Block
                          /\ block.money \in Nat /\ block.cnt \in Nat
                          /\ block.good \in BOOLEAN
  /\ NoBuffer \in DayBlock
  /\ [block |-> 1, data |-> [money |-> 0, cnt |-> 0, good |-> TRUE]]
       \in [block : Blocks, data : Block]
<1>1. \A b \in Blocks : Other(b) \in Blocks /\ Other(b) # b /\ Other(Other(b)) = b
  BY DEF Blocks, Other
<1>2. \A b, k \in Blocks : k = b \/ k = Other(b)
  BY DEF Blocks, Other
<1>3. ASSUME NEW block \in Block
      PROVE  /\ Torn(block) \in Block
             /\ block.money \in Nat /\ block.cnt \in Nat /\ block.good \in BOOLEAN
  <2>1. block.money \in Nat /\ block.cnt \in Nat /\ block.good \in BOOLEAN
    BY MoneyIsNat DEF Block, Money
  <2>2. Torn(block) \in Block
    BY DEF Torn, Block
  <2> QED
    BY <2>1, <2>2
<1>4. NoBuffer \in DayBlock
  BY BoundAssumption DEF NoBuffer, DayBlock
<1>5. [money |-> 0, cnt |-> 0, good |-> TRUE] \in Block
  BY MoneyIsNat DEF Block, Money
<1> QED
  BY <1>1, <1>2, <1>3, <1>4, <1>5 DEF Blocks

LEMMA NewCardType == NewCard \in CardType
<1>1. ASSUME NEW amount \in Money PROVE NewPurse(amount) \in [Blocks -> Block]
  BY MoneyIsNat, CounterAssumption DEF NewPurse, Block
<1>2. \A p \in Purses :
        NewPurse(IF p = 0 THEN Opening ELSE SubOpening) \in [Blocks -> Block]
  BY <1>1, MoneyIsNat
<1>3. [sum |-> 0, date |-> 0, good |-> TRUE] \in DayBlock
  BY BoundAssumption DEF DayBlock
<1> QED
  BY <1>2, <1>3 DEF NewCard, CardType

LEMMA InitTInv == Init => TInv
<1> SUFFICES ASSUME Init PROVE TInv
  OBVIOUS
<1>1. card \in [Cards -> CardType]
  BY NewCardType DEF Init
<1>2. [money |-> 0, cnt |-> 0, good |-> TRUE] \in Block
  BY MoneyIsNat DEF Block, Money
<1>3. TypeOK
  <2>1. \A c \in Cards : /\ \A p \in Purses, b \in Blocks : card[c].purse[p][b] \in Block
                        /\ card[c].day \in DayBlock
    BY <1>1 DEF CardType
  <2>2. /\ OldBalance \in Money /\ PurseContrlNum \in 0..(CNT - 1)
        /\ bitUseMoneyBlock \in Blocks /\ PurseDatas_Info \in Block
    BY <1>2, MoneyIsNat DEF Init, Money, Blocks
  <2>3. /\ DaySumMoneyDatasBak \in DayBlock /\ MainWrBufferBak \in DayBlock
        /\ PurseWrBufferBak.block \in Blocks /\ PurseWrBufferBak.data \in Block
    BY <1>2, BlockFacts DEF Init, NoImage, Blocks
  <2>4. /\ SysTimeDatas \in 0..MaxDay /\ today \in 0..MaxDay
        /\ placed \in 0..MaxPlaced /\ elsewhere \in 0..MaxElsewhere
    BY BoundAssumption DEF Init
  <2>5. missed \in 0..MaxMissed /\ bought \in [Cards -> [sum : Nat, date : 0..MaxDay]]
    BY BoundAssumption DEF Init
  <2> QED
    BY <2>1, <2>2, <2>3, <2>4, <2>5 DEF Init, TypeOK
<1>4. PurseWrBufferBak \in [block : Blocks, data : Block]
  BY BlockFacts DEF Init, NoImage
<1> QED
  BY <1>1, <1>3, <1>4 DEF Init, TInv, CardIsServed

\* The amount of a debit is a natural number, and the images it writes are
\* blocks: the new balance is a remainder of 32 bits, the counter one of 16.
LEMMA ImageTypes ==
  ASSUME TInv
  PROVE  /\ CurrentConsumMoney \in Nat
         /\ NewBalance \in Money
         /\ PurseImage \in [block : Blocks, data : Block]
         /\ DayImage \in DayBlock
<1>1. CurrentConsumMoney \in Nat /\ OldBalance \in Nat /\ PurseContrlNum \in Nat
  BY MoneyIsNat DEF TInv, TypeOK, Money
<1>2. NewBalance \in Money
  BY <1>1, MoneyIsNat DEF NewBalance, Money
<1>3. (PurseContrlNum + 1) % CNT \in 0..(CNT - 1) /\ PurseContrlNum \in 0..(CNT - 1)
  BY <1>1, MoneyIsNat, ModRange DEF TInv, TypeOK
<1>4. Other(bitUseMoneyBlock) \in Blocks
  BY BlockFacts DEF TInv, TypeOK
<1>5. PurseImage \in [block : Blocks, data : Block]
  BY <1>2, <1>3, <1>4 DEF PurseImage, Block
<1>6. DaySumMoneyDatasBak.sum \in Nat
  BY DEF TInv, TypeOK, DayBlock
<1>7. DayImage \in DayBlock
  BY <1>1, <1>6 DEF TInv, TypeOK, DayImage, DayBlock, SpentInPeriod
<1> QED
  BY <1>1, <1>2, <1>5, <1>7

\* Storing a record keeps the types of what was sold and bought.
LEMMA RecordTypes ==
  ASSUME TInv, NEW c \in Cards, NEW amount \in Nat, NEW date \in 0..MaxDay,
         Record(c, amount, date)
  PROVE  /\ sold' \in [Cards -> Nat]
         /\ bought' \in [Cards -> [sum : Nat, date : 0..MaxDay]]
         /\ \A k \in Cards : k # c => sold'[k] = sold[k] /\ bought'[k] = bought[k]
         /\ sold'[c] = sold[c] + amount /\ bought'[c].date = date
         /\ bought'[c].sum =
              amount + IF SamePeriod(bought[c].date, date) THEN bought[c].sum ELSE 0
<1>1. /\ sold \in [Cards -> Nat] /\ bought \in [Cards -> [sum : Nat, date : 0..MaxDay]]
  BY DEF TInv, TypeOK
<1>2. bought[c].sum \in Nat
  BY <1>1
<1> DEFINE total == amount + IF SamePeriod(bought[c].date, date) THEN bought[c].sum ELSE 0
<1>3. total \in Nat
  BY <1>2
<1>4. bought' = [bought EXCEPT ![c] = [sum |-> total, date |-> date]]
  BY DEF Record
<1>5. sold' = [sold EXCEPT ![c] = @ + amount]
  BY DEF Record
<1> HIDE DEF total
<1>6. bought' \in [Cards -> [sum : Nat, date : 0..MaxDay]]
  BY <1>1, <1>3, <1>4
<1>7. \A k \in Cards : k # c => bought'[k] = bought[k]
  BY <1>1, <1>4
<1>8. bought'[c].date = date /\ bought'[c].sum = total
  BY <1>1, <1>4
<1>9. /\ sold' \in [Cards -> Nat] /\ sold'[c] = sold[c] + amount
      /\ \A k \in Cards : k # c => sold'[k] = sold[k]
  BY <1>1, <1>5
<1> QED
  BY <1>6, <1>7, <1>8, <1>9 DEF total

\* Storing a block on a card keeps the card's type.
LEMMA StoreTypes ==
  ASSUME TInv, NEW c \in Cards,
         NEW b \in Blocks, NEW value \in Block, NEW day \in DayBlock
  PROVE  /\ [card EXCEPT ![c].purse[0][b] = value] \in [Cards -> CardType]
         /\ [card EXCEPT ![c].day = day] \in [Cards -> CardType]
         /\ [card EXCEPT ![c].purse[0][b] = value, ![c].day = day]
              \in [Cards -> CardType]
<1>1. card[c] \in CardType
  BY DEF TInv
<1>2. [card[c].purse EXCEPT ![0][b] = value] \in [Purses -> [Blocks -> Block]]
  BY <1>1 DEF CardType
<1>3. [card[c] EXCEPT !.purse[0][b] = value] \in CardType
  BY <1>1, <1>2 DEF CardType
<1>4. [card[c] EXCEPT !.day = day] \in CardType
  BY <1>1 DEF CardType
<1>5. [card EXCEPT ![c].purse[0][b] = value] \in [Cards -> CardType]
  BY <1>3 DEF TInv
<1>6. [card EXCEPT ![c].day = day] \in [Cards -> CardType]
  BY <1>4 DEF TInv
<1>7. [[card[c] EXCEPT !.purse[0][b] = value] EXCEPT !.day = day] \in CardType
  BY <1>3 DEF CardType
<1>8. [card EXCEPT ![c].purse[0][b] = value, ![c].day = day] \in [Cards -> CardType]
  BY <1>7 DEF TInv
<1> QED
  BY <1>5, <1>6, <1>8

\* Parsing a purse leaves values of the right types in the RAM.
LEMMA ParseTypes ==
  ASSUME NEW blocks \in [Blocks -> Block], ParsePurse(blocks)
  PROVE  /\ OldBalance' \in Money /\ PurseContrlNum' \in 0..(CNT - 1)
         /\ bitUseMoneyBlock' \in Blocks /\ PurseDatas_Info' \in Block
<1>1. PICK b \in Blocks :
        /\ OldBalance' = blocks[b].money /\ PurseContrlNum' = blocks[b].cnt
        /\ bitUseMoneyBlock' = b /\ PurseDatas_Info' = blocks[Other(b)]
  BY DEF ParsePurse, Candidates
<1>2. blocks[b] \in Block /\ blocks[Other(b)] \in Block
  BY BlockFacts
<1> QED
  BY <1>1, <1>2 DEF Block

\* The turns that write no card.
LEMMA QuietTInv ==
  ASSUME TInv,
         \/ Start \/ RequestCard \/ ReadCommonFails \/ CardBalanceDiag
         \/ RewriteCardGone \/ RewriteRefused \/ CardLeft \/ SaveRecord
         \/ (\E c \in Cards : Place(c)) \/ Remove \/ NewDay
         \/ (\E amount \in Amounts : SetAmount(amount))
         \/ (\E mode \in Modes : SetMode(mode)) \/ UNCHANGED vars
  PROVE  TInv'
<1> USE DEF TInv, TypeOK, CardIsServed, ram, buffers, clock, bounds
<1>1. CASE Start
  BY <1>1 DEF Start
<1>2. CASE RequestCard
  BY <1>2 DEF RequestCard
<1>3. CASE ReadCommonFails
  BY <1>3 DEF ReadCommonFails
<1>4. CASE CardBalanceDiag
  BY <1>4 DEF CardBalanceDiag
<1>5. CASE RewriteCardGone
  BY <1>5 DEF RewriteCardGone
<1>6. CASE RewriteRefused
  BY <1>6, CardAssumption DEF RewriteRefused, SameCard
<1>7. CASE CardLeft
  <2>1. missed' \in 0..MaxMissed
    BY <1>7, BoundAssumption DEF CardLeft, MissedInPlace
  <2> QED
    BY <1>7, <2>1 DEF CardLeft
<1>8. CASE SaveRecord
  <2>1. CurrentConsumMoney \in Nat
    BY ImageTypes
  <2>2. sold' \in [Cards -> Nat] /\ bought' \in [Cards -> [sum : Nat, date : 0..MaxDay]]
    BY <1>8, <2>1, RecordTypes DEF SaveRecord
  <2> QED
    BY <1>8, <2>2 DEF SaveRecord
<1>9. CASE \E c \in Cards : Place(c)
  <2>1. PICK c \in Cards : Place(c)
    BY <1>9
  <2>2. placed' \in 0..MaxPlaced
    BY <2>1, BoundAssumption DEF Place
  <2> QED
    BY <2>1, <2>2 DEF Place
<1>10. CASE Remove
  BY <1>10 DEF Remove
<1>11. CASE NewDay
  BY <1>11, BoundAssumption DEF NewDay
<1>12. CASE \E amount \in Amounts : SetAmount(amount)
  BY <1>12 DEF SetAmount
<1>13. CASE \E mode \in Modes : SetMode(mode)
  BY <1>13 DEF SetMode
<1>14. CASE UNCHANGED vars
  BY <1>14 DEF vars
<1> QED
  BY <1>1, <1>2, <1>3, <1>4, <1>5, <1>6, <1>7, <1>8, <1>9, <1>10, <1>11, <1>12,
     <1>13, <1>14

LEMMA ReadCardTInv == ASSUME TInv, ReadCard PROVE TInv'
<1>1. field \in Cards
  BY DEF ReadCard, TInv, TypeOK
<1>2. /\ card[field].purse \in [Purses -> [Blocks -> Block]]
      /\ card[field].day \in DayBlock
  BY <1>1 DEF TInv, CardType
<1>3. /\ OldBalance' \in Money /\ PurseContrlNum' \in 0..(CNT - 1)
      /\ bitUseMoneyBlock' \in Blocks /\ PurseDatas_Info' \in Block
  <2>1. CASE UNCHANGED ram
    BY <2>1 DEF ram, TInv, TypeOK
  <2>2. CASE \E p \in Purses : ParsePurse(card[field].purse[p])
    BY <2>2, <1>2, ParseTypes
  <2> QED
    BY <2>1, <2>2, PurseAssumption DEF ReadCard, SearchPurse
<1>4. CurrentConsumMoney' \in Amounts \cup Prices \cup {0}
  BY DEF ReadCard, TInv, TypeOK
<1> QED
  BY <1>1, <1>2, <1>3, <1>4
     DEF ReadCard, TInv, TypeOK, CardIsServed, buffers, clock, bounds

\* The count of debits stays a number.
LEMMA CountDebitType ==
  ASSUME TInv, NEW c, CountDebit(c) PROVE debits' \in Nat
BY DEF CountDebit, TInv, TypeOK

LEMMA FailedWriteTypes ==
  /\ \A old, new \in Block : AfterFailure(old, new) \subseteq Block
  /\ \A old, new \in DayBlock : AfterFailure(old, new) \subseteq DayBlock
<1>1. \A new \in DayBlock : Torn(new) \in DayBlock
  BY DEF Torn, DayBlock
<1> QED
  BY <1>1, BlockFacts DEF AfterFailure

\* The turns that write the purse block.
LEMMA WriteTInv ==
  ASSUME TInv,
         \/ DetectFails \/ WritePurseFails \/ WritePurse
         \/ WriteDayFails \/ WriteDay \/ RewriteFails \/ Rewrite
  PROVE  TInv'
<1> USE CardAssumption
<1>1. /\ PurseImage \in [block : Blocks, data : Block] /\ DayImage \in DayBlock
      /\ PurseWrBufferBak \in [block : Blocks, data : Block]
      /\ MainWrBufferBak \in DayBlock
      /\ CurrentConsumMoney \in Nat
  BY ImageTypes DEF TInv, TypeOK
<1>2. ASSUME NEW c \in Cards
      PROVE  /\ \A b \in Blocks : card[c].purse[0][b] \in Block
             /\ card[c].day \in DayBlock
  BY PurseAssumption DEF TInv, CardType
<1>3. ASSUME card' \in [Cards -> CardType], PurseWrBufferBak' \in [block : Blocks, data : Block],
             MainWrBufferBak' \in DayBlock, debits' \in Nat, field' \in {field, NoCard},
             selected' \in BOOLEAN, selected' => field' # NoCard,
             ConsumCase' \in {"3.day", "3.record", "4", "5"},
             ConsumCase \in {"3", "3.purse", "3.day", "3.record", "4"},
             sold' \in [Cards -> Nat], bought' \in [Cards -> [sum : Nat, date : 0..MaxDay]],
             restored' \subseteq Cards, SysTimeDatas' \in {SysTimeDatas, today},
             UNCHANGED <<CurrentConsumMoney, consumeMode, CardSerialNumBak, ram,
                         DaySumMoneyDatasBak, today, bounds>>
      PROVE  TInv'
  <2>1. \A c \in Cards : /\ \A p \in Purses, b \in Blocks : card'[c].purse[p][b] \in Block
                        /\ card'[c].day \in DayBlock
    BY <1>3 DEF CardType
  <2> QED
    BY <1>3, <2>1 DEF TInv, TypeOK, CardIsServed, ram, bounds
<1>4. CASE DetectFails
  BY <1>1, <1>3, <1>4
     DEF DetectFails, BufferAtDetect, TInv, TypeOK, CardIsServed, buffers, clock, ram, bounds
<1>5. CASE WritePurseFails
  <2>1. field \in Cards
    BY <1>5 DEF WritePurseFails, SameCard, TInv, CardIsServed
  <2>2. PICK value \in AfterFailure(card[field].purse[0][PurseImage.block], PurseImage.data) :
          card' = [card EXCEPT ![field].purse[0][PurseImage.block] = value]
    BY <1>5 DEF WritePurseFails, SetPurse
  <2>3. value \in Block
    BY <1>1, <1>2, <2>1, <2>2, FailedWriteTypes
  <2>4. card' \in [Cards -> CardType]
    BY <1>1, <2>1, <2>2, <2>3, StoreTypes, BoundAssumption DEF NoBuffer, TInv, TypeOK
  <2>5. debits' \in Nat
    BY <1>5, CountDebitType DEF WritePurseFails
  <2> QED
    BY <1>1, <1>3, <1>5, <2>4, <2>5
       DEF WritePurseFails, Disturbed, TInv, TypeOK, clock, ram, bounds
<1>6. CASE WritePurse
  <2>1. field \in Cards
    BY <1>6 DEF WritePurse, SameCard, TInv, CardIsServed
  <2>4. card' \in [Cards -> CardType]
    BY <1>1, <1>6, <2>1, StoreTypes DEF WritePurse, SetPurse, TInv, TypeOK
  <2>5. debits' \in Nat
    BY <1>6, CountDebitType DEF WritePurse
  <2> QED
    BY <1>1, <1>3, <1>6, <2>1, <2>4, <2>5
       DEF WritePurse, TInv, TypeOK, clock, ram, bounds
<1>7. CASE WriteDayFails
  <2>1. card' \in [Cards -> CardType]
    <3>1. CASE UNCHANGED card
      BY <3>1 DEF TInv
    <3>2. CASE /\ selected
               /\ \E value \in AfterFailure(card[field].day, DayImage) :
                    card' = [card EXCEPT ![field].day = value]
      <4>1. field \in Cards
        BY <3>2 DEF TInv, TypeOK
      <4>2. PICK value \in DayBlock : card' = [card EXCEPT ![field].day = value]
        BY <1>1, <1>2, <3>2, <4>1, FailedWriteTypes
      <4> QED
        BY <4>1, <4>2 DEF TInv, CardType
    <3> QED
      BY <1>7, <3>1, <3>2 DEF WriteDayFails
  <2>2. field' \in {field, NoCard}
    BY <1>7 DEF WriteDayFails, Disturbed
  <2> QED
    BY <1>1, <1>3, <1>7, <2>1, <2>2
       DEF WriteDayFails, TInv, TypeOK, clock, ram, bounds
<1>8. CASE WriteDay
  <2>1. field \in Cards
    BY <1>8 DEF WriteDay, TInv, TypeOK
  <2>2. card' \in [Cards -> CardType]
    BY <1>1, <1>8, <2>1 DEF WriteDay, TInv, CardType
  <2> QED
    BY <1>1, <1>3, <1>8, <2>1, <2>2
       DEF WriteDay, TInv, TypeOK, clock, ram, bounds
<1>9. CASE RewriteFails
  <2>1. field \in Cards
    BY <1>9 DEF RewriteFails, SameCard, TInv, CardIsServed
  <2>2. card' \in [Cards -> CardType] /\ field' \in {field, NoCard}
    <3>1. CASE /\ Disturbed
               /\ \E value \in AfterFailure(Target, PurseWrBufferBak.data) :
                    SetPurse(field, PurseWrBufferBak, value)
      <4>1. PICK value \in AfterFailure(Target, PurseWrBufferBak.data) :
              card' = [card EXCEPT ![field].purse[0][PurseWrBufferBak.block] = value]
        BY <3>1 DEF SetPurse
      <4>2. Target \in Block
        BY <1>1, <1>2, <2>1 DEF Target
      <4>3. value \in Block
        BY <1>1, <4>1, <4>2, FailedWriteTypes
      <4> QED
        BY <1>1, <2>1, <3>1, <4>1, <4>3, StoreTypes DEF Disturbed
    <3>2. CASE /\ Disturbed \/ (MainWrBufferBak = NoBuffer /\ UNCHANGED field)
               /\ \E value \in IF MainWrBufferBak = NoBuffer THEN {card[field].day}
                               ELSE AfterFailure(card[field].day, MainWrBufferBak) :
                    card' = [card EXCEPT ![field].purse[0][PurseWrBufferBak.block] =
                                            PurseWrBufferBak.data,
                                         ![field].day = value]
      <4>1. PICK value \in IF MainWrBufferBak = NoBuffer THEN {card[field].day}
                           ELSE AfterFailure(card[field].day, MainWrBufferBak) :
                    card' = [card EXCEPT ![field].purse[0][PurseWrBufferBak.block] =
                                            PurseWrBufferBak.data,
                                         ![field].day = value]
        BY <3>2
      <4>2. value \in DayBlock
        BY <1>1, <1>2, <2>1, <4>1, FailedWriteTypes
      <4>3. card' \in [Cards -> CardType]
        BY <1>1, <2>1, <4>1, <4>2, StoreTypes
      <4> QED
        BY <3>2, <4>3 DEF Disturbed
    <3> QED
      BY <1>9, <3>1, <3>2 DEF RewriteFails
  <2>3. debits' \in Nat
    BY <1>9, CountDebitType DEF RewriteFails
  <2>4. restored' \subseteq Cards
    BY <1>9, <2>1 DEF RewriteFails, Restored, TInv, TypeOK
  <2> QED
    BY <1>1, <1>3, <1>9, <2>2, <2>3, <2>4
       DEF RewriteFails, TInv, TypeOK, clock, ram, bounds, buffers
<1>10. CASE Rewrite
  <2>1. field \in Cards
    BY <1>10 DEF Rewrite, SameCard, TInv, CardIsServed
  <2>2. card' \in [Cards -> CardType]
    BY <1>1, <1>10, <2>1, StoreTypes DEF Rewrite
  <2>3. debits' \in Nat
    BY <1>10, CountDebitType DEF Rewrite
  <2>4. sold' \in [Cards -> Nat] /\ bought' \in [Cards -> [sum : Nat, date : 0..MaxDay]]
    BY <1>1, <1>10, <2>1, RecordTypes DEF Rewrite, TInv, TypeOK
  <2>5. restored' \subseteq Cards
    BY <1>10, <2>1 DEF Rewrite, Restored, TInv, TypeOK
  <2> QED
    BY <1>1, <1>3, <1>10, <2>1, <2>2, <2>3, <2>4, <2>5
       DEF Rewrite, TInv, TypeOK, clock, ram, bounds, buffers
<1> QED
  BY <1>4, <1>5, <1>6, <1>7, <1>8, <1>9, <1>10

LEMMA ElsewhereTInv ==
  ASSUME TInv, NEW c \in Cards, NEW amount \in Amounts \ {0}, Elsewhere(c, amount)
  PROVE  TInv'
<1>1. card[c].day \in DayBlock /\ card[c].purse[0] \in [Blocks -> Block]
  BY PurseAssumption DEF TInv, CardType
<1>2. amount \in Nat /\ today \in 0..MaxDay
  BY MoneyIsNat DEF TInv, TypeOK
<1> DEFINE spent == amount + IF SamePeriod(card[c].day.date, today) THEN card[c].day.sum ELSE 0
           dayBlock == [sum |-> spent, date |-> today, good |-> TRUE]
           paid(b) == [money |-> card[c].purse[0][b].money - amount,
                       cnt |-> (card[c].purse[0][b].cnt + 1) % CNT, good |-> TRUE]
<1>3. PICK b \in Candidates(card[c].purse[0]) :
        /\ Minimum + amount <= card[c].purse[0][b].money
        /\ card' = [card EXCEPT ![c].purse[0][Other(b)] = paid(b), ![c].day = dayBlock]
  BY DEF Elsewhere
<1>4. dayBlock \in DayBlock
  BY <1>1, <1>2 DEF DayBlock
<1>5. b \in Blocks /\ card[c].purse[0][b] \in Block
  BY <1>1, <1>3 DEF Candidates
<1>6. paid(b).money \in Money
  BY <1>2, <1>3, <1>5, MoneyIsNat DEF Block, Money
<1>7. paid(b).cnt \in 0..(CNT - 1)
  <2>1. card[c].purse[0][b].cnt + 1 \in Nat
    BY <1>5, BlockFacts
  <2>2. ASSUME NEW n \in Nat PROVE n % CNT \in 0..(CNT - 1)
    BY MoneyIsNat, ModRange
  <2>3. paid(b).cnt = (card[c].purse[0][b].cnt + 1) % CNT
    OBVIOUS
  <2> QED
    BY <2>1, <2>2, <2>3
<1>8. paid(b) \in Block
  BY <1>6, <1>7 DEF Block
<1> HIDE DEF spent, dayBlock, paid
<1>9. card' \in [Cards -> CardType]
  BY <1>3, <1>4, <1>5, <1>8, StoreTypes, BlockFacts
<1>10. \A k \in Cards : /\ \A p \in Purses, q \in Blocks : card'[k].purse[p][q] \in Block
                       /\ card'[k].day \in DayBlock
  BY <1>9 DEF CardType
<1>11. sold' \in [Cards -> Nat] /\ bought' \in [Cards -> [sum : Nat, date : 0..MaxDay]]
  BY <1>2, RecordTypes DEF Elsewhere
<1>12. elsewhere' \in 0..MaxElsewhere
  BY BoundAssumption DEF Elsewhere, TInv, TypeOK
<1> QED
  BY <1>9, <1>10, <1>11, <1>12
     DEF Elsewhere, TInv, TypeOK, CardIsServed, ram, buffers, clock

LEMMA PowerCutTInv == ASSUME TInv, PowerCut PROVE TInv'
<1>1. [money |-> 0, cnt |-> 0, good |-> TRUE] \in Block
  BY MoneyIsNat DEF Block, Money
<1>2. /\ OldBalance' \in Money /\ PurseContrlNum' \in 0..(CNT - 1)
      /\ bitUseMoneyBlock' \in Blocks /\ PurseDatas_Info' \in Block
  BY <1>1, MoneyIsNat DEF PowerCut, Money, Blocks
<1>3. /\ PurseWrBufferBak' \in [block : Blocks, data : Block]
      /\ DaySumMoneyDatasBak' \in DayBlock /\ MainWrBufferBak' \in DayBlock
  BY BlockFacts DEF PowerCut, NoImage
<1> QED
  BY <1>2, <1>3 DEF PowerCut, TInv, TypeOK, CardIsServed, bounds

LEMMA NextTInv == TInv /\ [Next]_vars => TInv'
BY QuietTInv, ReadCardTInv, WriteTInv, ElsewhereTInv, PowerCutTInv DEF Next

\* Every variable of the machine and every block on a card keeps its type: the
\* unsigned difference of ConsumPocess stays within 32 bits and the counter
\* within 16, whatever fails.
THEOREM TypeCorrect == Spec => []TypeOK
<1>1. TInv => TypeOK
  BY DEF TInv
<1> QED
  BY <1>1, InitTInv, NextTInv, PTL DEF Spec

------------------------------------------------------------------------------
\* The two blocks of a purse.

\* A readable purse is worth the amount of the block that is taken for the
\* balance, the smaller one.
LEMMA BalanceOfCandidate ==
  ASSUME NEW blocks \in [Blocks -> Block], NEW b \in Candidates(blocks)
  PROVE  /\ b \in Blocks /\ blocks[1].good /\ blocks[2].good
         /\ blocks[b].money <= blocks[Other(b)].money
         /\ Worth(blocks) = blocks[b].money
<1>1. /\ b \in Blocks /\ \A k \in Blocks : blocks[k].good
      /\ blocks[b].money < blocks[Other(b)].money
           \/ blocks[b].money = blocks[Other(b)].money
  BY DEF Candidates
<1>2. Other(b) \in Blocks /\ \A k \in Blocks : k = b \/ k = Other(b)
  BY <1>1, BlockFacts
<1>3. blocks[b].money \in Nat /\ blocks[Other(b)].money \in Nat
  BY <1>1, <1>2, BlockFacts
<1>4. blocks[b].money <= blocks[Other(b)].money
  BY <1>1, <1>3
<1> DEFINE amounts == {blocks[k].money : k \in {m \in Blocks : blocks[m].good}}
<1>5. amounts \in SUBSET Nat /\ amounts # {}
  BY <1>1, BlockFacts
<1>6. Min(amounts) \in amounts /\ \A y \in amounts : Min(amounts) <= y
  BY <1>5, MinIsLeast
<1>7. Worth(blocks) = Min(amounts)
  BY <1>1 DEF Worth
<1>8. blocks[b].money \in amounts
  BY <1>1
<1>9. Min(amounts) = blocks[b].money \/ Min(amounts) = blocks[Other(b)].money
  BY <1>2, <1>6
<1> HIDE DEF amounts
<1>10. Min(amounts) <= blocks[b].money
  BY <1>6, <1>8
<1>11. Min(amounts) = blocks[b].money
  BY <1>3, <1>4, <1>9, <1>10
<1> QED
  BY <1>1, <1>4, <1>7, <1>11 DEF Blocks

\* Where one block is the other less a debit, and counts one more, the purse can
\* be read and that block is the balance, also past the wrap of the counter.
LEMMA DebitedPurse ==
  ASSUME NEW blocks \in [Blocks -> Block], NEW b \in Blocks, NEW amount \in Nat,
         blocks[b].good, blocks[Other(b)].good,
         blocks[Other(b)].money = blocks[b].money - amount,
         blocks[Other(b)].cnt = IF amount = 0 THEN blocks[b].cnt
                                ELSE (blocks[b].cnt + 1) % CNT
  PROVE  /\ Candidates(blocks) # {}
         /\ Worth(blocks) = blocks[b].money - amount
<1>1. Other(b) \in Blocks /\ Other(Other(b)) = b /\ \A k \in Blocks : k = b \/ k = Other(b)
  BY BlockFacts
<1>2. blocks[b].money \in Nat /\ blocks[b].cnt \in Nat
  BY BlockFacts
<1>3. \/ /\ blocks[Other(b)].money < blocks[b].money
         /\ Follows(blocks[Other(b)].cnt, blocks[b].cnt)
      \/ /\ blocks[Other(b)].money = blocks[b].money
         /\ blocks[Other(b)].cnt = blocks[b].cnt
  BY <1>2 DEF Follows
<1>4. Other(b) \in Candidates(blocks)
  BY <1>1, <1>3 DEF Candidates
<1> QED
  BY <1>4, BalanceOfCandidate

\* A card is issued readable, with its opening balance.
LEMMA NewPurseReadable ==
  /\ NewPurse(Opening) \in [Blocks -> Block]
  /\ 1 \in Candidates(NewPurse(Opening)) /\ Worth(NewPurse(Opening)) = Opening
<1>1. NewPurse(Opening) \in [Blocks -> Block]
  BY MoneyIsNat, CounterAssumption DEF NewPurse, Block
<1>2. 1 \in Candidates(NewPurse(Opening))
  BY CounterAssumption DEF NewPurse, Candidates, Blocks, Other
<1> QED
  BY <1>1, <1>2, BalanceOfCandidate DEF NewPurse, Blocks

------------------------------------------------------------------------------
\* The limit of the day or of the month.

\* The card is debited at this terminal only, and the amount stays.
OneTerminal == MaxElsewhere = 0 /\ "qt" \notin Faults

DayServed == {"3", "3.purse", "3.day", "3.record", "4"}
DayDebited == {"3.purse", "3.day", "3.record", "4"}

\* A day block that counts all that was bought in its period.
Covers(day, paid) ==
  paid.date <= day.date /\ (SamePeriod(paid.date, day.date) => paid.sum <= day.sum)

\* No date is later than the one the clock was last read on.
DatesKept ==
  /\ SysTimeDatas <= today
  /\ \A c \in Cards : bought[c].date <= SysTimeDatas
  /\ \A c \in Cards : card[c].day.good => card[c].day.date <= SysTimeDatas
  /\ DaySumMoneyDatasBak.date <= SysTimeDatas
  /\ MainWrBufferBak.date <= SysTimeDatas

\* The amount of a debit was checked against the block that was read.
SumChecked == ConsumCase \in DayDebited => SpentInPeriod + CurrentConsumMoney <= DayLimit

BoughtWithin == \A c \in Cards \ restored : bought[c].sum <= DayLimit

BlocksCover ==
  \A c \in Cards \ restored : card[c].day.good => Covers(card[c].day, bought[c])

\* The block that was read counts what the card being served has bought.
ReadCovers ==
  ConsumCase \in DayServed /\ CardSerialNumBak \notin restored =>
    Covers(DaySumMoneyDatasBak, bought[CardSerialNumBak])

\* The day block is written to the card that was read.
DayBlockIsOwn ==
  /\ ConsumCase = "3.day" /\ selected => SameCard
  /\ ConsumCase = "3.record" => card[CardSerialNumBak].day = DayImage

DayInv ==
  DatesKept /\ SumChecked /\ BoughtWithin /\ BlocksCover /\ ReadCovers /\ DayBlockIsOwn

DayIInv == TInv /\ DayInv

LEMMA DayTypes ==
  ASSUME TInv
  PROVE  /\ SysTimeDatas \in Nat /\ today \in Nat /\ DayLimit \in Nat
         /\ SysTimeDatas \in 0..MaxDay
         /\ CurrentConsumMoney \in Nat
         /\ DaySumMoneyDatasBak.sum \in Nat /\ DaySumMoneyDatasBak.date \in Nat
         /\ MainWrBufferBak.sum \in Nat /\ MainWrBufferBak.date \in Nat
         /\ \A c \in Cards : /\ card[c].day.sum \in Nat /\ card[c].day.date \in Nat
                             /\ bought[c].sum \in Nat /\ bought[c].date \in Nat
         /\ card \in [Cards -> CardType]
         /\ ConsumCase \in DayServed => CardSerialNumBak \in Cards
<1>1. \A c \in Cards : bought[c].sum \in Nat /\ bought[c].date \in Nat
  BY DEF TInv, TypeOK
<1> QED
  BY <1>1, ImageTypes, MoneyIsNat DEF TInv, TypeOK, DayBlock, CardIsServed, DayServed

\* A date between two of a period is of that period.
LEMMA Periods ==
  ASSUME NEW d \in Nat, NEW e \in Nat, NEW f \in Nat, d <= e, e <= f, SamePeriod(d, f)
  PROVE  SamePeriod(d, e) /\ SamePeriod(e, f)
<1>1. CASE Limit_MoneySign = 1
  <2>1. /\ d \div MonthDays \in Nat /\ e \div MonthDays \in Nat /\ f \div MonthDays \in Nat
        /\ d \div MonthDays <= e \div MonthDays
        /\ e \div MonthDays <= f \div MonthDays
    BY LimitAssumption, DivMonotone
  <2>2. d \div MonthDays = f \div MonthDays
    BY <1>1 DEF SamePeriod
  <2> QED
    BY <1>1, <2>1, <2>2 DEF SamePeriod
<1>2. CASE Limit_MoneySign # 1
  BY <1>2 DEF SamePeriod
<1> QED
  BY <1>1, <1>2

LEMMA InitDayIInv == Init => DayIInv
<1> SUFFICES ASSUME Init PROVE DayInv
  BY InitTInv DEF DayIInv
<1>1. DayLimit \in Nat
  BY MoneyAssumption
<1>2. \A c \in Cards : /\ card[c].day = [sum |-> 0, date |-> 0, good |-> TRUE]
                       /\ bought[c] = [sum |-> 0, date |-> 0]
  BY DEF Init, NewCard
<1>3. DatesKept
  BY <1>2 DEF Init, DatesKept, NoBuffer
<1>4. BoughtWithin /\ BlocksCover
  BY <1>1, <1>2 DEF BoughtWithin, BlocksCover, Covers
<1> QED
  BY <1>3, <1>4 DEF Init, DayInv, SumChecked, ReadCovers, DayBlockIsOwn, DayDebited, DayServed

\* Dates grow with the clock, and what is written has a date that was read.
LEMMA DatesStep ==
  ASSUME TInv, DatesKept, SysTimeDatas' \in {SysTimeDatas, today},
         today' \in {today, today + 1},
         \A c \in Cards : bought'[c].date \in {bought[c].date, SysTimeDatas},
         \A c \in Cards : card'[c].day.good =>
           \/ card'[c].day = card[c].day
           \/ card'[c].day.date \in {MainWrBufferBak.date, SysTimeDatas},
         \/ UNCHANGED DaySumMoneyDatasBak
         \/ \E c \in Cards : card[c].day.good /\ DaySumMoneyDatasBak' = card[c].day,
         MainWrBufferBak'.date \in {MainWrBufferBak.date, SysTimeDatas}
  PROVE  DatesKept'
<1>1. /\ SysTimeDatas \in Nat /\ today \in Nat /\ SysTimeDatas <= SysTimeDatas'
      /\ SysTimeDatas' <= today' /\ SysTimeDatas' \in Nat
  BY DayTypes DEF DatesKept
<1>2. ASSUME NEW d \in Nat, d <= SysTimeDatas PROVE d <= SysTimeDatas'
  BY <1>1, <1>2
<1>3. \A c \in Cards : bought'[c].date <= SysTimeDatas'
  BY <1>1, <1>2, DayTypes DEF DatesKept
<1>4. \A c \in Cards : card'[c].day.good => card'[c].day.date <= SysTimeDatas'
  BY <1>1, <1>2, DayTypes DEF DatesKept
<1>5. DaySumMoneyDatasBak'.date <= SysTimeDatas' /\ MainWrBufferBak'.date <= SysTimeDatas'
  BY <1>1, <1>2, DayTypes DEF DatesKept
<1> QED
  BY <1>1, <1>3, <1>4, <1>5 DEF DatesKept

\* The block of a debit counts what the card has bought, also with the debit.
LEMMA ImageCovers ==
  ASSUME DayIInv, ConsumCase \in DayServed, CardSerialNumBak \notin restored
  PROVE  /\ CardSerialNumBak \in Cards
         /\ Covers(DayImage, bought[CardSerialNumBak])
         /\ DayImage.date = SysTimeDatas /\ DayImage.sum = SpentInPeriod + CurrentConsumMoney
         /\ CurrentConsumMoney +
              (IF SamePeriod(bought[CardSerialNumBak].date, SysTimeDatas)
               THEN bought[CardSerialNumBak].sum ELSE 0) <= DayImage.sum
<1> DEFINE paid == bought[CardSerialNumBak]
           read == DaySumMoneyDatasBak
<1>1. /\ CardSerialNumBak \in Cards
      /\ paid.sum \in Nat /\ paid.date \in Nat /\ read.sum \in Nat /\ read.date \in Nat
      /\ SysTimeDatas \in Nat /\ CurrentConsumMoney \in Nat
  BY DayTypes DEF DayIInv
<1>2. paid.date <= read.date /\ read.date <= SysTimeDatas /\ paid.date <= SysTimeDatas
  BY <1>1 DEF DayIInv, DayInv, ReadCovers, Covers, DatesKept
<1>3. DayImage.date = SysTimeDatas /\ DayImage.sum = SpentInPeriod + CurrentConsumMoney
  BY DEF DayImage
<1>4. SamePeriod(paid.date, SysTimeDatas) => SpentInPeriod = read.sum /\ paid.sum <= read.sum
  <2> SUFFICES ASSUME SamePeriod(paid.date, SysTimeDatas)
               PROVE  SpentInPeriod = read.sum /\ paid.sum <= read.sum
    OBVIOUS
  <2>1. SamePeriod(paid.date, read.date) /\ SamePeriod(read.date, SysTimeDatas)
    BY <1>1, <1>2, Periods
  <2> QED
    BY <2>1 DEF SpentInPeriod, DayIInv, DayInv, ReadCovers, Covers
<1>5. SpentInPeriod \in Nat
  BY <1>1 DEF SpentInPeriod
<1> HIDE DEF paid, read
<1>6. Covers(DayImage, paid)
  BY <1>1, <1>2, <1>3, <1>4, <1>5 DEF Covers
<1>7. CurrentConsumMoney + (IF SamePeriod(paid.date, SysTimeDatas) THEN paid.sum ELSE 0)
        <= DayImage.sum
  BY <1>1, <1>3, <1>4, <1>5
<1> QED
  BY <1>1, <1>3, <1>6, <1>7 DEF paid

\* Turns that write no card and store no record.
LEMMA QuietDayInv ==
  ASSUME DayIInv, OneTerminal,
         \/ Start \/ RequestCard \/ ReadCommonFails
         \/ RewriteCardGone \/ RewriteRefused \/ CardLeft
         \/ (\E c \in Cards : Place(c)) \/ Remove \/ NewDay
         \/ (\E amount \in Amounts : SetAmount(amount))
         \/ (\E mode \in Modes : SetMode(mode)) \/ UNCHANGED vars
  PROVE  DayInv'
<1> USE DEF DayIInv, DayInv
<1>1. /\ today' \in {today, today + 1}
      /\ UNCHANGED <<card, DaySumMoneyDatasBak, MainWrBufferBak, SysTimeDatas, bought,
                     restored, CardSerialNumBak>>
  BY DayTypes
     DEF Start, RequestCard, ReadCommonFails, RewriteCardGone, RewriteRefused, CardLeft,
     Place, Remove, NewDay, SetAmount, SetMode, vars, buffers, clock
<1>2. \/ ConsumCase' \in {"0", "1", "2", "5"}
      \/ /\ UNCHANGED <<ConsumCase, CurrentConsumMoney>>
         /\ ~selected' \/ UNCHANGED <<selected, field>>
  BY DEF Start, RequestCard, ReadCommonFails, RewriteCardGone, RewriteRefused, CardLeft,
     Place, Remove, NewDay, SetAmount, SetMode, vars, Serving, OneTerminal, TInv, TypeOK
<1>3. DatesKept'
  BY <1>1, DatesStep
<1>4. BoughtWithin' /\ BlocksCover'
  BY <1>1 DEF BoughtWithin, BlocksCover
<1>5. SumChecked' /\ ReadCovers' /\ DayBlockIsOwn'
  <2>1. CASE ConsumCase' \in {"0", "1", "2", "5"}
    BY <2>1 DEF SumChecked, ReadCovers, DayBlockIsOwn, DayDebited, DayServed
  <2>2. CASE /\ UNCHANGED <<ConsumCase, CurrentConsumMoney>>
             /\ ~selected' \/ UNCHANGED <<selected, field>>
    <3>1. SumChecked' /\ ReadCovers'
      BY <1>1, <2>2 DEF SumChecked, ReadCovers, SpentInPeriod
    <3>2. DayImage' = DayImage
      BY <1>1, <2>2 DEF DayImage, SpentInPeriod
    <3> QED
      BY <1>1, <2>2, <3>1, <3>2 DEF DayBlockIsOwn, SameCard
  <2> QED
    BY <1>2, <2>1, <2>2
<1> QED
  BY <1>3, <1>4, <1>5

\* The check: a day block of the period of the last debit, or of one before.
LEMMA CheckDayInv ==
  ASSUME DayIInv, Limit_MoneySign # 0, CardBalanceDiag PROVE DayInv'
<1> USE DEF DayIInv, DayInv
<1>1. /\ SysTimeDatas' \in {SysTimeDatas, today} /\ today' = today
      /\ UNCHANGED <<card, DaySumMoneyDatasBak, MainWrBufferBak, CurrentConsumMoney, bought,
                     restored, CardSerialNumBak>>
      /\ ConsumCase = "3" /\ ConsumCase' \in {"3.purse", "5"}
  BY DEF CardBalanceDiag, buffers
<1>2. DatesKept'
  BY <1>1, DatesStep
<1>3. BoughtWithin' /\ BlocksCover' /\ DayBlockIsOwn'
  BY <1>1 DEF BoughtWithin, BlocksCover, DayBlockIsOwn
<1>4. ReadCovers'
  BY <1>1 DEF ReadCovers, DayServed
<1>5. SumChecked'
  <2> SUFFICES ASSUME ConsumCase' \in DayDebited
               PROVE  (SpentInPeriod + CurrentConsumMoney <= DayLimit)'
    BY DEF SumChecked
  <2>1. Affordable /\ SysTimeDatas' = today
    BY <1>1 DEF CardBalanceDiag, DayDebited
  <2>2. /\ DaySumMoneyDatasBak.date <= SysTimeDatas /\ SysTimeDatas <= today
        /\ DaySumMoneyDatasBak.date \in Nat /\ SysTimeDatas \in Nat /\ today \in Nat
        /\ CurrentConsumMoney \in Nat
    BY DayTypes DEF DatesKept
  <2>3. CASE SamePeriod(DaySumMoneyDatasBak.date, today)
    <3>1. SamePeriod(DaySumMoneyDatasBak.date, SysTimeDatas)
      BY <2>2, <2>3, Periods
    <3> QED
      BY <1>1, <2>1, <2>3, <3>1 DEF Affordable, SpentInPeriod
  <2>4. CASE ~SamePeriod(DaySumMoneyDatasBak.date, today)
    <3>1. SpentInPeriod' = 0 /\ CurrentConsumMoney <= DayLimit
      BY <1>1, <2>1, <2>4 DEF SpentInPeriod, Affordable
    <3> QED
      BY <1>1, <2>2, <3>1, DayTypes
  <2> QED
    BY <2>3, <2>4
<1> QED
  BY <1>2, <1>3, <1>4, <1>5

LEMMA ReadCardDayInv == ASSUME DayIInv, ReadCard PROVE DayInv'
<1> USE DEF DayIInv, DayInv
<1>1. field \in Cards /\ field # NoCard
  BY CardAssumption DEF ReadCard, TInv, TypeOK
<1>2. /\ UNCHANGED <<card, SysTimeDatas, today, MainWrBufferBak, bought, restored>>
      /\ DaySumMoneyDatasBak' = card[field].day /\ card[field].day.good
      /\ ConsumCase' \in {"3", "5"} /\ CardSerialNumBak' = field
  BY DEF ReadCard, clock, buffers
<1>3. DatesKept'
  BY <1>1, <1>2, DatesStep
<1>4. BoughtWithin' /\ BlocksCover'
  BY <1>2 DEF BoughtWithin, BlocksCover
<1>5. ReadCovers'
  BY <1>1, <1>2 DEF ReadCovers, BlocksCover
<1> QED
  BY <1>2, <1>3, <1>4, <1>5 DEF SumChecked, DayBlockIsOwn, DayDebited

\* The purse block: no day block is written.
LEMMA PurseDayInv ==
  ASSUME DayIInv, DetectFails \/ WritePurseFails \/ WritePurse PROVE DayInv'
<1> USE DEF DayIInv, DayInv
<1>1. /\ UNCHANGED <<SysTimeDatas, today, DaySumMoneyDatasBak, MainWrBufferBak,
                     CurrentConsumMoney, bought, restored, CardSerialNumBak>>
      /\ ConsumCase = "3.purse"
      /\ ConsumCase' = "4" \/ (ConsumCase' = "3.day" /\ SameCard /\ field' = field)
  BY DEF DetectFails, WritePurseFails, WritePurse, clock
<1>2. \A c \in Cards : card'[c].day = card[c].day
  <2>1. UNCHANGED card \/ \E value : SetPurse(field, PurseImage, value)
    BY DEF DetectFails, WritePurseFails, WritePurse
  <2>2. ASSUME NEW b, NEW value, card' = [card EXCEPT ![field].purse[0][b] = value]
        PROVE  \A c \in Cards : card'[c].day = card[c].day
    BY <2>2, DayTypes DEF CardType
  <2> QED
    BY <2>1, <2>2 DEF SetPurse
<1>3. DatesKept'
  BY <1>1, <1>2, DatesStep
<1>4. BoughtWithin' /\ BlocksCover'
  BY <1>1, <1>2 DEF BoughtWithin, BlocksCover
<1>5. SumChecked' /\ ReadCovers' /\ DayBlockIsOwn'
  BY <1>1 DEF SumChecked, ReadCovers, DayBlockIsOwn, SpentInPeriod, DayDebited, DayServed,
              SameCard
<1> QED
  BY <1>3, <1>4, <1>5

\* The day block of the card in the field, wholly, in part or not at all.
LEMMA WriteDayDayInv ==
  ASSUME DayIInv, WriteDayFails \/ WriteDay PROVE DayInv'
<1> USE DEF DayIInv, DayInv
<1>1. /\ UNCHANGED <<SysTimeDatas, today, DaySumMoneyDatasBak, CurrentConsumMoney, bought,
                     restored, CardSerialNumBak>>
      /\ ConsumCase = "3.day" /\ ConsumCase' \in {"3.record", "4"}
      /\ MainWrBufferBak' = DayImage
  BY DEF WriteDayFails, WriteDay, clock
<1>2. PICK value \in {DayImage, Torn(DayImage)} :
        \/ UNCHANGED card /\ ConsumCase' = "4"
        \/ /\ SameCard /\ card' = [card EXCEPT ![CardSerialNumBak].day = value]
           /\ ConsumCase' = "3.record" => value = DayImage
  <2>1. selected => SameCard
    BY <1>1 DEF DayBlockIsOwn
  <2>2. CASE WriteDay
    BY <2>1, <2>2 DEF WriteDay, SameCard
  <2>3. CASE WriteDayFails
    <3>1. CASE UNCHANGED card
      BY <2>3, <3>1 DEF WriteDayFails
    <3>2. CASE selected /\ \E value \in AfterFailure(card[field].day, DayImage) :
                             card' = [card EXCEPT ![field].day = value]
      <4>1. PICK value \in {card[field].day, DayImage, Torn(DayImage)} :
              card' = [card EXCEPT ![field].day = value]
        BY <3>2 DEF AfterFailure
      <4>2. CASE value = card[field].day
        <5>1. card' = card
          BY <4>1, <4>2 DEF TInv, CardType
        <5> QED
          BY <2>3, <5>1 DEF WriteDayFails
      <4>3. CASE value # card[field].day
        BY <2>1, <2>3, <3>2, <4>1, <4>3 DEF WriteDayFails, SameCard
      <4> QED
        BY <4>2, <4>3
    <3> QED
      BY <2>3, <3>1, <3>2 DEF WriteDayFails
  <2> QED
    BY <2>2, <2>3
<1>3. CardSerialNumBak \in Cards
  BY <1>1, DayTypes DEF DayServed
<1>4. \A c \in Cards : \/ card'[c].day = card[c].day
                       \/ c = CardSerialNumBak /\ card'[c].day = value
  BY <1>2, <1>3, DayTypes DEF CardType
<1>5. value.good => value = DayImage
  BY <1>2 DEF Torn, DayImage
<1>6. DatesKept'
  <2>1. DayImage.date = SysTimeDatas
    BY DEF DayImage
  <2> QED
    BY <1>1, <1>4, <1>5, <2>1, DatesStep
<1>7. BoughtWithin'
  BY <1>1 DEF BoughtWithin
<1>8. BlocksCover'
  <2>1. ConsumCase \in DayServed
    BY <1>1 DEF DayServed
  <2> QED
    BY <1>1, <1>4, <1>5, <2>1, ImageCovers DEF BlocksCover
<1>9. SumChecked' /\ ReadCovers'
  BY <1>1 DEF SumChecked, ReadCovers, SpentInPeriod, DayDebited, DayServed
<1>10. DayBlockIsOwn'
  <2>1. DayImage' = DayImage
    BY <1>1 DEF DayImage, SpentInPeriod
  <2>2. ConsumCase' = "3.record" => card'[CardSerialNumBak].day = DayImage
    BY <1>2, <1>3, DayTypes DEF CardType
  <2> QED
    BY <1>1, <2>1, <2>2 DEF DayBlockIsOwn
<1> QED
  BY <1>6, <1>7, <1>8, <1>9, <1>10

\* What a record adds to what was bought was checked, and the block of the debit
\* counts it.
LEMMA RecordWithin ==
  ASSUME DayIInv, ConsumCase \in DayDebited,
         Record(CardSerialNumBak, CurrentConsumMoney, SysTimeDatas)
  PROVE  /\ CardSerialNumBak \in Cards
         /\ \A c \in Cards : c # CardSerialNumBak => bought'[c] = bought[c]
         /\ bought'[CardSerialNumBak].date = SysTimeDatas
         /\ CardSerialNumBak \notin restored =>
              /\ bought'[CardSerialNumBak].sum <= DayLimit
              /\ Covers(DayImage, bought'[CardSerialNumBak])
<1>1. CardSerialNumBak \in Cards /\ CurrentConsumMoney \in Nat /\ SysTimeDatas \in 0..MaxDay
  BY DayTypes DEF DayIInv, DayDebited, DayServed
<1>2. /\ \A c \in Cards : c # CardSerialNumBak => bought'[c] = bought[c]
      /\ bought'[CardSerialNumBak].date = SysTimeDatas
      /\ bought'[CardSerialNumBak].sum =
           CurrentConsumMoney +
             IF SamePeriod(bought[CardSerialNumBak].date, SysTimeDatas)
             THEN bought[CardSerialNumBak].sum ELSE 0
  BY <1>1, RecordTypes DEF DayIInv
<1>3. ASSUME CardSerialNumBak \notin restored
      PROVE  /\ bought'[CardSerialNumBak].sum <= DayLimit
             /\ Covers(DayImage, bought'[CardSerialNumBak])
  <2>1. /\ DayImage.date = SysTimeDatas /\ DayImage.sum <= DayLimit
        /\ bought'[CardSerialNumBak].sum <= DayImage.sum
    BY <1>2, <1>3, ImageCovers DEF DayIInv, DayInv, SumChecked, DayDebited, DayServed
  <2>2. /\ bought'[CardSerialNumBak].sum \in Nat /\ DayImage.sum \in Nat /\ DayLimit \in Nat
    <3>1. bought[CardSerialNumBak].sum \in Nat /\ DayImage \in DayBlock /\ DayLimit \in Nat
      BY <1>1, DayTypes, ImageTypes DEF DayIInv
    <3> QED
      BY <1>1, <1>2, <3>1 DEF DayBlock
  <2>3. SysTimeDatas \in Nat
    BY DayTypes DEF DayIInv
  <2> QED
    BY <1>2, <2>1, <2>2, <2>3 DEF Covers
<1> QED
  BY <1>1, <1>2, <1>3

LEMMA SaveRecordDayInv == ASSUME DayIInv, SaveRecord PROVE DayInv'
<1> USE DEF DayIInv, DayInv
<1>1. /\ UNCHANGED <<card, today, DaySumMoneyDatasBak, MainWrBufferBak, restored>>
      /\ SysTimeDatas' = today /\ ConsumCase = "3.record" /\ ConsumCase' = "5"
      /\ Record(CardSerialNumBak, CurrentConsumMoney, SysTimeDatas)
  BY DEF SaveRecord, buffers
<1>2. /\ CardSerialNumBak \in Cards
      /\ \A c \in Cards : c # CardSerialNumBak => bought'[c] = bought[c]
      /\ bought'[CardSerialNumBak].date = SysTimeDatas
      /\ CardSerialNumBak \notin restored =>
           /\ bought'[CardSerialNumBak].sum <= DayLimit
           /\ Covers(DayImage, bought'[CardSerialNumBak])
  BY <1>1, RecordWithin DEF DayDebited
<1>3. DatesKept'
  <2>1. \A c \in Cards : bought'[c].date \in {bought[c].date, SysTimeDatas}
    BY <1>2
  <2> QED
    BY <1>1, <2>1, DatesStep
<1>4. BoughtWithin'
  BY <1>1, <1>2 DEF BoughtWithin
<1>5. BlocksCover'
  BY <1>1, <1>2 DEF BlocksCover, DayBlockIsOwn
<1> QED
  BY <1>1, <1>3, <1>4, <1>5 DEF SumChecked, ReadCovers, DayBlockIsOwn, DayDebited, DayServed

\* The repetition: the block of this debit, or the card counts as restored.
LEMMA RewriteDayInv ==
  ASSUME DayIInv, RewriteFails \/ Rewrite PROVE DayInv'
<1> USE DEF DayIInv, DayInv
<1>1. /\ UNCHANGED <<today, DaySumMoneyDatasBak, MainWrBufferBak>>
      /\ SysTimeDatas' \in {SysTimeDatas, today}
      /\ ConsumCase = "4" /\ ConsumCase' = "5" /\ field = CardSerialNumBak
      /\ CardSerialNumBak \in Cards /\ restored' \in {restored, Restored}
      /\ restored' = Restored \/ \A c \in Cards : card'[c].day = card[c].day
  <2>1. ConsumCase = "4" /\ field = CardSerialNumBak /\ CardSerialNumBak \in Cards
    BY DayTypes DEF RewriteFails, Rewrite, SameCard, DayServed
  <2>2. restored' = Restored
          \/ /\ restored' = restored
             /\ \E value : card' = [card EXCEPT ![field].purse[0][PurseWrBufferBak.block] = value]
    BY DEF RewriteFails, Rewrite, SetPurse
  <2>3. restored' = Restored
          \/ (restored' = restored /\ \A c \in Cards : card'[c].day = card[c].day)
    <3>1. ASSUME NEW b, NEW value, card' = [card EXCEPT ![field].purse[0][b] = value]
          PROVE  \A c \in Cards : card'[c].day = card[c].day
      BY <3>1, DayTypes DEF CardType
    <3> QED
      BY <2>2, <3>1
  <2> QED
    BY <2>1, <2>3 DEF RewriteFails, Rewrite, buffers, clock
<1>2. /\ restored \subseteq restored'
      /\ \A c \in Cards : c \notin restored' /\ card'[c].day # card[c].day =>
           c = field /\ MainWrBufferBak \in {DayImage, NoBuffer}
      /\ \A c \in Cards : \/ card'[c].day = card[c].day
                          \/ c = field /\ card'[c].day = MainWrBufferBak /\ MainWrBufferBak # NoBuffer
                          \/ c = field /\ card'[c].day = Torn(MainWrBufferBak)
  <2>1. \/ \E value : card' = [card EXCEPT ![field].purse[0][PurseWrBufferBak.block] = value]
        \/ \E value \in IF MainWrBufferBak = NoBuffer THEN {card[field].day}
                        ELSE {card[field].day, MainWrBufferBak, Torn(MainWrBufferBak)} :
             card' = [card EXCEPT ![field].purse[0][PurseWrBufferBak.block] =
                                     PurseWrBufferBak.data,
                                  ![field].day = value]
    <3>1. CASE RewriteFails
      BY <3>1 DEF RewriteFails, SetPurse, AfterFailure
    <3>2. CASE Rewrite
      BY <3>2 DEF Rewrite
    <3> QED
      BY <3>1, <3>2
  <2>2. \A c \in Cards : \/ card'[c].day = card[c].day
                         \/ c = field /\ card'[c].day = MainWrBufferBak /\ MainWrBufferBak # NoBuffer
                         \/ c = field /\ card'[c].day = Torn(MainWrBufferBak)
    BY <1>1, <2>1, DayTypes DEF CardType
  <2>3. restored \subseteq Restored
    BY DEF Restored
  <2>4. field \notin Restored => MainWrBufferBak \in {DayImage, NoBuffer}
    BY DEF Restored
  <2> QED
    BY <1>1, <2>2, <2>3, <2>4
<1>3. \A c \in Cards \ restored' : card'[c].day.good =>
        card'[c].day = card[c].day \/ (c = field /\ card'[c].day = DayImage)
  <2>1. ~Torn(MainWrBufferBak).good
    BY DEF Torn, TInv, TypeOK, DayBlock
  <2> QED
    BY <1>2, <2>1
<1>4. \/ UNCHANGED bought
      \/ /\ Rewrite
         /\ Record(CardSerialNumBak, CurrentConsumMoney, SysTimeDatas)
  BY <1>1 DEF RewriteFails, Rewrite
<1>5. DatesKept'
  <2>1. \A c \in Cards : bought'[c].date \in {bought[c].date, SysTimeDatas}
    BY <1>1, <1>4, RecordWithin DEF DayDebited
  <2>2. \A c \in Cards : card'[c].day.good =>
          card'[c].day = card[c].day \/ card'[c].day.date = MainWrBufferBak.date
    <3>1. ~Torn(MainWrBufferBak).good
      BY DEF Torn, TInv, TypeOK, DayBlock
    <3> QED
      BY <1>2, <3>1
  <2> QED
    BY <1>1, <2>1, <2>2, DatesStep
<1>6. BoughtWithin' /\ BlocksCover'
  <2>1. CASE UNCHANGED bought
    <3>1. ASSUME NEW c \in Cards \ restored' PROVE bought[c].sum <= DayLimit
      BY <1>2, <3>1 DEF BoughtWithin
    <3>2. ASSUME NEW c \in Cards \ restored', card'[c].day.good
          PROVE  Covers(card'[c].day, bought[c])
      BY <1>1, <1>2, <1>3, <3>2, ImageCovers DEF BlocksCover, DayServed
    <3> QED
      BY <2>1, <3>1, <3>2 DEF BoughtWithin, BlocksCover
  <2>2. CASE Rewrite /\ Record(CardSerialNumBak, CurrentConsumMoney, SysTimeDatas)
    <3>1. /\ \A c \in Cards : c # CardSerialNumBak => bought'[c] = bought[c]
          /\ CardSerialNumBak \notin restored =>
               /\ bought'[CardSerialNumBak].sum <= DayLimit
               /\ Covers(DayImage, bought'[CardSerialNumBak])
      BY <1>1, <2>2, RecordWithin DEF DayDebited
    <3>2. card'[CardSerialNumBak].day = MainWrBufferBak /\ MainWrBufferBak # NoBuffer
      BY <1>1, <2>2, DayTypes DEF Rewrite, CardType
    <3>3. CardSerialNumBak \notin restored' => card'[CardSerialNumBak].day = DayImage
      <4>1. restored' = Restored
        BY <2>2 DEF Rewrite
      <4> QED
        BY <1>1, <3>2, <4>1 DEF Restored
    <3>4. BoughtWithin'
      BY <1>2, <3>1 DEF BoughtWithin
    <3>5. BlocksCover'
      BY <1>1, <1>2, <1>3, <3>1, <3>3 DEF BlocksCover
    <3> QED
      BY <3>4, <3>5
  <2> QED
    BY <1>4, <2>1, <2>2
<1> QED
  BY <1>1, <1>5, <1>6 DEF SumChecked, ReadCovers, DayBlockIsOwn, DayDebited, DayServed

\* A restart reads the clock.
LEMMA PowerCutDayInv == ASSUME DayIInv, PowerCut PROVE DayInv'
<1> USE DEF DayIInv, DayInv
<1>1. /\ UNCHANGED <<card, today, bought, restored>> /\ ConsumCase' = "0"
      /\ SysTimeDatas' = today /\ DaySumMoneyDatasBak' = NoBuffer
      /\ MainWrBufferBak' = NoBuffer
  BY DEF PowerCut
<1>2. /\ SysTimeDatas \in Nat /\ today \in Nat /\ NoBuffer.date = 0
      /\ \A c \in Cards : bought[c].date \in Nat /\ card[c].day.date \in Nat
  BY DayTypes DEF NoBuffer
<1>3. DatesKept'
  BY <1>1, <1>2 DEF DatesKept
<1>4. BoughtWithin' /\ BlocksCover'
  BY <1>1 DEF BoughtWithin, BlocksCover
<1> QED
  BY <1>1, <1>3, <1>4 DEF SumChecked, ReadCovers, DayBlockIsOwn, DayDebited, DayServed

LEMMA NextDayIInv ==
  ASSUME OneTerminal, Limit_MoneySign # 0, DayIInv, [Next]_vars PROVE DayIInv'
<1>1. TInv'
  BY NextTInv DEF DayIInv
<1>2. DayInv'
  <2>1. CASE \/ Start \/ RequestCard \/ ReadCommonFails
             \/ RewriteCardGone \/ RewriteRefused \/ CardLeft
             \/ (\E c \in Cards : Place(c)) \/ Remove \/ NewDay
             \/ (\E amount \in Amounts : SetAmount(amount))
             \/ (\E mode \in Modes : SetMode(mode)) \/ UNCHANGED vars
    BY <2>1, QuietDayInv
  <2>2. CASE CardBalanceDiag
    BY <2>2, CheckDayInv
  <2>3. CASE ReadCard
    BY <2>3, ReadCardDayInv
  <2>4. CASE DetectFails \/ WritePurseFails \/ WritePurse
    BY <2>4, PurseDayInv
  <2>5. CASE WriteDayFails \/ WriteDay
    BY <2>5, WriteDayDayInv
  <2>6. CASE SaveRecord
    BY <2>6, SaveRecordDayInv
  <2>7. CASE RewriteFails \/ Rewrite
    BY <2>7, RewriteDayInv
  <2>8. CASE \E c \in Cards, amount \in Amounts \ {0} : Elsewhere(c, amount)
    <3>1. elsewhere < MaxElsewhere /\ MaxElsewhere = 0 /\ elsewhere \in Nat
      BY <2>8 DEF Elsewhere, OneTerminal, DayIInv, TInv, TypeOK
    <3> QED
      BY <3>1
  <2>9. CASE PowerCut
    BY <2>9, PowerCutDayInv
  <2> QED
    BY <2>1, <2>2, <2>3, <2>4, <2>5, <2>6, <2>7, <2>8, <2>9 DEF Next
<1> QED
  BY <1>1, <1>2 DEF DayIInv

\* With a limit of the day or of the month, and one terminal, no card has records
\* of more than the limit in a period, whatever is read, torn, missed, repeated or
\* restarted, unless a repetition gave it the day block of another debit.
THEOREM DayLimitKept == ASSUME OneTerminal PROVE Spec => []DayLimitIsKept
<1>1. CASE Limit_MoneySign = 0
  <2>1. DayLimitIsKept
    BY <1>1 DEF DayLimitIsKept
  <2> QED
    BY <2>1, PTL
<1>2. CASE Limit_MoneySign # 0
  <2>1. Init => DayIInv
    BY InitDayIInv
  <2>2. DayIInv /\ [Next]_vars => DayIInv'
    BY <1>2, NextDayIInv
  <2>3. DayIInv => DayLimitIsKept
    BY DEF DayIInv, DayInv, BoughtWithin, DayLimitIsKept
  <2> QED
    BY <2>1, <2>2, <2>3, PTL DEF Spec
<1> QED
  BY <1>1, <1>2
=============================================================================
