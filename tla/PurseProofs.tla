------------------------------ MODULE PurseProofs ------------------------------
(***************************************************************************)
(* Proofs about the money on a card when anything may fail: torn blocks,   *)
(* purses that cannot be read, sub-purses, power cuts, another terminal.   *)
(*                                                                         *)
(* The status of a failed read is not looked at, so that a card is served  *)
(* with what an earlier one left in the RAM.  Without torn blocks a card   *)
(* is debited once for all that (the QT thread may change the amount too)  *)
(* and never below the minimum.  With them, the argument needs Mendable: a *)
(* torn block can only be the one the RAM names as the next to be written. *)
(***************************************************************************)
EXTENDS ConsumeProofs

\* A name for one value.
USE DEF OnFailure

\* The amounts that are checked against the balance: not 0, unless it is a price
\* or the QT thread sets it while the card is served.
Charged ==
  IF "qt" \in Faults THEN Amounts \cup Prices \cup {0} ELSE (Amounts \ {0}) \cup Prices

\* Where blocks may be torn: one card, so that the RAM is never that of another
\* card; and neither the RAM of a restart nor a sub-purse, which the machine
\* debits in the name of the main purse, covers an amount.
Mendable ==
  "tear" \in Faults =>
    /\ \A c, d \in Cards : c = d
    /\ \A amount \in Charged : /\ 0 < Minimum + amount
                               /\ 1 \in Purses => SubOpening < Minimum + amount

------------------------------------------------------------------------------
\* The inductive invariant.

Main(c) == card[c].purse[0]
Debiting == {"3.purse", "3.day", "4"}
Retrying == {"3.day", "4"}

\* The sub-purse is never written.
SubIsNew == 1 \in Purses => \A c \in Cards : card[c].purse[1] = NewPurse(SubOpening)

\* The balance covered an amount; it was that of the debit, if the QT thread does
\* not come between.
AmountIsCovered ==
  /\ ConsumCase \in {"3"} \cup Debiting => CurrentConsumMoney \in Charged
  /\ ConsumCase \in Debiting =>
       \E amount \in Charged :
         /\ Minimum + amount <= OldBalance
         /\ "qt" \notin Faults => amount = CurrentConsumMoney

\* What case 4 would write.
BufferIsImage ==
  /\ PurseWrBufferBak.data.good
  /\ ConsumCase \in Retrying => PurseWrBufferBak.block = Other(bitUseMoneyBlock)
  /\ "qt" \notin Faults /\ ConsumCase \in Retrying =>
       PurseWrBufferBak.data.money >= Minimum

\* A torn block is the next to be written, unless no debit comes to that.
TornIsNext ==
  /\ \A c \in Cards : \E b \in Blocks : Main(c)[b].good
  /\ \A c \in Cards, b \in Blocks : ~Main(c)[b].good =>
       /\ "tear" \in Faults
       /\ \/ bitUseMoneyBlock = Other(b)
          \/ OldBalance = 0
          \/ 1 \in Purses /\ OldBalance = SubOpening

\* Nothing was taken when a debit begins; once something was, the card served has
\* the new block, wherever it is, so that a repetition takes nothing more from it.
DebitIsWritten ==
  /\ debits <= 1
  /\ ConsumCase \in {"2", "3", "3.purse"} => debits = 0
  /\ ConsumCase \in Retrying /\ debits # 0 =>
       Main(CardSerialNumBak)[PurseWrBufferBak.block] = PurseWrBufferBak.data

PInv == TInv /\ SubIsNew /\ AmountIsCovered /\ BufferIsImage /\ TornIsNext /\ DebitIsWritten

------------------------------------------------------------------------------
\* What a purse is worth.

\* The worth of a purse with an intact block is the amount of an intact block,
\* and not more than any of them.
LEMMA WorthOfIntact ==
  ASSUME NEW blocks \in [Blocks -> Block], NEW b \in Blocks, blocks[b].good
  PROVE  /\ Worth(blocks) \in Nat
         /\ Worth(blocks) <= blocks[b].money
         /\ \E k \in Blocks : blocks[k].good /\ Worth(blocks) = blocks[k].money
<1> DEFINE intact == {k \in Blocks : blocks[k].good}
           amounts == {blocks[k].money : k \in intact}
<1>1. amounts \in SUBSET Nat /\ blocks[b].money \in amounts /\ intact # {}
  BY BlockFacts
<1>2. Worth(blocks) = Min(amounts)
  BY <1>1 DEF Worth
<1>3. Min(amounts) \in amounts /\ \A y \in amounts : Min(amounts) <= y
  BY <1>1, MinIsLeast
<1> QED
  BY <1>1, <1>2, <1>3

\* Tearing a block takes nothing from a purse whose other block is intact.
LEMMA TearTakesNothing ==
  ASSUME NEW blocks \in [Blocks -> Block], NEW b \in Blocks, NEW value \in Block,
         blocks[Other(b)].good, ~value.good
  PROVE  ~(Worth([blocks EXCEPT ![b] = value]) < Worth(blocks))
<1> DEFINE torn == [blocks EXCEPT ![b] = value]
<1>1. Other(b) \in Blocks /\ Other(b) # b /\ \A k \in Blocks : k = b \/ k = Other(b)
  BY BlockFacts
<1>2. torn \in [Blocks -> Block] /\ torn[Other(b)] = blocks[Other(b)] /\ torn[b] = value
  BY <1>1
<1>3. Worth(torn) = blocks[Other(b)].money
  <2>1. \E k \in Blocks : torn[k].good /\ Worth(torn) = torn[k].money
    BY <1>1, <1>2, WorthOfIntact
  <2> QED
    BY <1>1, <1>2, <2>1
<1>4. Worth(blocks) \in Nat /\ Worth(blocks) <= blocks[Other(b)].money
  BY <1>1, WorthOfIntact
<1>5. blocks[Other(b)].money \in Nat
  BY <1>1, BlockFacts
<1> QED
  BY <1>3, <1>4, <1>5

------------------------------------------------------------------------------
\* The invariant is inductive.

LEMMA PurseTypes ==
  ASSUME TInv
  PROVE  /\ \A c \in Cards : Main(c) \in [Blocks -> Block]
         /\ CurrentConsumMoney \in Nat /\ OldBalance \in Nat /\ debits \in Nat
         /\ bitUseMoneyBlock \in Blocks
         /\ PurseWrBufferBak.block \in Blocks /\ PurseWrBufferBak.data \in Block
         /\ CurrentConsumMoney \in Amounts \cup Prices \cup {0}
         /\ field \in Cards \cup {NoCard}
<1>1. \A c \in Cards : Main(c) \in [Blocks -> Block]
  BY PurseAssumption DEF TInv, CardType, Main
<1>2. CurrentConsumMoney \in Nat /\ OldBalance \in Nat
  BY MoneyIsNat DEF TInv, TypeOK, Money
<1> QED
  BY <1>1, <1>2 DEF TInv, TypeOK

LEMMA ChargedIsNat == \A amount \in Charged : amount \in Nat
BY MoneyAssumption DEF Charged

LEMMA InitPInv == ASSUME Init PROVE PInv
<1>1. \A c \in Cards : Main(c) = NewPurse(Opening)
  BY PurseAssumption DEF Init, NewCard, Main
<1>2. SubIsNew
  BY DEF SubIsNew, Init, NewCard
<1>3. TornIsNext
  BY <1>1 DEF TornIsNext, NewPurse, Blocks
<1>4. AmountIsCovered /\ BufferIsImage /\ DebitIsWritten
  BY DEF Init, AmountIsCovered, BufferIsImage, DebitIsWritten, Debiting, Retrying, NoImage
<1> QED
  BY <1>2, <1>3, <1>4, InitTInv DEF PInv

\* Turns that write no purse keep what is said of the purses.
LEMMA PursesUnwritten ==
  ASSUME PInv, \A c \in Cards : card'[c].purse = card[c].purse
  PROVE  /\ SubIsNew'
         /\ UNCHANGED ram => TornIsNext'
         /\ \A c \in Cards : Main(c)' = Main(c)
BY DEF PInv, SubIsNew, TornIsNext, Main, ram

LEMMA DayWriteKeepsPurses ==
  ASSUME TInv, WriteDayFails \/ WriteDay
  PROVE  \A c \in Cards : card'[c].purse = card[c].purse
<1>1. CASE UNCHANGED card
  BY <1>1
<1>2. ASSUME NEW day, card' = [card EXCEPT ![field].day = day]
      PROVE  \A c \in Cards : card'[c].purse = card[c].purse
  BY <1>2 DEF TInv, CardType
<1> QED
  BY <1>1, <1>2 DEF WriteDayFails, WriteDay

\* Turns between two debits.
LEMMA WaitingPInv ==
  ASSUME PInv,
         \/ Start \/ RequestCard \/ ReadCommonFails \/ SaveRecord
         \/ RewriteCardGone \/ RewriteRefused \/ CardLeft
         \/ \E amount \in Amounts : SetAmount(amount)
         \/ \E mode \in Modes : SetMode(mode)
         \/ NewDay \/ UNCHANGED vars
  PROVE  PInv'
<1>1. TInv'
  BY NextTInv DEF PInv, Next
<1>2. /\ UNCHANGED <<card, field, ram, PurseWrBufferBak, CardSerialNumBak>>
      /\ UNCHANGED debits \/ (debits' = 0 /\ ConsumCase' = "2")
  BY DEF Start, RequestCard, ReadCommonFails, SaveRecord, RewriteCardGone, RewriteRefused,
         CardLeft, SetAmount, SetMode, NewDay, vars, buffers
<1>3. SubIsNew' /\ TornIsNext' /\ \A c \in Cards : Main(c)' = Main(c)
  BY <1>2, PursesUnwritten
<1>4. /\ \/ UNCHANGED <<ConsumCase, CurrentConsumMoney>>
         \/ UNCHANGED ConsumCase /\ "qt" \in Faults
         \/ ConsumCase' \in {"0", "1", "2", "5"}
      /\ ConsumCase' = "2" => debits' = 0 \/ UNCHANGED <<ConsumCase, debits>>
  BY DEF Start, RequestCard, ReadCommonFails, SaveRecord, RewriteCardGone, RewriteRefused,
         CardLeft, SetAmount, SetMode, NewDay, vars, Serving, PInv, TInv, TypeOK
<1>5. AmountIsCovered'
  <2>1. CASE "qt" \in Faults
    <3>1. CurrentConsumMoney' \in Charged
      BY <1>1, <2>1 DEF Charged, TInv, TypeOK
    <3>2. ConsumCase' \in Debiting => ConsumCase \in Debiting
      BY <1>4 DEF Debiting
    <3>3. /\ ConsumCase \in Debiting =>
              \E amount \in Charged : Minimum + amount <= OldBalance
          /\ UNCHANGED OldBalance
      BY <1>2 DEF PInv, AmountIsCovered, ram
    <3> QED
      BY <2>1, <3>1, <3>2, <3>3 DEF AmountIsCovered
  <2>2. CASE "qt" \notin Faults
    BY <1>2, <1>4, <2>2 DEF PInv, AmountIsCovered, Debiting, ram
  <2> QED
    BY <2>1, <2>2
<1>6. BufferIsImage'
  BY <1>2, <1>4 DEF PInv, BufferIsImage, Retrying, ram
<1>7. DebitIsWritten'
  BY <1>2, <1>4 DEF PInv, DebitIsWritten, Retrying, Main
<1> QED
  BY <1>1, <1>3, <1>5, <1>6, <1>7 DEF PInv

\* The customer, and a restart.
LEMMA CustomerPInv ==
  ASSUME PInv, (\E c \in Cards : Place(c)) \/ Remove \/ PowerCut
  PROVE  PInv'
<1>1. TInv'
  BY NextTInv DEF PInv, Next
<1>2. SubIsNew' /\ (UNCHANGED ram => TornIsNext') /\ \A c \in Cards : Main(c)' = Main(c)
  BY PursesUnwritten DEF Place, Remove, PowerCut
<1>3. CASE (\E c \in Cards : Place(c)) \/ Remove
  <2>1. UNCHANGED <<card, ConsumCase, CurrentConsumMoney, ram, PurseWrBufferBak, CardSerialNumBak>>
    BY <1>3 DEF Place, Remove, buffers
  <2>2. AmountIsCovered' /\ BufferIsImage'
    BY <2>1 DEF PInv, AmountIsCovered, BufferIsImage, Debiting, Retrying, ram
  <2>3. UNCHANGED debits
    BY <1>3 DEF Place, Remove
  <2>4. DebitIsWritten'
    BY <2>1, <2>3 DEF PInv, DebitIsWritten, Main
  <2> QED
    BY <1>1, <1>2, <2>1, <2>2, <2>4 DEF PInv
<1>4. CASE PowerCut
  <2>1. AmountIsCovered' /\ BufferIsImage' /\ DebitIsWritten'
    BY <1>4 DEF PowerCut, AmountIsCovered, BufferIsImage, PInv, DebitIsWritten, Debiting,
                Retrying, NoImage
  <2>2. TornIsNext'
    BY <1>2, <1>4 DEF PowerCut, PInv, TornIsNext
  <2> QED
    BY <1>1, <1>2, <2>1, <2>2 DEF PInv
<1> QED
  BY <1>3, <1>4

\* Reading a card: its own main purse is intact if it can be read; the sub-purse
\* has the amount it was issued with; or the RAM stays as it was.
LEMMA ReadCardPInv == ASSUME PInv, Mendable, ReadCard PROVE PInv'
<1>1. TInv'
  BY NextTInv DEF PInv, Next
<1>2. field \in Cards
  BY DEF ReadCard, PInv, TInv, TypeOK
<1>3. SubIsNew' /\ (UNCHANGED ram => TornIsNext') /\ \A c \in Cards : Main(c)' = Main(c)
  BY PursesUnwritten DEF ReadCard
<1>4. TornIsNext'
  <2>1. CASE ParsePurse(Main(field))
    <3>1. \A b \in Blocks : Main(field)[b].good
      BY <2>1 DEF ParsePurse, Candidates
    <3>2. \A c \in Cards, b \in Blocks : Main(c)[b].good
      BY <1>2, <3>1 DEF Mendable, PInv, TornIsNext
    <3> QED
      BY <1>3, <3>2 DEF PInv, TornIsNext
  <2>2. CASE 1 \in Purses /\ ParsePurse(card[field].purse[1])
    <3>1. OldBalance' = SubOpening
      BY <1>2, <2>2 DEF ParsePurse, Candidates, PInv, SubIsNew, NewPurse
    <3> QED
      BY <1>3, <2>2, <3>1 DEF PInv, TornIsNext
  <2> QED
    BY <1>3, <2>1, <2>2 DEF ReadCard, SearchPurse, Main
<1>5. AmountIsCovered'
  <2>1. /\ ConsumCase' \in {"3", "5"}
        /\ ConsumCase' = "3" => CurrentConsumMoney' \in Charged
    BY PurseTypes DEF PInv, ReadCard, Charged
  <2> QED
    BY <2>1 DEF AmountIsCovered, Debiting
<1>6. BufferIsImage'
  BY DEF PInv, BufferIsImage, Retrying, ReadCard, buffers
<1>7. DebitIsWritten'
  BY DEF PInv, DebitIsWritten, Retrying, ReadCard
<1> QED
  BY <1>1, <1>3, <1>4, <1>5, <1>6, <1>7 DEF PInv

\* The image of a debit that is covered keeps the minimum.
LEMMA ImageKeepsMinimum ==
  ASSUME PInv, ConsumCase = "3.purse"
  PROVE  /\ PurseImage.block = Other(bitUseMoneyBlock)
         /\ PurseImage.data.good /\ PurseImage.data \in Block
         /\ "qt" \notin Faults => PurseImage.data.money >= Minimum
<1>1. PurseImage.block = Other(bitUseMoneyBlock) /\ PurseImage.data.good
      /\ PurseImage.data.money = NewBalance
  BY DEF PurseImage
<1>2. PurseImage.data \in Block
  BY ImageTypes DEF PInv
<1>3. ASSUME "qt" \notin Faults PROVE NewBalance >= Minimum
  <2>1. /\ CurrentConsumMoney \in Nat /\ OldBalance \in Nat /\ OldBalance < ULONG
        /\ Minimum \in Nat /\ Minimum + CurrentConsumMoney <= OldBalance
    BY <1>3, MoneyIsNat, PurseTypes DEF PInv, AmountIsCovered, Debiting, TInv, TypeOK, Money
  <2>2. /\ OldBalance - CurrentConsumMoney \in Nat
        /\ OldBalance - CurrentConsumMoney < ULONG
        /\ OldBalance - CurrentConsumMoney >= Minimum
    BY <2>1, MoneyIsNat
  <2>3. ASSUME NEW n \in Nat, n < ULONG PROVE n % ULONG = n
    BY <2>3, MoneyIsNat, ModSmall
  <2> QED
    BY <2>2, <2>3 DEF NewBalance
<1> QED
  BY <1>1, <1>2, <1>3

\* The check, a card that is not found, and the day block: no purse is written.
LEMMA ServingPInv ==
  ASSUME PInv, CardBalanceDiag \/ DetectFails \/ WriteDayFails \/ WriteDay
  PROVE  PInv'
<1>1. TInv'
  BY NextTInv DEF PInv, Next
<1>2. UNCHANGED <<ram, CurrentConsumMoney, CardSerialNumBak, debits>>
  BY DEF CardBalanceDiag, DetectFails, WriteDayFails, WriteDay
<1>3. \A c \in Cards : card'[c].purse = card[c].purse
  BY DayWriteKeepsPurses DEF PInv, CardBalanceDiag, DetectFails
<1>4. SubIsNew' /\ TornIsNext' /\ \A c \in Cards : Main(c)' = Main(c)
  BY <1>2, <1>3, PursesUnwritten
<1>5. AmountIsCovered'
  <2>1. CASE CardBalanceDiag
    BY <1>2, <2>1 DEF CardBalanceDiag, Affordable, PInv, AmountIsCovered, Debiting, ram
  <2>2. CASE DetectFails \/ WriteDayFails \/ WriteDay
    BY <1>2, <2>2 DEF DetectFails, WriteDayFails, WriteDay, PInv, AmountIsCovered, Debiting,
                      ram
  <2> QED
    BY <2>1, <2>2
<1>6. BufferIsImage'
  <2>1. CASE DetectFails
    BY <1>2, <2>1, ImageKeepsMinimum
       DEF DetectFails, BufferAtDetect, BufferIsImage, Retrying, ram
  <2>2. CASE CardBalanceDiag \/ WriteDayFails \/ WriteDay
    BY <1>2, <2>2 DEF CardBalanceDiag, WriteDayFails, WriteDay, PInv, BufferIsImage, Retrying,
                      ram, buffers
  <2> QED
    BY <2>1, <2>2
<1>7. DebitIsWritten'
  <2>1. CASE CardBalanceDiag
    BY <1>2, <2>1 DEF CardBalanceDiag, PInv, DebitIsWritten, Retrying
  <2>2. CASE DetectFails
    BY <1>2, <2>2 DEF DetectFails, PInv, DebitIsWritten, Retrying
  <2>3. CASE WriteDay
    BY <1>2, <2>3 DEF WriteDay, DebitIsWritten, Retrying, PInv
  <2>4. CASE WriteDayFails
    <3>1. /\ UNCHANGED PurseWrBufferBak
          /\ ConsumCase = "3.day" /\ ConsumCase' = "4"
      BY <2>4 DEF WriteDayFails
    <3>2. CardSerialNumBak \in Cards
      BY <3>1 DEF PInv, TInv, CardIsServed
    <3> QED
      BY <1>2, <1>4, <3>1, <3>2 DEF PInv, DebitIsWritten, Retrying
  <2> QED
    BY <2>1, <2>2, <2>3, <2>4
<1> QED
  BY <1>1, <1>4, <1>5, <1>6, <1>7 DEF PInv

\* Storing a block of a main purse changes that block and no other purse.
LEMMA StoredPurse ==
  ASSUME TInv, NEW c \in Cards, NEW b \in Blocks, NEW value,
         \/ card' = [card EXCEPT ![c].purse[0][b] = value]
         \/ \E day : card' = [card EXCEPT ![c].purse[0][b] = value, ![c].day = day]
  PROVE  /\ \A k \in Cards : k # c => card'[k] = card[k]
         /\ card'[c].purse[0] = [Main(c) EXCEPT ![b] = value]
         /\ \A p \in Purses : p # 0 => card'[c].purse[p] = card[c].purse[p]
<1> DEFINE purse == [card[c].purse EXCEPT ![0][b] = value]
<1>1. /\ card[c] \in CardType /\ DOMAIN card = Cards /\ 0 \in Purses
      /\ card[c].purse \in [Purses -> [Blocks -> Block]]
  BY PurseAssumption DEF TInv, CardType
<1>2. /\ purse[0] = [Main(c) EXCEPT ![b] = value]
      /\ \A p \in Purses : p # 0 => purse[p] = card[c].purse[p]
  BY <1>1 DEF Main
<1>3. CASE card' = [card EXCEPT ![c].purse[0][b] = value]
  <2>1. card'[c] = [card[c] EXCEPT !.purse = purse]
    BY <1>1, <1>3
  <2>2. card'[c].purse = purse
    BY <1>1, <2>1 DEF CardType
  <2> QED
    BY <1>1, <1>2, <1>3, <2>2 DEF Main
<1>4. ASSUME NEW day,
             card' = [card EXCEPT ![c].purse[0][b] = value, ![c].day = day]
      PROVE  /\ \A k \in Cards : k # c => card'[k] = card[k]
             /\ card'[c].purse[0] = [Main(c) EXCEPT ![b] = value]
             /\ \A p \in Purses : p # 0 => card'[c].purse[p] = card[c].purse[p]
  <2>1. card'[c] = [[card[c] EXCEPT !.purse = purse] EXCEPT !.day = day]
    BY <1>1, <1>4
  <2>2. card'[c].purse = purse
    BY <1>1, <2>1 DEF CardType
  <2> QED
    BY <1>1, <1>2, <1>4, <2>2 DEF Main
<1> QED
  BY <1>3, <1>4

\* A turn that writes the purse, in case 3 or as the repetition of case 4, writes
\* the block in the buffer, or fails: nothing is written, or a part of it.
LEMMA PurseIsStored ==
  ASSUME TInv, WritePurseFails \/ WritePurse \/ RewriteFails \/ Rewrite
  PROVE  LET image == PurseWrBufferBak'
             old == Main(field)[image.block]
         IN  /\ field \in Cards /\ SameCard
             /\ image.block \in Blocks /\ image.data \in Block
             /\ \A k \in Cards : k # field => card'[k] = card[k]
             /\ \A p \in Purses : p # 0 => card'[field].purse[p] = card[field].purse[p]
             /\ \E value \in AfterFailure(old, image.data) :
                  card'[field].purse[0] = [Main(field) EXCEPT ![image.block] = value]
             /\ CountDebit(field)
<1> DEFINE image == PurseWrBufferBak'
           old == card[field].purse[0][image.block]
<1>1. field \in Cards /\ SameCard /\ CountDebit(field)
  BY DEF TInv, CardIsServed, WritePurseFails, WritePurse, RewriteFails, Rewrite, SameCard
<1>2. /\ WritePurseFails \/ WritePurse => image = PurseImage
      /\ RewriteFails \/ Rewrite => image = PurseWrBufferBak
  BY DEF WritePurseFails, WritePurse, RewriteFails, Rewrite, buffers
<1>3. image.block \in Blocks /\ image.data \in Block
  BY <1>2, ImageTypes, PurseTypes
<1>4. PICK value \in AfterFailure(old, image.data) :
        \/ card' = [card EXCEPT ![field].purse[0][image.block] = value]
        \/ \E day : card' = [card EXCEPT ![field].purse[0][image.block] = value,
                                         ![field].day = day]
  <2>1. image.data \in AfterFailure(old, image.data)
    BY DEF AfterFailure
  <2>2. CASE WritePurseFails
    BY <1>2, <2>2 DEF WritePurseFails, SetPurse
  <2>3. CASE WritePurse
    BY <1>2, <2>1, <2>3 DEF WritePurse, SetPurse
  <2>4. CASE RewriteFails
    BY <1>2, <2>1, <2>4 DEF RewriteFails, SetPurse, Target
  <2>5. CASE Rewrite
    BY <1>2, <2>1, <2>5 DEF Rewrite
  <2> QED
    BY <2>2, <2>3, <2>4, <2>5
<1> HIDE DEF image
<1>5. /\ \A k \in Cards : k # field => card'[k] = card[k]
      /\ card'[field].purse[0] = [Main(field) EXCEPT ![image.block] = value]
      /\ \A p \in Purses : p # 0 => card'[field].purse[p] = card[field].purse[p]
  <2> DEFINE c == field
             b == image.block
  <2>1. /\ c \in Cards /\ b \in Blocks
        /\ \/ card' = [card EXCEPT ![c].purse[0][b] = value]
           \/ \E day : card' = [card EXCEPT ![c].purse[0][b] = value, ![c].day = day]
    BY <1>1, <1>3, <1>4
  <2> HIDE DEF c, b
  <2>2. /\ \A k \in Cards : k # c => card'[k] = card[k]
        /\ card'[c].purse[0] = [Main(c) EXCEPT ![b] = value]
        /\ \A p \in Purses : p # 0 => card'[c].purse[p] = card[c].purse[p]
    BY <2>1, StoredPurse
  <2> QED
    BY <2>2 DEF c, b
<1> QED
  BY <1>1, <1>3, <1>4, <1>5 DEF image, Main

\* Before a purse is written, only the block to be written may be torn.
LEMMA OnlyNextIsTorn ==
  ASSUME PInv, Mendable, ConsumCase \in Debiting
  PROVE  \A c \in Cards, b \in Blocks : ~Main(c)[b].good =>
           "tear" \in Faults /\ bitUseMoneyBlock = Other(b)
<1> SUFFICES ASSUME NEW c \in Cards, NEW b \in Blocks, ~Main(c)[b].good
             PROVE  "tear" \in Faults /\ bitUseMoneyBlock = Other(b)
  OBVIOUS
<1>1. /\ "tear" \in Faults
      /\ \/ bitUseMoneyBlock = Other(b)
         \/ OldBalance = 0
         \/ 1 \in Purses /\ OldBalance = SubOpening
  BY DEF PInv, TornIsNext
<1>2. PICK amount \in Charged : Minimum + amount <= OldBalance
  BY DEF PInv, AmountIsCovered
<1>3. 0 < OldBalance /\ (1 \in Purses => SubOpening < OldBalance)
  <2>1. /\ 0 < Minimum + amount
        /\ 1 \in Purses => SubOpening < Minimum + amount
    BY <1>1, <1>2 DEF Mendable
  <2>2. amount \in Nat /\ Minimum \in Nat /\ OldBalance \in Nat /\ SubOpening \in Nat
    BY MoneyAssumption, ChargedIsNat, PurseTypes DEF PInv
  <2> QED
    BY <1>2, <2>1, <2>2
<1>4. OldBalance # 0 /\ ~(1 \in Purses /\ OldBalance = SubOpening)
  BY <1>3, MoneyAssumption
<1> QED
  BY <1>1, <1>4

\* A write that takes money from a card is one that put the new block where it
\* was not.
LEMMA CountedWrite ==
  ASSUME PInv, Mendable, WritePurseFails \/ WritePurse \/ RewriteFails \/ Rewrite,
         debits' # debits
  PROVE  /\ debits' = debits + 1
         /\ Main(field)[PurseWrBufferBak'.block] # PurseWrBufferBak'.data
         /\ card'[field].purse[0][PurseWrBufferBak'.block] = PurseWrBufferBak'.data
<1> DEFINE b == PurseWrBufferBak'.block
           data == PurseWrBufferBak'.data
           purse == Main(field)
<1>1. TInv /\ ConsumCase \in Debiting
  BY DEF PInv, WritePurseFails, WritePurse, RewriteFails, Rewrite, Debiting
<1>2. /\ field \in Cards /\ b \in Blocks /\ data \in Block
      /\ purse \in [Blocks -> Block] /\ purse[b] \in Block
  BY <1>1, PurseIsStored, PurseTypes
<1>3. PICK value \in AfterFailure(purse[b], data) :
        card'[field].purse[0] = [purse EXCEPT ![b] = value]
  BY <1>1, PurseIsStored
<1>4. /\ debits' = debits + 1
      /\ Worth([purse EXCEPT ![b] = value]) < Worth(purse)
  BY <1>1, <1>3, PurseIsStored DEF CountDebit, Main
<1>5. PurseWrBufferBak'.block = Other(bitUseMoneyBlock)
  BY ImageKeepsMinimum
     DEF PInv, BufferIsImage, Retrying, WritePurseFails, WritePurse, RewriteFails, Rewrite,
         buffers
<1>6. bitUseMoneyBlock \in Blocks /\ Other(b) = bitUseMoneyBlock
  BY <1>1, <1>5, PurseTypes, BlockFacts
<1>7. purse[Other(b)].good
  <2>1. bitUseMoneyBlock # Other(bitUseMoneyBlock)
    BY <1>6, BlockFacts
  <2> QED
    BY <1>1, <1>2, <1>6, <2>1, OnlyNextIsTorn
<1>8. value # purse[b]
  <2>1. Worth(purse) \in Nat
    BY <1>2, <1>6, <1>7, WorthOfIntact
  <2>2. [purse EXCEPT ![b] = purse[b]] = purse
    BY <1>2
  <2> QED
    BY <1>4, <2>1, <2>2
<1>9. value # Torn(data)
  <2>1. Torn(data) \in Block /\ ~Torn(data).good
    BY <1>2, BlockFacts DEF Torn, Block
  <2> QED
    BY <1>2, <1>4, <1>7, <2>1, TearTakesNothing
<1>10. value = data
  BY <1>3, <1>8, <1>9 DEF AfterFailure
<1> QED
  BY <1>2, <1>3, <1>4, <1>8, <1>10

LEMMA WritePInv ==
  ASSUME PInv, Mendable, WritePurseFails \/ WritePurse \/ RewriteFails \/ Rewrite
  PROVE  PInv'
<1> DEFINE image == PurseWrBufferBak'
           b == image.block
<1>1. TInv /\ TInv' /\ ConsumCase \in Debiting
  BY NextTInv
     DEF PInv, Next, WritePurseFails, WritePurse, RewriteFails, Rewrite, Debiting
<1>2. /\ field \in Cards /\ SameCard /\ b \in Blocks /\ Main(field) \in [Blocks -> Block]
      /\ \A k \in Cards : k # field => card'[k] = card[k]
      /\ \A p \in Purses : p # 0 => card'[field].purse[p] = card[field].purse[p]
  BY <1>1, PurseIsStored, PurseTypes
<1>3. PICK value \in AfterFailure(Main(field)[b], image.data) :
        card'[field].purse[0] = [Main(field) EXCEPT ![b] = value]
  BY <1>1, PurseIsStored
<1>4. /\ UNCHANGED <<ram, CurrentConsumMoney, CardSerialNumBak>>
      /\ ConsumCase' \in {"3.day", "4", "5"}
      /\ field' \in {field, NoCard}
  BY DEF WritePurseFails, WritePurse, RewriteFails, Rewrite, Disturbed
<1>5. /\ b = Other(bitUseMoneyBlock) /\ image.data.good
      /\ "qt" \notin Faults => image.data.money >= Minimum
  BY ImageKeepsMinimum
     DEF PInv, BufferIsImage, Retrying, WritePurseFails, WritePurse, RewriteFails, Rewrite,
         buffers
<1>6. SubIsNew'
  BY <1>2 DEF PInv, SubIsNew
<1>7. AmountIsCovered'
  BY <1>1, <1>4 DEF PInv, AmountIsCovered, Debiting, ram
<1>8. BufferIsImage'
  BY <1>4, <1>5 DEF BufferIsImage, ram
<1>9. TornIsNext'
  <2>1. /\ bitUseMoneyBlock \in Blocks /\ bitUseMoneyBlock # b /\ bitUseMoneyBlock = Other(b)
    BY <1>1, <1>5, PurseTypes, BlockFacts
  <2>2. \A c \in Cards, k \in Blocks : ~Main(c)[k].good => "tear" \in Faults /\ k = b
    BY <1>1, <1>2, <2>1, OnlyNextIsTorn, BlockFacts
  <2>3. value.good \/ "tear" \in Faults
    BY <1>2, <1>3, <1>5, <2>2 DEF AfterFailure
  <2>4. \A c \in Cards, k \in Blocks : ~card'[c].purse[0][k].good => "tear" \in Faults /\ k = b
    BY <1>2, <1>3, <2>2, <2>3 DEF Main
  <2> QED
    BY <1>4, <2>1, <2>4 DEF TornIsNext, Main, ram
<1>10. DebitIsWritten'
  <2>1. WritePurseFails \/ WritePurse => debits = 0
    BY DEF WritePurseFails, WritePurse, PInv, DebitIsWritten
  <2>2. debits' # debits => debits = 0
    <3>1. SUFFICES ASSUME debits' # debits, RewriteFails \/ Rewrite PROVE debits = 0
      BY <2>1
    <3>2. Main(field)[PurseWrBufferBak.block] # PurseWrBufferBak.data
      BY <3>1, CountedWrite DEF RewriteFails, Rewrite, buffers
    <3> QED
      BY <1>2, <3>1, <3>2
         DEF RewriteFails, Rewrite, PInv, DebitIsWritten, Retrying, SameCard
  <2>3. debits' <= 1 /\ (debits' # 0 /\ debits = 0 => debits' # debits)
    BY <2>2, CountedWrite DEF PInv, DebitIsWritten
  <2>4. ConsumCase' \in Retrying => WritePurseFails \/ WritePurse
    BY DEF RewriteFails, Rewrite, Retrying
  <2>5. ASSUME ConsumCase' \in Retrying, debits' # 0
        PROVE  card'[CardSerialNumBak'].purse[0][b] = image.data
    BY <1>2, <1>4, <2>1, <2>3, <2>4, <2>5, CountedWrite DEF SameCard
  <2> QED
    BY <1>4, <2>3, <2>5 DEF DebitIsWritten, Main
<1> QED
  BY <1>1, <1>6, <1>7, <1>8, <1>9, <1>10 DEF PInv

\* A debit at another terminal writes the block that is not the balance.
LEMMA ElsewhereWrites ==
  ASSUME TInv, NEW c \in Cards, NEW amount \in Amounts \ {0}, Elsewhere(c, amount)
  PROVE  \E b, value :
           /\ b \in Candidates(Main(c))
           /\ value = [money |-> Main(c)[b].money - amount,
                       cnt |-> (Main(c)[b].cnt + 1) % CNT, good |-> TRUE]
           /\ Minimum + amount <= Main(c)[b].money
           /\ \A d \in Cards : d # c => card'[d] = card[d]
           /\ card'[c].purse[0] = [Main(c) EXCEPT ![Other(b)] = value]
           /\ \A p \in Purses : p # 0 => card'[c].purse[p] = card[c].purse[p]
<1>1. PICK b \in Candidates(Main(c)) :
        /\ Minimum + amount <= Main(c)[b].money
        /\ \E day : card' = [card EXCEPT
             ![c].purse[0][Other(b)] =
               [money |-> Main(c)[b].money - amount,
                cnt |-> (Main(c)[b].cnt + 1) % CNT, good |-> TRUE],
             ![c].day = day]
  BY DEF Elsewhere, Main
<1> DEFINE value == [money |-> Main(c)[b].money - amount,
                     cnt |-> (Main(c)[b].cnt + 1) % CNT, good |-> TRUE]
           k == Other(b)
<1>2. k \in Blocks /\ \E day : card' = [card EXCEPT ![c].purse[0][k] = value, ![c].day = day]
  BY <1>1, BlockFacts DEF Candidates
<1> HIDE DEF value, k
<1>3. /\ \A d \in Cards : d # c => card'[d] = card[d]
      /\ card'[c].purse[0] = [Main(c) EXCEPT ![k] = value]
      /\ \A p \in Purses : p # 0 => card'[c].purse[p] = card[c].purse[p]
  BY <1>2, StoredPurse
<1> QED
  BY <1>1, <1>3 DEF value, k

\* It writes an intact block over an intact one, and keeps the minimum.
LEMMA ElsewhereStores ==
  ASSUME TInv, NEW c \in Cards, NEW amount \in Amounts \ {0}, Elsewhere(c, amount)
  PROVE  \E k, value :
           /\ k \in Blocks
           /\ value.good /\ value.money >= Minimum
           /\ \A b \in Blocks : Main(c)[b].good
           /\ \A d \in Cards : d # c => card'[d] = card[d]
           /\ card'[c].purse[0] = [Main(c) EXCEPT ![k] = value]
           /\ \A p \in Purses : p # 0 => card'[c].purse[p] = card[c].purse[p]
<1>1. PICK b, value :
        /\ b \in Candidates(Main(c))
        /\ value = [money |-> Main(c)[b].money - amount,
                    cnt |-> (Main(c)[b].cnt + 1) % CNT, good |-> TRUE]
        /\ Minimum + amount <= Main(c)[b].money
        /\ \A d \in Cards : d # c => card'[d] = card[d]
        /\ card'[c].purse[0] = [Main(c) EXCEPT ![Other(b)] = value]
        /\ \A p \in Purses : p # 0 => card'[c].purse[p] = card[c].purse[p]
  BY ElsewhereWrites
<1>2. /\ b \in Blocks /\ Other(b) \in Blocks /\ \A m \in Blocks : Main(c)[m].good
      /\ Main(c)[b].money \in Nat
  BY <1>1, PurseTypes, BlockFacts DEF Candidates
<1>3. value.good /\ value.money >= Minimum
  BY <1>1, <1>2, MoneyIsNat
<1> QED
  BY <1>1, <1>2, <1>3

LEMMA ElsewherePInv ==
  ASSUME PInv, NEW c \in Cards, NEW amount \in Amounts \ {0}, Elsewhere(c, amount)
  PROVE  PInv'
<1>1. TInv /\ TInv'
  BY NextTInv DEF PInv, Next
<1>2. PICK k, value :
           /\ k \in Blocks
           /\ value.good /\ value.money >= Minimum
           /\ \A b \in Blocks : Main(c)[b].good
           /\ \A d \in Cards : d # c => card'[d] = card[d]
           /\ card'[c].purse[0] = [Main(c) EXCEPT ![k] = value]
           /\ \A p \in Purses : p # 0 => card'[c].purse[p] = card[c].purse[p]
  BY <1>1, ElsewhereStores
<1>3. /\ UNCHANGED <<ram, CurrentConsumMoney, CardSerialNumBak, ConsumCase, debits, field,
                     PurseWrBufferBak>>
      /\ ConsumCase \in {"0", "1", "5"}
  BY DEF Elsewhere, Serving, buffers
<1>4. SubIsNew'
  BY <1>2 DEF PInv, SubIsNew
<1>5. AmountIsCovered' /\ BufferIsImage' /\ DebitIsWritten'
  BY <1>3 DEF PInv, AmountIsCovered, BufferIsImage, DebitIsWritten, Debiting, Retrying
<1>6. TornIsNext'
  <2>1. Main(c) \in [Blocks -> Block]
    BY <1>1, PurseTypes
  <2>2. \A b \in Blocks : card'[c].purse[0][b].good
    BY <1>2, <2>1
  <2>3. \A d \in Cards, b \in Blocks :
          card'[d].purse[0][b].good \/ (d # c /\ card'[d] = card[d])
    BY <1>2, <2>2
  <2> QED
    BY <1>3, <2>3 DEF PInv, TornIsNext, Main, ram
<1> QED
  BY <1>1, <1>4, <1>5, <1>6 DEF PInv

LEMMA NextPInv == ASSUME Mendable PROVE PInv /\ [Next]_vars => PInv'
BY WaitingPInv, CustomerPInv, ReadCardPInv, ServingPInv, WritePInv, ElsewherePInv DEF Next

LEMMA MoneyInvariance == ASSUME Mendable PROVE Spec => []PInv
<1>1. Init => PInv
  BY InitPInv
<1>2. PInv /\ [Next]_vars => PInv'
  BY NextPInv
<1> QED
  BY <1>1, <1>2, PTL DEF Spec

------------------------------------------------------------------------------
\* The theorems.

\* From one request that finds a card to the next, the tries of a write and the
\* repetition in case 4 take money not more than once: also from a card that left
\* and came back meanwhile, that was missed at the check before the write, or that
\* was served with the purse of the card before, or its sub-purse.
THEOREM DebitedOnce == ASSUME Mendable PROVE Spec => []DebitAtMostOnce
<1>1. PInv => DebitAtMostOnce
  BY DEF PInv, DebitIsWritten, DebitAtMostOnce
<1> QED
  BY <1>1, MoneyInvariance, PTL

------------------------------------------------------------------------------
\* The minimum.

\* The QT thread leaves the amount alone while a card is served, and a card is
\* issued with the minimum.
Kept == "qt" \notin Faults /\ Minimum <= Opening

BlocksKeepMinimum == \A c \in Cards, b \in Blocks : Main(c)[b].money >= Minimum

MInv == PInv /\ BlocksKeepMinimum

LEMMA InitMInv == ASSUME Kept, Init PROVE MInv
<1>1. \A c \in Cards : Main(c) = NewPurse(Opening)
  BY PurseAssumption DEF Init, NewCard, Main
<1>2. BlocksKeepMinimum
  BY <1>1, MoneyIsNat DEF Kept, BlocksKeepMinimum, NewPurse
<1> QED
  BY <1>2, InitPInv DEF MInv

LEMMA StoredKeepsMinimum ==
  ASSUME MInv, NEW c \in Cards, NEW k \in Blocks, NEW value,
         value = Main(c)[k] \/ value.money >= Minimum,
         \A d \in Cards : d # c => card'[d] = card[d],
         card'[c].purse[0] = [Main(c) EXCEPT ![k] = value]
  PROVE  BlocksKeepMinimum'
<1>1. Main(c) \in [Blocks -> Block]
  BY PurseTypes DEF MInv, PInv
<1>2. \A b \in Blocks : card'[c].purse[0][b].money >= Minimum
  BY <1>1 DEF MInv, BlocksKeepMinimum
<1> QED
  BY <1>2 DEF MInv, BlocksKeepMinimum, Main

LEMMA NextMInv == ASSUME Mendable, Kept PROVE MInv /\ [Next]_vars => MInv'
<1> SUFFICES ASSUME MInv, [Next]_vars PROVE MInv'
  OBVIOUS
<1>1. PInv /\ PInv' /\ TInv
  BY NextPInv DEF MInv, PInv
<1>3. ASSUME \A c \in Cards : card'[c].purse = card[c].purse
      PROVE  BlocksKeepMinimum'
  BY <1>3 DEF MInv, BlocksKeepMinimum, Main
<1>4. ASSUME WritePurseFails \/ WritePurse \/ RewriteFails \/ Rewrite
      PROVE  BlocksKeepMinimum'
  <2> DEFINE image == PurseWrBufferBak'
  <2>1. /\ field \in Cards /\ image.block \in Blocks /\ image.data \in Block
        /\ \A k \in Cards : k # field => card'[k] = card[k]
    BY <1>1, <1>4, PurseIsStored
  <2>2. PICK value \in AfterFailure(Main(field)[image.block], image.data) :
          card'[field].purse[0] = [Main(field) EXCEPT ![image.block] = value]
    BY <1>1, <1>4, PurseIsStored
  <2>3. image.data.money >= Minimum
    BY <1>1, <1>4, ImageKeepsMinimum
       DEF Kept, PInv, BufferIsImage, Retrying, WritePurseFails, WritePurse, RewriteFails,
           Rewrite, buffers
  <2>4. Torn(image.data).money = image.data.money
    BY <2>1 DEF Torn, Block
  <2>5. value = Main(field)[image.block] \/ value.money >= Minimum
    BY <2>2, <2>3, <2>4 DEF AfterFailure
  <2> DEFINE c == field
             k == image.block
  <2>6. /\ c \in Cards /\ k \in Blocks /\ \A d \in Cards : d # c => card'[d] = card[d]
        /\ value = Main(c)[k] \/ value.money >= Minimum
        /\ card'[c].purse[0] = [Main(c) EXCEPT ![k] = value]
    BY <2>1, <2>2, <2>5
  <2> HIDE DEF c, k
  <2> QED
    BY <2>6, StoredKeepsMinimum
<1>5. ASSUME NEW c \in Cards, NEW amount \in Amounts \ {0}, Elsewhere(c, amount)
      PROVE  BlocksKeepMinimum'
  <2>1. PICK k, value :
          /\ k \in Blocks
          /\ value.money >= Minimum
          /\ \A d \in Cards : d # c => card'[d] = card[d]
          /\ card'[c].purse[0] = [Main(c) EXCEPT ![k] = value]
    BY <1>1, <1>5, ElsewhereStores
  <2> QED
    BY <1>5, <2>1, StoredKeepsMinimum
<1>6. \/ \A c \in Cards : card'[c].purse = card[c].purse
      \/ WritePurseFails \/ WritePurse \/ RewriteFails \/ Rewrite
      \/ \E c \in Cards, amount \in Amounts \ {0} : Elsewhere(c, amount)
  BY <1>1, DayWriteKeepsPurses
     DEF Next, vars, Start, RequestCard, ReadCommonFails, ReadCard, CardBalanceDiag,
         DetectFails, SaveRecord, RewriteCardGone, RewriteRefused, CardLeft, Place, Remove,
         SetAmount, SetMode, NewDay, PowerCut
<1>7. BlocksKeepMinimum'
  BY <1>3, <1>4, <1>5, <1>6
<1> QED
  BY <1>1, <1>7 DEF MInv

\* Whatever is written to a card keeps the minimum, and one of its blocks is
\* intact.
THEOREM MinimumKept == ASSUME Mendable, Kept PROVE Spec => []MinimumIsKept
<1>1. Init => MInv
  BY InitMInv
<1>2. MInv /\ [Next]_vars => MInv'
  BY NextMInv
<1>3. MInv => MinimumIsKept
  <2> SUFFICES ASSUME MInv, NEW c \in Cards PROVE Worth(Main(c)) >= Minimum
    BY DEF MinimumIsKept, Balance, Main
  <2>1. PICK b \in Blocks : Main(c)[b].good
    BY DEF MInv, PInv, TornIsNext
  <2>2. Main(c) \in [Blocks -> Block]
    BY PurseTypes DEF MInv, PInv
  <2>3. \E k \in Blocks : Worth(Main(c)) = Main(c)[k].money
    BY <2>1, <2>2, WorthOfIntact
  <2> QED
    BY <2>3 DEF MInv, BlocksKeepMinimum
<1> QED
  BY <1>1, <1>2, <1>3, PTL DEF Spec
=============================================================================
