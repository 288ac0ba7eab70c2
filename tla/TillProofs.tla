------------------------------ MODULE TillProofs ------------------------------
(***************************************************************************)
(* Proofs about a payment as a whole: the money taken from a card is the   *)
(* money the journal says was sold, although writes fail or stop in the    *)
(* middle of a block, cards leave or are swapped, other terminals debit    *)
(* the same cards and the terminal loses power.                            *)
(*                                                                         *)
(* The theorems assume Orderly.  The hypotheses are needed: the run        *)
(* Consume_qt shows what an amount of the QT thread does, Consume_subpurse *)
(* what a sub-purse does that covers an amount; a card that is served with *)
(* the RAM of the one before it, because it cannot be read, is recorded    *)
(* with a wrong balance.                                                   *)
(***************************************************************************)
EXTENDS PurseProofs

\* A name for one value, one for a tuple of variables and what a record changes.
USE DEF OnFailure, history, Record

Orderly ==
  /\ Faults \cap {"read", "qt"} = {}
  /\ Mendable
  /\ 1 \in Purses => \A amount \in Charged : SubOpening < Minimum + amount

------------------------------------------------------------------------------
\* The inductive invariant.

\* The RAM of a restart, and that of a sub-purse: they cover no amount.
PaysNothing ==
  \/ "tear" \in Faults /\ OldBalance = 0
  \/ 1 \in Purses /\ OldBalance = SubOpening

\* The block that held the balance is as it was read.
HasRead(c) ==
  Main(c)[bitUseMoneyBlock] = [money |-> OldBalance, cnt |-> PurseContrlNum, good |-> TRUE]

\* Before the debit; the other block may be spoilt.
Unwritten(c) ==
  /\ HasRead(c)
  /\ \/ bitUseMoneyBlock \in Candidates(Main(c))
     \/ ~Main(c)[Other(bitUseMoneyBlock)].good

\* After the debit.
Debited(c) ==
  /\ HasRead(c)
  /\ Main(c)[Other(bitUseMoneyBlock)] = PurseImage.data

\* What the journal does not yet say was sold to a card.
Owed(c) == Opening - Balance(c) - sold[c]

ReadableOrTorn ==
  \A c \in Cards : \/ Candidates(Main(c)) # {}
                   \/ "tear" \in Faults /\ (PaysNothing \/ Unwritten(c))

NothingOversold == \A c \in Cards : Owed(c) >= 0

Paid == {"3.day", "3.record", "4"}

ServedInv ==
  /\ ConsumCase = "3" => PaysNothing \/ Unwritten(CardSerialNumBak)
  /\ ConsumCase = "3.purse" => Unwritten(CardSerialNumBak)
  /\ ConsumCase \in {"3.purse"} \cup Paid => Minimum + CurrentConsumMoney <= OldBalance
  /\ ConsumCase \in Paid =>
       /\ PurseWrBufferBak = PurseImage
       /\ \/ ConsumCase = "4" /\ Unwritten(CardSerialNumBak)
          \/ /\ Debited(CardSerialNumBak)
             /\ CurrentConsumMoney <= Owed(CardSerialNumBak)

QInv == PInv /\ ReadableOrTorn /\ NothingOversold /\ ServedInv

------------------------------------------------------------------------------
\* What the served card is worth.

\* A balance is an amount, whatever the state of the blocks.
LEMMA WorthIsNat == ASSUME NEW blocks \in [Blocks -> Block] PROVE Worth(blocks) \in Nat
<1>1. CASE \E b \in Blocks : blocks[b].good
  BY <1>1, WorthOfIntact
<1>2. CASE \A b \in Blocks : ~blocks[b].good
  BY <1>2 DEF Worth
<1> QED
  BY <1>1, <1>2

LEMMA CardTypes ==
  ASSUME TInv
  PROVE  /\ \A c \in Cards : /\ Main(c) \in [Blocks -> Block]
                             /\ Balance(c) \in Nat /\ sold[c] \in Nat
                             /\ Owed(c) \in Int
         /\ Opening \in Nat /\ Minimum \in Nat
         /\ CurrentConsumMoney \in Nat /\ OldBalance \in Nat /\ OldBalance < ULONG
         /\ PurseContrlNum \in Nat
         /\ bitUseMoneyBlock \in Blocks /\ Other(bitUseMoneyBlock) \in Blocks
         /\ Other(bitUseMoneyBlock) # bitUseMoneyBlock
<1>1. \A c \in Cards : Main(c) \in [Blocks -> Block] /\ Balance(c) \in Nat /\ sold[c] \in Nat
  BY PurseTypes, WorthIsNat DEF Balance, Main, TInv, TypeOK
<1>2. Opening \in Nat /\ Minimum \in Nat
  BY MoneyAssumption
<1>3. CurrentConsumMoney \in Nat /\ OldBalance \in Nat /\ bitUseMoneyBlock \in Blocks
  BY PurseTypes
<1>4. OldBalance < ULONG /\ PurseContrlNum \in Nat
  BY MoneyIsNat DEF TInv, TypeOK, Money
<1> QED
  BY <1>1, <1>2, <1>3, <1>4, BlockFacts DEF Owed

\* The block a covered debit writes.
LEMMA CoveredImage ==
  ASSUME TInv, Minimum + CurrentConsumMoney <= OldBalance
  PROVE  /\ PurseImage.block = Other(bitUseMoneyBlock)
         /\ PurseImage.data \in Block /\ PurseImage.data.good
         /\ PurseImage.data.money = OldBalance - CurrentConsumMoney
         /\ PurseImage.data.cnt = IF CurrentConsumMoney = 0 THEN PurseContrlNum
                                  ELSE (PurseContrlNum + 1) % CNT
         /\ CurrentConsumMoney <= OldBalance
<1>1. /\ OldBalance - CurrentConsumMoney \in Nat /\ OldBalance - CurrentConsumMoney < ULONG
      /\ CurrentConsumMoney <= OldBalance
  BY CardTypes, MoneyIsNat
<1>2. ASSUME NEW n \in Nat, n < ULONG PROVE n % ULONG = n
  BY <1>2, MoneyIsNat, ModSmall
<1>3. NewBalance = OldBalance - CurrentConsumMoney
  BY <1>1, <1>2 DEF NewBalance
<1> QED
  BY <1>1, <1>3, ImageTypes DEF PurseImage

\* A purse whose other block is spoilt, or older, is worth what was read.
LEMMA WorthBefore ==
  ASSUME NEW blocks \in [Blocks -> Block], NEW b \in Blocks, blocks[b].good,
         b \in Candidates(blocks) \/ ~blocks[Other(b)].good
  PROVE  Worth(blocks) = blocks[b].money
<1>1. CASE b \in Candidates(blocks)
  BY <1>1, BalanceOfCandidate
<1>2. CASE ~blocks[Other(b)].good
  <2>1. \E k \in Blocks : blocks[k].good /\ Worth(blocks) = blocks[k].money
    BY WorthOfIntact
  <2> QED
    BY <1>2, <2>1, BlockFacts
<1> QED
  BY <1>1, <1>2

\* With the block of the debit it is worth the rest, and can be read.
LEMMA WorthAfter ==
  ASSUME TInv, Minimum + CurrentConsumMoney <= OldBalance,
         NEW blocks \in [Blocks -> Block],
         blocks[bitUseMoneyBlock] =
           [money |-> OldBalance, cnt |-> PurseContrlNum, good |-> TRUE],
         blocks[Other(bitUseMoneyBlock)] = PurseImage.data
  PROVE  Worth(blocks) = OldBalance - CurrentConsumMoney /\ Candidates(blocks) # {}
<1>1. PICK b \in Blocks, amount \in Nat : b = bitUseMoneyBlock /\ amount = CurrentConsumMoney
  BY CardTypes
<1>2. /\ blocks[b].good /\ blocks[b].money = OldBalance /\ blocks[Other(b)].good
      /\ blocks[Other(b)].money = blocks[b].money - amount
      /\ blocks[Other(b)].cnt = IF amount = 0 THEN blocks[b].cnt
                                ELSE (blocks[b].cnt + 1) % CNT
  BY <1>1, CoveredImage
<1> QED
  BY <1>1, <1>2, DebitedPurse

LEMMA WorthOfServed ==
  ASSUME TInv, Minimum + CurrentConsumMoney <= OldBalance, NEW s \in Cards
  PROVE  /\ Unwritten(s) => Balance(s) = OldBalance
         /\ Debited(s) => Balance(s) = OldBalance - CurrentConsumMoney
<1>1. Main(s) \in [Blocks -> Block] /\ bitUseMoneyBlock \in Blocks
      /\ Balance(s) = Worth(Main(s))
  BY CardTypes DEF Balance, Main
<1>2. ASSUME Unwritten(s) PROVE Balance(s) = OldBalance
  <2>1. Worth(Main(s)) = Main(s)[bitUseMoneyBlock].money
    BY <1>1, <1>2, WorthBefore DEF Unwritten, HasRead
  <2> QED
    BY <1>1, <1>2, <2>1 DEF Unwritten, HasRead
<1>3. ASSUME Debited(s) PROVE Balance(s) = OldBalance - CurrentConsumMoney
  BY <1>1, <1>3, WorthAfter DEF Debited, HasRead
<1> QED
  BY <1>2, <1>3

\* The same of the next state, if the payment goes on.
LEMMA WorthOfServedNext ==
  ASSUME TInv, TInv', Minimum + CurrentConsumMoney <= OldBalance, NEW s \in Cards,
         UNCHANGED <<ram, CurrentConsumMoney>>
  PROVE  /\ Unwritten(s)' => Balance(s)' = OldBalance
         /\ Debited(s)' => /\ Balance(s)' = OldBalance - CurrentConsumMoney
                           /\ Candidates(Main(s))' # {}
<1> DEFINE after == card'[s].purse[0]
<1>1. after \in [Blocks -> Block] /\ bitUseMoneyBlock \in Blocks
  BY CardTypes, PurseAssumption DEF TInv, CardType
<1>2. /\ Balance(s)' = Worth(after) /\ Main(s)' = after
      /\ Candidates(Main(s))' = Candidates(after) /\ PurseImage' = PurseImage
  BY DEF Balance, Main, PurseImage, NewBalance, ram
<1>3. ASSUME Unwritten(s)' PROVE Balance(s)' = OldBalance
  <2>1. /\ after[bitUseMoneyBlock] =
             [money |-> OldBalance, cnt |-> PurseContrlNum, good |-> TRUE]
        /\ \/ bitUseMoneyBlock \in Candidates(after)
           \/ ~after[Other(bitUseMoneyBlock)].good
    BY <1>2, <1>3 DEF Unwritten, HasRead, ram
  <2> HIDE DEF after
  <2>2. Worth(after) = after[bitUseMoneyBlock].money
    BY <1>1, <2>1, WorthBefore
  <2> QED
    BY <1>2, <2>1, <2>2
<1>4. ASSUME Debited(s)'
      PROVE  Balance(s)' = OldBalance - CurrentConsumMoney /\ Candidates(Main(s))' # {}
  <2>1. /\ after[bitUseMoneyBlock] =
             [money |-> OldBalance, cnt |-> PurseContrlNum, good |-> TRUE]
        /\ after[Other(bitUseMoneyBlock)] = PurseImage.data
    BY <1>2, <1>4 DEF Debited, HasRead, ram
  <2> HIDE DEF after
  <2> QED
    BY <1>1, <1>2, <2>1, WorthAfter
<1> QED
  BY <1>3, <1>4

------------------------------------------------------------------------------
\* The invariant is inductive.

\* A payment that covers nothing is refused.
LEMMA PaysNothingIsLittle ==
  ASSUME TInv, Orderly, PaysNothing, NEW amount \in Charged
  PROVE  ~(Minimum + amount <= OldBalance)
<1>1. amount \in Nat /\ Minimum \in Nat /\ OldBalance \in Nat /\ SubOpening \in Nat
  BY ChargedIsNat, CardTypes, MoneyAssumption
<1>2. CASE "tear" \in Faults /\ OldBalance = 0
  <2>1. 0 < Minimum + amount
    BY <1>2 DEF Orderly, Mendable
  <2> QED
    BY <1>1, <1>2, <2>1
<1>3. CASE 1 \in Purses /\ OldBalance = SubOpening
  <2>1. SubOpening < Minimum + amount
    BY <1>3 DEF Orderly
  <2> QED
    BY <1>1, <1>3, <2>1
<1> QED
  BY <1>2, <1>3 DEF PaysNothing

LEMMA InitQInv == ASSUME Init PROVE QInv
<1>1. \A c \in Cards : Main(c) = NewPurse(Opening) /\ sold[c] = 0
  BY PurseAssumption DEF Init, NewCard, Main
<1>2. ReadableOrTorn
  BY <1>1, NewPurseReadable DEF ReadableOrTorn
<1>3. NothingOversold
  BY <1>1, NewPurseReadable, MoneyAssumption DEF NothingOversold, Owed, Balance, Main
<1>4. ServedInv
  BY DEF Init, ServedInv, Paid
<1> QED
  BY <1>2, <1>3, <1>4, InitPInv DEF QInv

\* Turns that write no purse and store no record.
LEMMA UnwrittenTurn ==
  ASSUME QInv, \A c \in Cards : card'[c].purse = card[c].purse
  PROVE  /\ UNCHANGED sold => NothingOversold'
         /\ UNCHANGED ram => ReadableOrTorn'
         /\ \A c \in Cards : /\ UNCHANGED ram => Unwritten(c)' = Unwritten(c)
                             /\ UNCHANGED <<ram, CurrentConsumMoney>> => Debited(c)' = Debited(c)
                             /\ UNCHANGED sold => Owed(c)' = Owed(c)
<1>1. \A c \in Cards : Main(c)' = Main(c)
  BY DEF Main
<1>2. UNCHANGED sold => \A c \in Cards : Owed(c)' = Owed(c)
  BY <1>1 DEF Owed, Balance, Main
<1>3. UNCHANGED ram => \A c \in Cards : Unwritten(c)' = Unwritten(c)
  BY <1>1 DEF ram, Unwritten, HasRead
<1>4. UNCHANGED <<ram, CurrentConsumMoney>> => \A c \in Cards : Debited(c)' = Debited(c)
  BY <1>1 DEF ram, Debited, HasRead, PurseImage, NewBalance
<1>5. UNCHANGED sold => NothingOversold'
  BY <1>2 DEF QInv, NothingOversold
<1>6. UNCHANGED ram => ReadableOrTorn'
  BY <1>1, <1>3 DEF QInv, ReadableOrTorn, PaysNothing, ram
<1> QED
  BY <1>2, <1>3, <1>4, <1>5, <1>6

\* Between two payments.
LEMMA WaitingQInv ==
  ASSUME QInv, Orderly,
         \/ Start \/ RequestCard \/ ReadCommonFails \/ RewriteCardGone \/ RewriteRefused
         \/ CardLeft \/ (\E c \in Cards : Place(c)) \/ Remove
         \/ (\E amount \in Amounts : SetAmount(amount))
         \/ (\E mode \in Modes : SetMode(mode)) \/ NewDay \/ UNCHANGED vars
  PROVE  QInv'
<1>1. PInv'
  BY NextPInv DEF QInv, Next, Orderly
<1>2. UNCHANGED <<card, sold, ram, PurseWrBufferBak, CardSerialNumBak>>
  BY DEF Start, RequestCard, ReadCommonFails, RewriteCardGone, RewriteRefused, CardLeft,
         Place, Remove, SetAmount, SetMode, NewDay, vars, buffers
<1>3. \/ ConsumCase' \in {"0", "1", "2", "5"}
      \/ UNCHANGED <<ConsumCase, CurrentConsumMoney>>
  BY DEF Start, RequestCard, ReadCommonFails, RewriteCardGone, RewriteRefused, CardLeft,
         Place, Remove, SetAmount, SetMode, NewDay, vars, Serving, Orderly, QInv, PInv, TInv,
         TypeOK
<1>4. ReadableOrTorn' /\ NothingOversold'
  BY <1>2, UnwrittenTurn
<1>5. CASE ConsumCase' \in {"0", "1", "2", "5"}
  BY <1>1, <1>4, <1>5 DEF QInv, ServedInv, Paid
<1>6. CASE UNCHANGED <<ConsumCase, CurrentConsumMoney>>
  <2>1. ConsumCase \in {"3", "3.purse"} \cup Paid => CardSerialNumBak \in Cards
    BY DEF QInv, PInv, TInv, CardIsServed, Paid
  <2>2. /\ PaysNothing' = PaysNothing /\ PurseImage' = PurseImage
        /\ UNCHANGED OldBalance
    BY <1>2, <1>6 DEF PaysNothing, PurseImage, NewBalance, ram
  <2>3. ConsumCase \in {"3", "3.purse"} \cup Paid =>
          /\ Unwritten(CardSerialNumBak)' = Unwritten(CardSerialNumBak)
          /\ Debited(CardSerialNumBak)' = Debited(CardSerialNumBak)
          /\ Owed(CardSerialNumBak)' = Owed(CardSerialNumBak)
    BY <1>2, <1>6
       DEF Unwritten, Debited, HasRead, Main, Owed, Balance, PurseImage, NewBalance, ram
  <2>4. ServedInv'
    BY <1>2, <1>6, <2>2, <2>3 DEF QInv, ServedInv, Paid
  <2> QED
    BY <1>1, <1>4, <2>4 DEF QInv
<1> QED
  BY <1>3, <1>5, <1>6

LEMMA PowerCutQInv == ASSUME QInv, Orderly, PowerCut PROVE QInv'
<1>1. PInv'
  BY NextPInv DEF QInv, Next, Orderly
<1>2. UNCHANGED sold /\ \A c \in Cards : card'[c].purse = card[c].purse
  BY DEF PowerCut
<1>3. NothingOversold'
  BY <1>2, UnwrittenTurn DEF PowerCut
<1>4. ReadableOrTorn'
  BY <1>2 DEF QInv, ReadableOrTorn, Main, PowerCut, PaysNothing
<1>5. ServedInv'
  BY DEF PowerCut, ServedInv, Paid
<1> QED
  BY <1>1, <1>3, <1>4, <1>5 DEF QInv

\* Reading a card: a main purse that can be read is as the RAM says; the
\* sub-purse covers nothing; or the RAM stays, and the torn purse is the one it
\* was read from.
LEMMA ReadCardQInv == ASSUME QInv, Orderly, ReadCard PROVE QInv'
<1>1. PInv' /\ TInv
  BY NextPInv DEF QInv, PInv, Next, Orderly
<1>2. PICK c \in Cards : c = field
  BY DEF ReadCard, QInv, PInv, TInv, TypeOK
<1>3. /\ CardSerialNumBak' = c /\ UNCHANGED <<card, sold>>
      /\ ConsumCase' \in {"3", "5"}
  BY <1>2 DEF ReadCard
<1>4. NothingOversold' /\ (UNCHANGED ram => ReadableOrTorn')
  BY <1>3, UnwrittenTurn
<1>5. ReadableOrTorn' /\ (PaysNothing' \/ Unwritten(c)')
  <2>1. CASE ParsePurse(Main(c))
    <3>1. PICK b \in Candidates(Main(c)) :
            /\ OldBalance' = Main(c)[b].money /\ PurseContrlNum' = Main(c)[b].cnt
            /\ bitUseMoneyBlock' = b
      BY <2>1 DEF ParsePurse
    <3>2. Main(c)[b] \in Block /\ Main(c)[b].good
      BY <1>1, <3>1, CardTypes DEF Candidates
    <3>3. Main(c)[b] = [money |-> OldBalance', cnt |-> PurseContrlNum', good |-> TRUE]
      BY <3>1, <3>2 DEF Block
    <3>4. Main(c)' = Main(c)
      BY <1>3 DEF Main
    <3>5. Unwritten(c)'
      BY <3>1, <3>3, <3>4 DEF Unwritten, HasRead
    <3>6. \A d \in Cards : Candidates(Main(d)) # {}
      BY <3>1 DEF QInv, ReadableOrTorn, Orderly, Mendable
    <3>7. ReadableOrTorn'
      BY <1>3, <3>6 DEF ReadableOrTorn, Main
    <3> QED
      BY <3>5, <3>7
  <2>2. CASE 1 \in Purses /\ ParsePurse(card[c].purse[1])
    <3>1. OldBalance' = SubOpening
      BY <2>2 DEF ParsePurse, Candidates, QInv, PInv, SubIsNew, NewPurse
    <3>2. PaysNothing'
      BY <2>2, <3>1 DEF PaysNothing
    <3> QED
      BY <1>3, <3>2 DEF QInv, ReadableOrTorn, Main
  <2>3. CASE MayFail(Main(c)) /\ UNCHANGED ram
    <3>1. Candidates(Main(c)) = {}
      BY <2>3 DEF MayFail, Orderly
    <3>2. PaysNothing \/ Unwritten(c)
      BY <3>1 DEF QInv, ReadableOrTorn
    <3>3. PaysNothing' = PaysNothing /\ Unwritten(c)' = Unwritten(c)
      BY <1>3, <2>3, UnwrittenTurn DEF PaysNothing, ram
    <3> QED
      BY <1>4, <2>3, <3>2, <3>3
  <2> QED
    BY <1>2, <2>1, <2>2, <2>3 DEF ReadCard, SearchPurse, Main
<1>6. ServedInv'
  <2>1. ConsumCase' = "3" => PaysNothing' \/ Unwritten(CardSerialNumBak)'
    BY <1>3, <1>5 DEF Unwritten, HasRead, Main
  <2> QED
    BY <1>3, <2>1 DEF ServedInv, Paid
<1> QED
  BY <1>1, <1>4, <1>5, <1>6 DEF QInv

\* The check, a card that is not found, and the day block: no purse is written.
LEMMA ServingQInv ==
  ASSUME QInv, Orderly, CardBalanceDiag \/ DetectFails \/ WriteDayFails \/ WriteDay
  PROVE  QInv'
<1>1. PInv' /\ TInv
  BY NextPInv DEF QInv, PInv, Next, Orderly
<1>2. UNCHANGED <<ram, CurrentConsumMoney, CardSerialNumBak, sold>>
  BY DEF CardBalanceDiag, DetectFails, WriteDayFails, WriteDay
<1>3. \A c \in Cards : card'[c].purse = card[c].purse
  BY <1>1, DayWriteKeepsPurses DEF CardBalanceDiag, DetectFails
<1>4. NothingOversold' /\ ReadableOrTorn'
  BY <1>2, <1>3, UnwrittenTurn
<1>5. PICK s \in Cards : s = CardSerialNumBak
  BY DEF QInv, PInv, TInv, CardIsServed, CardBalanceDiag, DetectFails, WriteDayFails, WriteDay
<1>6. /\ Unwritten(s)' = Unwritten(s) /\ Debited(s)' = Debited(s)
      /\ Owed(s)' = Owed(s) /\ PurseImage' = PurseImage
  BY <1>2, <1>3, UnwrittenTurn DEF PurseImage, NewBalance, ram
<1>7. CardSerialNumBak' = s
  BY <1>2, <1>5
<1>8. CASE CardBalanceDiag
  <2>1. ConsumCase = "3" /\ ConsumCase' \in {"3.purse", "5"}
        /\ (ConsumCase' = "3.purse" => Affordable)
    BY <1>8 DEF CardBalanceDiag
  <2>2. CurrentConsumMoney \in Charged /\ (PaysNothing \/ Unwritten(s))
    BY <1>5, <2>1 DEF QInv, PInv, AmountIsCovered, ServedInv
  <2>3. Affordable => Minimum + CurrentConsumMoney <= OldBalance
    BY DEF Affordable
  <2>4. Affordable => Unwritten(s)
    BY <1>1, <2>2, <2>3, PaysNothingIsLittle
  <2>5. ConsumCase' = "3.purse" => /\ Unwritten(s)'
                                   /\ Minimum + CurrentConsumMoney' <= OldBalance'
    BY <1>2, <1>6, <2>1, <2>3, <2>4 DEF ram
  <2>6. Unwritten(CardSerialNumBak)' = Unwritten(s)'
    BY <1>7 DEF Unwritten, HasRead, Main
  <2>7. ServedInv'
    BY <2>1, <2>5, <2>6 DEF ServedInv, Paid
  <2> QED
    BY <1>1, <1>4, <2>7 DEF QInv
<1>9. CASE DetectFails
  <2>1. ConsumCase = "3.purse" /\ ConsumCase' = "4" /\ PurseWrBufferBak' = PurseImage
    BY <1>9 DEF DetectFails, BufferAtDetect
  <2>2. Unwritten(s) /\ Minimum + CurrentConsumMoney <= OldBalance
    BY <1>5, <2>1 DEF QInv, ServedInv
  <2>3. Unwritten(s)' /\ Minimum + CurrentConsumMoney' <= OldBalance'
    BY <1>2, <1>6, <2>2 DEF ram
  <2>4. Unwritten(CardSerialNumBak)' = Unwritten(s)'
    BY <1>7 DEF Unwritten, HasRead, Main
  <2>5. ServedInv'
    BY <1>6, <2>1, <2>3, <2>4 DEF ServedInv, Paid
  <2> QED
    BY <1>1, <1>4, <2>5 DEF QInv
<1>10. CASE WriteDayFails \/ WriteDay
  <2>1. /\ ConsumCase = "3.day" /\ ConsumCase' \in {"3.record", "4"}
        /\ UNCHANGED PurseWrBufferBak
    BY <1>10 DEF WriteDayFails, WriteDay
  <2>2. /\ Debited(s) /\ CurrentConsumMoney <= Owed(s)
        /\ Minimum + CurrentConsumMoney <= OldBalance
        /\ PurseWrBufferBak = PurseImage
    BY <1>5, <2>1 DEF QInv, ServedInv, Paid
  <2>3. /\ Debited(s)' /\ CurrentConsumMoney' <= Owed(s)'
        /\ Minimum + CurrentConsumMoney' <= OldBalance'
        /\ PurseWrBufferBak' = PurseImage'
    BY <1>2, <1>6, <2>1, <2>2 DEF ram
  <2>4. Debited(CardSerialNumBak)' = Debited(s)' /\ Owed(CardSerialNumBak)' = Owed(s)'
    BY <1>7 DEF Debited, HasRead, Main, Owed, Balance
  <2>5. ServedInv'
    BY <2>1, <2>3, <2>4 DEF ServedInv, Paid
  <2> QED
    BY <1>1, <1>4, <2>5 DEF QInv
<1> QED
  BY <1>8, <1>9, <1>10

\* The record of a debit that is on the card.
LEMMA SaveRecordFacts ==
  ASSUME QInv, SaveRecord
  PROVE  /\ CardSerialNumBak \in Cards /\ UNCHANGED card
         /\ sold' = [sold EXCEPT ![CardSerialNumBak] = @ + CurrentConsumMoney]
         /\ CurrentConsumMoney \in Nat
         /\ CurrentConsumMoney <= Owed(CardSerialNumBak)
         /\ Debited(CardSerialNumBak)
         /\ Minimum + CurrentConsumMoney <= OldBalance
<1>1. CardSerialNumBak \in Cards /\ CurrentConsumMoney \in Nat
  BY ImageTypes DEF QInv, PInv, TInv, CardIsServed, SaveRecord
<1> QED
  BY <1>1 DEF SaveRecord, QInv, ServedInv, Paid

LEMMA SaveRecordQInv == ASSUME QInv, Orderly, SaveRecord PROVE QInv'
<1>1. PInv' /\ TInv
  BY NextPInv DEF QInv, PInv, Next, Orderly
<1>2. UNCHANGED ram /\ \A c \in Cards : card'[c].purse = card[c].purse
  BY DEF SaveRecord
<1>3. ReadableOrTorn'
  BY <1>2, UnwrittenTurn
<1>4. NothingOversold'
  <2> SUFFICES ASSUME NEW c \in Cards PROVE Owed(c)' >= 0
    BY DEF NothingOversold
  <2>1. Balance(c)' = Balance(c)
    BY <1>2 DEF Balance
  <2>2. /\ Balance(c) \in Nat /\ sold[c] \in Nat /\ Opening \in Nat
        /\ Opening - Balance(c) - sold[c] >= 0
    BY <1>1, CardTypes DEF QInv, NothingOversold, Owed
  <2>3. CASE c # CardSerialNumBak
    <3>1. sold'[c] = sold[c]
      BY <1>1, <2>3, SaveRecordFacts DEF TInv, TypeOK
    <3> QED
      BY <2>1, <2>2, <3>1 DEF Owed
  <2>4. CASE c = CardSerialNumBak
    <3>1. sold'[c] = sold[c] + CurrentConsumMoney
      BY <1>1, <2>4, SaveRecordFacts DEF TInv, TypeOK
    <3>2. CurrentConsumMoney \in Nat /\ CurrentConsumMoney <= Opening - Balance(c) - sold[c]
      BY <2>4, SaveRecordFacts DEF Owed
    <3>3. Opening - Balance(c) - (sold[c] + CurrentConsumMoney) >= 0
      BY <2>2, <3>2
    <3> QED
      BY <2>1, <3>1, <3>3 DEF Owed
  <2> QED
    BY <2>3, <2>4
<1>5. ServedInv'
  BY DEF SaveRecord, ServedInv, Paid
<1> QED
  BY <1>1, <1>3, <1>4, <1>5 DEF QInv

\* Writing the purse of the served card: the debit is there afterwards, or the
\* purse is as it was read but for a torn block.
LEMMA PurseWritten ==
  ASSUME QInv, Orderly, WritePurseFails \/ WritePurse \/ RewriteFails \/ Rewrite,
         NEW s \in Cards, s = CardSerialNumBak
  PROVE  /\ field = s /\ UNCHANGED <<ram, CurrentConsumMoney, CardSerialNumBak>>
         /\ PurseWrBufferBak' = PurseImage /\ PurseImage' = PurseImage
         /\ Minimum + CurrentConsumMoney <= OldBalance
         /\ \A c \in Cards : c # s => card'[c] = card[c]
         /\ \/ Unwritten(s)
            \/ ConsumCase = "4" /\ Debited(s) /\ CurrentConsumMoney <= Owed(s)
         /\ \/ Debited(s)'
            \/ /\ Unwritten(s)' /\ ~WritePurse /\ ~Rewrite
               /\ Unwritten(s) \/ "tear" \in Faults
<1>1. TInv /\ ConsumCase \in {"3.purse", "4"}
  BY DEF QInv, PInv, WritePurseFails, WritePurse, RewriteFails, Rewrite
<1>2. /\ Minimum + CurrentConsumMoney <= OldBalance
      /\ \/ Unwritten(s)
         \/ ConsumCase = "4" /\ Debited(s) /\ CurrentConsumMoney <= Owed(s)
  BY <1>1 DEF QInv, ServedInv, Paid
<1>3. /\ UNCHANGED <<ram, CurrentConsumMoney, CardSerialNumBak>>
      /\ PurseWrBufferBak' = PurseImage
  BY DEF QInv, ServedInv, Paid, WritePurseFails, WritePurse, RewriteFails, Rewrite, buffers
<1>4. PurseImage' = PurseImage
  BY <1>3 DEF PurseImage, NewBalance, ram
<1> DEFINE use == bitUseMoneyBlock
           b == PurseImage.block
           data == PurseImage.data
           purse == Main(s)
<1>5. /\ purse \in [Blocks -> Block] /\ b = Other(use) /\ b \in Blocks /\ use \in Blocks
      /\ use # b /\ data \in Block
  BY <1>1, <1>2, CardTypes, CoveredImage
<1>6. /\ field = s /\ \A c \in Cards : c # s => card'[c] = card[c]
      /\ \E value \in AfterFailure(purse[b], data) :
           card'[s].purse[0] = [purse EXCEPT ![b] = value]
  BY <1>1, <1>3, PurseIsStored DEF SameCard
<1>7. PICK value \in AfterFailure(purse[b], data) :
        card'[s].purse[0] = [purse EXCEPT ![b] = value]
  BY <1>6
<1>8. /\ Main(s)' = card'[s].purse[0]
      /\ HasRead(s)
  BY <1>2 DEF Main, Unwritten, Debited
<1>9. HasRead(s)'
  <2>1. card'[s].purse[0][use] = purse[use]
    BY <1>5, <1>7
  <2> QED
    BY <1>3, <1>8, <2>1 DEF HasRead, ram
<1>10. CASE value = data
  <2>1. card'[s].purse[0][Other(use)] = data
    BY <1>5, <1>7, <1>10
  <2>2. Debited(s)'
    BY <1>3, <1>4, <1>8, <1>9, <2>1 DEF Debited, ram
  <2> QED
    BY <1>2, <1>3, <1>4, <1>6, <2>2
<1>11. CASE value # data
  <2>1. ~WritePurse /\ ~Rewrite
    <3>1. ASSUME WritePurse \/ Rewrite PROVE card'[s].purse[0] = [purse EXCEPT ![b] = data]
      <4>1. \/ card' = [card EXCEPT ![s].purse[0][b] = data]
            \/ \E day : card' = [card EXCEPT ![s].purse[0][b] = data, ![s].day = day]
        BY <1>3, <1>6, <3>1 DEF WritePurse, Rewrite, SetPurse, buffers
      <4>2. PICK k, block : k \in Blocks /\ k = b /\ block = data
        BY <1>5
      <4>3. \/ card' = [card EXCEPT ![s].purse[0][k] = block]
            \/ \E day : card' = [card EXCEPT ![s].purse[0][k] = block, ![s].day = day]
        BY <4>1, <4>2
      <4>4. card'[s].purse[0] = [Main(s) EXCEPT ![k] = block]
        BY <1>1, <4>2, <4>3, StoredPurse
      <4> QED
        BY <4>2, <4>4
    <3>2. [purse EXCEPT ![b] = data][b] = data /\ [purse EXCEPT ![b] = value][b] = value
      BY <1>5
    <3> QED
      BY <1>7, <1>11, <3>1, <3>2
  <2>2. CASE value = purse[b]
    <3>1. Main(s)' = Main(s)
      BY <1>5, <1>7, <1>8, <2>2
    <3>2. Unwritten(s)' = Unwritten(s) /\ Debited(s)' = Debited(s)
      BY <1>3, <1>4, <3>1 DEF Unwritten, Debited, HasRead, ram
    <3> QED
      BY <1>2, <1>3, <1>4, <1>6, <2>1, <3>2
  <2>3. CASE value = Torn(data) /\ "tear" \in Faults
    <3>1. ~Torn(data).good
      BY <1>5, BlockFacts DEF Torn, Block
    <3>2. ~card'[s].purse[0][Other(use)].good
      BY <1>5, <1>7, <2>3, <3>1
    <3>3. Unwritten(s)'
      BY <1>3, <1>8, <1>9, <3>2 DEF Unwritten, ram
    <3> QED
      BY <1>2, <1>3, <1>4, <1>6, <2>1, <2>3, <3>3
  <2> QED
    BY <1>11, <2>2, <2>3 DEF AfterFailure
<1> QED
  BY <1>10, <1>11

\* What such a write and the record that may follow it do to the money: debit,
\* record, take back.
LEMMA WriteMoney ==
  ASSUME QInv, Orderly, WritePurseFails \/ WritePurse \/ RewriteFails \/ Rewrite,
         NEW s \in Cards, s = CardSerialNumBak,
         NEW amount \in Nat, amount = CurrentConsumMoney
  PROVE  /\ \A c \in Cards : c # s => Balance(c)' = Balance(c) /\ sold'[c] = sold[c]
         /\ IF Rewrite THEN sold' = [sold EXCEPT ![s] = @ + amount] ELSE UNCHANGED sold
         /\ \/ /\ Balance(s)' = Balance(s) - amount
               /\ Unwritten(s) /\ Debited(s)'
               /\ Balance(s) - amount >= Minimum
            \/ /\ Balance(s)' = Balance(s)
               /\ Unwritten(s)' /\ Unwritten(s) /\ ~Rewrite
            \/ /\ Balance(s)' = Balance(s)
               /\ amount <= Owed(s)
               /\ Debited(s) /\ Debited(s)'
            \/ /\ Balance(s)' = Balance(s) + amount
               /\ amount <= Owed(s)
               /\ "tear" \in Faults /\ Unwritten(s)' /\ Debited(s) /\ ~Rewrite
<1>1. TInv /\ TInv'
  BY NextTInv DEF QInv, PInv, Next
<1>2. /\ field = s /\ UNCHANGED <<ram, CurrentConsumMoney, CardSerialNumBak>>
      /\ Minimum + CurrentConsumMoney <= OldBalance
      /\ \A c \in Cards : c # s => card'[c] = card[c]
      /\ \/ Unwritten(s)
         \/ ConsumCase = "4" /\ Debited(s) /\ CurrentConsumMoney <= Owed(s)
      /\ \/ Debited(s)'
         \/ /\ Unwritten(s)' /\ ~WritePurse /\ ~Rewrite
            /\ Unwritten(s) \/ "tear" \in Faults
  BY PurseWritten
<1>4. /\ Unwritten(s) => Balance(s) = OldBalance
      /\ Debited(s) => Balance(s) = OldBalance - amount
  BY <1>1, <1>2, WorthOfServed
<1>5. Unwritten(s)' => Balance(s)' = OldBalance
  BY <1>1, <1>2, WorthOfServedNext
<1>6. Debited(s)' => Balance(s)' = OldBalance - amount
  BY <1>1, <1>2, WorthOfServedNext
<1>7. /\ Balance(s) \in Nat /\ OldBalance \in Nat /\ Minimum \in Nat
      /\ sold \in [Cards -> Nat]
  BY <1>1, CardTypes DEF TInv, TypeOK
<1>8. /\ \A c \in Cards : c # s => Balance(c)' = Balance(c) /\ sold'[c] = sold[c]
      /\ IF Rewrite THEN sold' = [sold EXCEPT ![s] = @ + amount] ELSE UNCHANGED sold
  BY <1>2, <1>7 DEF Balance, WritePurseFails, WritePurse, RewriteFails, Rewrite
<1>9. CASE Unwritten(s) /\ Debited(s)'
  BY <1>2, <1>4, <1>6, <1>7, <1>8, <1>9
<1>10. CASE Unwritten(s) /\ Unwritten(s)' /\ ~Rewrite
  BY <1>4, <1>5, <1>7, <1>8, <1>10
<1>11. CASE Debited(s) /\ amount <= Owed(s) /\ Debited(s)'
  BY <1>4, <1>6, <1>7, <1>8, <1>11
<1>12. CASE Debited(s) /\ amount <= Owed(s) /\ Unwritten(s)' /\ ~Rewrite /\ "tear" \in Faults
  BY <1>4, <1>5, <1>7, <1>8, <1>12
<1> QED
  BY <1>2, <1>9, <1>10, <1>11, <1>12

LEMMA WriteQInv ==
  ASSUME QInv, Orderly, WritePurseFails \/ WritePurse \/ RewriteFails \/ Rewrite
  PROVE  QInv'
<1>1. PInv' /\ TInv /\ TInv'
  BY NextPInv DEF QInv, PInv, Next, Orderly
<1>2. PICK s \in Cards : s = CardSerialNumBak
  BY DEF QInv, PInv, TInv, CardIsServed, WritePurseFails, WritePurse, RewriteFails, Rewrite
<1>3. PICK amount \in Nat : amount = CurrentConsumMoney
  BY <1>1, CardTypes
<1>4. /\ field = s /\ UNCHANGED <<ram, CurrentConsumMoney, CardSerialNumBak>>
      /\ PurseWrBufferBak' = PurseImage /\ PurseImage' = PurseImage
      /\ Minimum + CurrentConsumMoney <= OldBalance
      /\ \A c \in Cards : c # s => card'[c] = card[c]
      /\ Debited(s)' \/ (Unwritten(s)' /\ ~WritePurse /\ ~Rewrite)
  BY <1>2, PurseWritten
<1>5. Minimum + CurrentConsumMoney' <= OldBalance'
  BY <1>4 DEF ram
<1>6. ReadableOrTorn'
  <2>1. Candidates(Main(s))' # {} \/ ("tear" \in Faults /\ Unwritten(s)')
    <3>1. CASE Debited(s)'
      BY <1>1, <1>4, <3>1, WorthOfServedNext
    <3>2. CASE Unwritten(s)' /\ "tear" \in Faults
      BY <3>2
    <3>3. CASE Unwritten(s)' /\ "tear" \notin Faults
      <4>1. \A b \in Blocks : Main(s)'[b].good
        BY <1>1, <3>3 DEF PInv, TornIsNext
      <4>2. Other(bitUseMoneyBlock') \in Blocks
        BY <1>1, BlockFacts DEF TInv, TypeOK
      <4> QED
        BY <3>3, <4>1, <4>2 DEF Unwritten
    <3> QED
      BY <1>4, <3>1, <3>2, <3>3
  <2>2. \A c \in Cards : c # s => Main(c)' = Main(c) /\ "tear" \notin Faults
    BY <1>4 DEF Main, Orderly, Mendable
  <2> QED
    BY <2>1, <2>2 DEF QInv, ReadableOrTorn
<1>7. /\ \A c \in Cards : c # s => Balance(c)' = Balance(c) /\ sold'[c] = sold[c]
      /\ IF Rewrite THEN sold' = [sold EXCEPT ![s] = @ + amount] ELSE UNCHANGED sold
      /\ \/ /\ Balance(s)' = Balance(s) - amount
            /\ Unwritten(s) /\ Debited(s)'
         \/ /\ Balance(s)' = Balance(s)
            /\ Unwritten(s)' /\ Unwritten(s) /\ ~Rewrite
         \/ /\ Balance(s)' = Balance(s)
            /\ amount <= Owed(s)
            /\ Debited(s) /\ Debited(s)'
         \/ /\ Balance(s)' = Balance(s) + amount
            /\ amount <= Owed(s)
            /\ Unwritten(s)' /\ Debited(s) /\ ~Rewrite
  BY <1>2, <1>3, WriteMoney
<1>8. /\ sold \in [Cards -> Nat] /\ sold[s] \in Nat /\ Balance(s) \in Nat /\ Opening \in Nat
      /\ Owed(s) = Opening - Balance(s) - sold[s] /\ Owed(s) >= 0
      /\ Owed(s)' = Opening - Balance(s)' - sold'[s]
  BY <1>1, CardTypes DEF QInv, NothingOversold, Owed, TInv, TypeOK
<1>9. IF Rewrite THEN sold'[s] = sold[s] + amount ELSE sold'[s] = sold[s]
  BY <1>7, <1>8
<1>10. Owed(s)' >= 0 /\ (~Rewrite /\ Unwritten(s) /\ ~Unwritten(s)' => amount <= Owed(s)')
  <2>1. CASE Balance(s)' = Balance(s) - amount
    BY <1>8, <1>9, <2>1
  <2>2. CASE Balance(s)' = Balance(s) /\ Unwritten(s)' /\ ~Rewrite
    BY <1>8, <1>9, <2>2
  <2>3. CASE Balance(s)' = Balance(s) /\ amount <= Owed(s)
    BY <1>8, <1>9, <2>3
  <2>4. CASE Balance(s)' = Balance(s) + amount /\ amount <= Owed(s) /\ Unwritten(s)' /\ ~Rewrite
    BY <1>8, <1>9, <2>4
  <2> QED
    BY <1>7, <2>1, <2>2, <2>3, <2>4
<1>11. NothingOversold'
  <2>1. \A c \in Cards : c # s => Owed(c)' = Owed(c)
    BY <1>7 DEF Owed
  <2> QED
    BY <1>10, <2>1 DEF QInv, NothingOversold
<1>12. ServedInv'
  <2>1. CASE RewriteFails \/ Rewrite
    <3>1. ConsumCase' = "5"
      BY <2>1 DEF RewriteFails, Rewrite
    <3> QED
      BY <3>1 DEF ServedInv, Paid
  <2>2. CASE WritePurseFails \/ WritePurse
    <3>1. /\ ConsumCase = "3.purse" /\ UNCHANGED sold
          /\ ConsumCase' = IF WritePurse THEN "3.day" ELSE "4"
      BY <2>2 DEF WritePurseFails, WritePurse
    <3>2. Unwritten(s)
      BY <1>2, <3>1 DEF QInv, ServedInv
    <3>3. Debited(s)' => amount <= Owed(s)'
      <4>1. ASSUME Debited(s)' PROVE Balance(s)' = OldBalance - amount
        BY <1>1, <1>3, <1>4, <4>1, WorthOfServedNext
      <4>2. Balance(s) = OldBalance
        BY <1>1, <1>4, <3>2, WorthOfServed
      <4>3. sold'[s] = sold[s]
        BY <3>1
      <4> QED
        BY <1>8, <4>1, <4>2, <4>3
    <3>4. /\ Unwritten(CardSerialNumBak)' = Unwritten(s)'
          /\ Debited(CardSerialNumBak)' = Debited(s)'
          /\ Owed(CardSerialNumBak)' = Owed(s)'
      BY <1>2, <1>4 DEF Unwritten, Debited, HasRead, Main, Owed, Balance
    <3>5. /\ ConsumCase' = "3.day" => Debited(s)'
          /\ ConsumCase' \in {"3.day", "4"}
      BY <1>4, <3>1
    <3>6. CurrentConsumMoney' = amount /\ PurseWrBufferBak' = PurseImage'
      BY <1>3, <1>4
    <3> QED
      BY <1>4, <1>5, <3>3, <3>4, <3>5, <3>6 DEF ServedInv, Paid
  <2> QED
    BY <2>1, <2>2
<1> QED
  BY <1>1, <1>6, <1>11, <1>12 DEF QInv

\* A debit at another terminal is recorded there and then.
LEMMA ElsewhereMoney ==
  ASSUME TInv, NEW c \in Cards, NEW amount \in Amounts \ {0}, Elsewhere(c, amount)
  PROVE  /\ amount \in Nat /\ sold' = [sold EXCEPT ![c] = @ + amount]
         /\ \A d \in Cards : d # c => card'[d] = card[d]
         /\ Candidates(Main(c))' # {}
         /\ Balance(c)' = Balance(c) - amount
         /\ Balance(c) - amount >= Minimum
<1>1. /\ amount \in Nat /\ amount # 0 /\ Minimum \in Nat
      /\ Main(c) \in [Blocks -> Block]
      /\ sold' = [sold EXCEPT ![c] = @ + amount]
  BY MoneyIsNat, CardTypes DEF Elsewhere
<1>2. PICK b, value :
        /\ b \in Candidates(Main(c))
        /\ value = [money |-> Main(c)[b].money - amount,
                    cnt |-> (Main(c)[b].cnt + 1) % CNT, good |-> TRUE]
        /\ Minimum + amount <= Main(c)[b].money
        /\ \A d \in Cards : d # c => card'[d] = card[d]
        /\ card'[c].purse[0] = [Main(c) EXCEPT ![Other(b)] = value]
        /\ \A p \in Purses : p # 0 => card'[c].purse[p] = card[c].purse[p]
  BY ElsewhereWrites
<1>3. PICK after \in [Blocks -> Block] : after = card'[c].purse[0]
  BY NextTInv, PurseAssumption DEF Next, TInv, CardType
<1>4. /\ b \in Blocks /\ Other(b) \in Blocks /\ Other(b) # b
      /\ Main(c)[b].good /\ Main(c)[b].money \in Nat
      /\ Worth(Main(c)) = Main(c)[b].money
  BY <1>1, <1>2, BalanceOfCandidate, BlockFacts DEF Candidates
<1>5. after[b] = Main(c)[b] /\ after[Other(b)] = value
  BY <1>1, <1>2, <1>3, <1>4
<1>6. /\ after[b].good /\ after[Other(b)].good
      /\ after[Other(b)].money = after[b].money - amount
      /\ after[Other(b)].cnt = IF amount = 0 THEN after[b].cnt ELSE (after[b].cnt + 1) % CNT
  BY <1>1, <1>2, <1>4, <1>5
<1>7. Candidates(after) # {} /\ Worth(after) = after[b].money - amount
  BY <1>1, <1>4, <1>6, DebitedPurse
<1>8. /\ Candidates(Main(c))' # {}
      /\ Balance(c) = Main(c)[b].money /\ Balance(c)' = Main(c)[b].money - amount
  BY <1>3, <1>4, <1>5, <1>7 DEF Balance, Main
<1>9. Balance(c)' = Balance(c) - amount /\ Balance(c) - amount >= Minimum
  BY <1>1, <1>2, <1>4, <1>8
<1> QED
  BY <1>1, <1>2, <1>8, <1>9

LEMMA ElsewhereQInv ==
  ASSUME QInv, Orderly, NEW c \in Cards, NEW amount \in Amounts \ {0}, Elsewhere(c, amount)
  PROVE  QInv'
<1>1. PInv' /\ TInv
  BY NextPInv DEF QInv, PInv, Next, Orderly
<1>2. UNCHANGED <<ram, ConsumCase>> /\ ConsumCase \in {"0", "1", "5"}
  BY <1>1 DEF Elsewhere, Serving, TInv, TypeOK
<1>3. \A d \in Cards : d # c =>
        /\ Main(d)' = Main(d) /\ Balance(d)' = Balance(d) /\ sold'[d] = sold[d]
  BY <1>1, ElsewhereMoney DEF Main, Balance, TInv, TypeOK
<1>4. ReadableOrTorn'
  <2>1. \A d \in Cards : d # c => Unwritten(d)' = Unwritten(d)
    BY <1>2, <1>3 DEF Unwritten, HasRead, ram
  <2>2. PaysNothing' = PaysNothing
    BY <1>2 DEF PaysNothing, ram
  <2> QED
    BY <1>1, <1>3, <2>1, <2>2, ElsewhereMoney DEF QInv, ReadableOrTorn
<1>5. NothingOversold'
  <2>1. \A d \in Cards : d # c => Owed(d)' = Owed(d)
    BY <1>3 DEF Owed
  <2>2. /\ Balance(c)' = Balance(c) - amount /\ sold'[c] = sold[c] + amount
        /\ amount \in Nat /\ Balance(c) \in Nat /\ sold[c] \in Nat /\ Opening \in Nat
    BY <1>1, ElsewhereMoney, CardTypes DEF TInv, TypeOK
  <2>3. Owed(c)' = Owed(c)
    BY <2>2 DEF Owed
  <2> QED
    BY <2>1, <2>3 DEF QInv, NothingOversold
<1>6. ServedInv'
  BY <1>2 DEF ServedInv, Paid
<1> QED
  BY <1>1, <1>4, <1>5, <1>6 DEF QInv

LEMMA NextQInv == ASSUME Orderly PROVE QInv /\ [Next]_vars => QInv'
BY WaitingQInv, PowerCutQInv, ReadCardQInv, ServingQInv, SaveRecordQInv, WriteQInv,
   ElsewhereQInv DEF Next

LEMMA PaymentInvariance == ASSUME Orderly PROVE Spec => []QInv
<1>1. Init => QInv
  BY InitQInv
<1>2. QInv /\ [Next]_vars => QInv'
  BY NextQInv
<1> QED
  BY <1>1, <1>2, PTL DEF Spec

------------------------------------------------------------------------------
\* The theorems.

\* A purse can be read after every debit, whole or interrupted between two
\* writes, after every power cut and past every wrap of the counter, if a block
\* is written whole or not at all.
THEOREM PurseStaysReadable ==
  ASSUME Orderly, "tear" \notin Faults PROVE Spec => []PurseIsReadable
<1>1. QInv => PurseIsReadable
  BY DEF QInv, ReadableOrTorn, PurseIsReadable, Main
<1> QED
  BY <1>1, PaymentInvariance, PTL

\* A step that stores a record.
LEMMA RecordingStep ==
  ASSUME QInv, Orderly, [Next]_vars, NEW c \in Cards, sold'[c] # sold[c],
         elsewhere' = elsewhere
  PROVE  /\ c = CardSerialNumBak
         /\ Worth(card'[c].purse[0]) = OldBalance - (sold'[c] - sold[c])
<1>1. /\ TInv /\ TInv' /\ sold \in [Cards -> Nat]
      /\ CurrentConsumMoney \in Nat
  BY NextTInv, CardTypes DEF QInv, PInv, TInv, TypeOK
<1>2. SaveRecord \/ Rewrite
  <2>1. UNCHANGED sold \/ SaveRecord \/ Rewrite
          \/ \E k \in Cards, amount \in Amounts \ {0} : Elsewhere(k, amount)
    BY DEF Next, vars, Start, RequestCard, ReadCommonFails, ReadCard, CardBalanceDiag,
           DetectFails, WritePurseFails, WritePurse, WriteDayFails, WriteDay,
           RewriteCardGone, RewriteRefused, RewriteFails, CardLeft, Place, Remove,
           SetAmount, SetMode, NewDay, PowerCut
  <2>2. ASSUME NEW k \in Cards, NEW amount \in Amounts \ {0}, Elsewhere(k, amount)
        PROVE  elsewhere' # elsewhere
    <3>1. elsewhere \in Nat
      BY <1>1, BoundAssumption DEF TInv, TypeOK
    <3>2. elsewhere' = elsewhere + 1
      BY <2>2 DEF Elsewhere
    <3> QED
      BY <3>1, <3>2
  <2> QED
    BY <2>1, <2>2
<1>3. CASE SaveRecord
  <2>1. c = CardSerialNumBak /\ sold'[c] - sold[c] = CurrentConsumMoney
    BY <1>1, <1>3, SaveRecordFacts
  <2>2. Balance(c) = OldBalance - CurrentConsumMoney
    BY <1>1, <1>3, <2>1, SaveRecordFacts, WorthOfServed
  <2> QED
    BY <1>3, <2>1, <2>2, SaveRecordFacts DEF Balance
<1>4. CASE Rewrite
  <2>1. PICK s \in Cards : s = CardSerialNumBak
    BY <1>4 DEF QInv, PInv, TInv, CardIsServed, Rewrite
  <2>2. /\ field = s /\ Debited(s)' /\ Minimum + CurrentConsumMoney <= OldBalance
        /\ UNCHANGED <<ram, CurrentConsumMoney>>
    BY <1>4, <2>1, PurseWritten
  <2>3. sold' = [sold EXCEPT ![s] = @ + CurrentConsumMoney]
    BY <1>4, <2>2 DEF Rewrite
  <2>4. c = s /\ sold'[c] - sold[c] = CurrentConsumMoney
    BY <1>1, <2>3
  <2>5. Balance(s)' = OldBalance - CurrentConsumMoney
    BY <1>1, <2>2, WorthOfServedNext
  <2> QED
    BY <2>1, <2>4, <2>5 DEF Balance
<1> QED
  BY <1>2, <1>3, <1>4

\* Each record names the card that was debited, and the amount: the card is left
\* with the balance that was read less the amount recorded.
THEOREM RecordIsTrue == ASSUME Orderly PROVE Spec => RecordTellsBalance
<1>1. QInv /\ [Next]_vars =>
        [\A c \in Cards : (sold'[c] # sold[c] /\ elsewhere' = elsewhere) =>
           /\ c = CardSerialNumBak
           /\ Worth(card'[c].purse[0]) = OldBalance - (sold'[c] - sold[c])]_vars
  BY RecordingStep
<1> QED
  BY <1>1, PaymentInvariance, PTL DEF Spec, RecordTellsBalance

------------------------------------------------------------------------------
\* The machine implements the till.

LEMMA InitRefines == Init => T!Init
<1> SUFFICES ASSUME Init PROVE T!Init
  OBVIOUS
<1>1. \A c \in Cards : Balance(c) = Opening
  BY NewPurseReadable, PurseAssumption DEF Init, NewCard, Balance
<1> QED
  BY <1>1 DEF Init, T!Init

\* A debit, a record, or both, of one card and a positive amount.
LEMMA TillStep ==
  ASSUME QInv, NEW s \in Cards, NEW amount \in Nat,
         NEW d \in {0, amount}, NEW r \in {0, amount},
         \A c \in Cards : c # s => Balance(c)' = Balance(c),
         Balance(s)' = Balance(s) - d,
         sold' = [sold EXCEPT ![s] = @ + r],
         d # 0 => Balance(s) - amount >= Minimum,
         d = 0 => r <= Owed(s)
  PROVE  T!Next \/ UNCHANGED T!vars
<1>1. /\ sold \in [Cards -> Nat] /\ Opening \in Nat /\ Minimum \in Nat /\ Balance(s) \in Nat
      /\ sold[s] \in Nat
  BY CardTypes DEF QInv, PInv, TInv, TypeOK
<1>2. Opening - Balance(s) - sold[s] >= 0
  BY DEF QInv, NothingOversold, Owed
<1> DEFINE balance == [c \in Cards |-> Balance(c)]
<1>3. balance' = [balance EXCEPT ![s] = @ - d] /\ balance[s] = Balance(s)
  OBVIOUS
<1>4. CASE d = 0 /\ r = 0
  <2>1. balance' = balance /\ sold' = sold
    BY <1>1, <1>3, <1>4
  <2> QED
    BY <2>1 DEF T!vars
<1>5. CASE d # 0
  <2>1. amount \in 1..Opening /\ d = amount
    BY <1>1, <1>2, <1>5
  <2>2. CASE r = 0
    <3>1. sold' = sold
      BY <1>1, <2>2
    <3>2. T!Debit(s, amount)
      BY <1>3, <1>5, <2>1, <3>1 DEF T!Debit
    <3> QED
      BY <2>1, <3>2 DEF T!Next
  <2>3. CASE r = amount
    <3>1. T!DebitAndRecord(s, amount)
      BY <1>3, <1>5, <2>1, <2>3 DEF T!DebitAndRecord
    <3> QED
      BY <2>1, <3>1 DEF T!Next
  <2> QED
    BY <2>2, <2>3
<1>6. CASE d = 0 /\ r # 0
  <2>1. amount \in 1..Opening /\ amount <= Opening - Balance(s) - sold[s] /\ r = amount
    BY <1>1, <1>2, <1>6 DEF Owed
  <2>2. balance' = balance
    BY <1>1, <1>3, <1>6
  <2>3. T!Record(s, amount)
    BY <1>3, <2>1, <2>2 DEF T!Record, T!Due
  <2> QED
    BY <2>1, <2>3 DEF T!Next
<1> QED
  BY <1>4, <1>5, <1>6

\* A debit whose block the retry spoils is taken back.
LEMMA SpoiltStep ==
  ASSUME QInv, NEW s \in Cards, NEW amount \in Nat, "tear" \in Faults,
         \A c \in Cards : c # s => Balance(c)' = Balance(c),
         Balance(s)' = Balance(s) + amount,
         UNCHANGED sold, amount <= Owed(s)
  PROVE  T!Next \/ UNCHANGED T!vars
<1>1. Opening \in Nat /\ Balance(s) \in Nat /\ sold[s] \in Nat
  BY CardTypes DEF QInv, PInv
<1> DEFINE balance == [c \in Cards |-> Balance(c)]
<1>2. balance' = [balance EXCEPT ![s] = @ + amount] /\ balance[s] = Balance(s)
  OBVIOUS
<1>3. CASE amount = 0
  <2>1. balance' = balance
    BY <1>1, <1>2, <1>3
  <2> QED
    BY <2>1 DEF T!vars
<1>4. CASE amount # 0
  <2>1. amount \in 1..Opening /\ amount <= Opening - Balance(s) - sold[s]
    BY <1>1, <1>4 DEF Owed
  <2>2. T!TakeBack(s, amount)
    BY <1>2, <2>1 DEF T!TakeBack, T!Due
  <2> QED
    BY <2>1, <2>2 DEF T!Next
<1> QED
  BY <1>3, <1>4

LEMMA WriteRefines ==
  ASSUME QInv, Orderly, WritePurseFails \/ WritePurse \/ RewriteFails \/ Rewrite
  PROVE  T!Next \/ UNCHANGED T!vars
<1>1. PICK s \in Cards : s = CardSerialNumBak
  BY DEF QInv, PInv, TInv, CardIsServed, WritePurseFails, WritePurse, RewriteFails, Rewrite
<1>2. PICK amount \in Nat : amount = CurrentConsumMoney
  BY CardTypes DEF QInv, PInv
<1>3. Balance(s) \in Nat /\ sold \in [Cards -> Nat]
  BY CardTypes DEF QInv, PInv, TInv, TypeOK
<1>4. PICK r \in {0, amount} :
        sold' = [sold EXCEPT ![s] = @ + r] /\ (~Rewrite => r = 0 /\ UNCHANGED sold)
  <2>1. CASE Rewrite
    BY <1>1, <1>2, <2>1, WriteMoney
  <2>2. CASE ~Rewrite
    <3>1. UNCHANGED sold
      BY <1>1, <1>2, <2>2, WriteMoney
    <3>2. sold' = [sold EXCEPT ![s] = @ + 0]
      BY <1>3, <3>1
    <3> QED
      BY <2>2, <3>1, <3>2
  <2> QED
    BY <2>1, <2>2
<1>5. /\ \A c \in Cards : c # s => Balance(c)' = Balance(c)
      /\ \/ Balance(s)' = Balance(s) - amount /\ Balance(s) - amount >= Minimum
         \/ Balance(s)' = Balance(s) /\ ~Rewrite
         \/ Balance(s)' = Balance(s) /\ amount <= Owed(s)
         \/ /\ Balance(s)' = Balance(s) + amount /\ amount <= Owed(s)
            /\ "tear" \in Faults /\ ~Rewrite
  BY <1>1, <1>2, WriteMoney
<1>6. Owed(s) >= 0
  BY DEF QInv, NothingOversold
<1>7. CASE Balance(s)' = Balance(s) - amount /\ Balance(s) - amount >= Minimum
  <2>1. amount = 0 => r <= Owed(s)
    BY <1>6
  <2> QED
    BY <1>4, <1>5, <1>7, <2>1, TillStep
<1>8. CASE Balance(s)' = Balance(s) /\ r <= Owed(s)
  <2>1. Balance(s)' = Balance(s) - 0
    BY <1>3, <1>8
  <2> QED
    BY <1>4, <1>5, <1>8, <2>1, TillStep
<1>9. CASE /\ Balance(s)' = Balance(s) + amount /\ amount <= Owed(s)
           /\ "tear" \in Faults /\ ~Rewrite
  BY <1>4, <1>5, <1>9, SpoiltStep
<1>10. /\ ~Rewrite => r <= Owed(s)
       /\ amount <= Owed(s) => r <= Owed(s)
  BY <1>4, <1>6
<1> QED
  BY <1>5, <1>7, <1>8, <1>9, <1>10

LEMMA NextRefines ==
  ASSUME QInv, Orderly, [Next]_vars PROVE [T!Next]_(T!vars)
<1>1. CASE WritePurseFails \/ WritePurse \/ RewriteFails \/ Rewrite
  BY <1>1, WriteRefines
<1>2. CASE SaveRecord
  <2>1. PICK s \in Cards, amount \in Nat : s = CardSerialNumBak /\ amount = CurrentConsumMoney
    BY <1>2, SaveRecordFacts
  <2>2. /\ \A c \in Cards : Balance(c)' = Balance(c)
        /\ sold' = [sold EXCEPT ![s] = @ + amount] /\ amount <= Owed(s)
    BY <1>2, <2>1, SaveRecordFacts DEF Balance
  <2>3. Balance(s)' = Balance(s) - 0
    BY <2>2, CardTypes DEF QInv, PInv
  <2> QED
    BY <2>2, <2>3, TillStep
<1>3. ASSUME NEW c \in Cards, NEW amount \in Amounts \ {0}, Elsewhere(c, amount)
      PROVE  T!Next \/ UNCHANGED T!vars
  <2>1. /\ amount \in Nat /\ sold' = [sold EXCEPT ![c] = @ + amount]
        /\ Balance(c)' = Balance(c) - amount /\ Balance(c) - amount >= Minimum
        /\ \A d \in Cards : d # c => Balance(d)' = Balance(d)
    BY <1>3, ElsewhereMoney DEF QInv, PInv, Balance
  <2>2. amount = 0 => amount <= Owed(c)
    OBVIOUS
  <2> QED
    BY <2>1, <2>2, TillStep
<1>4. ASSUME UNCHANGED sold, \A c \in Cards : card'[c].purse = card[c].purse
      PROVE  UNCHANGED T!vars
  BY <1>4 DEF Balance, T!vars
<1>5. CASE WriteDay \/ WriteDayFails
  <2>1. \A c \in Cards : card'[c].purse = card[c].purse
    BY <1>5, DayWriteKeepsPurses DEF QInv, PInv
  <2> QED
    BY <1>4, <1>5, <2>1 DEF WriteDay, WriteDayFails
<1>6. CASE \/ Start \/ RequestCard \/ ReadCommonFails \/ ReadCard \/ CardBalanceDiag
           \/ DetectFails \/ RewriteCardGone \/ RewriteRefused \/ CardLeft
           \/ (\E c \in Cards : Place(c)) \/ Remove
           \/ (\E amount \in Amounts : SetAmount(amount))
           \/ (\E mode \in Modes : SetMode(mode)) \/ NewDay \/ PowerCut \/ UNCHANGED vars
  <2>1. UNCHANGED <<card, sold>>
    BY <1>6 DEF Start, RequestCard, ReadCommonFails, ReadCard, CardBalanceDiag,
       DetectFails, RewriteCardGone, RewriteRefused, CardLeft, Place, Remove, SetAmount,
       SetMode, NewDay, PowerCut, vars
  <2> QED
    BY <1>4, <2>1
<1> QED
  BY <1>1, <1>2, <1>3, <1>5, <1>6 DEF Next

\* The machine, with its blocks, buffers, retries, swapped cards, spoilt blocks,
\* power cuts and the debits of other terminals, debits cards and stores records
\* as the till does.
THEOREM MachineIsTill == ASSUME Orderly PROVE Spec => TillSpec
<1>1. Init => T!Init
  BY InitRefines
<1>2. QInv /\ [Next]_vars => [T!Next]_(T!vars)
  BY NextRefines
<1> QED
  BY <1>1, <1>2, PaymentInvariance, PTL DEF Spec, TillSpec, T!Spec
=============================================================================
