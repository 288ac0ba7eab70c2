------------------------------- MODULE Consume -------------------------------
(***************************************************************************)
(* Paying by card: the consumption machine of the main loop                *)
(* (app_ykt_consume) and the purse of a Mifare card it debits.             *)
(*                                                                         *)
(* A purse is two blocks, each with an amount and a 16-bit counter.  The   *)
(* block with the higher counter holds the balance; a debit overwrites the *)
(* other one, so that an interrupted debit leaves the old balance.  A      *)
(* third block holds the total of the day.  A block that was written only  *)
(* in part fails its checksum.                                             *)
(*                                                                         *)
(* One action is one turn of the machine, except that a debit is split at  *)
(* the writes: the purse block, the day block, the record.  Between two    *)
(* steps, and inside one that talks to the card, the card may leave; the   *)
(* QT thread may set CurrentConsumMoney, a variable it shares with the     *)
(* main loop without a lock, at any of the splits.                         *)
(***************************************************************************)
EXTENDS Integers, FiniteSets, FiniteSetsExt

CONSTANTS
  Cards,
  NoCard,
  Purses,       \* purses of every card: {0}, or {0, 1} with a sub-purse
  Opening,      \* opening balance of the main purse
  SubOpening,   \* opening balance of the sub-purse
  OpeningCount, \* counter of a purse when it is first seen
  Minimum,      \* CardMinBalance
  DayLimit,     \* Limit_DayMoney, and Max_ConsumMoney
  Limit_MoneySign, \* the limit is one of the day (> 1), of the month (1), or no
                \* limit of a sum (0); 255 in this program, which never sets it
  MonthDays,    \* days of a month
  CNT,          \* values of the purse counter, 16 bits (65536)
  Amounts,      \* amounts the clerk enters
  Prices,       \* amounts of the price plan
  ULONG,        \* values of an amount: 32 bits, 8 BCD digits on the card
  Modes,        \* consume modes the clerk sets
  Faults,       \* what may go wrong, besides a card that leaves
  MaxPlaced,    \* bound: times a card is placed in the field
  MaxMissed,    \* bound: times case 5 misses a card in place
  MaxDay,       \* bound: days
  MaxElsewhere  \* bound: debits at other terminals

\* "read": a purse cannot be read; "write": a write or its read-back fails with
\* the card in place; "miss": three requests in a row do not find a card that is
\* in place; "tear": a write is cut in the middle; "qt": an amount arrives while
\* a card is being served; "power": the terminal restarts.
FaultKinds == {"read", "write", "miss", "tear", "qt", "power"}

ASSUME CardAssumption == NoCard \notin Cards
ASSUME PurseAssumption == 0 \in Purses /\ Purses \subseteq {0, 1}
ASSUME MoneyAssumption ==
  /\ Opening \in Nat /\ SubOpening \in Nat /\ Minimum \in Nat /\ DayLimit \in Nat
  /\ Amounts \subseteq Nat /\ Prices \subseteq Nat
  /\ ULONG \in Nat /\ Opening < ULONG /\ SubOpening < ULONG
ASSUME LimitAssumption == Limit_MoneySign \in Nat /\ MonthDays \in Nat \ {0}
ASSUME CounterAssumption == CNT \in Nat /\ CNT > 2 /\ OpeningCount \in 0..(CNT - 1)
ASSUME ModeAssumption == Modes \subseteq {"CONSUM_MONEY", "CONSUM_RATION", "CONSUM_PLAN"}
ASSUME FaultAssumption == Faults \subseteq FaultKinds
ASSUME BoundAssumption == MaxPlaced \in Nat /\ MaxMissed \in Nat /\ MaxDay \in Nat /\ MaxElsewhere \in Nat

VARIABLES
  card,              \* per card: its purses, two blocks each, and its day block
  field,             \* the card in the field, or NoCard
  selected,          \* the card in the field answered the last request
  ConsumCase,        \* the machine: 0..5, and the steps of a debit in case 3
  CurrentConsumMoney,
  consumeMode,
  CardSerialNumBak,  \* the card being served
  OldBalance,
  PurseContrlNum,
  bitUseMoneyBlock,  \* the block that holds the balance
  PurseDatas_Info,   \* the contents of the other block
  DaySumMoneyDatasBak, \* the day block as it was read
  PurseWrBufferBak,  \* the purse block to be written
  MainWrBufferBak,   \* the day block to be written
  SysTimeDatas,      \* the date as last read from the clock
  today,             \* the clock
  sold,              \* history: amounts in the records, per card
  bought,            \* history: amounts in the records of the period of a card's
                     \* last recorded debit, with the date of that debit
  restored,          \* history: cards that got the day block of another debit
  debits,            \* history: debits since the machine last found a card
  placed,            \* times a card was placed
  missed,            \* times case 5 missed a card in place
  elsewhere          \* debits at other terminals

ram == <<OldBalance, PurseContrlNum, bitUseMoneyBlock, PurseDatas_Info>>
bounds == <<placed, missed, elsewhere>>
buffers == <<PurseWrBufferBak, MainWrBufferBak>>
clock == <<SysTimeDatas, today>>
history == <<sold, bought, restored>>
vars == <<card, field, selected, ConsumCase, CurrentConsumMoney, consumeMode,
          CardSerialNumBak, ram, DaySumMoneyDatasBak, buffers, clock, history,
          debits, bounds>>

Money == 0..(ULONG - 1)
Block == [money : Money, cnt : 0..(CNT - 1), good : BOOLEAN]
DayBlock == [sum : Nat, date : 0..MaxDay, good : BOOLEAN]

\* The buffer of the day block before anything was put in it: its block number
\* is 0, the card's read-only manufacturer block.
NoBuffer == [sum |-> 0, date |-> 0, good |-> FALSE]

------------------------------------------------------------------------------
\* The two blocks of a purse.

Blocks == {1, 2}
Other(b) == 3 - b

\* The counters of ReadCardBalanceDatas_M1: x is the count after y.
Follows(x, y) == x = (y + 1) % CNT

\* The blocks that may be taken for the balance: the smaller amount, if its
\* counter follows the other's; either one when the blocks are equal, because
\* the dates are compared with memcmp(..) == 1, which says nothing about the
\* positive values other than 1 that memcmp returns.
Candidates(blocks) ==
  {b \in Blocks :
     /\ \A k \in Blocks : blocks[k].good
     /\ \/ /\ blocks[b].money < blocks[Other(b)].money
           /\ Follows(blocks[b].cnt, blocks[Other(b)].cnt)
        \/ /\ blocks[b].money = blocks[Other(b)].money
           /\ blocks[b].cnt = blocks[Other(b)].cnt}

\* What a purse is worth: the smaller of its intact amounts.
Worth(blocks) ==
  LET intact == {b \in Blocks : blocks[b].good}
  IN  IF intact = {} THEN 0 ELSE Min({blocks[b].money : b \in intact})

NewPurse(amount) ==
  [b \in Blocks |-> [money |-> amount, cnt |-> OpeningCount, good |-> TRUE]]

NewCard ==
  [purse |-> [p \in Purses |-> NewPurse(IF p = 0 THEN Opening ELSE SubOpening)],
   day |-> [sum |-> 0, date |-> 0, good |-> TRUE]]

\* The buffer of the purse block before anything was put in it.
NoImage == [block |-> 1, data |-> [money |-> 0, cnt |-> 0, good |-> TRUE]]

Torn(block) == [block EXCEPT !.good = FALSE]

\* Two dates between which amounts are summed up: year and month, or the whole
\* date.
SamePeriod(d, e) ==
  IF Limit_MoneySign = 1 THEN d \div MonthDays = e \div MonthDays ELSE d = e

Init ==
  /\ card = [c \in Cards |-> NewCard]
  /\ field = NoCard
  /\ selected = FALSE
  /\ ConsumCase = "0"
  /\ CurrentConsumMoney = 0
  /\ consumeMode \in Modes
  /\ CardSerialNumBak = NoCard
  /\ OldBalance = 0
  /\ PurseContrlNum = 0
  /\ bitUseMoneyBlock = 2
  /\ PurseDatas_Info = [money |-> 0, cnt |-> 0, good |-> TRUE]
  /\ DaySumMoneyDatasBak = NoBuffer
  /\ PurseWrBufferBak = NoImage
  /\ MainWrBufferBak = NoBuffer
  /\ SysTimeDatas = 0
  /\ today = 0
  /\ sold = [c \in Cards |-> 0]
  /\ bought = [c \in Cards |-> [sum |-> 0, date |-> 0]]
  /\ restored = {}
  /\ debits = 0
  /\ placed = 0
  /\ missed = 0
  /\ elsewhere = 0

------------------------------------------------------------------------------
\* Case 0 and 1: wait for a card.

Start ==
  /\ ConsumCase = "0"
  /\ ConsumCase' = "1"
  /\ UNCHANGED <<card, field, selected, CurrentConsumMoney, consumeMode,
                 CardSerialNumBak, ram, DaySumMoneyDatasBak, buffers, clock,
                 history, debits, bounds>>

RequestCard ==
  /\ ConsumCase = "1"
  /\ field # NoCard
  /\ selected' = TRUE
  /\ debits' = 0
  /\ ConsumCase' = "2"
  /\ UNCHANGED <<card, field, CurrentConsumMoney, consumeMode, CardSerialNumBak,
                 ram, DaySumMoneyDatasBak, buffers, clock, history, bounds>>

------------------------------------------------------------------------------
\* Case 2: ReadCardCommonDatas, SearchPurseBalnanceDatas and the branch on the
\* amount.

ReadCommonFails ==
  /\ ConsumCase = "2"
  /\ (selected /\ "read" \notin Faults) => ~card[field].day.good
  /\ ConsumCase' = "5"
  /\ UNCHANGED <<card, field, selected, CurrentConsumMoney, consumeMode,
                 CardSerialNumBak, ram, DaySumMoneyDatasBak, buffers, clock,
                 history, debits, bounds>>

\* ReadCardBalanceDatas_M1: what a purse leaves in the RAM.
ParsePurse(blocks) ==
  \E b \in Candidates(blocks) :
    /\ OldBalance' = blocks[b].money
    /\ PurseContrlNum' = blocks[b].cnt
    /\ bitUseMoneyBlock' = b
    /\ PurseDatas_Info' = blocks[Other(b)]

MayFail(blocks) == "read" \in Faults \/ Candidates(blocks) = {}
TooLittle(blocks) == Worth(blocks) < Minimum

\* A main purse below the minimum was parsed already when the search goes on to
\* the sub-purse; a purse that cannot be read leaves the RAM of the card before.
SearchPurse(c) ==
  LET main == card[c].purse[0]
  IN  \/ /\ ParsePurse(main)
         /\ (TooLittle(main) /\ 1 \in Purses) => MayFail(card[c].purse[1])
      \/ /\ 1 \in Purses
         /\ TooLittle(main) \/ MayFail(main)
         /\ ParsePurse(card[c].purse[1])
      \/ /\ MayFail(main)
         /\ 1 \in Purses => MayFail(card[c].purse[1])
         /\ UNCHANGED ram

\* The status of the search is not looked at.
ReadCard ==
  /\ ConsumCase = "2"
  /\ selected
  /\ card[field].day.good
  /\ DaySumMoneyDatasBak' = card[field].day
  /\ SearchPurse(field)
  /\ CardSerialNumBak' = field
  /\ IF CurrentConsumMoney # 0
     THEN ConsumCase' = "3" /\ UNCHANGED CurrentConsumMoney
     ELSE \/ /\ consumeMode = "CONSUM_PLAN"
             /\ CurrentConsumMoney' \in Prices
             /\ ConsumCase' = "3"
          \/ ConsumCase' = "5" /\ UNCHANGED CurrentConsumMoney
  /\ UNCHANGED <<card, field, selected, consumeMode, buffers, clock, history,
                 debits, bounds>>

------------------------------------------------------------------------------
\* Case 3: CardBalanceDiag.  The date it compares with is the one of the last
\* debit, not yet today's.

SpentInPeriod ==
  IF SamePeriod(DaySumMoneyDatasBak.date, SysTimeDatas) THEN DaySumMoneyDatasBak.sum ELSE 0

\* Mutant: the minimum is not kept back.
AffordableAll ==
  /\ CurrentConsumMoney <= OldBalance
  /\ SpentInPeriod + CurrentConsumMoney <= DayLimit

Affordable ==
  /\ Minimum + CurrentConsumMoney <= OldBalance
  /\ CurrentConsumMoney <= DayLimit
  /\ Limit_MoneySign # 0 => SpentInPeriod + CurrentConsumMoney <= DayLimit

CardBalanceDiag ==
  /\ ConsumCase = "3"
  /\ IF Affordable
     THEN /\ ConsumCase' = "3.purse"
          /\ SysTimeDatas' = today
     ELSE ConsumCase' = "5" /\ UNCHANGED SysTimeDatas
  /\ UNCHANGED <<card, field, selected, CurrentConsumMoney, consumeMode,
                 CardSerialNumBak, ram, DaySumMoneyDatasBak, buffers, today,
                 history, debits, bounds>>
------------------------------------------------------------------------------
\* Case 3, the debit: ConsumPocess and WriteBalanceToCard_M1.  It always writes
\* the main purse (PurseUsingNum = 0).

NewBalance == (OldBalance - CurrentConsumMoney) % ULONG

\* Mutant: the counter is not cut to 16 bits.
PurseImageWide ==
  [block |-> Other(bitUseMoneyBlock),
   data |-> [money |-> NewBalance, cnt |-> PurseContrlNum + 1, good |-> TRUE]]

\* Mutant: the counter stays.
PurseImageSameCount ==
  [block |-> Other(bitUseMoneyBlock),
   data |-> [money |-> NewBalance, cnt |-> PurseContrlNum, good |-> TRUE]]

PurseImage ==
  [block |-> Other(bitUseMoneyBlock),
   data |-> [money |-> NewBalance,
             cnt |-> IF CurrentConsumMoney = 0 THEN PurseContrlNum
                     ELSE (PurseContrlNum + 1) % CNT,
             good |-> TRUE]]

\* Mutant: what was spent before is forgotten.
DayImageFresh ==
  [sum |-> CurrentConsumMoney, date |-> SysTimeDatas, good |-> TRUE]

DayImage ==
  [sum |-> SpentInPeriod + CurrentConsumMoney, date |-> SysTimeDatas, good |-> TRUE]

\* What a block may hold after writing it failed: a write is carried out or not,
\* its answer is lost or the card is gone before the read-back.
AfterFailure(old, new) ==
  {old, new} \cup IF "tear" \in Faults THEN {Torn(new)} ELSE {}

\* Writing fails because the card leaves, or with the card in place.
Disturbed ==
  \/ field' = NoCard
  \/ "write" \in Faults /\ field' = field

SetPurse(c, image, value) ==
  card' = [card EXCEPT ![c].purse[0][image.block] = value]

\* A debit is counted when the card is worth less than before.
CountDebit(c) ==
  debits' = IF Worth(card'[c].purse[0]) < Worth(card[c].purse[0])
            THEN debits + 1 ELSE debits

\* Mutant: any card will do.
AnyCard == field # NoCard

\* Detect_Card and CheckCardPrinterNum compare the serial number.
SameCard == field = CardSerialNumBak

\* Mutant: the card is detected before the buffer is filled.
BufferAtDetectStale == PurseWrBufferBak

\* The buffer when the card is detected: the retry of case 4 writes it.
BufferAtDetect == PurseImage

\* Another card, none, or one that is not found.
Undetected == ~SameCard \/ "miss" \in Faults

\* Mutant: the card is read again.
OnFailureRead == "2"

\* Where the machine goes when a debit failed: to the repetition.
OnFailure == "4"

DetectFails ==
  /\ ConsumCase = "3.purse"
  /\ Undetected
  /\ PurseWrBufferBak' = BufferAtDetect
  /\ selected' = (field # NoCard)
  /\ ConsumCase' = OnFailure
  /\ UNCHANGED <<card, field, CurrentConsumMoney, consumeMode, CardSerialNumBak,
                 ram, DaySumMoneyDatasBak, MainWrBufferBak, clock, history, debits, bounds>>

WritePurseFails ==
  /\ ConsumCase = "3.purse"
  /\ SameCard
  /\ Disturbed
  /\ selected' = (field' # NoCard)
  /\ PurseWrBufferBak' = PurseImage
  /\ \E value \in AfterFailure(card[field].purse[0][PurseImage.block], PurseImage.data) :
       SetPurse(field, PurseImage, value)
  /\ CountDebit(field)
  /\ ConsumCase' = OnFailure
  /\ UNCHANGED <<CurrentConsumMoney, consumeMode, CardSerialNumBak, ram,
                 DaySumMoneyDatasBak, MainWrBufferBak, clock, history, bounds>>

WritePurse ==
  /\ ConsumCase = "3.purse"
  /\ SameCard
  /\ selected' = TRUE
  /\ PurseWrBufferBak' = PurseImage
  /\ SetPurse(field, PurseImage, PurseImage.data)
  /\ CountDebit(field)
  /\ ConsumCase' = "3.day"
  /\ UNCHANGED <<field, CurrentConsumMoney, consumeMode, CardSerialNumBak, ram,
                 DaySumMoneyDatasBak, MainWrBufferBak, clock, history, bounds>>

\* The day block, with a failure if the card was taken away or swapped since.
WriteDayFails ==
  /\ ConsumCase = "3.day"
  /\ MainWrBufferBak' = DayImage
  /\ \/ /\ ~selected
        /\ UNCHANGED <<card, field>>
     \/ /\ selected
        /\ Disturbed
        /\ \E value \in AfterFailure(card[field].day, DayImage) :
             card' = [card EXCEPT ![field].day = value]
  /\ selected' = (selected /\ field' # NoCard)
  /\ ConsumCase' = OnFailure
  /\ UNCHANGED <<CurrentConsumMoney, consumeMode, CardSerialNumBak, ram,
                 DaySumMoneyDatasBak, PurseWrBufferBak, clock, history, debits, bounds>>

WriteDay ==
  /\ ConsumCase = "3.day"
  /\ selected
  /\ MainWrBufferBak' = DayImage
  /\ card' = [card EXCEPT ![field].day = DayImage]
  /\ ConsumCase' = "3.record"
  /\ UNCHANGED <<field, selected, CurrentConsumMoney, consumeMode,
                 CardSerialNumBak, ram, DaySumMoneyDatasBak, PurseWrBufferBak,
                 clock, history, debits, bounds>>

\* A record is stored of a debit that was begun on a date.
Record(c, amount, date) ==
  /\ sold' = [sold EXCEPT ![c] = @ + amount]
  /\ bought' = [bought EXCEPT ![c] =
       [sum |-> amount + IF SamePeriod(@.date, date) THEN @.sum ELSE 0, date |-> date]]

\* SumConsumMoney = CurrentConsumMoney; app_ykt_save_record, which reads the
\* clock.
SaveRecord ==
  /\ ConsumCase = "3.record"
  /\ Record(CardSerialNumBak, CurrentConsumMoney, SysTimeDatas)
  /\ SysTimeDatas' = today
  /\ ConsumCase' = "5"
  /\ UNCHANGED <<card, field, selected, CurrentConsumMoney, consumeMode,
                 CardSerialNumBak, ram, DaySumMoneyDatasBak, buffers, today,
                 restored, debits, bounds>>

------------------------------------------------------------------------------
\* Case 4: CheckCardPrinterNum and ReWriteCardSub_M1(0).  Whatever fails, the
\* machine goes on to case 5.

RewriteCardGone ==
  /\ ConsumCase = "4"
  /\ Undetected
  /\ selected' = (field # NoCard)
  /\ ConsumCase' = "5"
  /\ UNCHANGED <<card, field, CurrentConsumMoney, consumeMode, CardSerialNumBak,
                 ram, DaySumMoneyDatasBak, buffers, clock, history, debits, bounds>>

Target == card[field].purse[0][PurseWrBufferBak.block]

\* The purse block is as it was read, or it has been written and the day block
\* is as it was read.
RewriteAllowed ==
  \/ Target = PurseDatas_Info
  \/ Target = PurseWrBufferBak.data /\ card[field].day = DaySumMoneyDatasBak

RewriteRefused ==
  /\ ConsumCase = "4"
  /\ SameCard
  /\ ~RewriteAllowed
  /\ selected' = TRUE
  /\ ConsumCase' = "5"
  /\ UNCHANGED <<card, field, CurrentConsumMoney, consumeMode, CardSerialNumBak,
                 ram, DaySumMoneyDatasBak, buffers, clock, history, debits, bounds>>

\* The cards whose day block is that of another debit after the repetition wrote
\* it: the buffer is the one of this debit only if this debit came to the block.
Restored ==
  IF MainWrBufferBak \in {DayImage, NoBuffer} THEN restored ELSE restored \cup {field}

\* One write each, without a read-back.  Block 0 cannot be written.
RewriteFails ==
  /\ ConsumCase = "4"
  /\ SameCard
  /\ RewriteAllowed
  /\ \/ /\ Disturbed
        /\ \E value \in AfterFailure(Target, PurseWrBufferBak.data) :
             SetPurse(field, PurseWrBufferBak, value)
        /\ UNCHANGED restored
     \/ /\ Disturbed \/ (MainWrBufferBak = NoBuffer /\ UNCHANGED field)
        /\ \E value \in IF MainWrBufferBak = NoBuffer THEN {card[field].day}
                        ELSE AfterFailure(card[field].day, MainWrBufferBak) :
             card' = [card EXCEPT ![field].purse[0][PurseWrBufferBak.block] =
                                     PurseWrBufferBak.data,
                                  ![field].day = value]
        /\ restored' = Restored
  /\ selected' = (field' # NoCard)
  /\ CountDebit(field)
  /\ ConsumCase' = "5"
  /\ UNCHANGED <<CurrentConsumMoney, consumeMode, CardSerialNumBak, ram,
                 DaySumMoneyDatasBak, buffers, clock, sold, bought, bounds>>

Rewrite ==
  /\ ConsumCase = "4"
  /\ SameCard
  /\ RewriteAllowed
  /\ MainWrBufferBak # NoBuffer
  /\ card' = [card EXCEPT ![field].purse[0][PurseWrBufferBak.block] =
                             PurseWrBufferBak.data,
                          ![field].day = MainWrBufferBak]
  /\ CountDebit(field)
  /\ Record(field, CurrentConsumMoney, SysTimeDatas)
  /\ restored' = Restored
  /\ SysTimeDatas' = today
  /\ selected' = TRUE
  /\ ConsumCase' = "5"
  /\ UNCHANGED <<field, CurrentConsumMoney, consumeMode, CardSerialNumBak, ram,
                 DaySumMoneyDatasBak, buffers, today, bounds>>

------------------------------------------------------------------------------
\* Case 5: until a request finds no card.  A card that is in place and was missed
\* once is served again.

\* Mutant: the build with CON_SWIPE_CARD, which does not wait.
GoneOrNot == TRUE

Gone == field = NoCard

\* Three requests in a row fail with the card in place.
MissedInPlace == "miss" \in Faults /\ field # NoCard /\ missed < MaxMissed

CardLeft ==
  /\ ConsumCase = "5"
  /\ \/ Gone /\ UNCHANGED missed
     \/ MissedInPlace /\ missed' = missed + 1
  /\ selected' = FALSE
  /\ ConsumCase' = "0"
  /\ CurrentConsumMoney' =
       IF consumeMode \in {"CONSUM_MONEY", "CONSUM_PLAN"} THEN 0 ELSE CurrentConsumMoney
  /\ UNCHANGED <<card, field, consumeMode, CardSerialNumBak, ram,
                 DaySumMoneyDatasBak, buffers, clock, history, debits, placed,
                 elsewhere>>

------------------------------------------------------------------------------
\* The customer, the clerk, the clock and the mains.

Place(c) ==
  /\ field = NoCard
  /\ placed < MaxPlaced
  /\ placed' = placed + 1
  /\ field' = c
  /\ selected' = FALSE
  /\ UNCHANGED <<card, ConsumCase, CurrentConsumMoney, consumeMode,
                 CardSerialNumBak, ram, DaySumMoneyDatasBak, buffers, clock,
                 history, debits, missed, elsewhere>>

Remove ==
  /\ field # NoCard
  /\ field' = NoCard
  /\ selected' = FALSE
  /\ UNCHANGED <<card, ConsumCase, CurrentConsumMoney, consumeMode,
                 CardSerialNumBak, ram, DaySumMoneyDatasBak, buffers, clock,
                 history, debits, bounds>>

Serving == ConsumCase \notin {"0", "1", "5"}

\* QT 0xA0 and QT_SET_CONSUME_MODE_CMD.
SetAmount(amount) ==
  /\ ~Serving \/ "qt" \in Faults
  /\ CurrentConsumMoney' = amount
  /\ UNCHANGED <<card, field, selected, ConsumCase, consumeMode,
                 CardSerialNumBak, ram, DaySumMoneyDatasBak, buffers, clock,
                 history, debits, bounds>>

SetMode(mode) ==
  /\ consumeMode' = mode
  /\ UNCHANGED <<card, field, selected, ConsumCase, CurrentConsumMoney,
                 CardSerialNumBak, ram, DaySumMoneyDatasBak, buffers, clock,
                 history, debits, bounds>>

\* A debit at another terminal, while this one waits for a card.
Elsewhere(c, amount) ==
  /\ ~Serving
  /\ field # c
  /\ elsewhere < MaxElsewhere
  /\ elsewhere' = elsewhere + 1
  /\ card[c].day.good
  /\ LET day == card[c].day
         spent == amount + IF SamePeriod(day.date, today) THEN day.sum ELSE 0
     IN  \E b \in Candidates(card[c].purse[0]) :
           LET block == card[c].purse[0][b]
           IN  /\ Minimum + amount <= block.money
               /\ amount <= DayLimit /\ (Limit_MoneySign # 0 => spent <= DayLimit)
               /\ card' = [card EXCEPT
                     ![c].purse[0][Other(b)] =
                        [money |-> block.money - amount,
                         cnt |-> (block.cnt + 1) % CNT, good |-> TRUE],
                     ![c].day = [sum |-> spent, date |-> today, good |-> TRUE]]
  /\ Record(c, amount, today)
  /\ UNCHANGED <<field, selected, ConsumCase, CurrentConsumMoney, consumeMode,
                 CardSerialNumBak, ram, DaySumMoneyDatasBak, buffers, clock,
                 restored, debits, placed, missed>>

NewDay ==
  /\ today < MaxDay
  /\ today' = today + 1
  /\ UNCHANGED <<card, field, selected, ConsumCase, CurrentConsumMoney,
                 consumeMode, CardSerialNumBak, ram, DaySumMoneyDatasBak,
                 buffers, SysTimeDatas, history, debits, bounds>>

\* The terminal starts again with the values its variables are declared with
\* and the mode its file holds; app_ykt_main reads the clock.
PowerCut ==
  /\ "power" \in Faults
  /\ selected' = FALSE
  /\ ConsumCase' = "0"
  /\ CurrentConsumMoney' = 0
  /\ consumeMode' \in Modes
  /\ CardSerialNumBak' = NoCard
  /\ OldBalance' = 0
  /\ PurseContrlNum' = 0
  /\ bitUseMoneyBlock' = 2
  /\ PurseDatas_Info' = [money |-> 0, cnt |-> 0, good |-> TRUE]
  /\ DaySumMoneyDatasBak' = NoBuffer
  /\ PurseWrBufferBak' = NoImage
  /\ MainWrBufferBak' = NoBuffer
  /\ SysTimeDatas' = today
  /\ UNCHANGED <<card, field, today, history, debits, bounds>>

------------------------------------------------------------------------------
Next ==
  \/ Start \/ RequestCard
  \/ ReadCommonFails \/ ReadCard
  \/ CardBalanceDiag
  \/ DetectFails \/ WritePurseFails \/ WritePurse
  \/ WriteDayFails \/ WriteDay \/ SaveRecord
  \/ RewriteCardGone \/ RewriteRefused \/ RewriteFails \/ Rewrite
  \/ CardLeft
  \/ \E c \in Cards : Place(c)
  \/ Remove
  \/ \E amount \in Amounts : SetAmount(amount)
  \/ \E mode \in Modes : SetMode(mode)
  \/ \E c \in Cards, amount \in Amounts \ {0} : Elsewhere(c, amount)
  \/ NewDay \/ PowerCut

Spec == Init /\ [][Next]_vars

------------------------------------------------------------------------------
\* Properties.

\* Types: a block on a card or in a buffer holds an amount of 8 digits and a
\* 16-bit count, the machine is in one of its cases.
TypeOK ==
  /\ \A c \in Cards :
       /\ \A p \in Purses, b \in Blocks : card[c].purse[p][b] \in Block
       /\ card[c].day \in DayBlock
  /\ field \in Cards \cup {NoCard}
  /\ selected \in BOOLEAN
  /\ ConsumCase \in {"0", "1", "2", "3", "3.purse", "3.day", "3.record", "4", "5"}
  /\ CurrentConsumMoney \in Amounts \cup Prices \cup {0}
  /\ consumeMode \in Modes
  /\ CardSerialNumBak \in Cards \cup {NoCard}
  /\ OldBalance \in Money
  /\ PurseContrlNum \in 0..(CNT - 1)
  /\ bitUseMoneyBlock \in Blocks
  /\ PurseDatas_Info \in Block
  /\ DaySumMoneyDatasBak \in DayBlock
  /\ PurseWrBufferBak.block \in Blocks /\ PurseWrBufferBak.data \in Block
  /\ MainWrBufferBak \in DayBlock
  /\ SysTimeDatas \in 0..MaxDay /\ today \in 0..MaxDay
  /\ sold \in [Cards -> Nat]
  /\ bought \in [Cards -> [sum : Nat, date : 0..MaxDay]]
  /\ restored \subseteq Cards
  /\ debits \in Nat
  /\ placed \in 0..MaxPlaced /\ missed \in 0..MaxMissed /\ elsewhere \in 0..MaxElsewhere

Balance(c) == Worth(card[c].purse[0])

\* A purse can always be read: an interrupted debit, at whatever write, and the
\* wrap of the counter leave two blocks of which one follows the other.
PurseIsReadable == \A c \in Cards : Candidates(card[c].purse[0]) # {}

\* From one request that finds a card to the next a card is debited once at most:
\* five tries of a write, the repetition in case 4, a card that leaves and comes
\* back or is swapped, a restart.  (A card that is missed once in case 5, or that
\* is in place when the terminal starts, is found again.)
DebitAtMostOnce == debits <= 1

\* Where purses can be read and the power holds, a card pays once for every time
\* one is placed or missed: case 5 waits until no card is found, also for a card
\* that was removed and came back, or another one, in the middle of a debit.
PlacedPaysOnce ==
  MapThenSumSet(LAMBDA c : Opening - Balance(c), Cards)
    <= (placed + missed + elsewhere) * Max(Amounts \cup Prices)

\* No card is debited below the minimum balance.
MinimumIsKept == \A c \in Cards : Balance(c) >= Minimum

\* The records of a day, or of a month, are of no more than the limit for a card,
\* unless a repetition gave it the day block of another debit (DayTotalIsOwn).
\* What was taken without a record is not counted (DebitIsRecorded).
DayLimitIsKept ==
  Limit_MoneySign # 0 => \A c \in Cards \ restored : bought[c].sum <= DayLimit

\* Every debit has a record when the machine waits for the next card: the clerk
\* is told QT_CONSUME_FAIL only for a debit that did not happen.
DebitIsRecorded ==
  ConsumCase = "1" => \A c \in Cards : Balance(c) + sold[c] = Opening

\* A record tells what was taken from the card it names: the card is left with
\* the balance that was read less the amount recorded.
RecordTellsBalance ==
  [][\A c \in Cards : (sold'[c] # sold[c] /\ elsewhere' = elsewhere) =>
       /\ c = CardSerialNumBak
       /\ Worth(card'[c].purse[0]) = OldBalance - (sold'[c] - sold[c])]_vars

\* When a debit is recorded, the day's total of that card was raised by it.
DayTotalIsOwn ==
  [][\A c \in Cards : (sold'[c] # sold[c] /\ elsewhere' = elsewhere) =>
       card'[c].day.sum - (sold'[c] - sold[c]) \in {0, DaySumMoneyDatasBak.sum}]_vars

\* Debits and records keep the promise of the till.
T == INSTANCE Till WITH balance <- [c \in Cards |-> Balance(c)],
                        Tears <- "tear" \in Faults
TillSpec == T!Spec
=============================================================================
