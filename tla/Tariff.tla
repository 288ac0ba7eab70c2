------------------------------- MODULE Tariff -------------------------------
(***************************************************************************)
(* What a meal costs and who may have it: the price plans (table           *)
(* `moneyplan`, CurrentConsumMoneyDiag), the blacklist (table `blknumber`) *)
(* and the clocks they are compared with.                                  *)
(*                                                                         *)
(* The main loop takes a card through reading, pricing and charging;       *)
(* between two turns it executes the server's commands on the tables.      *)
(* The screen sets amount and mode at any time.  The purse and the blocks  *)
(* that are written in part are the subject of Consume; of the day block   *)
(* the bytes 7 to 11 are looked at here: time and number of the meals.     *)
(*                                                                         *)
(* There are three times: the clock chip (rtc), the time of the operating  *)
(* system (sys), and SysTimeDatas, the copy everything is compared with.   *)
(* They are places in Calendar, a sequence of times as the chip has them.  *)
(***************************************************************************)
EXTENDS Conversions, FiniteSets

CONSTANTS
  Cards,      \* the cards: [number, sort]
  Plans,      \* price plans: [sort, start, end, price, times, price2, times2]
  NoPlan,     \* bytes that are no price plan
  NoCard,
  NoBuffer,   \* the buffer of the day block before anything was put in it
  Calendar,   \* times as <<year, month, day, hour, minute, second>>, in BCD
  Installed,  \* the rows of `moneyplan` at first: a sequence of [id, plan]
  Downloads,  \* sequences of plans a SET_SORTPRINCE command may carry
  ROWLEN,     \* bytes of a row, which the loop counts in its own variable (15)
  UCHAR,      \* values of MoneyPlanIndex, an unsigned char (256)
  Modes,      \* modes the screen may set
  Amounts,    \* amounts the screen may set
  Times,      \* times the server may set: a subset of the calendar
  MaxRows,    \* bound: rows of `moneyplan`
  MaxSales,   \* bound: charges of a behaviour
  MaxFaults   \* bound: restarts, failed writes, commands of screen and server

Moments == DOMAIN Calendar
TextNumber == 30303030   \* the least number a text may be taken for

Rows == [id : 0..(UCHAR - 1), plan : Plans]

\* A byte of the card counts the meals of a plan.
ASSUME PlanAssumption ==
  /\ NoPlan \notin Plans
  /\ \A p \in Plans : /\ {p.price, p.price2, p.times, p.times2} \subseteq Nat
                      /\ p.times + p.times2 \in Byte
                      /\ {p.start, p.end} \subseteq Byte \X Byte
\* The numbers of cards are below MAXCARDPRINTERNUM, which is below TextNumber.
ASSUME CardAssumption ==
  NoCard \notin Cards /\ \A c \in Cards : c.number # TextNumber
\* The clock chip gives times that exist, and a year that fits six bits.
ASSUME CalendarAssumption ==
  /\ Calendar # <<>> /\ Calendar \in Seq(Seq(Byte))
  /\ \A m \in Moments : IsTime(Calendar[m])
  /\ \A i, j \in Moments : i < j => Less(Calendar[i], Calendar[j])
ASSUME RowAssumption ==
  /\ UCHAR \in Nat \ {0} /\ ROWLEN \in Nat
  /\ Installed \in Seq(Rows) /\ Len(Installed) <= MaxRows
  /\ Downloads \subseteq Seq(Plans)
ASSUME BoundAssumption ==
  /\ {MaxRows, MaxSales, MaxFaults} \subseteq Nat
  /\ Amounts \subseteq Nat /\ Times \subseteq Moments
\* The times of two plans for the same sort do not overlap.
ASSUME DisjointAssumption ==
  \A p, q \in Plans : p # q /\ p.sort = q.sort => Less(p.end, q.start) \/ Less(q.end, p.start)

VARIABLES
  moneyplan,        \* the rows, in the order they were inserted
  MoneyPlanIndex,   \* id of the next row
  queryOpen,        \* a lookup that found its row is never closed: it locks the table
  stru,             \* the row a lookup that finds nothing returns: what is on the stack
  blknumber,        \* the numbers on the blacklist
  rtc, sys, SysTimeDatas,
  ConsumCase,       \* the place of the consumption machine
  planId,           \* the id the pricing loop looks at
  card,             \* the card at the reader
  current,          \* the card that was read
  onCard,           \* per card: time and number of meals of the day block
  counted,          \* the same in RAM: ConsumCountDateTime, CardDayConsumCount
  MainWrBufferBak,  \* the same in the buffer of the day block last to be written
  mealOf,           \* history: the plan `counted` was counted up for
  consumeMode, CurrentConsumMoney,
  priced,           \* history: the plan CurrentConsumMoney was taken from
  listed,           \* history: numbers added with ADD_BLKNUM and not taken off
  meals,            \* history: meals per card, plan and day, in the plan's period
  early,            \* history: cards that counted a meal before its plan began
  restored,         \* history: cards that got the count of another charge
  sales,            \* charges so far
  record,           \* the packed time of the last record
  timeSet,          \* history: whether the clock was set, and before this start or after
  faults

tables == <<moneyplan, MoneyPlanIndex, queryOpen, stru, blknumber, listed>>
clocks == <<rtc, sys, SysTimeDatas, timeSet>>
machine == <<ConsumCase, planId, current, counted, mealOf, MainWrBufferBak>>
screen == <<consumeMode, CurrentConsumMoney, priced>>
sold == <<onCard, meals, early, restored, sales, record>>
vars == <<tables, clocks, machine, screen, sold, card, faults>>

Sub(s, from, to) == SubSeq(s, from, to)
DayOf(m) == Sub(Calendar[m], 2, 3)      \* month and day
TimeOf(m) == Sub(Calendar[m], 4, 5)     \* hour and minute
Days == {DayOf(m) : m \in Moments}
NeverCounted == [at |-> 0, count |-> 0]
Counts == [at : Moments \cup {0}, count : Byte]

ASSUME BufferAssumption == NoBuffer \notin Counts

Ids == {moneyplan[i].id : i \in DOMAIN moneyplan}
\* The rows of an id come in the order of insertion; only the first is read.
RowOf(id) ==
  moneyplan[CHOOSE i \in DOMAIN moneyplan :
              moneyplan[i].id = id /\ \A j \in 1..(i - 1) : moneyplan[j].id # id].plan

\* sqlite3_query_moneyplan_db: "where id" skips the row 0, the last one counts.
QueryIndex ==
  LET rows == {i \in DOMAIN moneyplan : moneyplan[i].id # 0}
  IN  IF rows = {} THEN 0
      ELSE (moneyplan[CHOOSE i \in rows : \A j \in rows : j <= i].id + 1) % UCHAR

Init ==
  /\ moneyplan = Installed
  /\ MoneyPlanIndex = QueryIndex
  /\ queryOpen = FALSE /\ stru = NoPlan
  /\ blknumber = {} /\ listed = {}
  /\ rtc = 1 /\ sys = 1 /\ SysTimeDatas = 1 /\ timeSet = "never"
  /\ ConsumCase = "1" /\ planId = 0
  /\ card = NoCard /\ current = NoCard /\ mealOf = NoPlan
  /\ onCard = [c \in Cards |-> NeverCounted] /\ counted = NeverCounted
  /\ MainWrBufferBak = NoBuffer
  /\ consumeMode \in Modes /\ CurrentConsumMoney = 0 /\ priced = NoPlan
  /\ meals = [x \in Cards \X Plans \X Days |-> 0]
  /\ early = {} /\ restored = {} /\ sales = 0 /\ record = <<>>
  /\ faults = 0

Fault == faults < MaxFaults /\ faults' = faults + 1

------------------------------------------------------------------------------
\* The consumption machine.

RequestCard ==
  /\ ConsumCase = "1" /\ card # NoCard
  /\ ConsumCase' = "2"
  /\ UNCHANGED <<tables, clocks, planId, current, counted, mealOf, MainWrBufferBak, screen,
                 sold, card, faults>>

\* The number is looked up in the blacklist.
IsBlack(c) == c.number \in blknumber

\* Case 2 up to the price: a card that is refused or only asked for its balance
\* waits to be taken away.
ReadCard ==
  /\ ConsumCase = "2"
  /\ current' = card
  /\ IF card = NoCard \/ IsBlack(card)
     THEN ConsumCase' = "5" /\ UNCHANGED <<counted, planId>>
     ELSE /\ counted' = onCard[card]
          /\ planId' = 0
          /\ ConsumCase' = IF CurrentConsumMoney # 0 THEN "3"
                           ELSE IF consumeMode = "CONSUM_PLAN" THEN "plan" ELSE "5"
  /\ priced' = NoPlan /\ mealOf' = NoPlan
  /\ UNCHANGED <<tables, clocks, MainWrBufferBak, consumeMode, CurrentConsumMoney, sold, card,
                 faults>>

\* The row a lookup returns: without a row of that id, what the stack holds.
RowsRead(id) == IF id \in Ids THEN {RowOf(id)} ELSE {stru, NoPlan}

\* The start is compared through the result of memcmp: an earlier time is refused
\* only if that is -1, and the library may return any negative number.
MayStart(p) == IF Less(TimeOf(SysTimeDatas), p.start) THEN BOOLEAN ELSE {TRUE}

\* Mutant: the sort of the card is not looked at.
FitsAnySort(p) == ~Less(p.end, TimeOf(SysTimeDatas))
Fits(p) == p.sort = current.sort /\ ~Less(p.end, TimeOf(SysTimeDatas))

\* The last meal was in the period of the plan.
InPeriod(p) ==
  /\ counted.at # 0
  /\ DayOf(counted.at) = DayOf(SysTimeDatas)
  /\ ~Less(TimeOf(counted.at), p.start)

Meal(amount, number, p) ==
  /\ CurrentConsumMoney' = amount
  /\ counted' = [at |-> SysTimeDatas, count |-> number]
  /\ priced' = p /\ mealOf' = p
  /\ ConsumCase' = "3"

Refuse == ConsumCase' = "5" /\ UNCHANGED <<counted, CurrentConsumMoney, priced, mealOf>>

\* The first meals of a period have one price, the next another, then no more.
\* Mutant: one meal too many.
PriceOneMore(p) ==
  IF ~InPeriod(p) THEN Meal(p.price, 1, p)
  ELSE IF counted.count < p.times THEN Meal(p.price, counted.count + 1, p)
  ELSE IF counted.count - p.times <= p.times2 THEN Meal(p.price2, counted.count + 1, p)
  ELSE Refuse
Price(p) ==
  IF ~InPeriod(p) THEN Meal(p.price, 1, p)
  ELSE IF counted.count < p.times THEN Meal(p.price, counted.count + 1, p)
  ELSE IF counted.count - p.times < p.times2 THEN Meal(p.price2, counted.count + 1, p)
  ELSE Refuse

\* One turn of the pricing loop.  The inner loop over the bytes of the row uses
\* the same variable, so after the row 0 comes the row ROWLEN + 1, for ever.
LookAtPlan ==
  /\ ConsumCase = "plan"
  /\ \E p \in RowsRead(planId) :
       /\ stru' = p
       /\ \E started \in IF p = NoPlan THEN {FALSE} ELSE MayStart(p) :
            IF p = NoPlan THEN Refuse /\ UNCHANGED planId
            ELSE IF Fits(p) /\ started THEN Price(p) /\ UNCHANGED planId
            ELSE /\ planId' = ROWLEN + 1
                 /\ UNCHANGED <<ConsumCase, counted, CurrentConsumMoney, priced, mealOf>>
  /\ queryOpen' = (queryOpen \/ planId \in Ids)
  /\ UNCHANGED <<moneyplan, MoneyPlanIndex, blknumber, listed, clocks, current,
                 MainWrBufferBak, consumeMode, sold, card, faults>>

\* Case 3: the balance does not cover the amount.
BalanceFails ==
  /\ ConsumCase = "3"
  /\ ConsumCase' = "5"
  /\ UNCHANGED <<tables, clocks, planId, current, counted, mealOf, MainWrBufferBak, screen,
                 sold, card, faults>>

InPlan(m, p) == ~Less(TimeOf(m), p.start) /\ ~Less(p.end, TimeOf(m))

\* What an observer notes of a count that goes to the card, and of a meal.
Noted ==
  early' = IF mealOf # NoPlan /\ ~InPlan(counted.at, mealOf)
           THEN early \cup {current} ELSE early
Eaten ==
  meals' = IF priced # NoPlan /\ InPlan(counted.at, priced)
           THEN [meals EXCEPT ![<<current, priced, DayOf(counted.at)>>] = @ + 1]
           ELSE meals

\* The system runs in UTC, as the chip does.
lib_systime_get_systime == Calendar[sys]

\* A charge that is told a success: the record gets the time of the operating
\* system.
Recorded ==
  /\ sales < MaxSales /\ sales' = sales + 1
  /\ SysTimeDatas' = sys
  /\ record' = ChgTimeToRecordDatas(lib_systime_get_systime)
  /\ Eaten

\* Case 3: the card is debited and the count goes to its day block.
Charge ==
  /\ ConsumCase = "3" /\ card = current
  /\ onCard' = [onCard EXCEPT ![current] = counted]
  /\ MainWrBufferBak' = counted
  /\ Noted /\ Recorded
  /\ ConsumCase' = "5"
  /\ UNCHANGED <<tables, rtc, sys, timeSet, planId, current, counted, mealOf, restored, screen,
                 card, faults>>

\* Case 3: the card is gone, or another, or a write failed; the block was filled
\* in if the purse was written, and may be on the card.  The clock was read before.
ChargeFails ==
  /\ ConsumCase = "3"
  /\ SysTimeDatas' = rtc
  /\ MainWrBufferBak' \in {MainWrBufferBak, counted}
  /\ \/ card # current /\ UNCHANGED <<onCard, early, faults>>
     \/ card = current /\ Fault /\ UNCHANGED <<onCard, early>>
     \/ /\ card = current /\ Fault
        /\ MainWrBufferBak' = counted
        /\ onCard' = [onCard EXCEPT ![current] = counted]
        /\ Noted
  /\ ConsumCase' = IF onCard' = onCard THEN "4" ELSE "4.changed"
  /\ UNCHANGED <<tables, rtc, sys, timeSet, planId, current, counted, mealOf, meals, restored,
                 sales, record, screen, card>>

\* Case 4, ReWriteCardSub_M1(0): what is in the buffer is written, if the day block
\* has not changed since the card was read.  The buffer is that of this charge
\* only if its purse was written.
WriteAgain ==
  /\ ConsumCase = "4" /\ card = current
  /\ MainWrBufferBak # NoBuffer
  /\ onCard' = [onCard EXCEPT ![current] = MainWrBufferBak]
  /\ restored' = IF MainWrBufferBak = counted THEN restored ELSE restored \cup {current}
  /\ Noted

ChargeAgain ==
  /\ WriteAgain
  /\ Recorded
  /\ ConsumCase' = "5"
  /\ UNCHANGED <<tables, rtc, sys, timeSet, planId, current, counted, mealOf, MainWrBufferBak,
                 screen, card, faults>>

\* The repetition is refused, or the card is not found, or a write fails; whether
\* the purse lets it come to the day block is the subject of Consume.
ChargeAgainFails ==
  /\ ConsumCase \in {"4", "4.changed"}
  /\ \/ UNCHANGED <<onCard, restored, early, faults>>
     \/ WriteAgain /\ Fault
  /\ ConsumCase' = "5"
  /\ UNCHANGED <<tables, clocks, planId, current, counted, mealOf, MainWrBufferBak, meals,
                 sales, record, screen, card>>

\* Case 5: a request found no card, once; it may have been there.  The amount is
\* forgotten in two of the modes.
CardLeft ==
  /\ ConsumCase = "5"
  /\ IF card = NoCard THEN UNCHANGED faults ELSE Fault
  /\ ConsumCase' = "1"
  /\ IF consumeMode \in {"CONSUM_MONEY", "CONSUM_PLAN"}
     THEN CurrentConsumMoney' = 0 /\ priced' = NoPlan
     ELSE UNCHANGED <<CurrentConsumMoney, priced>>
  /\ UNCHANGED <<tables, clocks, planId, current, counted, mealOf, MainWrBufferBak, consumeMode,
                 sold, card>>

------------------------------------------------------------------------------
\* The card holder, the screen and time.

Place ==
  /\ card = NoCard
  /\ card' \in Cards
  /\ UNCHANGED <<tables, clocks, machine, screen, sold, faults>>

Remove ==
  /\ card # NoCard
  /\ card' = NoCard
  /\ UNCHANGED <<tables, clocks, machine, screen, sold, faults>>

SetAmount ==
  /\ Fault
  /\ CurrentConsumMoney' \in Amounts
  /\ priced' = NoPlan
  /\ UNCHANGED <<tables, clocks, machine, consumeMode, sold, card>>

\* The amount stays.
SetMode ==
  /\ Fault
  /\ consumeMode' \in Modes \ {consumeMode}
  /\ UNCHANGED <<tables, clocks, machine, CurrentConsumMoney, priced, sold, card>>

\* Both clocks go on.
Tick ==
  /\ {rtc + 1, sys + 1} \subseteq Moments
  /\ rtc' = rtc + 1 /\ sys' = sys + 1
  /\ UNCHANGED <<tables, SysTimeDatas, timeSet, machine, screen, sold, card, faults>>

------------------------------------------------------------------------------
\* Commands of the server, between two turns of the machine; a turn that prices
\* a card ends before the next command.

Command == ConsumCase # "plan" /\ Fault

\* The id of the i-th row from now on.  Mutant: the index does not wrap.
RowIdNoWrap(i) == MoneyPlanIndex + i
RowId(i) == (MoneyPlanIndex + i) % UCHAR

\* An insert needs the table for itself; whether it failed is not looked at.
Inserted(rows) == IF queryOpen THEN moneyplan ELSE moneyplan \o rows

\* SET_SORTPRINCE: rows that cannot be inserted are lost, and numbered.
SetSortPrince(plans) ==
  /\ Command
  /\ Len(moneyplan) + Len(plans) <= MaxRows
  /\ moneyplan' = Inserted([i \in 1..Len(plans) |-> [id |-> RowId(i - 1), plan |-> plans[i]]])
  /\ MoneyPlanIndex' = RowId(Len(plans))
  /\ UNCHANGED <<queryOpen, stru, blknumber, listed, clocks, machine, screen, sold, card>>

Stored(n) == blknumber \cup {n}

\* Mutant: deleting one number deletes them all.
LeftNone(n) == {}
Left(n) == blknumber \ {n}

\* ADD_BLKNUM
AddBlkNum(n) ==
  /\ Command
  /\ blknumber' = Stored(n) /\ listed' = listed \cup {n}
  /\ UNCHANGED <<moneyplan, MoneyPlanIndex, queryOpen, stru, clocks, machine, screen, sold, card>>

\* DEL_BLKNUM
DelBlkNum(n) ==
  /\ Command
  /\ blknumber' = Left(n) /\ listed' = listed \ {n}
  /\ UNCHANGED <<moneyplan, MoneyPlanIndex, queryOpen, stru, clocks, machine, screen, sold, card>>

\* DEL_ADD_BLKNUM takes the text of a number for its packed digits: what it adds
\* or deletes is beyond MAXCARDPRINTERNUM.
DelAddBlkNum ==
  /\ Command
  /\ blknumber' \in {Stored(TextNumber), Left(TextNumber)}
  /\ UNCHANGED <<moneyplan, MoneyPlanIndex, queryOpen, stru, listed, clocks, machine, screen,
                 sold, card>>

\* CLR_POSDATAS empties the blacklist, and the journal.
ClrPosDatas ==
  /\ Command
  /\ blknumber' = {} /\ listed' = {}
  /\ UNCHANGED <<moneyplan, MoneyPlanIndex, queryOpen, stru, clocks, machine, screen, sold, card>>

\* CLR_BLKNUM answers OK and does nothing.
ClrBlkNum ==
  /\ Command
  /\ listed' = {}
  /\ UNCHANGED <<moneyplan, MoneyPlanIndex, queryOpen, stru, blknumber, clocks, machine,
                 screen, sold, card>>

\* SET_TIME2: the chip takes the time; the operating system refuses it, because
\* its year is two digits.
SetTime2(m) ==
  /\ Command
  /\ rtc' = m
  /\ timeSet' = "now"
  /\ UNCHANGED <<tables, sys, SysTimeDatas, machine, screen, sold, card>>

\* Power fails and comes back: the tables and the chip's clock stay.
PowerCut ==
  /\ Fault
  /\ MoneyPlanIndex' = QueryIndex
  /\ queryOpen' = FALSE /\ stru' = NoPlan
  /\ sys' = rtc /\ SysTimeDatas' = rtc
  /\ timeSet' = IF timeSet = "never" THEN timeSet ELSE "earlier"
  /\ ConsumCase' = "1" /\ planId' = 0 /\ current' = NoCard /\ counted' = NeverCounted
  /\ mealOf' = NoPlan /\ MainWrBufferBak' = NoBuffer
  /\ consumeMode' \in Modes /\ CurrentConsumMoney' = 0 /\ priced' = NoPlan
  /\ UNCHANGED <<moneyplan, blknumber, listed, rtc, sold, card>>

Next ==
  \/ RequestCard \/ ReadCard \/ LookAtPlan
  \/ BalanceFails \/ Charge \/ ChargeFails
  \/ ChargeAgain \/ ChargeAgainFails \/ CardLeft
  \/ Place \/ Remove \/ SetAmount \/ SetMode \/ Tick
  \/ \E plans \in Downloads : SetSortPrince(plans)
  \/ \E c \in Cards : AddBlkNum(c.number) \/ DelBlkNum(c.number)
  \/ DelAddBlkNum \/ ClrPosDatas \/ ClrBlkNum
  \/ \E m \in Times : SetTime2(m)
  \/ PowerCut

Spec == Init /\ [][Next]_vars

------------------------------------------------------------------------------

Numbers == {c.number : c \in Cards} \cup {TextNumber}

TypeOK ==
  /\ moneyplan \in Seq(Rows) /\ Len(moneyplan) <= MaxRows
  /\ MoneyPlanIndex \in 0..(UCHAR - 1)
  /\ queryOpen \in BOOLEAN
  /\ stru \in Plans \cup {NoPlan}
  /\ blknumber \subseteq Numbers /\ listed \subseteq Numbers
  /\ rtc \in Moments /\ sys \in Moments /\ SysTimeDatas \in Moments
  /\ timeSet \in {"never", "earlier", "now"}
  /\ ConsumCase \in {"1", "2", "plan", "3", "4", "4.changed", "5"}
  /\ planId \in {0, ROWLEN + 1}
  /\ card \in Cards \cup {NoCard} /\ current \in Cards \cup {NoCard}
  /\ onCard \in [Cards -> Counts] /\ counted \in Counts
  /\ MainWrBufferBak \in Counts \cup {NoBuffer}
  /\ consumeMode \in Modes
  /\ CurrentConsumMoney \in Nat
  /\ priced \in Plans \cup {NoPlan} /\ mealOf \in Plans \cup {NoPlan}
  /\ meals \in [Cards \X Plans \X Days -> Nat]
  /\ early \subseteq Cards /\ restored \subseteq Cards
  /\ sales \in 0..MaxSales /\ faults \in 0..MaxFaults
  /\ record \in Seq(Byte) /\ Len(record) \in {0, 4}

\* A price taken from a plan comes from a row of the table, for the sort of the
\* card that was read, whose end had not passed at the time it is counted for,
\* and it is the price of that meal: the first price while the count is within
\* the first number, the second one after.  The lookups that find nothing return
\* the stack of the lookup before (possqlite3.c:126), and the loop goes on with
\* another id than it counted to (rwCardfiles.c:218-226).
PriceIsOfAPlan ==
  ConsumCase = "3" /\ priced # NoPlan =>
    /\ \E i \in DOMAIN moneyplan : moneyplan[i].plan = priced
    /\ priced.sort = current.sort
    /\ ~Less(priced.end, TimeOf(counted.at))
    /\ CurrentConsumMoney =
         IF counted.count = 1 \/ counted.count <= priced.times
         THEN priced.price ELSE priced.price2

\* While the clock is not set, nobody has more meals of a plan in a day than its
\* two numbers allow (one, if they allow none), however often the card is placed
\* or missed, a write fails and is repeated, the terminal restarts or plans are
\* downloaded.  Left out are the two ways the code forgets a count: a meal before
\* the start of its plan, which the comparison at rwCardfiles.c:237 may let
\* through, and a repetition that writes the block of the charge before
\* (readWriteCard.c:699).
MealsWithinPlan ==
  timeSet = "never" =>
    \A c \in Cards \ (early \cup restored), p \in Plans, d \in Days :
      meals[<<c, p, d>>] <= IF p.times + p.times2 = 0 THEN 1 ELSE p.times + p.times2

\* A card whose number was added with ADD_BLKNUM, and not taken off since, is not
\* admitted, whatever was added, deleted or restarted in between.
ListedIsRefused ==
  [][ConsumCase = "2" /\ ConsumCase' \in {"3", "plan"} => current'.number \notin listed]_vars

\* A record decodes to the time of the sale on the clock, unless the server set
\* the clock since the start: the four bytes lose nothing (byteConversion.c:399),
\* and the operating system follows the chip (ykt_app.c:1087).
RecordHasItsTime ==
  [][sales' # sales /\ timeSet # "now" => ChgRecordDatasToTime(record') = Calendar[rtc]]_vars
=============================================================================
