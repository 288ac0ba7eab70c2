----------------------------- MODULE TariffProofs -----------------------------
(***************************************************************************)
(* Proofs about price plans, blacklist and clocks, for any cards, plans,   *)
(* times and downloads, any number of sales and faults.                    *)
(***************************************************************************)
EXTENDS Tariff, ConversionsProofs

------------------------------------------------------------------------------
\* The rows of the table.

\* A lookup by id returns a row of the table.
LEMMA RowOfIsARow ==
  ASSUME NEW id \in Ids, moneyplan \in Seq(Rows)
  PROVE  \E i \in DOMAIN moneyplan : RowOf(id) = moneyplan[i].plan
<1> DEFINE S == {i \in DOMAIN moneyplan : moneyplan[i].id = id}
<1>1. S \in SUBSET Nat /\ S # {}
  BY DEF Ids
<1>2. PICK i \in S : \A j \in S : i <= j
  BY <1>1, LeastNat
<1>3. \A j \in 1..(i - 1) : moneyplan[j].id # id
  BY <1>1, <1>2
<1> QED
  BY <1>2, <1>3 DEF RowOf

\* The next id is a byte.
LEMMA QueryIndexIsAByte ==
  ASSUME moneyplan \in Seq(Rows) PROVE QueryIndex \in 0..(UCHAR - 1)
<1> DEFINE S == {i \in DOMAIN moneyplan : moneyplan[i].id # 0}
<1>1. UCHAR \in Nat \ {0}
  BY RowAssumption
<1>2. CASE S = {}
  BY <1>1, <1>2 DEF QueryIndex
<1>3. CASE S # {}
  <2>1. S \in SUBSET (0..Len(moneyplan)) /\ Len(moneyplan) \in Nat
    OBVIOUS
  <2>2. \E i \in S : \A j \in S : j <= i
    BY <1>3, <2>1, GreatestNat
  <2>3. PICK i \in S : QueryIndex = (moneyplan[i].id + 1) % UCHAR
    BY <1>3, <2>2 DEF QueryIndex
  <2>4. moneyplan[i] \in Rows
    BY <2>3
  <2>5. moneyplan[i].id + 1 \in Nat
    BY <1>1, <2>4 DEF Rows
  <2> QED
    BY <1>1, <2>3, <2>5, ModRange
<1> QED
  BY <1>2, <1>3

\* What a lookup returns is a plan of the table, or what was on the stack.
LEMMA RowsReadTypes ==
  ASSUME moneyplan \in Seq(Rows), NEW id, NEW p \in RowsRead(id)
  PROVE  \/ \E i \in DOMAIN moneyplan : p = moneyplan[i].plan
         \/ p \in {stru, NoPlan}
  BY RowOfIsARow DEF RowsRead

------------------------------------------------------------------------------
\* Types.

LEMMA MomentRange ==
  Moments = 1..Len(Calendar) /\ 1 \in Moments /\ Len(Calendar) \in Nat
  BY CalendarAssumption DEF Moments

LEMMA TypeInit == Init => TypeOK
<1> SUFFICES ASSUME Init PROVE TypeOK
  OBVIOUS
<1>1. moneyplan \in Seq(Rows) /\ Len(moneyplan) <= MaxRows
  BY RowAssumption DEF Init
<1>2. MoneyPlanIndex \in 0..(UCHAR - 1)
  BY <1>1, QueryIndexIsAByte DEF Init
<1>3. NeverCounted \in Counts
  BY DEF NeverCounted, Counts, Byte
<1>4. /\ rtc \in Moments /\ sys \in Moments /\ SysTimeDatas \in Moments
      /\ sales \in 0..MaxSales /\ faults \in 0..MaxFaults /\ CurrentConsumMoney \in Nat
  BY MomentRange, BoundAssumption DEF Init
<1>5. onCard \in [Cards -> Counts] /\ counted \in Counts
  BY <1>3 DEF Init
<1>6. meals \in [Cards \X Plans \X Days -> Nat]
  BY DEF Init
<1>7. queryOpen \in BOOLEAN
  BY DEF Init
<1>8. record \in Seq(Byte) /\ Len(record) \in {0, 4}
  BY DEF Init
<1> QED
  BY <1>1, <1>2, <1>4, <1>5, <1>6, <1>7, <1>8 DEF Init, TypeOK

\* A record has four bytes.
LEMMA RecordTypes ==
  ASSUME TypeOK
  PROVE  /\ ChgTimeToRecordDatas(lib_systime_get_systime) \in Seq(Byte)
         /\ Len(ChgTimeToRecordDatas(lib_systime_get_systime)) = 4
         /\ ChgRecordDatasToTime(ChgTimeToRecordDatas(lib_systime_get_systime))
              = Calendar[sys]
<1>1. Calendar[sys] \in Seq(Byte) /\ IsTime(Calendar[sys])
  BY CalendarAssumption DEF TypeOK, Moments
<1> QED
  BY <1>1, TimeRoundTrip DEF lib_systime_get_systime

\* The price of a meal is a number, and its count fits the byte.
LEMMA PriceTypes ==
  ASSUME TypeOK, NEW p \in Plans, Price(p)
  PROVE  /\ CurrentConsumMoney' \in Nat /\ counted' \in Counts
         /\ priced' \in Plans \cup {NoPlan} /\ mealOf' \in Plans \cup {NoPlan}
         /\ ConsumCase' \in {"3", "5"}
<1>1. /\ p.price \in Nat /\ p.price2 \in Nat /\ p.times \in Nat /\ p.times2 \in Nat
      /\ p.times + p.times2 \in 0..255
  BY PlanAssumption DEF Byte
<1>2. counted.count \in 0..255 /\ SysTimeDatas \in Moments \cup {0}
  BY DEF TypeOK, Counts, Byte
<1>3. \A a, n : Meal(a, n, p) /\ a \in Nat /\ n \in 0..255 =>
        /\ CurrentConsumMoney' \in Nat /\ counted' \in Counts
        /\ priced' = p /\ mealOf' = p /\ ConsumCase' = "3"
  BY <1>2 DEF Meal, Counts, Byte
<1>4. CASE Refuse
  BY <1>4 DEF Refuse, TypeOK
<1>5. CASE Meal(p.price, 1, p)
  BY <1>1, <1>3, <1>5
<1>6. CASE counted.count < p.times /\ Meal(p.price, counted.count + 1, p)
  BY <1>1, <1>2, <1>3, <1>6
<1>7. CASE counted.count - p.times < p.times2 /\ Meal(p.price2, counted.count + 1, p)
  BY <1>1, <1>2, <1>3, <1>7
<1> QED
  BY <1>4, <1>5, <1>6, <1>7 DEF Price

\* Rows that are appended leave the others where they are.
LEMMA Appended ==
  ASSUME NEW S, NEW q \in Seq(S), NEW r \in Seq(S)
  PROVE  /\ q \o r \in Seq(S)
         /\ Len(q \o r) = Len(q) + Len(r)
         /\ \A i \in DOMAIN q : i \in DOMAIN (q \o r) /\ (q \o r)[i] = q[i]
OBVIOUS

\* One more in one place.
LEMMA OneMore ==
  ASSUME NEW D, NEW f \in [D -> Nat], NEW x
  PROVE  /\ [f EXCEPT ![x] = @ + 1] \in [D -> Nat]
         /\ \A y \in D : [f EXCEPT ![x] = @ + 1][y] = IF y = x THEN f[y] + 1 ELSE f[y]
<1> DEFINE g == [f EXCEPT ![x] = @ + 1]
<1>1. DOMAIN g = D /\ g = [y \in D |-> IF y = x THEN f[y] + 1 ELSE f[y]]
  OBVIOUS
<1>2. \A y \in D : g[y] = IF y = x THEN f[y] + 1 ELSE f[y]
  BY <1>1
<1>3. \A y \in D : f[y] \in Nat
  OBVIOUS
<1> HIDE DEF g
<1>4. \A y \in D : g[y] \in Nat
  BY <1>2, <1>3
<1>5. g \in [D -> Nat]
  BY <1>1, <1>4
<1> QED
  BY <1>2, <1>5 DEF g

\* Only a card that was read is priced and charged.
CardIsRead == ConsumCase \in {"plan", "3", "4", "4.changed"} => current \in Cards

Places == {"1", "2", "plan", "3", "4", "4.changed", "5"}

\* What a charge that is told a success leaves.
LEMMA RecordedTypes ==
  ASSUME TypeOK, Recorded
  PROVE  /\ record' \in Seq(Byte) /\ Len(record') \in {0, 4}
         /\ SysTimeDatas' \in Moments /\ sales' \in 0..MaxSales
         /\ meals' \in [Cards \X Plans \X Days -> Nat]
<1>1. record' \in Seq(Byte) /\ Len(record') \in {0, 4}
  BY RecordTypes DEF Recorded
<1>2. SysTimeDatas' \in Moments
  BY DEF Recorded, TypeOK
<1>3. sales' \in 0..MaxSales
  BY BoundAssumption DEF Recorded, TypeOK
<1>4. meals' \in [Cards \X Plans \X Days -> Nat]
  <2> DEFINE x == <<current, priced, DayOf(counted.at)>>
  <2>1. CASE meals' = meals
    BY <2>1 DEF TypeOK
  <2>2. CASE meals' = [meals EXCEPT ![x] = @ + 1]
    <3>1. meals \in [Cards \X Plans \X Days -> Nat]
      BY DEF TypeOK
    <3> QED
      BY <2>2, <3>1, OneMore
  <2> QED
    BY <2>1, <2>2 DEF Recorded, Eaten
<1> QED
  BY <1>1, <1>2, <1>3, <1>4

\* What a repeated write leaves.
LEMMA WriteAgainTypes ==
  ASSUME TypeOK, CardIsRead, WriteAgain
  PROVE  /\ onCard' \in [Cards -> Counts]
         /\ early' \subseteq Cards /\ restored' \subseteq Cards
<1>1. current \in Cards
  BY DEF WriteAgain, CardIsRead
<1>2. MainWrBufferBak \in Counts
  BY DEF WriteAgain, TypeOK
<1>3. onCard' \in [Cards -> Counts]
  BY <1>2 DEF WriteAgain, TypeOK
<1> QED
  BY <1>1, <1>3 DEF WriteAgain, Noted, TypeOK

LEMMA FaultTypes ==
  ASSUME TypeOK, Fault PROVE faults' \in 0..MaxFaults
  BY BoundAssumption DEF Fault, TypeOK

LEMMA TypeMachine ==
  ASSUME TypeOK, CardIsRead,
         \/ RequestCard \/ ReadCard \/ LookAtPlan
         \/ BalanceFails \/ Charge \/ ChargeFails \/ ChargeAgain \/ ChargeAgainFails
         \/ CardLeft
  PROVE  TypeOK'
<1> USE DEF tables, clocks, machine, screen, sold
<1>1. CASE RequestCard
  BY <1>1 DEF RequestCard, TypeOK
<1>2. CASE ReadCard
  <2>1. counted' \in Counts /\ planId' \in {0, ROWLEN + 1}
    BY <1>2 DEF ReadCard, TypeOK
  <2>2. ConsumCase' \in Places
    BY <1>2 DEF ReadCard, Places
  <2> QED
    BY <1>2, <2>1, <2>2 DEF ReadCard, TypeOK, Places
<1>3. CASE LookAtPlan
  <2>1. PICK p \in RowsRead(planId) :
          /\ stru' = p
          /\ \/ Refuse /\ UNCHANGED planId
             \/ p # NoPlan /\ Price(p) /\ UNCHANGED planId
             \/ /\ planId' = ROWLEN + 1
                /\ UNCHANGED <<ConsumCase, counted, CurrentConsumMoney, priced, mealOf>>
    BY <1>3 DEF LookAtPlan
  <2>2. p \in Plans \cup {NoPlan}
    <3>1. \A i \in DOMAIN moneyplan : moneyplan[i] \in Rows
      BY DEF TypeOK
    <3> QED
      BY <3>1, RowsReadTypes DEF TypeOK, Rows
  <2>3. /\ ConsumCase' \in Places /\ counted' \in Counts
        /\ CurrentConsumMoney' \in Nat /\ priced' \in Plans \cup {NoPlan}
        /\ mealOf' \in Plans \cup {NoPlan}
        /\ planId' \in {0, ROWLEN + 1}
    BY <2>1, <2>2, PriceTypes DEF Refuse, TypeOK, Places
  <2>4. queryOpen' \in BOOLEAN
    BY <1>3 DEF LookAtPlan
  <2> QED
    BY <1>3, <2>1, <2>2, <2>3, <2>4 DEF LookAtPlan, TypeOK, Places
<1>4. CASE BalanceFails
  BY <1>4 DEF BalanceFails, TypeOK
<1>5. CASE Charge
  <2>1. onCard' \in [Cards -> Counts] /\ MainWrBufferBak' \in Counts
    BY <1>5 DEF Charge, TypeOK
  <2>2. early' \subseteq Cards
    BY <1>5 DEF Charge, Noted, TypeOK, CardIsRead
  <2> QED
    BY <1>5, <2>1, <2>2, RecordedTypes DEF Charge, TypeOK
<1>6. CASE ChargeFails
  <2>1. faults' \in 0..MaxFaults
    BY <1>6, FaultTypes DEF ChargeFails, TypeOK
  <2>2. onCard' \in [Cards -> Counts] /\ MainWrBufferBak' \in Counts \cup {NoBuffer}
    BY <1>6 DEF ChargeFails, TypeOK
  <2>3. early' \subseteq Cards
    BY <1>6 DEF ChargeFails, Noted, TypeOK, CardIsRead
  <2>4. ConsumCase' \in {"4", "4.changed"}
    BY <1>6 DEF ChargeFails
  <2> QED
    BY <1>6, <2>1, <2>2, <2>3, <2>4 DEF ChargeFails, TypeOK
<1>7. CASE ChargeAgain
  BY <1>7, RecordedTypes, WriteAgainTypes DEF ChargeAgain, TypeOK
<1>8. CASE ChargeAgainFails
  <2>1. faults' \in 0..MaxFaults
    BY <1>8, FaultTypes DEF ChargeAgainFails, TypeOK
  <2>2. /\ onCard' \in [Cards -> Counts]
        /\ early' \subseteq Cards /\ restored' \subseteq Cards
    BY <1>8, WriteAgainTypes DEF ChargeAgainFails, TypeOK
  <2> QED
    BY <1>8, <2>1, <2>2 DEF ChargeAgainFails, TypeOK
<1>9. CASE CardLeft
  <2>1. CurrentConsumMoney' \in Nat /\ priced' \in Plans \cup {NoPlan}
    BY <1>9 DEF CardLeft, TypeOK
  <2>2. faults' \in 0..MaxFaults
    BY <1>9, FaultTypes DEF CardLeft, TypeOK
  <2> QED
    BY <1>9, <2>1, <2>2 DEF CardLeft, TypeOK
<1> QED
  BY <1>1, <1>2, <1>3, <1>4, <1>5, <1>6, <1>7, <1>8, <1>9

\* The rows of a command get bytes for ids.
LEMMA DownloadedRows ==
  ASSUME TypeOK, NEW plans \in Downloads
  PROVE  LET rows == [i \in 1..Len(plans) |-> [id |-> RowId(i - 1), plan |-> plans[i]]]
         IN  /\ rows \in Seq(Rows) /\ Len(rows) = Len(plans)
             /\ RowId(Len(plans)) \in 0..(UCHAR - 1)
<1> DEFINE rows == [i \in 1..Len(plans) |-> [id |-> RowId(i - 1), plan |-> plans[i]]]
<1>1. plans \in Seq(Plans) /\ Len(plans) \in Nat
  BY RowAssumption
<1>2. UCHAR \in Nat \ {0} /\ MoneyPlanIndex \in Nat
  BY RowAssumption DEF TypeOK
<1>3. \A n \in Nat : RowId(n) \in 0..(UCHAR - 1)
  BY <1>2, ModRange DEF RowId
<1>4. \A i \in 1..Len(plans) : rows[i] \in Rows
  <2> SUFFICES ASSUME NEW i \in 1..Len(plans) PROVE rows[i] \in Rows
    OBVIOUS
  <2>1. plans[i] \in Plans /\ i - 1 \in Nat
    BY <1>1
  <2>2. RowId(i - 1) \in 0..(UCHAR - 1)
    BY <1>3, <2>1
  <2> QED
    BY <2>1, <2>2 DEF Rows
<1>5. rows \in Seq(Rows) /\ Len(rows) = Len(plans)
  BY <1>1, <1>4
<1> QED
  BY <1>1, <1>3, <1>5

LEMMA TypeCommands ==
  ASSUME TypeOK,
         \/ \E plans \in Downloads : SetSortPrince(plans)
         \/ \E c \in Cards : AddBlkNum(c.number) \/ DelBlkNum(c.number)
         \/ DelAddBlkNum \/ ClrPosDatas \/ ClrBlkNum
         \/ \E m \in Times : SetTime2(m)
         \/ PowerCut
  PROVE  TypeOK'
<1> USE DEF tables, clocks, machine, screen, sold
<1>1. ASSUME NEW plans \in Downloads, SetSortPrince(plans) PROVE TypeOK'
  <2> DEFINE rows == [i \in 1..Len(plans) |-> [id |-> RowId(i - 1), plan |-> plans[i]]]
  <2>5. /\ rows \in Seq(Rows) /\ Len(rows) = Len(plans) /\ Len(plans) \in Nat
        /\ RowId(Len(plans)) \in 0..(UCHAR - 1)
    BY DownloadedRows, RowAssumption
  <2>6. moneyplan' = moneyplan \/ moneyplan' = moneyplan \o rows
    BY <1>1 DEF SetSortPrince, Inserted
  <2> HIDE DEF rows
  <2>7. moneyplan' \in Seq(Rows) /\ Len(moneyplan') <= MaxRows
    <3>1. CASE moneyplan' = moneyplan
      BY <3>1 DEF TypeOK
    <3>2. CASE moneyplan' = moneyplan \o rows
      <4>1. moneyplan \in Seq(Rows) /\ Len(moneyplan) + Len(plans) <= MaxRows
        BY <1>1 DEF TypeOK, SetSortPrince
      <4>2. /\ moneyplan' \in Seq(Rows)
            /\ Len(moneyplan') = Len(moneyplan) + Len(rows)
        BY <2>5, <3>2, <4>1, Appended
      <4> QED
        BY <2>5, <4>1, <4>2
    <3> QED
      BY <2>6, <3>1, <3>2
  <2>8. MoneyPlanIndex' \in 0..(UCHAR - 1)
    BY <1>1, <2>5 DEF SetSortPrince
  <2>9. faults' \in 0..MaxFaults
    BY <1>1, FaultTypes DEF SetSortPrince, Command
  <2> QED
    BY <1>1, <2>7, <2>8, <2>9 DEF SetSortPrince, TypeOK
<1>2. ASSUME NEW c \in Cards, AddBlkNum(c.number) \/ DelBlkNum(c.number) PROVE TypeOK'
  <2>1. blknumber' \subseteq Numbers /\ listed' \subseteq Numbers
    BY <1>2 DEF AddBlkNum, DelBlkNum, Stored, Left, Numbers, TypeOK
  <2> QED
    BY <1>2, <2>1, FaultTypes DEF AddBlkNum, DelBlkNum, Command, TypeOK
<1>3. CASE DelAddBlkNum
  <2>1. blknumber' \subseteq Numbers
    BY <1>3 DEF DelAddBlkNum, Stored, Left, Numbers, TypeOK
  <2> QED
    BY <1>3, <2>1, FaultTypes DEF DelAddBlkNum, Command, TypeOK
<1>4. CASE ClrPosDatas
  BY <1>4, FaultTypes DEF ClrPosDatas, Command, TypeOK
<1>5. CASE ClrBlkNum
  BY <1>5, FaultTypes DEF ClrBlkNum, Command, TypeOK
<1>6. ASSUME NEW m \in Times, SetTime2(m) PROVE TypeOK'
  <2>1. m \in Moments
    BY BoundAssumption
  <2> QED
    BY <1>6, <2>1, FaultTypes DEF SetTime2, Command, TypeOK
<1>7. CASE PowerCut
  <2>1. MoneyPlanIndex' \in 0..(UCHAR - 1)
    BY <1>7, QueryIndexIsAByte DEF PowerCut, TypeOK
  <2>2. counted' \in Counts
    BY <1>7 DEF PowerCut, NeverCounted, Counts, Byte
  <2>3. /\ rtc' \in Moments /\ sys' \in Moments /\ SysTimeDatas' \in Moments
        /\ timeSet' \in {"never", "earlier", "now"}
    BY <1>7 DEF PowerCut, TypeOK
  <2>4. queryOpen' \in BOOLEAN
    BY <1>7 DEF PowerCut
  <2>5. CurrentConsumMoney' \in Nat
    BY <1>7 DEF PowerCut
  <2> QED
    BY <1>7, <2>1, <2>2, <2>3, <2>4, <2>5, FaultTypes DEF PowerCut, TypeOK
<1> QED
  BY <1>1, <1>2, <1>3, <1>4, <1>5, <1>6, <1>7

LEMMA TypeRest ==
  ASSUME TypeOK, Place \/ Remove \/ SetAmount \/ SetMode \/ Tick \/ UNCHANGED vars
  PROVE  TypeOK'
<1> USE DEF tables, clocks, machine, screen, sold
<1>1. CASE Place \/ Remove
  BY <1>1 DEF Place, Remove, TypeOK
<1>2. CASE SetAmount
  <2>1. CurrentConsumMoney' \in Nat
    BY <1>2, BoundAssumption DEF SetAmount
  <2> QED
    BY <1>2, <2>1, FaultTypes DEF SetAmount, TypeOK
<1>3. CASE SetMode
  BY <1>3, FaultTypes DEF SetMode, TypeOK
<1>4. CASE Tick
  BY <1>4 DEF Tick, TypeOK
<1>5. CASE UNCHANGED vars
  BY <1>5 DEF vars, TypeOK
<1> QED
  BY <1>1, <1>2, <1>3, <1>4, <1>5

LEMMA TypeNext ==
  ASSUME TypeOK, CardIsRead, [Next]_vars PROVE TypeOK'
<1>1. CASE \/ RequestCard \/ ReadCard \/ LookAtPlan
           \/ BalanceFails \/ Charge \/ ChargeFails
           \/ ChargeAgain \/ ChargeAgainFails \/ CardLeft
  BY <1>1, TypeMachine
<1>2. CASE Place \/ Remove \/ SetAmount \/ SetMode \/ Tick \/ UNCHANGED vars
  BY <1>2, TypeRest
<1> QED
  BY <1>1, <1>2, TypeCommands DEF Next

LEMMA ReadNext ==
  ASSUME TypeOK, CardIsRead, [Next]_vars PROVE CardIsRead'
<1> USE DEF tables, clocks, machine, screen, sold, vars
<1>1. CASE ReadCard
  BY <1>1 DEF ReadCard, TypeOK, CardIsRead
<1>2. CASE ConsumCase' \notin {"plan", "3", "4", "4.changed"}
  BY <1>2 DEF CardIsRead
<1>3. CASE LookAtPlan
  BY <1>3 DEF LookAtPlan, CardIsRead
<1>4. CASE UNCHANGED <<ConsumCase, current>>
  BY <1>4 DEF CardIsRead
<1>5. CASE ChargeFails
  BY <1>5 DEF ChargeFails, CardIsRead
<1> QED
  BY <1>1, <1>2, <1>3, <1>4, <1>5
  DEF Next, RequestCard, BalanceFails, Charge, ChargeAgain, ChargeAgainFails, CardLeft,
      Place, Remove, SetAmount, SetMode, Tick, SetSortPrince, AddBlkNum, DelBlkNum, DelAddBlkNum,
      ClrPosDatas, ClrBlkNum, SetTime2, PowerCut

Typed == TypeOK /\ CardIsRead

LEMMA TypedAlways == Spec => []Typed
<1>1. Init => Typed
  BY TypeInit DEF Init, Typed, CardIsRead
<1>2. Typed /\ [Next]_vars => Typed'
  BY TypeNext, ReadNext DEF Typed
<1> QED
  BY <1>1, <1>2, PTL DEF Spec

\* Rows, counts, times and lists keep their types, whatever is downloaded, set or
\* cut off: the count of a card never leaves its byte.
THEOREM TypeCorrect == Spec => []TypeOK
<1>1. Typed => TypeOK
  BY DEF Typed
<1> QED
  BY <1>1, TypedAlways, PTL

------------------------------------------------------------------------------
\* The blacklist.

\* Numbers that were listed are in the table, and none of them can be hit by a
\* command that takes a text for a number.
ListedIsStored ==
  listed \subseteq blknumber /\ TextNumber \notin listed

LEMMA ListedNext ==
  ASSUME ListedIsStored, [Next]_vars PROVE ListedIsStored'
<1> USE DEF tables, vars
<1>1. \A c \in Cards : c.number # TextNumber
  BY CardAssumption
<1>2. ASSUME NEW c \in Cards, AddBlkNum(c.number) \/ DelBlkNum(c.number)
      PROVE  ListedIsStored'
  BY <1>1, <1>2 DEF AddBlkNum, DelBlkNum, Stored, Left, ListedIsStored
<1>3. CASE DelAddBlkNum
  BY <1>3 DEF DelAddBlkNum, Stored, Left, ListedIsStored
<1>4. CASE ClrPosDatas \/ ClrBlkNum
  BY <1>4 DEF ClrPosDatas, ClrBlkNum, ListedIsStored
<1>5. CASE UNCHANGED <<listed, blknumber>>
  BY <1>5 DEF ListedIsStored
<1>6. CASE \/ RequestCard \/ ReadCard \/ LookAtPlan \/ BalanceFails \/ Charge
           \/ ChargeFails \/ ChargeAgain \/ ChargeAgainFails \/ CardLeft
           \/ \E plans \in Downloads : SetSortPrince(plans)
  BY <1>5, <1>6
  DEF RequestCard, ReadCard, LookAtPlan, BalanceFails, Charge, ChargeFails, ChargeAgain,
      ChargeAgainFails, CardLeft, SetSortPrince
<1>7. CASE \/ Place \/ Remove \/ SetAmount \/ SetMode \/ Tick
           \/ (\E m \in Times : SetTime2(m)) \/ PowerCut \/ UNCHANGED vars
  BY <1>5, <1>7 DEF Place, Remove, SetAmount, SetMode, Tick, SetTime2, PowerCut
<1> QED
  BY <1>2, <1>3, <1>4, <1>6, <1>7 DEF Next

LEMMA AdmittedStep ==
  ASSUME ListedIsStored, [Next]_vars, ConsumCase = "2", ConsumCase' \in {"3", "plan"}
  PROVE  current'.number \notin listed
<1>1. CASE \/ RequestCard \/ LookAtPlan
           \/ BalanceFails \/ Charge \/ ChargeFails
           \/ ChargeAgain \/ ChargeAgainFails \/ CardLeft \/ PowerCut
  BY <1>1
  DEF RequestCard, LookAtPlan, BalanceFails, Charge, ChargeFails, ChargeAgain,
      ChargeAgainFails, WriteAgain, CardLeft, PowerCut
<1>2. CASE UNCHANGED ConsumCase
  BY <1>2
<1>3. CASE ReadCard
  BY <1>3 DEF ReadCard, IsBlack, ListedIsStored
<1>4. CASE Place \/ Remove \/ SetAmount \/ SetMode \/ Tick \/ UNCHANGED vars
  BY <1>2, <1>4 DEF Place, Remove, SetAmount, SetMode, Tick, machine, vars
<1>5. CASE \/ \E plans \in Downloads : SetSortPrince(plans)
           \/ \E c \in Cards : AddBlkNum(c.number) \/ DelBlkNum(c.number)
           \/ DelAddBlkNum \/ ClrPosDatas \/ ClrBlkNum
           \/ \E m \in Times : SetTime2(m)
  BY <1>2, <1>5
  DEF SetSortPrince, AddBlkNum, DelBlkNum, DelAddBlkNum, ClrPosDatas, ClrBlkNum, SetTime2,
      machine
<1> QED
  BY <1>1, <1>3, <1>4, <1>5 DEF Next

\* A card on the blacklist is not admitted, whatever was added, taken off or
\* restarted in between.
THEOREM ListedRefused == Spec => ListedIsRefused
<1>1. Init => ListedIsStored
  BY DEF Init, ListedIsStored
<1>2. ListedIsStored /\ [Next]_vars => ListedIsStored'
  BY ListedNext
<1>3. ListedIsStored /\ [Next]_vars =>
        [ConsumCase = "2" /\ ConsumCase' \in {"3", "plan"}
           => current'.number \notin listed]_vars
  BY AdmittedStep
<1> QED
  BY <1>1, <1>2, <1>3, PTL DEF Spec, ListedIsRefused

------------------------------------------------------------------------------
\* The clocks.

ClocksAgree == timeSet # "now" => sys = rtc

LEMMA ClocksNext ==
  ASSUME ClocksAgree, [Next]_vars PROVE ClocksAgree'
<1> USE DEF clocks, ClocksAgree
<1>1. CASE UNCHANGED <<rtc, sys, timeSet>>
  BY <1>1
<1>2. CASE Tick \/ PowerCut \/ \E m \in Times : SetTime2(m)
  BY <1>2 DEF Tick, PowerCut, SetTime2
<1>3. CASE \/ RequestCard \/ ReadCard \/ LookAtPlan \/ BalanceFails \/ Charge
           \/ ChargeFails \/ ChargeAgain \/ ChargeAgainFails \/ CardLeft
           \/ Place \/ Remove \/ SetAmount \/ SetMode
  BY <1>1, <1>3
  DEF RequestCard, ReadCard, LookAtPlan, BalanceFails, Charge, ChargeFails, ChargeAgain,
      ChargeAgainFails, CardLeft, Place, Remove, SetAmount, SetMode
<1>4. CASE \/ \E plans \in Downloads : SetSortPrince(plans)
           \/ \E c \in Cards : AddBlkNum(c.number) \/ DelBlkNum(c.number)
           \/ DelAddBlkNum \/ ClrPosDatas \/ ClrBlkNum \/ UNCHANGED vars
  BY <1>1, <1>4
  DEF SetSortPrince, AddBlkNum, DelBlkNum, DelAddBlkNum, ClrPosDatas, ClrBlkNum, vars
<1> QED
  BY <1>2, <1>3, <1>4 DEF Next

LEMMA RecordStep ==
  ASSUME Typed, ClocksAgree, [Next]_vars, sales' # sales, timeSet # "now"
  PROVE  ChgRecordDatasToTime(record') = Calendar[rtc]
<1>1. CASE UNCHANGED sales
  BY <1>1
<1>2. CASE Charge \/ ChargeAgain
  <2>1. record' = ChgTimeToRecordDatas(lib_systime_get_systime)
    BY <1>2 DEF Charge, ChargeAgain, Recorded
  <2> QED
    BY <2>1, RecordTypes DEF ClocksAgree, Typed
<1>3. CASE \/ RequestCard \/ ReadCard \/ LookAtPlan \/ BalanceFails \/ ChargeFails
           \/ ChargeAgainFails \/ CardLeft
           \/ Place \/ Remove \/ SetAmount \/ SetMode \/ Tick \/ PowerCut \/ UNCHANGED vars
  BY <1>1, <1>3
  DEF RequestCard, ReadCard, LookAtPlan, BalanceFails, ChargeFails, ChargeAgainFails, CardLeft,
      Place, Remove, SetAmount, SetMode, Tick, PowerCut, vars, sold
<1>4. CASE \/ \E plans \in Downloads : SetSortPrince(plans)
           \/ \E c \in Cards : AddBlkNum(c.number) \/ DelBlkNum(c.number)
           \/ DelAddBlkNum \/ ClrPosDatas \/ ClrBlkNum
           \/ \E m \in Times : SetTime2(m)
  BY <1>1, <1>4
  DEF SetSortPrince, AddBlkNum, DelBlkNum, DelAddBlkNum, ClrPosDatas, ClrBlkNum, SetTime2, sold
<1> QED
  BY <1>2, <1>3, <1>4 DEF Next

\* A record has the time of the sale on the clock, if the clock was not set since
\* the start.
THEOREM RecordTime == Spec => RecordHasItsTime
<1>1. Init => ClocksAgree
  BY DEF Init, ClocksAgree
<1>2. ClocksAgree /\ [Next]_vars => ClocksAgree'
  BY ClocksNext
<1>3. Typed /\ ClocksAgree /\ [Next]_vars =>
        [sales' # sales /\ timeSet # "now"
           => ChgRecordDatasToTime(record') = Calendar[rtc]]_vars
  BY RecordStep
<1> QED
  BY <1>1, <1>2, <1>3, TypedAlways, PTL DEF Spec, RecordHasItsTime

------------------------------------------------------------------------------
\* Prices.

InTable(p) == \E i \in DOMAIN moneyplan : moneyplan[i].plan = p

\* A card that had a meal has counted it.
HasCounted(n) == n.at # 0 => n.count >= 1

PriceInv ==
  /\ stru # NoPlan => InTable(stru)
  /\ HasCounted(counted) /\ \A c \in Cards : HasCounted(onCard[c])
  /\ MainWrBufferBak # NoBuffer => HasCounted(MainWrBufferBak)
  /\ PriceIsOfAPlan

\* Rows are never taken away.
LEMMA TableGrows ==
  ASSUME TypeOK, [Next]_vars PROVE \A p : InTable(p) => InTable(p)'
<1>1. CASE UNCHANGED moneyplan
  BY <1>1 DEF InTable
<1>2. ASSUME NEW plans \in Downloads, SetSortPrince(plans)
      PROVE  \A p : InTable(p) => InTable(p)'
  <2> DEFINE rows == [i \in 1..Len(plans) |-> [id |-> RowId(i - 1), plan |-> plans[i]]]
  <2>1. CASE moneyplan' = moneyplan \o rows
    <3>1. \A i \in DOMAIN moneyplan :
            i \in DOMAIN moneyplan' /\ moneyplan'[i] = moneyplan[i]
      <4>1. moneyplan \in Seq(Rows)
        BY DEF TypeOK
      <4>2. rows \in Seq(Rows)
        BY <1>2, DownloadedRows
      <4> HIDE DEF rows
      <4> QED
        BY <2>1, <4>1, <4>2, Appended
    <3> QED
      BY <3>1 DEF InTable
  <2> QED
    BY <1>1, <1>2, <2>1 DEF SetSortPrince, Inserted
<1>3. CASE \/ RequestCard \/ ReadCard \/ LookAtPlan \/ BalanceFails \/ Charge \/ ChargeFails
           \/ ChargeAgain \/ ChargeAgainFails
           \/ CardLeft \/ Place \/ Remove \/ SetAmount \/ SetMode \/ Tick
  BY <1>1, <1>3
  DEF RequestCard, ReadCard, LookAtPlan, BalanceFails, Charge, ChargeFails, ChargeAgain,
      ChargeAgainFails, CardLeft, Place, Remove, SetAmount, SetMode, Tick, tables
<1>4. CASE \/ \E c \in Cards : AddBlkNum(c.number) \/ DelBlkNum(c.number)
           \/ DelAddBlkNum \/ ClrPosDatas \/ ClrBlkNum
           \/ (\E m \in Times : SetTime2(m)) \/ PowerCut \/ UNCHANGED vars
  BY <1>1, <1>4
  DEF AddBlkNum, DelBlkNum, DelAddBlkNum, ClrPosDatas, ClrBlkNum, SetTime2, PowerCut, vars,
      tables
<1> QED
  BY <1>2, <1>3, <1>4 DEF Next

\* Between two steps of the machine a price stays what it was, or is forgotten.
LEMMA PriceStays ==
  ASSUME Typed, PriceInv, [Next]_vars,
         UNCHANGED <<stru, onCard, counted, MainWrBufferBak, current, ConsumCase>>,
         \/ UNCHANGED <<priced, CurrentConsumMoney>>
         \/ priced' = NoPlan
  PROVE  PriceInv'
<1>1. \A p : InTable(p) => InTable(p)'
  BY TableGrows DEF Typed
<1> QED
  BY <1>1 DEF PriceInv, HasCounted, PriceIsOfAPlan, InTable

\* What the pricing loop decides.
LEMMA LookAtPlanSteps ==
  ASSUME Typed, stru # NoPlan => InTable(stru), LookAtPlan
  PROVE  \E p \in Plans \cup {NoPlan} :
           /\ stru' = p /\ (p # NoPlan => InTable(p) /\ p \in Plans)
           /\ \/ Refuse
              \/ p # NoPlan /\ Fits(p) /\ Price(p)
              \/ UNCHANGED <<ConsumCase, counted, CurrentConsumMoney, priced, mealOf>>
<1>1. PICK p \in RowsRead(planId) :
        /\ stru' = p
        /\ \/ Refuse
           \/ p # NoPlan /\ Fits(p) /\ Price(p)
           \/ UNCHANGED <<ConsumCase, counted, CurrentConsumMoney, priced, mealOf>>
  BY DEF LookAtPlan
<1>2. moneyplan \in Seq(Rows) /\ \A i \in DOMAIN moneyplan : moneyplan[i] \in Rows
  BY DEF Typed, TypeOK
<1>3. p # NoPlan => InTable(p) /\ p \in Plans
  <2>1. InTable(stru) => stru \in Plans
    BY <1>2 DEF InTable, Rows
  <2> QED
    BY <1>2, <2>1, RowsReadTypes DEF InTable, Rows
<1> QED
  BY <1>1, <1>3

\* The price of a meal is the one its count asks for.
LEMMA MealIsPriced ==
  ASSUME Typed, PriceInv, NEW p \in Plans, InTable(p)', Fits(p), Price(p),
         UNCHANGED current
  PROVE  PriceIsOfAPlan' /\ HasCounted(counted)'
<1>1. p.times \in Nat /\ p.times2 \in Nat /\ p # NoPlan
  BY PlanAssumption
<1>2. counted.count \in Nat
  <2>1. counted \in Counts
    BY DEF Typed, TypeOK
  <2> QED
    BY <2>1 DEF Counts, Byte
<1>3. InPeriod(p) => counted.count >= 1
  BY DEF InPeriod, PriceInv, HasCounted
<1>4. ASSUME NEW a, NEW n \in Nat \ {0}, Meal(a, n, p),
             a = IF n = 1 \/ n <= p.times THEN p.price ELSE p.price2
      PROVE  PriceIsOfAPlan' /\ HasCounted(counted)'
  BY <1>4 DEF Meal, Fits, PriceIsOfAPlan, InTable, HasCounted
<1>5. CASE Refuse
  BY <1>5 DEF Refuse, PriceIsOfAPlan, PriceInv, HasCounted
<1>6. CASE Meal(p.price, 1, p)
  BY <1>4, <1>6
<1>7. CASE counted.count < p.times /\ Meal(p.price, counted.count + 1, p)
  BY <1>1, <1>2, <1>4, <1>7
<1>8. CASE /\ InPeriod(p) /\ ~(counted.count < p.times)
           /\ Meal(p.price2, counted.count + 1, p)
  BY <1>1, <1>2, <1>3, <1>4, <1>8
<1> QED
  BY <1>5, <1>6, <1>7, <1>8 DEF Price

LEMMA PriceNext ==
  ASSUME Typed, PriceInv, [Next]_vars PROVE PriceInv'
<1> USE DEF tables, clocks, machine, screen, sold
<1>1. \A p : InTable(p) => InTable(p)'
  BY TableGrows DEF Typed
<1>2. CASE ConsumCase' # "3" /\ UNCHANGED <<stru, onCard, counted, MainWrBufferBak>>
  BY <1>1, <1>2 DEF PriceInv, HasCounted, PriceIsOfAPlan
<1>3. CASE RequestCard \/ BalanceFails \/ CardLeft
  BY <1>2, <1>3 DEF RequestCard, BalanceFails, CardLeft
<1>4. CASE ReadCard
  <2>1. priced' = NoPlan /\ UNCHANGED <<stru, onCard, MainWrBufferBak>>
    BY <1>4 DEF ReadCard
  <2>2. HasCounted(counted)'
    BY <1>4 DEF ReadCard, PriceInv, HasCounted, TypeOK, Typed
  <2> QED
    BY <1>1, <2>1, <2>2 DEF PriceInv, HasCounted, PriceIsOfAPlan
<1>5. CASE LookAtPlan
  <2>1. PICK p \in Plans \cup {NoPlan} :
          /\ stru' = p /\ (p # NoPlan => InTable(p) /\ p \in Plans)
          /\ \/ Refuse
             \/ p # NoPlan /\ Fits(p) /\ Price(p)
             \/ UNCHANGED <<ConsumCase, counted, CurrentConsumMoney, priced, mealOf>>
    BY <1>5, LookAtPlanSteps DEF PriceInv
  <2>2. UNCHANGED <<onCard, MainWrBufferBak, current>> /\ ConsumCase = "plan"
    BY <1>5 DEF LookAtPlan
  <2>3. PriceIsOfAPlan' /\ HasCounted(counted)'
    <3>1. CASE p # NoPlan /\ Fits(p) /\ Price(p)
      BY <1>1, <2>1, <2>2, <3>1, MealIsPriced
    <3>2. CASE Refuse \/ UNCHANGED <<ConsumCase, counted, CurrentConsumMoney, priced, mealOf>>
      BY <2>2, <3>2 DEF Refuse, PriceIsOfAPlan, HasCounted, PriceInv
    <3> QED
      BY <2>1, <3>1, <3>2
  <2> QED
    BY <1>1, <2>1, <2>2, <2>3 DEF PriceInv, HasCounted
<1>6. CASE Charge \/ ChargeFails \/ ChargeAgain \/ ChargeAgainFails
  <2>1. ConsumCase' # "3" /\ UNCHANGED <<stru, counted>>
    BY <1>6 DEF Charge, ChargeFails, ChargeAgain, ChargeAgainFails
  <2>2. MainWrBufferBak' \in {MainWrBufferBak, counted}
    BY <1>6 DEF Charge, ChargeFails, ChargeAgain, ChargeAgainFails
  <2>3. \/ onCard' = onCard
        \/ onCard' = [onCard EXCEPT ![current] = counted]
        \/ /\ MainWrBufferBak # NoBuffer
           /\ onCard' = [onCard EXCEPT ![current] = MainWrBufferBak]
    BY <1>6 DEF Charge, ChargeFails, ChargeAgain, ChargeAgainFails, WriteAgain
  <2>4. \A c \in Cards : HasCounted(onCard[c])'
    BY <2>3 DEF PriceInv, HasCounted, TypeOK, Typed
  <2> QED
    BY <1>1, <2>1, <2>2, <2>4 DEF PriceInv, HasCounted, PriceIsOfAPlan
<1>7. CASE PowerCut
  BY <1>7 DEF PowerCut, PriceInv, HasCounted, PriceIsOfAPlan, NeverCounted
<1>8. CASE Place \/ Remove \/ SetAmount \/ SetMode \/ Tick \/ UNCHANGED vars
  BY <1>8, PriceStays DEF Place, Remove, SetAmount, SetMode, Tick, vars
<1>9. CASE \/ \E plans \in Downloads : SetSortPrince(plans)
           \/ \E c \in Cards : AddBlkNum(c.number) \/ DelBlkNum(c.number)
           \/ DelAddBlkNum \/ ClrPosDatas \/ ClrBlkNum
           \/ \E m \in Times : SetTime2(m)
  <2>1. UNCHANGED <<stru, onCard, counted, MainWrBufferBak, current, ConsumCase, priced,
                    CurrentConsumMoney>>
    BY <1>9
    DEF SetSortPrince, AddBlkNum, DelBlkNum, DelAddBlkNum, ClrPosDatas, ClrBlkNum, SetTime2
  <2> QED
    BY <2>1, PriceStays
<1> QED
  BY <1>3, <1>4, <1>5, <1>6, <1>7, <1>8, <1>9 DEF Next

\* Who pays the price of a plan has a card of its sort, pays what the count of the
\* meal asks for, and the plan is in the table and not over.
THEOREM PriceOfAPlan == Spec => []PriceIsOfAPlan
<1>1. Init => PriceInv
  BY DEF Init, PriceInv, HasCounted, NeverCounted, PriceIsOfAPlan
<1>2. Typed /\ PriceInv /\ [Next]_vars => PriceInv'
  BY PriceNext
<1>3. PriceInv => PriceIsOfAPlan
  BY DEF PriceInv
<1> QED
  BY <1>1, <1>2, <1>3, TypedAlways, PTL DEF Spec

------------------------------------------------------------------------------
\* The order of times.

\* The terminal runs within one year: it compares days without it.
WithinAYear == \A m, n \in Moments : Calendar[m][1] = Calendar[n][1]

Pairs == Byte \X Byte

LEMMA LessPair ==
  ASSUME NEW x \in Pairs, NEW y \in Pairs
  PROVE  Less(x, y) <=> x[1] < y[1] \/ (x[1] = y[1] /\ x[2] < y[2])
<1>1. DOMAIN x = 1..2 /\ x[1] \in Int /\ x[2] \in Int /\ y[1] \in Int /\ y[2] \in Int
  BY DEF Pairs, Byte
<1>2. Less(x, y) => x[1] < y[1] \/ (x[1] = y[1] /\ x[2] < y[2])
  <2> SUFFICES ASSUME NEW i \in 1..2, x[i] < y[i], \A j \in 1..(i - 1) : x[j] = y[j]
               PROVE  x[1] < y[1] \/ (x[1] = y[1] /\ x[2] < y[2])
    BY <1>1 DEF Less
  <2>1. i = 1 \/ i = 2
    OBVIOUS
  <2> QED
    BY <2>1
<1>3. x[1] < y[1] => Less(x, y)
  BY <1>1 DEF Less
<1>4. x[1] = y[1] /\ x[2] < y[2] => Less(x, y)
  BY <1>1 DEF Less
<1> QED
  BY <1>2, <1>3, <1>4

\* Not being less is a total order of pairs.
LEMMA PairOrder ==
  ASSUME NEW x \in Pairs, NEW y \in Pairs, NEW z \in Pairs
  PROVE  /\ ~Less(y, x) /\ ~Less(z, y) => ~Less(z, x)
         /\ ~Less(x, y) /\ ~Less(y, x) => x = y
         /\ Less(x, y) => ~Less(y, x)
<1>1. /\ x[1] \in Int /\ x[2] \in Int /\ y[1] \in Int /\ y[2] \in Int
      /\ z[1] \in Int /\ z[2] \in Int
  BY DEF Pairs, Byte
<1>2. x = <<x[1], x[2]>> /\ y = <<y[1], y[2]>>
  BY DEF Pairs
<1> QED
  BY <1>1, <1>2, LessPair

LEMMA SixElements ==
  ASSUME NEW B, NEW t \in Seq(B), Len(t) = 6
  PROVE  DOMAIN t = 1..6 /\ \A i \in 1..6 : t[i] \in B
OBVIOUS

LEMMA PairSeq ==
  ASSUME NEW B, NEW r \in Seq(B), Len(r) = 2 PROVE r = <<r[1], r[2]>>
<1>1. DOMAIN r = 1..2 /\ DOMAIN <<r[1], r[2]>> = 1..2
  OBVIOUS
<1>2. r = [i \in 1..2 |-> r[i]]
  BY <1>1
<1>3. <<r[1], r[2]>> = [i \in 1..2 |-> <<r[1], r[2]>>[i]]
  BY <1>1
<1>4. \A i \in 1..2 : r[i] = <<r[1], r[2]>>[i]
  OBVIOUS
<1> QED
  BY <1>2, <1>3, <1>4

LEMMA TwoOfSix ==
  ASSUME NEW B, NEW t \in Seq(B), Len(t) = 6, NEW k \in 1..5
  PROVE  SubSeq(t, k, k + 1) = <<t[k], t[k + 1]>>
<1> DEFINE r == SubSeq(t, k, k + 1)
<1>1. r \in Seq(B)
  BY SixElements
<1>2. Len(r) = 2
  BY SixElements
<1>3. r[1] = t[k]
  BY <1>2
<1>4. r[2] = t[k + 1]
  BY <1>2
<1> HIDE DEF r
<1>5. r = <<t[k], t[k + 1]>>
  BY <1>1, <1>2, <1>3, <1>4, PairSeq
<1> QED
  BY <1>5 DEF r

LEMMA TimeBytes ==
  ASSUME NEW t \in Seq(Byte), Len(t) = 6
  PROVE  /\ DOMAIN t = 1..6
         /\ \A i \in 1..6 : t[i] \in Byte
         /\ SubSeq(t, 2, 3) = <<t[2], t[3]>>
         /\ SubSeq(t, 4, 5) = <<t[4], t[5]>>
<1>1. \A k \in 1..5 : SubSeq(t, k, k + 1) = <<t[k], t[k + 1]>>
  BY TwoOfSix
<1>2. SubSeq(t, 2, 2 + 1) = <<t[2], t[2 + 1]>> /\ SubSeq(t, 4, 4 + 1) = <<t[4], t[4 + 1]>>
  BY <1>1
<1>3. DOMAIN t = 1..6 /\ \A i \in 1..6 : t[i] \in Byte
  BY SixElements
<1> QED
  BY <1>2, <1>3

LEMMA MomentPairs ==
  ASSUME NEW m \in Moments
  PROVE  /\ DayOf(m) \in Pairs /\ TimeOf(m) \in Pairs
         /\ DayOf(m) = <<Calendar[m][2], Calendar[m][3]>>
         /\ TimeOf(m) = <<Calendar[m][4], Calendar[m][5]>>
         /\ \A i \in 1..6 : Calendar[m][i] \in Byte
         /\ DOMAIN Calendar[m] = 1..6
<1>1. Calendar[m] \in Seq(Byte) /\ Len(Calendar[m]) = 6
  BY CalendarAssumption DEF Moments, IsTime
<1> QED
  BY <1>1, TimeBytes DEF DayOf, TimeOf, Sub, Pairs

\* Within a year, a later moment has no earlier day, and on the same day no
\* earlier time.
LEMMA CalendarOrder ==
  ASSUME WithinAYear, NEW m \in Moments, NEW n \in Moments, m <= n
  PROVE  /\ ~Less(DayOf(n), DayOf(m))
         /\ DayOf(m) = DayOf(n) => ~Less(TimeOf(n), TimeOf(m))
<1>1. CASE m = n
  BY <1>1, MomentPairs, PairOrder
<1>2. CASE m < n
  <2> DEFINE s == Calendar[m]
             t == Calendar[n]
  <2>1. Less(s, t) /\ s[1] = t[1]
    BY <1>2, CalendarAssumption DEF WithinAYear
  <2>2. \A i \in 1..6 : s[i] \in Int /\ t[i] \in Int
    <3>1. \A i \in 1..6 : s[i] \in Byte /\ t[i] \in Byte
      BY MomentPairs
    <3>2. \A b \in Byte : b \in Int
      BY DEF Byte
    <3> HIDE DEF s, t
    <3> QED
      BY <3>1, <3>2
  <2>3. DOMAIN s = 1..6
    BY MomentPairs
  <2>4. /\ DayOf(m) = <<s[2], s[3]>> /\ DayOf(n) = <<t[2], t[3]>>
        /\ TimeOf(m) = <<s[4], s[5]>> /\ TimeOf(n) = <<t[4], t[5]>>
    BY MomentPairs
  <2> HIDE DEF s, t
  <2>5. PICK i \in 1..6 : s[i] < t[i] /\ \A j \in 1..(i - 1) : s[j] = t[j]
    BY <2>1, <2>3 DEF Less
  <2>6. i \in {2, 3, 4, 5, 6}
    BY <2>1, <2>2, <2>5
  <2>7. \/ s[2] < t[2]
        \/ s[2] = t[2] /\ s[3] < t[3]
        \/ s[2] = t[2] /\ s[3] = t[3] /\ s[4] < t[4]
        \/ s[2] = t[2] /\ s[3] = t[3] /\ s[4] = t[4] /\ s[5] <= t[5]
    BY <2>2, <2>5, <2>6
  <2>8. /\ DayOf(m) \in Pairs /\ DayOf(n) \in Pairs
        /\ TimeOf(m) \in Pairs /\ TimeOf(n) \in Pairs
    BY MomentPairs
  <2>9. ~Less(DayOf(n), DayOf(m))
    BY <2>2, <2>4, <2>7, <2>8, LessPair
  <2>10. DayOf(m) = DayOf(n) => ~Less(TimeOf(n), TimeOf(m))
    BY <2>2, <2>4, <2>7, <2>8, LessPair
  <2> QED
    BY <2>9, <2>10
<1> QED
  BY <1>1, <1>2, MomentRange

------------------------------------------------------------------------------
\* The meals of a card.

Limit(p) == IF p.times + p.times2 = 0 THEN 1 ELSE p.times + p.times2
Books == [Cards \X Plans \X Days -> Nat]

\* What the day block o of the card c says about its meals M.
Kept(c, o, M) ==
  /\ \A p \in Plans, d \in Days : M[<<c, p, d>>] > 0 =>
       \E m \in Moments : m <= o.at /\ DayOf(m) = d /\ ~Less(TimeOf(m), p.start)
  /\ \A p \in Plans : p.sort = c.sort /\ o.at # 0 /\ InPlan(o.at, p) =>
       M[<<c, p, DayOf(o.at)>>] <= o.count
  /\ \A p \in Plans, d \in Days : M[<<c, p, d>>] <= Limit(p)

\* The day block o is of the period of the plan p at the moment m.
Period(o, m, p) ==
  o.at # 0 /\ DayOf(o.at) = DayOf(m) /\ ~Less(TimeOf(o.at), p.start)

\* The day block n is o, counted up for a meal of the plan q.
CountedUp(o, n, q) ==
  /\ n.at \in Moments /\ o.at <= n.at
  /\ ~Less(q.end, TimeOf(n.at))
  /\ Period(o, n.at, q) => n.count = o.count + 1 /\ o.count < q.times + q.times2
  /\ ~Period(o, n.at, q) => n.count = 1

\* Before the first meal in a period of a plan there is none in the books; a
\* later one is within what the day block counts.
LEMMA MealsBefore ==
  ASSUME WithinAYear, NEW c \in Cards, NEW q \in Plans, q.sort = c.sort,
         NEW o \in Counts, NEW n \in Counts, NEW M \in Books,
         Kept(c, o, M), CountedUp(o, n, q), InPlan(n.at, q)
  PROVE  M[<<c, q, DayOf(n.at)>>] + 1 <= n.count /\ n.count <= Limit(q)
<1> DEFINE k == M[<<c, q, DayOf(n.at)>>]
<1>1. DayOf(n.at) \in Days /\ n.at \in Moments /\ n.at >= 1 /\ n.at \in Nat
  BY MomentRange DEF CountedUp, Days
<1>2. k \in Nat
  BY <1>1 DEF Books
<1>3. o.at \in Moments \cup {0} /\ o.count \in Nat /\ n.count \in Nat
  BY DEF Counts, Byte
<1>4. q.times \in Nat /\ q.times2 \in Nat /\ q.start \in Pairs /\ q.end \in Pairs
  BY PlanAssumption DEF Pairs
<1>5. CASE Period(o, n.at, q)
  <2>1. o.at \in Moments /\ o.at <= n.at /\ DayOf(o.at) = DayOf(n.at)
    BY <1>3, <1>5 DEF Period, CountedUp
  <2>2. ~Less(TimeOf(n.at), TimeOf(o.at))
    BY <1>1, <2>1, CalendarOrder
  <2>3. TimeOf(o.at) \in Pairs /\ TimeOf(n.at) \in Pairs
    BY <1>1, <2>1, MomentPairs
  <2>4. ~Less(q.end, TimeOf(o.at))
    BY <1>4, <2>2, <2>3, PairOrder DEF CountedUp
  <2>5. k <= o.count
    BY <1>5, <2>1, <2>4 DEF Kept, InPlan, Period
  <2>6. n.count = o.count + 1 /\ o.count < q.times + q.times2
    BY <1>5 DEF CountedUp
  <2> HIDE DEF k
  <2>7. k + 1 <= n.count
    BY <1>2, <1>3, <2>5, <2>6
  <2>8. n.count <= Limit(q)
    BY <1>3, <1>4, <2>6 DEF Limit
  <2> QED
    BY <2>7, <2>8 DEF k
<1>6. CASE ~Period(o, n.at, q)
  <2>1. n.count = 1
    BY <1>6 DEF CountedUp
  <2>2. ASSUME k > 0 PROVE FALSE
    <3>1. PICK m \in Moments : m <= o.at /\ DayOf(m) = DayOf(n.at) /\ ~Less(TimeOf(m), q.start)
      BY <1>1, <2>2 DEF Kept
    <3>2. o.at \in Moments /\ o.at # 0 /\ o.at \in Nat /\ m \in Nat
      BY <1>3, <3>1, MomentRange
    <3>3. o.at <= n.at
      BY DEF CountedUp
    <3>4. /\ ~Less(DayOf(o.at), DayOf(m)) /\ ~Less(DayOf(n.at), DayOf(o.at))
      BY <1>1, <3>1, <3>2, <3>3, CalendarOrder
    <3>5. DayOf(o.at) = DayOf(m)
      BY <3>1, <3>2, <3>4, <1>1, MomentPairs, PairOrder
    <3>6. ~Less(TimeOf(o.at), TimeOf(m))
      BY <3>1, <3>2, <3>5, CalendarOrder
    <3>7. TimeOf(o.at) \in Pairs /\ TimeOf(m) \in Pairs
      BY <3>1, <3>2, MomentPairs
    <3>8. ~Less(TimeOf(o.at), q.start)
      BY <1>4, <3>1, <3>6, <3>7, PairOrder
    <3> QED
      BY <1>6, <3>1, <3>2, <3>5, <3>8 DEF Period
  <2>3. k = 0
    <3> HIDE DEF k
    <3> QED
      BY <1>2, <2>2
  <2>4. 1 <= Limit(q)
    BY <1>4 DEF Limit
  <2> QED
    BY <2>1, <2>3, <2>4
<1> QED
  BY <1>5, <1>6

\* A charge that counted up for the plan q keeps the books, whether the meal is
\* one of the plan (its price was paid) or not.
LEMMA MealKept ==
  ASSUME WithinAYear, NEW c \in Cards, NEW q \in Plans, q.sort = c.sort,
         NEW o \in Counts, NEW n \in Counts, NEW M \in Books, NEW N \in Books,
         Kept(c, o, M), CountedUp(o, n, q), InPlan(n.at, q),
         \/ N = M
         \/ /\ N[<<c, q, DayOf(n.at)>>] = M[<<c, q, DayOf(n.at)>>] + 1
            /\ \A p \in Plans, d \in Days :
                 <<p, d>> # <<q, DayOf(n.at)>> => N[<<c, p, d>>] = M[<<c, p, d>>]
  PROVE  Kept(c, n, N)
<1>1. DayOf(n.at) \in Days /\ n.at \in Moments /\ n.at \in Nat
  BY MomentRange DEF CountedUp, Days
<1>2. \A p \in Plans, d \in Days : M[<<c, p, d>>] \in Nat /\ N[<<c, p, d>>] \in Nat
  BY DEF Books
<1>3. /\ N[<<c, q, DayOf(n.at)>>] <= n.count
      /\ N[<<c, q, DayOf(n.at)>>] <= Limit(q)
  <2> DEFINE k == M[<<c, q, DayOf(n.at)>>]
             l == N[<<c, q, DayOf(n.at)>>]
  <2>1. l = k \/ l = k + 1
    OBVIOUS
  <2>2. k + 1 <= n.count /\ n.count <= Limit(q)
    BY MealsBefore
  <2>3. k \in Nat /\ n.count \in Nat /\ Limit(q) \in Nat
    <3>1. q.times \in Nat /\ q.times2 \in Nat
      BY PlanAssumption
    <3>2. n.count \in Nat
      BY DEF Counts, Byte
    <3>3. Limit(q) \in Nat
      BY <3>1 DEF Limit
    <3> QED
      BY <1>1, <1>2, <3>2, <3>3
  <2> HIDE DEF k, l
  <2>4. l <= n.count /\ l <= Limit(q)
    BY <2>1, <2>2, <2>3
  <2> QED
    BY <2>4 DEF l
<1>4. \A p \in Plans, d \in Days :
        <<p, d>> # <<q, DayOf(n.at)>> => N[<<c, p, d>>] = M[<<c, p, d>>]
  OBVIOUS
<1>5. ASSUME NEW p \in Plans, NEW d \in Days, N[<<c, p, d>>] > 0
      PROVE  \E m \in Moments : m <= n.at /\ DayOf(m) = d /\ ~Less(TimeOf(m), p.start)
  <2>1. CASE p = q /\ d = DayOf(n.at)
    BY <1>1, <2>1 DEF InPlan
  <2>2. CASE <<p, d>> # <<q, DayOf(n.at)>>
    <3>1. M[<<c, p, d>>] > 0
      BY <1>4, <1>5, <2>2
    <3>2. PICK m \in Moments : m <= o.at /\ DayOf(m) = d /\ ~Less(TimeOf(m), p.start)
      BY <3>1 DEF Kept
    <3>3. o.at <= n.at /\ o.at \in Nat /\ m \in Nat
      BY MomentRange DEF CountedUp, Counts
    <3> QED
      BY <1>1, <3>2, <3>3
  <2> QED
    BY <2>1, <2>2
<1>6. ASSUME NEW p \in Plans, p.sort = c.sort, n.at # 0, InPlan(n.at, p)
      PROVE  N[<<c, p, DayOf(n.at)>>] <= n.count
  <2>1. CASE p = q
    BY <1>3, <2>1
  <2>2. CASE p # q
    <3>1. Less(p.end, q.start) \/ Less(q.end, p.start)
      BY <1>6, <2>2, DisjointAssumption
    <3>2. /\ ~Less(TimeOf(n.at), p.start) /\ ~Less(p.end, TimeOf(n.at))
          /\ ~Less(TimeOf(n.at), q.start) /\ ~Less(q.end, TimeOf(n.at))
      BY <1>6 DEF InPlan
    <3>3. /\ p.start \in Pairs /\ p.end \in Pairs /\ q.start \in Pairs /\ q.end \in Pairs
          /\ TimeOf(n.at) \in Pairs
      BY <1>1, PlanAssumption, MomentPairs DEF Pairs
    <3>4. ~Less(p.end, q.start) /\ ~Less(q.end, p.start)
      BY <3>2, <3>3, PairOrder
    <3> QED
      BY <3>1, <3>4
  <2> QED
    BY <2>1, <2>2
<1>7. ASSUME NEW p \in Plans, NEW d \in Days PROVE N[<<c, p, d>>] <= Limit(p)
  <2>1. CASE p = q /\ d = DayOf(n.at)
    BY <1>3, <2>1
  <2>2. CASE <<p, d>> # <<q, DayOf(n.at)>>
    BY <1>4, <2>2 DEF Kept
  <2> QED
    BY <2>1, <2>2
<1> QED
  BY <1>5, <1>6, <1>7 DEF Kept

\* Until the clock is set, no card and no buffer is ahead of the time the terminal
\* compares.
TimeFlows ==
  timeSet = "never" =>
    /\ SysTimeDatas <= sys
    /\ \A c \in Cards : onCard[c].at <= SysTimeDatas
    /\ MainWrBufferBak # NoBuffer => MainWrBufferBak.at <= SysTimeDatas
    /\ ConsumCase \in {"3", "4"} => counted.at <= SysTimeDatas

\* What the terminal counted is what the card has, counted up for one meal or not.
CountIsTaken ==
  /\ ConsumCase = "plan" =>
       counted = onCard[current] /\ mealOf = NoPlan /\ priced = NoPlan
  /\ ConsumCase \in {"3", "4"} =>
       \/ mealOf = NoPlan /\ priced = NoPlan /\ counted = onCard[current]
       \/ /\ mealOf \in Plans /\ priced \in {NoPlan, mealOf}
          /\ mealOf.sort = current.sort
          /\ timeSet = "never" => CountedUp(onCard[current], counted, mealOf)

BooksAreKept ==
  timeSet = "never" =>
    \A c \in Cards \ (early \cup restored) : Kept(c, onCard[c], meals)

\* A charge, its failure and its repetition write the count of this charge to the
\* card or the one of the buffer, and the buffer becomes that of this charge.
LEMMA ChargeSteps ==
  ASSUME Charge \/ ChargeFails \/ ChargeAgain \/ ChargeAgainFails
  PROVE  /\ ConsumCase \in {"3", "4", "4.changed"}
         /\ UNCHANGED <<current, counted, mealOf, priced, timeSet, sys, rtc>>
         /\ MainWrBufferBak' \in {MainWrBufferBak, counted}
         /\ SysTimeDatas' \in {SysTimeDatas, sys, rtc}
         /\ restored \subseteq restored'
         /\ \/ onCard' = onCard /\ ConsumCase \in {"3", "4", "4.changed"}
            \/ /\ ConsumCase \in {"3", "4"}
               /\ onCard' = [onCard EXCEPT ![current] = counted]
            \/ /\ ConsumCase = "4" /\ MainWrBufferBak # NoBuffer
               /\ current \in restored'
               /\ onCard' = [onCard EXCEPT ![current] = MainWrBufferBak]
  BY DEF Charge, ChargeFails, ChargeAgain, ChargeAgainFails, WriteAgain, Recorded, clocks, screen

LEMMA FlowsNext ==
  ASSUME Typed, ClocksAgree, TimeFlows, CountIsTaken, [Next]_vars
  PROVE  TimeFlows'
<1> USE DEF clocks, sold, machine
<1>1. /\ rtc \in Nat /\ sys \in Nat /\ SysTimeDatas \in Nat
      /\ \A c \in Cards : onCard[c].at \in Nat
      /\ MainWrBufferBak # NoBuffer => MainWrBufferBak.at \in Nat
      /\ counted.at \in Nat
  BY MomentRange DEF Typed, TypeOK, Counts
<1>2. timeSet # "now" => sys = rtc
  BY DEF ClocksAgree
<1>3. CASE /\ UNCHANGED <<sys, SysTimeDatas, timeSet, onCard, MainWrBufferBak>>
           /\ \/ UNCHANGED <<ConsumCase, counted>>
              \/ ConsumCase' \notin {"3", "4"}
  BY <1>3 DEF TimeFlows
<1>4. CASE \/ RequestCard \/ BalanceFails \/ CardLeft
           \/ Place \/ Remove \/ SetAmount \/ SetMode \/ UNCHANGED vars
  BY <1>3, <1>4
  DEF RequestCard, BalanceFails, CardLeft, Place, Remove, SetAmount, SetMode, vars
<1>5. CASE \/ \E plans \in Downloads : SetSortPrince(plans)
           \/ \E c \in Cards : AddBlkNum(c.number) \/ DelBlkNum(c.number)
           \/ DelAddBlkNum \/ ClrPosDatas \/ ClrBlkNum
  BY <1>3, <1>5
  DEF SetSortPrince, AddBlkNum, DelBlkNum, DelAddBlkNum, ClrPosDatas, ClrBlkNum
<1>6. CASE \E m \in Times : SetTime2(m)
  BY <1>6 DEF SetTime2, TimeFlows
<1>7. CASE Tick
  BY <1>1, <1>7 DEF Tick, TimeFlows
<1>8. CASE Charge \/ ChargeFails \/ ChargeAgain \/ ChargeAgainFails
  <2> SUFFICES ASSUME timeSet' = "never" PROVE TimeFlows'
    BY DEF TimeFlows
  <2>1. /\ UNCHANGED <<current, counted, timeSet, sys>>
        /\ MainWrBufferBak' \in {MainWrBufferBak, counted}
        /\ SysTimeDatas' \in {SysTimeDatas, sys, rtc}
    BY <1>8, ChargeSteps
  <2>2. timeSet = "never" /\ SysTimeDatas <= SysTimeDatas' /\ SysTimeDatas' <= sys
    BY <1>1, <1>2, <2>1 DEF TimeFlows
  <2>3. SysTimeDatas' \in Nat
    BY <1>1, <2>1
  <2>4. CASE ConsumCase \in {"3", "4"}
    <3>1. \A n \in {counted, MainWrBufferBak} : n # NoBuffer => n.at <= SysTimeDatas'
      BY <1>1, <2>2, <2>3, <2>4 DEF TimeFlows
    <3>2. counted # NoBuffer
      BY BufferAssumption DEF Typed, TypeOK
    <3>3. \/ onCard' = onCard
          \/ \E n \in {counted, MainWrBufferBak} :
               n # NoBuffer /\ onCard' = [onCard EXCEPT ![current] = n]
      BY <1>8, <3>2, ChargeSteps
    <3>4. ASSUME NEW c \in Cards PROVE onCard'[c].at <= SysTimeDatas'
      <4>1. onCard[c].at <= SysTimeDatas'
        BY <1>1, <2>2, <2>3 DEF TimeFlows
      <4> QED
        BY <3>1, <3>3, <4>1 DEF Typed, TypeOK
    <3> QED
      BY <2>1, <2>2, <3>1, <3>2, <3>4 DEF TimeFlows
  <2>5. CASE ConsumCase = "4.changed"
    <3>1. ConsumCase' = "5" /\ UNCHANGED <<onCard, MainWrBufferBak, SysTimeDatas>>
      BY <1>8, <2>5 DEF Charge, ChargeFails, ChargeAgain, ChargeAgainFails, WriteAgain
    <3> QED
      BY <1>3, <2>1, <3>1
  <2> QED
    BY <1>8, <2>4, <2>5, ChargeSteps
<1>9. CASE PowerCut
  <2>1. /\ SysTimeDatas' = rtc /\ onCard' = onCard /\ sys' = rtc
        /\ MainWrBufferBak' = NoBuffer /\ ConsumCase' = "1"
        /\ timeSet' = "never" => timeSet = "never"
    BY <1>9 DEF PowerCut
  <2> QED
    BY <1>1, <1>2, <2>1 DEF TimeFlows
<1>10. CASE ReadCard
  <2>1. UNCHANGED <<sys, SysTimeDatas, timeSet, onCard, MainWrBufferBak>>
    BY <1>10 DEF ReadCard
  <2>2. \/ ConsumCase' = "5"
        \/ card \in Cards /\ counted' = onCard[card]
    BY <1>10 DEF ReadCard, Typed, TypeOK
  <2> QED
    BY <2>1, <2>2 DEF TimeFlows
<1>11. CASE LookAtPlan
  <2>1. UNCHANGED <<sys, SysTimeDatas, timeSet, onCard, MainWrBufferBak>> /\ ConsumCase = "plan"
    BY <1>11 DEF LookAtPlan
  <2>2. \/ ConsumCase' \notin {"3", "4"}
        \/ counted'.at = SysTimeDatas
    BY <1>11, <2>1 DEF LookAtPlan, Price, Meal, Refuse
  <2> QED
    BY <1>1, <2>1, <2>2 DEF TimeFlows
<1> QED
  BY <1>4, <1>5, <1>6, <1>7, <1>8, <1>9, <1>10, <1>11 DEF Next

\* A price counts up once.
LEMMA PriceCountsUp ==
  ASSUME Typed, TimeFlows, CountIsTaken, ConsumCase = "plan", NEW p \in Plans,
         Fits(p), Price(p), UNCHANGED <<onCard, current, SysTimeDatas, timeSet>>
  PROVE  CountIsTaken'
<1>1. counted = onCard[current] /\ current \in Cards
  BY DEF CountIsTaken, Typed, CardIsRead
<1>2. p.times \in Nat /\ p.times2 \in Nat /\ counted.count \in Nat
  <2>1. counted \in Counts
    BY DEF Typed, TypeOK
  <2>2. counted.count \in Nat
    BY <2>1 DEF Counts, Byte
  <2> QED
    BY <2>2, PlanAssumption
<1>3. SysTimeDatas \in Moments /\ (timeSet = "never" => counted.at <= SysTimeDatas)
  BY <1>1 DEF Typed, TypeOK, TimeFlows
<1>4. p.sort = current.sort /\ ~Less(p.end, TimeOf(SysTimeDatas))
  BY DEF Fits
<1>5. InPeriod(p) <=> Period(counted, SysTimeDatas, p)
  BY DEF InPeriod, Period
<1>6. ASSUME NEW a, NEW n, Meal(a, n, p),
             InPeriod(p) => n = counted.count + 1 /\ counted.count < p.times + p.times2,
             ~InPeriod(p) => n = 1
      PROVE  CountIsTaken'
  <2>1. /\ counted' = [at |-> SysTimeDatas, count |-> n]
        /\ priced' = p /\ mealOf' = p /\ ConsumCase' = "3"
    BY <1>6 DEF Meal
  <2>2. timeSet = "never" => CountedUp(counted, counted', p)
    BY <1>3, <1>4, <1>5, <1>6, <2>1 DEF CountedUp
  <2> QED
    BY <1>1, <1>4, <2>1, <2>2 DEF CountIsTaken
<1>7. CASE Refuse
  BY <1>7 DEF Refuse, CountIsTaken
<1>8. CASE ~InPeriod(p) /\ Meal(p.price, 1, p)
  BY <1>6, <1>8
<1>9. CASE InPeriod(p) /\ counted.count < p.times /\ Meal(p.price, counted.count + 1, p)
  BY <1>2, <1>6, <1>9
<1>10. CASE /\ InPeriod(p) /\ counted.count - p.times < p.times2
            /\ Meal(p.price2, counted.count + 1, p)
  BY <1>2, <1>6, <1>10
<1> QED
  BY <1>7, <1>8, <1>9, <1>10 DEF Price

LEMMA TakenNext ==
  ASSUME Typed, TimeFlows, CountIsTaken, [Next]_vars PROVE CountIsTaken'
<1> USE DEF clocks, sold, machine, screen
<1>1. CASE ConsumCase' \notin {"plan", "3", "4"}
  BY <1>1 DEF CountIsTaken
<1>2. CASE /\ UNCHANGED <<ConsumCase, counted, onCard, current, mealOf>>
           /\ priced' \in {priced, NoPlan} /\ timeSet' \in {timeSet, "now"}
  BY <1>2 DEF CountIsTaken
<1>3. CASE \/ RequestCard \/ BalanceFails \/ CardLeft
           \/ Charge \/ ChargeAgain \/ ChargeAgainFails \/ PowerCut
  BY <1>1, <1>3
  DEF RequestCard, BalanceFails, CardLeft, Charge, ChargeAgain, ChargeAgainFails, PowerCut
<1>8. CASE ChargeFails
  <2>1. /\ ConsumCase = "3" /\ UNCHANGED <<counted, current, mealOf, priced, timeSet>>
        /\ ConsumCase' = "4.changed" \/ onCard' = onCard
        /\ ConsumCase' \in {"4", "4.changed"}
    BY <1>8 DEF ChargeFails
  <2> QED
    BY <1>1, <2>1 DEF CountIsTaken
<1>4. CASE ReadCard
  <2>1. current' = card /\ onCard' = onCard /\ priced' = NoPlan /\ mealOf' = NoPlan
    BY <1>4 DEF ReadCard
  <2>2. ConsumCase' = "5" \/ counted' = onCard[card]
    BY <1>4 DEF ReadCard
  <2> QED
    BY <1>1, <2>1, <2>2 DEF CountIsTaken
<1>5. CASE LookAtPlan
  <2>1. UNCHANGED <<onCard, current, SysTimeDatas, timeSet>> /\ ConsumCase = "plan"
    BY <1>5 DEF LookAtPlan
  <2>2. PICK p \in RowsRead(planId) :
          \/ Refuse
          \/ p # NoPlan /\ Fits(p) /\ Price(p)
          \/ UNCHANGED <<ConsumCase, counted, CurrentConsumMoney, priced, mealOf>>
    BY <1>5 DEF LookAtPlan
  <2>3. p \in Plans \cup {NoPlan}
    <3>1. moneyplan \in Seq(Rows) /\ \A i \in DOMAIN moneyplan : moneyplan[i] \in Rows
      BY DEF Typed, TypeOK
    <3>2. \A i \in DOMAIN moneyplan : moneyplan[i].plan \in Plans
      BY <3>1 DEF Rows
    <3>3. stru \in Plans \cup {NoPlan}
      BY DEF Typed, TypeOK
    <3> QED
      BY <2>2, <3>1, <3>2, <3>3, RowsReadTypes
  <2>4. CASE Refuse
    BY <1>1, <2>4 DEF Refuse
  <2>5. CASE p # NoPlan /\ Fits(p) /\ Price(p)
    BY <2>1, <2>3, <2>5, PriceCountsUp
  <2>6. CASE UNCHANGED <<ConsumCase, counted, CurrentConsumMoney, priced, mealOf>>
    BY <1>2, <2>1, <2>6
  <2> QED
    BY <2>2, <2>4, <2>5, <2>6
<1>6. CASE Place \/ Remove \/ SetAmount \/ SetMode \/ Tick \/ UNCHANGED vars
  BY <1>2, <1>6 DEF Place, Remove, SetAmount, SetMode, Tick, vars
<1>7. CASE \/ \E plans \in Downloads : SetSortPrince(plans)
           \/ \E c \in Cards : AddBlkNum(c.number) \/ DelBlkNum(c.number)
           \/ DelAddBlkNum \/ ClrPosDatas \/ ClrBlkNum
           \/ \E m \in Times : SetTime2(m)
  BY <1>2, <1>7
  DEF SetSortPrince, AddBlkNum, DelBlkNum, DelAddBlkNum, ClrPosDatas, ClrBlkNum, SetTime2
<1> QED
  BY <1>3, <1>4, <1>5, <1>6, <1>7, <1>8 DEF Next

\* A count that is written keeps the books of its card, unless it is the one of
\* another charge, and no other card's change.
LEMMA WriteKept ==
  ASSUME WithinAYear, Typed, CountIsTaken, BooksAreKept, ConsumCase \in {"3", "4"},
         timeSet' = timeSet, restored \subseteq restored', Noted,
         Eaten \/ meals' = meals,
         \/ onCard' = [onCard EXCEPT ![current] = counted]
         \/ /\ current \in restored' /\ MainWrBufferBak # NoBuffer
            /\ onCard' = [onCard EXCEPT ![current] = MainWrBufferBak]
  PROVE  BooksAreKept'
<1> DEFINE o == onCard[current]
           place == <<current, priced, DayOf(counted.at)>>
           Out == early' \cup restored'
<1>2. current \in Cards /\ o \in Counts /\ counted \in Counts /\ meals \in Books
  BY DEF Typed, TypeOK, CardIsRead, Books
<1>3. /\ \A c \in Cards : c # current => onCard'[c] = onCard[c]
      /\ current \in restored' \/ onCard'[current] = counted
  BY <1>2 DEF Typed, TypeOK
<1>4. early \cup restored \subseteq Out
      /\ (current \notin early' /\ mealOf # NoPlan => InPlan(counted.at, mealOf))
  BY DEF Noted
<1>5. \/ meals' = meals
      \/ /\ priced # NoPlan /\ InPlan(counted.at, priced) /\ meals' \in Books
         /\ \A x \in Cards \X Plans \X Days :
              meals'[x] = IF x = place THEN meals[x] + 1 ELSE meals[x]
  <2>1. CASE meals' = [meals EXCEPT ![place] = @ + 1] /\ priced # NoPlan
             /\ InPlan(counted.at, priced)
    <3> HIDE DEF place
    <3> QED
      BY <1>2, <2>1, OneMore DEF Books
  <2> QED
    BY <2>1 DEF Eaten
<1>6. ASSUME NEW c \in Cards \ Out, timeSet = "never", c # current
      PROVE  Kept(c, onCard'[c], meals')
  <2>1. Kept(c, onCard[c], meals)
    BY <1>4, <1>6 DEF BooksAreKept
  <2>2. \A p \in Plans, d \in Days : meals'[<<c, p, d>>] = meals[<<c, p, d>>]
    BY <1>5, <1>6
  <2>3. onCard[c].at \in Moments \/ onCard[c].at = 0
    BY DEF Typed, TypeOK, Counts
  <2> HIDE DEF place, Out
  <2> QED
    BY <1>3, <1>6, <2>1, <2>2, <2>3 DEF Kept, Days
<1>7. ASSUME current \notin Out, timeSet = "never"
      PROVE  Kept(current, onCard'[current], meals')
  <2>1. Kept(current, o, meals) /\ onCard'[current] = counted
    BY <1>2, <1>3, <1>4, <1>7 DEF BooksAreKept
  <2>2. CASE mealOf = NoPlan
    <3>1. priced = NoPlan /\ counted = o
      BY <2>2, PlanAssumption DEF CountIsTaken
    <3>2. meals' = meals
      BY <1>5, <3>1
    <3> QED
      BY <2>1, <3>1, <3>2
  <2>3. CASE mealOf # NoPlan
    <3>1. /\ mealOf \in Plans /\ priced \in {NoPlan, mealOf} /\ mealOf.sort = current.sort
          /\ CountedUp(o, counted, mealOf)
      BY <1>7, <2>3 DEF CountIsTaken
    <3>2. InPlan(counted.at, mealOf)
      BY <1>4, <1>7, <2>3
    <3>3. DayOf(counted.at) \in Days
      BY <3>1 DEF CountedUp, Days
    <3>4. CASE meals' = meals
      <4> HIDE DEF o, Out, place
      <4> QED
        BY <1>2, <2>1, <3>1, <3>2, <3>4, MealKept
    <3>5. CASE /\ priced # NoPlan /\ meals' \in Books
               /\ \A x \in Cards \X Plans \X Days :
                    meals'[x] = IF x = place THEN meals[x] + 1 ELSE meals[x]
      <4>1. place = <<current, mealOf, DayOf(counted.at)>>
        BY <3>1, <3>5
      <4> HIDE DEF place, Out
      <4>2. /\ meals'[<<current, mealOf, DayOf(counted.at)>>]
                 = meals[<<current, mealOf, DayOf(counted.at)>>] + 1
            /\ \A p \in Plans, d \in Days :
                 <<p, d>> # <<mealOf, DayOf(counted.at)>> =>
                   meals'[<<current, p, d>>] = meals[<<current, p, d>>]
        BY <1>2, <3>1, <3>3, <3>5, <4>1
      <4> HIDE DEF o
      <4> QED
        BY <1>2, <2>1, <3>1, <3>2, <3>5, <4>2, MealKept
    <3> QED
      BY <1>5, <3>4, <3>5
  <2> QED
    BY <2>2, <2>3
<1> QED
  BY <1>6, <1>7 DEF BooksAreKept

LEMMA BooksNext ==
  ASSUME WithinAYear, Typed, CountIsTaken, BooksAreKept, [Next]_vars
  PROVE  BooksAreKept'
<1> USE DEF clocks, sold
<1>1. CASE UNCHANGED <<onCard, meals, early, restored>>
           /\ (timeSet' = "never" => timeSet = "never")
  BY <1>1 DEF BooksAreKept
<1>2. CASE Charge
  BY <1>2, WriteKept DEF Charge, Recorded
<1>3. CASE ChargeFails
  <2>1. \/ UNCHANGED <<onCard, meals, early, restored>>
        \/ /\ onCard' = [onCard EXCEPT ![current] = counted]
           /\ Noted /\ meals' = meals /\ restored' = restored /\ ConsumCase = "3"
    BY <1>3 DEF ChargeFails
  <2>2. timeSet' = timeSet
    BY <1>3 DEF ChargeFails
  <2> QED
    BY <1>1, <2>1, <2>2, WriteKept
<1>4. ASSUME WriteAgain, Eaten \/ meals' = meals, timeSet' = timeSet
      PROVE  BooksAreKept'
  <2>1. /\ restored \subseteq restored' /\ Noted /\ ConsumCase = "4"
        /\ \/ onCard' = [onCard EXCEPT ![current] = counted]
           \/ /\ current \in restored' /\ MainWrBufferBak # NoBuffer
              /\ onCard' = [onCard EXCEPT ![current] = MainWrBufferBak]
    BY <1>4 DEF WriteAgain
  <2> QED
    BY <1>4, <2>1, WriteKept
<1>5. CASE ChargeAgain
  BY <1>4, <1>5 DEF ChargeAgain, Recorded
<1>6. CASE ChargeAgainFails
  BY <1>1, <1>4, <1>6 DEF ChargeAgainFails
<1>7. CASE \/ RequestCard \/ ReadCard \/ LookAtPlan \/ BalanceFails
           \/ CardLeft \/ Place \/ Remove \/ SetAmount \/ SetMode \/ Tick \/ PowerCut
  BY <1>1, <1>7
  DEF RequestCard, ReadCard, LookAtPlan, BalanceFails, CardLeft, Place, Remove,
      SetAmount, SetMode, Tick, PowerCut
<1>8. CASE \/ \E plans \in Downloads : SetSortPrince(plans)
           \/ \E c \in Cards : AddBlkNum(c.number) \/ DelBlkNum(c.number)
           \/ DelAddBlkNum \/ ClrPosDatas \/ ClrBlkNum
           \/ \E m \in Times : SetTime2(m)
           \/ UNCHANGED vars
  BY <1>1, <1>8
  DEF SetSortPrince, AddBlkNum, DelBlkNum, DelAddBlkNum, ClrPosDatas, ClrBlkNum, SetTime2, vars
<1> QED
  BY <1>2, <1>3, <1>5, <1>6, <1>7, <1>8 DEF Next

MealInv == ClocksAgree /\ TimeFlows /\ CountIsTaken /\ BooksAreKept

LEMMA MealInit == Init => MealInv
<1> SUFFICES ASSUME Init PROVE MealInv
  OBVIOUS
<1>1. ClocksAgree /\ TimeFlows /\ CountIsTaken
  BY DEF Init, ClocksAgree, TimeFlows, CountIsTaken, NeverCounted
<1>2. \A p \in Plans : Limit(p) \in Nat
  <2>1. \A p \in Plans : p.times \in Nat /\ p.times2 \in Nat
    BY PlanAssumption
  <2> QED
    BY <2>1 DEF Limit
<1>3. BooksAreKept
  BY <1>2 DEF Init, BooksAreKept, Kept, NeverCounted
<1> QED
  BY <1>1, <1>3 DEF MealInv

\* Within one year, and until the clock is set, a card gets no more meals of a plan
\* and a day than the plan allows.
THEOREM MealsKept == ASSUME WithinAYear PROVE Spec => []MealsWithinPlan
<1>1. Init => MealInv
  BY MealInit
<1>2. Typed /\ MealInv /\ [Next]_vars => MealInv'
  BY ClocksNext, FlowsNext, TakenNext, BooksNext DEF MealInv
<1>3. Typed /\ MealInv => MealsWithinPlan
  BY DEF MealInv, BooksAreKept, Kept, Limit, MealsWithinPlan
<1> QED
  BY <1>1, <1>2, <1>3, TypedAlways, PTL DEF Spec
===============================================================================
