# Verification of the A33 consume terminal

This directory holds TLA+ specifications of the program in `src/`: the firmware
of a card-payment terminal ("consume machine") on an Allwinner A33 board. A
customer places a Mifare card, the terminal takes an amount from the purse on the
card and stores a record of the consumption; a server (the "PosServer") collects
the records over UDP; a screen process ("QT") shows the amounts and sets them.

Contents: [the system](#the-system), [what is modelled](#what-is-modelled),
[runs](#runs), [bounds](#bounds), [fairness](#fairness), [proofs](#proofs),
[disagreements found](#disagreements-found), [not modelled](#not-modelled),
[plan](#plan).

To check a run: `tlc -config <cfg> <module>`, for example
`tlc -config Consume_swap.cfg Consume`, or `tlc -config Tariff.cfg MCTariff` (the
run's module is named in `PROJECT.json`). To check the proofs: `tlapm` on each
module whose name ends in `Proofs`, and on `NatLemmas`.

## The system

One process with three threads, a signal handler and the hardware.

| actor | code | what it does |
|---|---|---|
| main loop | `ykt_app.c:1069-1114` (`app_ykt_main`) | each turn: one step of the consumption machine, then the server's request if a flag says there is one |
| server thread | `ykt_app.c:684-734` (`app_ykt_get_serverdata_thread`) | receives datagrams into `SerialUnion`, checks them, sets the flag |
| QT thread | `ykt_app.c:205-334`, `tcpclientToQT.c` | receives commands of the screen, sets the amount and the mode, queries the journal, answers through `recv_msg` |
| SIGALRM | `sysTime.c`, `ykt_app.c:850-888` | periodic messages to the screen |
| the PosServer | external | asks for records, acknowledges them, sets parameters |
| the card, the customer | external | placed, taken away, swapped at any moment |

### Components

| component | state | operations | hard behaviour | what makes it correct |
|---|---|---|---|---|
| consume journal and its collection | table `consume`, `SaveRecordIndex`, `NoCollectRecordIndex`, `SerialSendNoCollectNum`, `recordSt` | store a record, upload (`RD_RECORD`), acknowledge (`DEL_RECORD`), upload a day again (`RD_RERECORD`), clear, start-up | lost replies and retries; power cuts between the updates of an acknowledgement; writes that fail while the QT thread reads | no record is given up before the server has it; each record gets there |
| card payment | `ConsumCase`, the amount, the purse as it was read, the two write buffers; on the card: two blocks of a purse, a day block | read, check, debit, record, retry, wait | the card leaves or is swapped between, and inside, the steps; torn writes; the amount changes under the check | one debit per service and per presentation, within balance and limits; a record for each debit, and only for those; a readable purse after every interruption |
| price plan | table of plans and periods | the price of this meal for this card type | time windows, counters per day | the price is the one of the plan in force |
| server link | `SerialUnion`, `breadDataFronSocket` (the request flag) | receive, execute, answer | two threads on one buffer without a lock | each request is answered in the end, with its own data |
| QT channel | `recv_msg`, the socket | commands and replies | three writers of one buffer | a reply is not mixed with another |
| parameters and files | RAM copies, `posInformation.txt`, `ip.txt`, `consumemode.txt` | SET and RD commands, start-up | a power cut in a rewrite; RAM and file written separately | after each command RAM, file and answer agree |
| blacklist and plan tables | `blknumber`, `moneyplan` | add, delete, clear, look up | ids that wrap, a lookup that fails | a listed card is refused |
| clock | RTC, system time, `SysTimeDatas` | set, read | a date that was read before midnight | the date of a record is the day it was made |
| timers | SIGALRM handlers | tick | runs in the middle of everything | - |
| conversions | none | BCD, hexadecimal, checksums | widths | they are inverse to each other |
| MFRC522 driver | the reader's registers | request, authenticate, read, write | time-outs | a block is written and read back |
| CPU card and ciphers | none | - | - | the calls are commented out |
| voice, beep, battery, IP | none | I/O | - | - |
| vendored code | - | SQLite, cJSON, ALSA | - | - |

How they interact. The consumption machine calls the journal
(`app_ykt_save_record`) when a debit is complete. The QT thread stores
`CurrentConsumMoney` and `consumeMode`, which the machine reads, with no lock, and
queries the journal on its own connection, kept in the global handle the main
loop also uses. The server thread hands a request to the main loop through
`SerialUnion` and a flag; the handlers of `ReceiveSub` change the journal, the
parameters and the tables, in the main loop, so that a handler never runs inside
a step of the machine.

The hazards these interactions bring are listed, at their lines and with the
properties that cover them, in `PROJECT.json` under `hazards`.

## What is modelled

| module | models | |
|---|---|---|
| `RecordStore` | journal and collection | component |
| `Ledger` | what the journal promises | abstract specification of `RecordStore` |
| `Consume` | consumption machine and Mifare purse | component |
| `Till` | what paying by card promises | abstract specification of `Consume` |
| `RecordStoreProofs` | theorems of `RecordStore` | proofs |
| `ConsumeProofs` | theorems of `Consume`: types, the limit of the day | proofs |
| `PurseProofs` | theorems of `Consume`: one debit, the minimum | proofs |
| `TillProofs` | theorems of `Consume`: readable purses, true records, the `Till` | proofs |
| `NatLemmas` | remainder, least and greatest elements | lemmas |
| `ServerLink` | receive thread, main loop, buffer, answer | component |
| `Parameters` | SET and RD commands, RAM, `posInformation.txt`, start-up | component |
| `Settings` | what the parameters promise | abstract specification of `Parameters` |
| `Terminal` | `ServerLink` and `Parameters` with a server and power cuts | composition |
| `Conversions` | BCD bytes and amounts, checksums, swapped words, bytes as text, packed time, order of `memcmp` | operators |
| `Tariff` | price plans, blacklist, the three clocks | component |
| `TerminalProofs` | theorems of `Terminal` | proofs |
| `TariffProofs` | theorems of `Tariff` | proofs |
| `ConversionsProofs` | theorems of `Conversions` | proofs |
| `MCTerminal`, `MCTariff` | small instances of `Terminal` and `Tariff` | for TLC |

### RecordStore

The state variables carry the names of the code. A row is `[txn, tag]`: `txn`
stands for all the data of the record and its checksum; `tag` is the `recordTag`
column. Each handler of the main loop is one action, because the main loop is the
only thread that runs them:

| action | code |
|---|---|
| `SaveRecord` | `app_ykt_save_record` (`ykt_app.c`) and `sqlite3_save_record` |
| `RdRecord(nums)` | `RD_RECORD_COMD` with `nums` records asked for |
| `RdSortPrince(nums)` | `RD_SORTPRINCE_COMD`, whose body is commented out and which falls through into `RD_RECORD_COMD` |
| `RdReRecord`, `DelReRecord` | `RD_RERECORD_COMD`, `DEL_RERECORD_COMD` |
| `DelRecord` | `DEL_RECORD_COMD` and `sqlite3_consume_move_db` |
| `ClrPosDatas` | `CLR_POSDATAS_COMD` |
| `PowerCut`, `DelRecordPowerCut` | start-up, `app_ykt_main` and the queries for the two pointers |
| `QtQueryBegin`, `QtQueryEnd` | a `SELECT` of the QT thread |
| `ReceiveReply`, `LoseReply` | the network and the server (external) |

What the model takes from the code in particular:

- The result of an `INSERT` or `UPDATE` is ignored by every caller. A write can
  fail with `SQLITE_BUSY` while the QT thread is stepping through a `SELECT`
  (`WriteOutcome`). `SaveRecordIndex` then moves on, and the table has a hole.
- A row that is missing leaves the shared buffer `recordSt` as it was, so an
  upload over a hole sends the record that was read before it again
  (`BufferAfter`, `UploadOf`).
- An acknowledgement is one `UPDATE` per row, each a transaction of its own. A
  power cut may fall between any two of them.
- `RD_RERECORD` starts at 0 (the day that is asked for is never looked up), with a
  loop variable that is not initialised: the number of turns is a
  nondeterministic choice.
- `CLR_POSDATAS` deletes the rows and leaves the pointers.

Assumed of the server: it counts a reply as received only if the frame number it
carries (`UartFrameNum`, echoed by the terminal) is the one of its last request.
A late reply of an earlier request is thus the same as a lost one. Without it,
`CountedWasReceived` would not hold.

`Ledger` has three sets: accepted, held, received. A record may leave `held` only
if it is in `received`, or when everything is cleared. `LedgerSpec` is its
specification with `held` mapped to the rows whose tag is 0.

### Consume

A card has its purses, each two blocks of an amount, a 16-bit counter and whether
the block's checksum is right, and a day block with the total and its date. The
machine's place is `ConsumCase`: "0" to "5" as in the code, with case 3 split
before the purse write, the day write and the record ("3.purse", "3.day",
"3.record"), the points between which a card can leave and the QT thread can
store an amount.

| action | code |
|---|---|
| `Start`, `RequestCard` | cases 0 and 1 of `app_ykt_consume` |
| `ReadCommonFails`, `ReadCard` | case 2: `ReadCardCommonDatas`, `SearchPurseBalnanceDatas`, `ReadCardBalanceDatas_M1` |
| `CardBalanceDiag` | case 3: the checks and reading the clock |
| `DetectFails`, `WritePurseFails`, `WritePurse` | `ConsumPocess`, `WriteBalanceToCard_M1`: detection (`Undetected`) and the purse block |
| `WriteDayFails`, `WriteDay` | `WriteBalanceToCard_M1`: the day block |
| `SaveRecord` | the record of a complete debit |
| `RewriteCardGone`, `RewriteRefused`, `RewriteFails`, `Rewrite` | case 4: `CheckCardPrinterNum`, `ReWriteCardSub_M1` |
| `CardLeft` | case 5: no card (`Gone`), or a card in place that three tries of the radio did not find (`MissedInPlace`) |
| `Place`, `Remove`, `Elsewhere`, `NewDay` | customer, another terminal, the clock (external) |
| `SetAmount`, `SetMode` | the QT commands that store the amount and the mode |
| `PowerCut` | a restart |

What the model takes from the code in particular:

- Which block holds the balance (`Candidates`): the one with the smaller amount
  whose counter follows the other's, with wrap; if both blocks are equal, the
  choice rests on `memcmp(..) == 1`, which C does not define for the positive
  results other than 1, so both outcomes are possible. Both blocks must have a
  right checksum.
- The status of the purse search is not looked at (`ykt_app.c:515`): a card whose
  purse cannot be read is served with what the RAM holds of the card before.
- The sub-purse is read when the main purse is below the minimum; the debit
  always writes the main purse.
- A failed write may have been carried out, or not, or be torn; in each case the
  code sees the same error. Which of these a run includes is its `Faults`.
- Case 4 comes at once after a failed debit, once, and compares the card with
  both write buffers, whichever debit they are from.
- The amount is read from the shared variable at each use. The fault "qt" lets
  the QT thread store another amount between two uses.
- `CardBalanceDiag` sums up by day, by month or not at all, as `Limit_MoneySign`
  says (`SpentInPeriod`, `Affordable`), and the day block is summed up by month or
  by day (`SamePeriod`, `DayImage`).
- A request fails after three tries of the radio (`MFRC522.c:490-533`), which the
  fault "miss" lets happen with the card in place: before the purse write and in
  case 4 (`Undetected`), and in case 5, where one failed request ends the wait
  (`ykt_app.c:652-678`).

Two ways to a second debit of a card that stays where it is are thus the code's own.
Missed once in case 5, it is found by the next request and served as if it had just
been placed, if an amount is set (a ration, a plan, or one the clerk has just
entered); and a restart serves the card that lies there. Two properties say what
still holds. `DebitAtMostOnce` counts from one request that finds a card to the
next: `debits` is reset in `RequestCard` and nowhere else, not by a restart, not by
a card that is placed. `PlacedPaysOnce` is about presentations: all that was taken
from all cards is at most one amount for each time a card was placed, missed in
case 5 or debited elsewhere. It is checked without restarts, because after one the
card in place pays again, and with purses that can be read.

`DayLimitIsKept` is about what was bought, not about the sum in the day block,
which a repetition may lower: the history `bought` sums up the records of a card in
the period of its last record, with the date each debit was begun on. Left out are
the cards in `restored`, to which case 4 wrote the day block of another debit
(`Consume_daytotal`), and what was taken without a record (`Consume_unrecorded`).

Taken as given: a card is first seen with two equal blocks, with any count
(`NewCard`, `OpeningCount`; issuing is not part of this program). The clock the
machine reads is the one other terminals have. `Max_ConsumMoney` and
`Limit_DayMoney` are one constant. `Limit_MoneySign` selects the period of the
limit: above 1 the day, 1 the month, 0 none. No code sets it after its
initialisation to 255, so the runs have 255; the theorems are for any value.
The checks of expiry dates are always passed. Another terminal debits a card only
while this one waits for a card, because a card is in one field at a time and
cases 2 to 4 take milliseconds.

`Till` has the balance of each card and what the journal says was sold. A debit
respects the minimum, a record is covered by money that left the card. Where
writes can stop inside a block (`Tears`), the retry of a debit that had been
carried out may spoil its block and so undo it (`TakeBack`), before it is recorded.
`TillSpec` is its specification with the balance mapped to the smaller intact
amount of the main purse.

### ServerLink

A datagram is an address, a body (command and data) and the frame number. A step
of a thread is what lies between two accesses of `SerialUnion` the other thread
can come between:

| action | code |
|---|---|
| `Receive`, `Swap`, `Test` | receive thread: `recvfrom` into the buffer, the byte order of three fields, the address and the flag or `Init_Serial` |
| `Take` | main loop: the flag is lowered |
| `Execute(status, data)` | `ReceiveSub`, with what the handler leaves |
| `Address`, `Send`, `Wipe` | `udpSendSub`: own address and byte order, the answer, `Init_Serial` |
| `LinkPowerUp` | a restart |
| `Ask`, `AskAgain`, `AskEarly`, `Stray`, `Lose`, `GetAnswer` | server and network (external) |

What the model takes from the code in particular: the receive thread takes a
mutex the main loop does not take (`ykt_app.c:1096`), so every interleaving is
possible. The three fields are swapped in one step, because a handler that
starts in between sees a command in network order in either case, which no
handler knows. `UartFrameNum` is the only thing that tells the answers of two
requests with the same command apart. The flag `crossed` is history: a step of
the receive thread fell into the handling of a request, or a request was taken
while the thread was at work.

Assumed of the server: one request at a time, the next with another frame number;
it repeats a request when nothing came back, and takes an answer with the right
command and number.

### Parameters and Terminal

A parameter has a copy in RAM and a line in the file. `Set(comd)` is the common
shape of the SET handlers: the length and, for three keys, the decrypted
checksum; a comparison with the RAM; the new copy, and the rewrite of the file,
which replaces the line of the key and adds none (`Written`). A command decrypts
rightly if the server used the terminal's `CommEncryptKey`. Two handlers are
wrong in themselves and are modelled as they are: `SET_MINMONEY` converts from
the answer's buffer into the request and stores bytes nobody filled;
`SET_DAYLIMET` compares with a comma operator and stores a buffer nobody filled.
The other seven keys are the "sound settings" (`SoundKeys`), about which the
properties are.

A power cut in a SET leaves the file as it was, truncated, or rewritten
(`AfterCut`). It is not left half written: its 292 bytes stay in the buffer of
stdio until `fclose` writes them at once (`readTxt.c:176-181`). At start-up, one buffer takes the value of every key (`ReadInto`): a
line that is missing leaves the value before it.

`Terminal` composes both. `told` is what the server saw confirmed last.
`Settings` has two variables, `kept` and `used`, which a SET changes together; a
cut in a rewrite may lose what is kept, for good. `SettingsSpec` is its
specification with `kept` mapped to the sound lines of the file and `used` to the
copies in RAM.

### Tariff

| action | code |
|---|---|
| `RequestCard`, `ReadCard` | cases 1 and 2: the blacklist, the count of meals on the card |
| `LookAtPlan` | a turn of the loop of `CurrentConsumMoneyDiag`, with `sqlite3_moneyplan_query_db` |
| `BalanceFails`, `Charge`, `ChargeFails` | case 3, with `app_ykt_save_record` |
| `ChargeAgain`, `ChargeAgainFails` | case 4: `ReWriteCardSub_M1` (`WriteAgain`), with `app_ykt_save_record` |
| `CardLeft` | case 5; as in `Consume`, a card may be missed in place |
| `SetAmount`, `SetMode` | the QT thread |
| `SetSortPrince`, `AddBlkNum`, `DelBlkNum`, `DelAddBlkNum`, `ClrBlkNum`, `ClrPosDatas`, `SetTime2` | the server's commands of these names |
| `PowerCut` | a restart: the tables and the chip stay |
| `Place`, `Remove`, `Tick` | customer and time (external) |

What the model takes from the code in particular:

- The inner loop over the bytes of a row uses the variable of the outer one, so
  after row 0 comes row 16, again and again (`rwCardfiles.c:218-226`). `ROWLEN`
  stands for the 15.
- A row that is not there leaves the result of the lookup uninitialised: the
  bytes of the last lookup (`stru`), or no plan.
- The start of a plan is refused if `memcmp` returned -1, which C does not define
  for a smaller string: both outcomes are possible (`MayStart`).
- A lookup that found its row returns without closing its statement and handle:
  the table stays locked against inserts until the next start (`queryOpen`).
- The count of the meals travels on the card, with the time of the last. The
  history `mealOf` says which plan the count in RAM was raised for; `priced` says
  whether the amount is still that plan's, which the screen may have changed.
- The buffer the count is written from, `MainWrBufferBak`, is filled after the
  purse is written (`readWriteCard.c:586-595`). When the purse write fails it
  holds the block of the charge before, and the repetition in case 4 writes that,
  time and count of the meals included (`readWriteCard.c:699-702`), possibly onto
  another card. The history `restored` names the cards this happened to. The
  repetition is refused when the day block has changed since it was read
  ("4.changed"); what the purse has to say about it is in `Consume`, and left open
  here.
- A plan is evaluated at `SysTimeDatas`, the time of the sale before.
- `SET_TIME2` sets the chip. The operating system is given a year of two digits
  in BCD, whose `mktime` is negative, and refuses. `SysTimeDatas` is not changed.
- `CLR_BLKNUM` and `DEL_ADD_BLKNUM` are answered OK and list or free nobody: the
  first does nothing, the second reads the text of a number as packed digits.
  `CLR_SORTPRINCE` deletes from a table that does not exist, and changes nothing.

Taken as given: the day block is written or is not (`Consume` has torn blocks); the
I2C transfers of the clock succeed; the system runs in UTC; a
server's time-table has no two plans of one sort at the same time
(`DisjointAssumption`); rows were inserted with a right checksum, as
`SET_SORTPRINCE` does.

## Runs

| run | expect | properties | shows |
|---|---|---|---|
| `RecordStore_safety` | pass | `TypeOK`, `CollectedWasReceived`, `PassedWasReceived`, `NextIdIsFree`, `CountedWasReceived`, `LedgerSpec` | no record is given up before the server has it, over lost replies, retries with another number of records, holes, failed updates, clears, and power cuts in the middle of an acknowledgement |
| `RecordStore_liveness` | pass | `StoredIsReceived` | each stored record reaches a server that keeps asking |
| `RecordStore_rerecord` | violation | `CollectedWasReceived` | an upload of a day between a reply and its acknowledgement moves the window that is marked |
| `Consume_safety` | pass | `TypeOK`, `DebitAtMostOnce`, `MinimumIsKept`, `DayLimitIsKept` | one card, all faults but "qt", two days: one debit for one request that finds a card, within the limits |
| `Consume_swap` | pass | `PurseIsReadable`, `PlacedPaysOnce`, `RecordTellsBalance`, `TillSpec` | two cards, swapped or missed anywhere, another terminal: the purse stays readable, a card pays once for each time it is placed or missed, records name card and amount, the machine implements the `Till` |
| `Consume_unrecorded` | violation | `DebitIsRecorded` | a debit that the terminal announces as failed |
| `Consume_daytotal` | violation | `DayTotalIsOwn` | the retry writes another customer's day block |
| `Consume_daylimit` | violation | `DayLimitIsKept` | the limit is checked with yesterday's date |
| `Consume_subpurse` | violation | `PurseIsReadable` | a card served from its sub-purse becomes unreadable |
| `Consume_qt` | violation | `MinimumIsKept` | the amount changes between check and write |
| `Terminal` | pass | `TypeOK`, `OnlyMineIsExecuted`, `ConfirmedIsKept`, `AnswerIsTrue`, `RamIsFile`, `SettingsSpec`, `RequestIsAnswered` | parameters over a link without a lock, with losses, strays, early repeats and a power cut: each request is answered, nothing for another terminal is executed, what was confirmed is kept |
| `Tariff` | pass | `TypeOK`, `PriceIsOfAPlan`, `MealsWithinPlan`, `ListedIsRefused`, `RecordHasItsTime` | two cards over two days, with charges that fail and are repeated, downloads, listed numbers, amounts and modes from the screen, a clock that is set, and restarts |

Each property of a passing run has a mutant in `PROJECT.json`: a plausible mistake
in one definition of the model, defined next to it, under which the same run
finds the property violated.

The split of the two passing `Consume` runs follows what holds. A torn block, a
card that is not read and a sub-purse each make `PurseIsReadable` false, so it is
checked with whole-block writes and readable main purses. `DayLimitIsKept`
holds only when no other terminal debits the card; `Consume_daylimit` shows the
other case. The purses of `Consume_safety` include a sub-purse that holds no more
than the minimum, so that its reads are exercised, and the debits it would have to
cover are refused. `PlacedPaysOnce` is in `Consume_swap` because it needs purses
that can be read, and no restarts.

## Bounds

| run | bounds | why they are enough |
|---|---|---|
| `RecordStore_safety` | 4 transactions, 2 faults, batches of 2, 3 tries, a count of 6 values | a window smaller than the rows waiting, one with a hole, one at the end of the table; a fault in an upload and one in its acknowledgement. The request may ask for more than a batch |
| `RecordStore_liveness` | 3 transactions, 1 fault | one failed write gives a hole of one row, less than the 3 tries (see [fairness](#fairness)) |
| `Consume_safety` | 1 card, 3 presentations, 1 missed card, 2 days, counter of 3 values, opening balance 4 and minimum 1 | three debits, the counter wraps at the third; a fault, its retry, and another presentation; three units in a day would pass the limit of 2 |
| `Consume_swap` | 2 cards, 3 presentations, 1 missed card, one debit elsewhere, counter of 3 values that starts at 1, opening balance 3 and minimum 1 | a swap needs two presentations, a third comes back to the first card; each card has two debits, and the counter wraps at the second. |
| `Terminal` | 4 keys (one plain, one sealed, the two with wrong handlers), 2 requests, 1 stray or early repeat, 1 power cut | a late answer needs two requests; a stray can fall into every place of both threads; a cut in a rewrite is followed by a request. With 2 strays or 3 requests the run takes over five minutes |
| `Tariff` | 2 cards, 3 plans, 3 moments on 2 days, 3 charges, 3 faults, commands or missed cards, 3 values of the plan index, 4 rows | one meal more than lunch allows; a charge that fails with the card in place, its repetition, and a restart or a command; a listed number and its neighbour deleted; the index wraps within one download of two rows; an hour that needs its fifth bit |

The constants of the code (655340 ids, batches of 3, 10 tries, 256 counts, 65536
counter values) are replaced by small ones; the theorems hold for all.
The ids stay below `MAXRECORD_NUM` in the runs. The pointer is taken modulo that
number and the ids are not, so the two part after 655340 records; nothing is
claimed beyond.

## Fairness

`FairSpec` of `RecordStore`: the server keeps asking for whole batches (weak
fairness of `RdRecord(RD_BATCH)`), the network does not lose every reply that
carries records (strong fairness of `ReceiveReply` with a reply that is not
empty), and the server acknowledges what it has (strong fairness of `DelRecord`).
The main loop polls without blocking, so a request that has arrived is executed;
that is the terminal's own share of the first and the third. No fairness is
assumed of power cuts, of the QT thread or of storing.

`FairSpec` of `Terminal`: each thread goes on when it can (weak fairness of the
steps of the receive thread after a datagram, of the main loop, and of the
handlers), the server repeats what is not answered (weak fairness of `AskAgain`),
and the network loses neither every request nor every answer (strong fairness of
`Receive` and `Hear`). The strays and the cuts are bounded; the losses are not.

`StoredIsReceived` needs fewer consecutive holes than `RD_TRIES`. With that many
and an empty row buffer, an upload carries no record, the server is not told to
acknowledge, and the pointer never moves: a real limit of the code, at
`udp_data_analyse.c:752`.

## Proofs

`NatLemmas` has the arithmetic the library lacks: that a non-empty set of naturals
has a least element, and a bounded one a greatest, from the library's facts on
finite sets.

### The journal (`RecordStoreProofs`)

For every number of transactions and faults, every batch and number of tries, and
every width of the count:

| theorem | property | hypotheses |
|---|---|---|
| `TypeCorrect` | `TypeOK` | none |
| `NextIdFree` | `NextIdIsFree` | none |
| `CollectedIsReceived` | `CollectedWasReceived` | `NoWrap`, `Undisturbed` |
| `PassedIsReceived` | `PassedWasReceived` | `NoWrap`, `Undisturbed` |
| `CountedIsReceived` | `CountedWasReceived` | `NoWrap`, `Undisturbed` |
| `JournalIsLedger` | `LedgerSpec`: every step of the journal is a step of `Ledger` or a stutter | `NoWrap`, `Undisturbed` |

- `NoWrap`: `MaxTxn + 1 < MAXRECORD_NUM`, the ids stay below the modulus of the
  pointer. Beyond it the code parts the pointer from the ids (see
  [Bounds](#bounds)).
- `Undisturbed`: `Midway = {}`, no other record command comes between a reply and
  its acknowledgement. The run `RecordStore_rerecord` shows that it is needed.

The first two theorems need neither. Their invariant `JInv` adds to the types that
the ids of the table lie behind the save pointer, which no command, no wrap of the
collection pointer and no power cut changes.

`CollectedWasReceived` is not inductive: an acknowledgement marks a window of rows
and the property says nothing about what is in it. `IInv` adds to `JInv` what ties
the window to the server. `PointersInOrder`: the collection pointer does not
overtake the save pointer. `WindowIsStored`: the rows counted by an
upload had all been stored, so a row stored since is outside. `ReplyHasWindow`: a
reply under way carries every row that was counted, so that once it has arrived
`CountedWasReceived` holds. `Provenance`: what is sent was accepted, and the row
buffer holds an accepted record or none. An upload moves the window and the reply
together; an acknowledgement, whole or cut by a power failure, marks a part of
the window; a start-up moves the pointer to the first row that is not marked.

### Paying by card (`ConsumeProofs`, `PurseProofs`, `TillProofs`)

For every set of cards, amounts and prices, every number of presentations, days
and debits elsewhere, and every width of the counter:

| theorem | property | hypotheses |
|---|---|---|
| `TypeCorrect` | `TypeOK` | none |
| `DayLimitKept` | `DayLimitIsKept` | `OneTerminal` |
| `DebitedOnce` | `DebitAtMostOnce` | `Mendable` |
| `MinimumKept` | `MinimumIsKept` | `Mendable`, `Kept` |
| `PurseStaysReadable` | `PurseIsReadable` | `Orderly`, no torn blocks |
| `RecordIsTrue` | `RecordTellsBalance` | `Orderly` |
| `MachineIsTill` | `TillSpec` | `Orderly` |

What the hypotheses leave out, and what goes wrong there:

| hypothesis | says | without it |
|---|---|---|
| `OneTerminal` | cards are debited here only; the QT thread leaves the amount of a debit alone | `Consume_daylimit`, `Consume_qt` |
| `Mendable` | where blocks may be torn: there is one card, and neither an empty RAM nor a sub-purse covers an amount | a card with a torn block cannot be read and is served with the RAM of the card before (`ykt_app.c:515`), whose debit may overwrite the block that is intact: with two cards TLC violates both properties, and with a rich sub-purse `DebitAtMostOnce` |
| `Kept` | the QT thread leaves the amount alone, and a card is issued with the minimum | `Consume_qt` |
| `Orderly` | `Mendable`; no failed reads; the QT thread leaves the amount alone; a sub-purse covers no amount | a failed read gives a consumption for nothing, recorded with a balance the card never had; `Consume_qt`; `Consume_subpurse` |

Everything else may happen: writes that fail before or after they take effect,
cards that leave, are swapped or are not found at any step, debits elsewhere, power
cuts, the second debit of a retry, and, with `Mendable` for any number of cards without torn
blocks, failed reads and an amount that changes between the check and the write.

`DayLimitKept` bounds the records, for each value of `Limit_MoneySign`. Its
invariant `DayInv` has to tie them to the day block. `DatesKept`: no day block, on a
card or in a buffer, is dated later than `SysTimeDatas`; a card debited at another
terminal breaks it. `BlocksCover`: except on a card that is in `restored`, the day
block is not older than the last record and, if both are of one period, counts at
least what was bought in it; `ReadCovers` says the same of the block that was read.
`SumChecked`: what the check let through stays within the limit together with that
block. `DayBlockIsOwn`: case 3 writes the day block of this debit, to the card that was
read. That the block covers what was bought, and not the other way
round, is why a day block that was written without a record does no harm.

`PInv`, of `PurseProofs`, is about the card and the buffers, and takes nothing the
RAM says of the card for true. `AmountIsCovered`: the amount was checked against the
balance in the RAM, wherever that is from. `TornIsNext`: a torn block is the one the
RAM names as the next to be written, or the RAM is that of a restart and covers
nothing; so a debit that comes to the write mends the block and never breaks the
other one. `DebitIsWritten`: no debit was counted before the purse is written, and a
card that was debited holds what case 4 would write, so that the repetition takes
nothing. It is about one request that finds a card; a restart ends the debit
without another, because the machine has to find the card again. With `Kept` every block,
intact or not, holds the minimum at least, which is `MInv`.

`QInv`, of `TillProofs`, adds how the served card stands to the RAM. `Unwritten`: the
block that held the balance is as it was read, and still is the one that will be
read, or the other is torn. `Debited`: the other holds the image. `ServedInv` says
for each case of the machine which of the two may hold, and that in case `Debited`
the amount is owed, i.e. was taken and not yet recorded. A repetition in case 4 leads
from `Unwritten` to `Debited`, leaves `Debited` alone, or tears the image and
leads back, which is the step `TakeBack` of `Till`. `NothingOversold` says of every
card that the journal never tells of more than was taken.

### The link and the parameters (`TerminalProofs`)

For any keys, values, datagrams for others, requests, strays and cuts. The
hypotheses are the assumptions on the constants, which TLC evaluates too:
`CommandAssumption` (commands for this terminal come from the one server; a stray
that carries this terminal's address carries no command), `TextAssumption` and
`KeyAssumption`.

| theorem | property |
|---|---|
| `TypeCorrect` | `TypeOK` |
| `MineIsExecuted` | `OnlyMineIsExecuted` |
| `RamAndFileAgree` | `RamIsFile` |
| `ParametersAreSettings` | `SettingsSpec`: each step of link and parameters is a step of `Settings` or a stutter |
| `ConfirmedKept` | `ConfirmedIsKept` |
| `AnswerTrue` | `AnswerIsTrue` |

`ConfirmedIsKept` speaks of the file and of what the server was told, and an answer
to an old request could part them. The strengthening `InOrder` says why it does
not: late copies do not overtake. A copy of the request that was closed last is on
the wire only while no request is open (`WireInOrder`); it is in the buffer only
while the file still holds what was told, so that to execute it changes nothing
(`BufferInOrder`); and an answer is that of the open request, with the outcome in
it, or bears the last number (`AnswerInOrder`). All of it is claimed where the
threads did not cross and no cut lost the file. `RamIsFile` needs
`SoundText`: the line of a sound key holds a value or is missing, and is never
empty.

### Plans, lists and clocks (`TariffProofs`)

For any cards, plans, calendars, downloads, ids and rows, any number of sales and
faults, under the assumptions of `Tariff`: the two numbers of a plan fit a byte
together (`PlanAssumption`), times exist and follow each other
(`CalendarAssumption`), two plans for a sort do not overlap (`DisjointAssumption`).

| theorem | property | hypothesis |
|---|---|---|
| `TypeCorrect` | `TypeOK`: the count on a card never leaves its byte | none |
| `ListedRefused` | `ListedIsRefused` | none |
| `RecordTime` | `RecordHasItsTime` | none |
| `PriceOfAPlan` | `PriceIsOfAPlan` | none |
| `MealsKept` | `MealsWithinPlan` | `WithinAYear` |

`PriceOfAPlan` rests on `PriceInv`: whatever the stack holds was a row of the table,
and rows are never taken out, so what a failed lookup returns is a row as well; and
a count with a time is at least one.

`WithinAYear` says that the calendar has one year, because the terminal compares
month and day only: a card that comes back a year later goes on with its old
count. The invariant `MealInv` ties the books of the observer to the day block.
`TimeFlows`: no card and no buffer is ahead of `SysTimeDatas`, and that is not ahead
of the clock. `CountIsTaken`: in case 3 and, as long as the day block is as it was
read, in case 4, the count in RAM is what the card has, or that counted up once, for
the period of one plan. `BooksAreKept`: there is a meal of a day in the books only
if the card's time is not before it, and the meals of the period the card's time is
in are not more than its count; nobody has more than his plan allows. So when a
period starts again at 1 there is no meal of it in the books, and disjoint plans do
not share a count. A charge whose count reached the card and then failed leaves the
card with a count that is too high, which harms the customer only; a repetition
that writes the buffer of the charge before may leave one that is too low, and the
card is then in `restored`.

`MealsWithinPlan` and the theorem leave out two kinds of cards, and say so by name:
`early`, those that had a meal counted before its plan began (`rwCardfiles.c:237`),
and `restored`. For these the code gives no bound.

### Conversions (`ConversionsProofs`)

The components take an amount, a time, a row or a word for itself. These theorems
say that the bytes lose nothing: `TimeRoundTrip` (every time that exists, in four
bytes), `AmountRoundTrip` (amounts of up to eight digits), `TextRoundTrip` (any
bytes as hexadecimal text), `SwapTwice`. `MCTariff` evaluates the conversions on
small inputs.

The components also take a block, a row or a text with a wrong checksum for
noticed. Of byte strings of any length: `SealIsAccepted`, one that ends in its
checksum passes, and `WrongByteIsNoticed`, a string that passes is refused when one
byte, at any place, is another. The running sums are a recursive function; what
they are is proved from a least counterexample (`LeastNat`), the provers having no
induction.

### What is only model-checked

`StoredIsReceived` and `RequestIsAnswered`: liveness.

In the other direction, the theorems cover what no passing run does: power cuts
together with swapped cards, failed reads and amounts that change with several
cards, torn blocks in the refinement of the `Till`, and the types of the journal
past the wrap of the pointer and with a re-collection at any moment.

## Disagreements found

| run | code | comment or name |
|---|---|---|
| `RecordStore_rerecord` | `RD_RERECORD` counts its rows in the upload's counter (`udp_data_analyse.c:846`) | "uncollected records of the last transmission" (`VariableDef.h:132`) |
| `Consume_unrecorded` | a debit whose day block cannot be written is announced as failed and not recorded (`ykt_app.c:647`) | "debit failed, put the card again" (`ykt_app.c:620`) |
| `Consume_daytotal` | the retry writes a day block of an earlier debit (`readWriteCard.c:564`) | "write the total of the card" (`readWriteCard.c:699`) |
| `Consume_daylimit` | the limit is checked with the date of the debit before (`ykt_app.c:352`) | "over the limit" (`ykt_app.c:356`) |
| `Consume_subpurse` | the purse that was found is replaced by purse 0 (`rwCardfiles.c:197`) | "find the purse to consume from" (`ykt_app.c:514`) |
| `Consume_qt` | the amount is shared without a lock (`ykt_app.c:231`) | "threads that must alternate notify each other by semaphores" (`ykt_app.c:52`) |

These were met while modelling and proving. The models contain them,
and the properties are stated so that they hold beside them:

| code | what it does | which property leaves it out |
|---|---|---|
| `ykt_app.c:1096` | with the lock of the main loop commented out, a datagram for another terminal can be executed, or its data sent in the answer, if it arrives while a request is handled | `~crossed` in `OnlyMineIsExecuted`, `ConfirmedIsKept`, `AnswerIsTrue` |
| `readTxt.c:172` | a power cut in a rewrite of the file loses all parameters, and SET commands do not bring them back | `Intact`, and `Lost` in `Settings` |
| `udp_data_analyse.c:280`, `:303` | `SET_MINMONEY` and `SET_DAYLIMET` store bytes nobody filled | `SoundKeys` |
| `rwCardfiles.c:226` | the loop over the plans looks at rows 0 and 16 only, and may not end | no property says a plan is found, or that the loop ends |
| `rwCardfiles.c:237` | meals before a plan begins are not limited | `early` in `MealsWithinPlan` |
| `readWriteCard.c:699` | when the purse write failed, the repetition writes the count of meals, and the day's total, of the charge before | `restored` in `MealsWithinPlan` and `DayLimitIsKept` (`Consume_daytotal` shows the total) |
| `ykt_app.c:652` | one request that fails ends the wait for the card to leave; a card that stayed is served again, and pays again if an amount is set | `missed` in `PlacedPaysOnce`; `DebitAtMostOnce` counts from request to request |
| `ykt_app.c:524` | a meal is priced and counted at the time of the sale before | `MealsWithinPlan` counts by that time |
| `possqlite3.c:122` | plans downloaded after a first lookup are lost, though answered OK | no property says a download is stored |
| `possqlite3.c:191`, `udp_data_analyse.c:391`, `:444` | three commands are answered OK and do not do what they say | `ListedIsRefused` is about `ADD_BLKNUM` and `DEL_BLKNUM` |
| `sysTime.c:111` | records have the time from before `SET_TIME2` until the next start | `timeSet` in `RecordHasItsTime` |
| `ykt_app.c:515` | the status of a failed purse read is not looked at; the card is served with the RAM of an earlier one | `Mendable` and `Orderly` in the theorems; one card in `Consume_safety` |
| `ykt_app.c:676` | a plan's price stays set when the screen changes the mode to `CONSUM_RATION` before the card leaves: the next card pays it, and no meal is counted | `priced` in `PriceIsOfAPlan` |

## Not modelled

- The bytes of `recv_msg`, which the QT thread, the main loop and the SIGALRM
  handler share: an overwritten command is a command that was not given, which
  the models allow; an overwritten reply garbles a display. The timers do nothing
  else.
- Checksums as bytes in `Consume`, `Parameters` and `RecordStore`: a block or a row
  is right or not, and a torn block is not. `Conversions` has the sum itself, which
  notices every single wrong byte; several wrong bytes may cancel out, and a block
  torn in that way would be taken for intact.
- `ip.txt` and `consumemode.txt` are read at start-up and never written.
- The registers and the SPI of the MFRC522 driver: `Consume` has its requests,
  reads and writes by what they do and how they fail.
- CPU cards and ciphers: the calls are commented out, and the key calculation is
  data here. Voice, beep, battery, IP configuration: I/O without state. SQLite,
  cJSON, ALSA, assets and `backup/`: third-party or not built.
- Counters that `RD_POSSTATUS` reports and no code sets, and the flag
  `bitRecordFull`, which stays 0.
- Liveness of the consumption machine: it waits for a customer at every turn, and
  each of its other cases ends in one step.
- More than four fifths of the lines of `src/` are vendored headers and libraries
  (SQLite, ALSA three times, cJSON) and old copies (`backup/`, `双数据库/`); some
  8000 lines are the program's own, and a third of them is switched off by
  comments.

## Plan

Done: `RecordStore` and `Ledger`, `Consume` and `Till`, `ServerLink`, `Parameters`
and `Settings`, their composition `Terminal`, `Tariff`, and the theorems above.
Left:

1. The composition of `Consume` and `RecordStore`, with the serial number of a
   record, which starts again at 0 after a restart (`ykt_app.c:434`).
