----------------------------- MODULE RecordStore -----------------------------
(***************************************************************************)
(* The consume journal of the terminal (table `consume` of record.db) and  *)
(* its collection by the PosServer.                                        *)
(*                                                                         *)
(* The main loop stores one row per consumption (app_ykt_save_record) and  *)
(* answers the server's commands (ReceiveSub): RD_RECORD uploads the rows  *)
(* behind NoCollectRecordIndex and counts them in SerialSendNoCollectNum,  *)
(* DEL_RECORD marks that many rows as collected and advances the pointer.  *)
(* Both run in the main thread, so each handler is one action here.  What  *)
(* interleaves with them: the network, which loses replies; a power cut,   *)
(* also in the middle of the row updates of DEL_RECORD; and the QT thread, *)
(* whose queries read record.db through the same global handle without a   *)
(* lock, and make a write of the main thread fail with SQLITE_BUSY, whose  *)
(* result no caller looks at.                                              *)
(*                                                                         *)
(* A transaction is a number, the data of its row; the checksum of a row   *)
(* that was written is right (save_record computes it), so the test of     *)
(* RD_RECORD fails only for the empty recordSt after power-up.             *)
(***************************************************************************)
EXTENDS Integers, FiniteSets, FiniteSetsExt

CONSTANTS
  MAXRECORD_NUM,  \* modulus of the collection pointer (mydefine.h: 655340)
  RD_BATCH,       \* most records of one reply (3)
  RD_TRIES,       \* most rows looked at for one reply (10)
  UCHAR,          \* values of SerialSendNoCollectNum, an unsigned char (256)
  MaxTxn,         \* bound: transactions of a behaviour
  MaxFaults,      \* bound: power cuts, clears and QT queries of a behaviour
  Midway          \* commands the server may put between a reply and its acknowledgement

RecollectComd == "RD_RERECORD_COMD"
SortPrinceComd == "RD_SORTPRINCE_COMD"

ASSUME BatchAssumption == RD_BATCH \in Nat \ {0} /\ RD_TRIES \in Nat \ {0}
ASSUME CharAssumption == UCHAR \in Nat /\ UCHAR > RD_TRIES
ASSUME BoundAssumption == MaxTxn \in Nat /\ MaxFaults \in Nat
ASSUME ModulusAssumption == MAXRECORD_NUM \in Nat \ {0}
ASSUME MidwayAssumption == Midway \subseteq {RecollectComd, SortPrinceComd}

VARIABLES
  consume,                 \* the table: id |-> [txn, tag]
  SaveRecordIndex,         \* id of the next row
  NoCollectRecordIndex,    \* id of the first row that is not collected
  SerialSendNoCollectNum,  \* rows counted by the last upload
  recordSt,                \* the row buffer shared by all queries
  bitHaveReCollectRecord,  \* a re-collection was answered
  qtQuery,                 \* the QT thread is stepping through a SELECT
  server,                  \* the server's place in the collection protocol
  reply,                   \* transactions of the reply in flight
  txns,                    \* history: transactions so far
  accepted,                \* history: transactions whose row was written
  received,                \* history: transactions the server has
  faults                   \* faults so far

terminal == <<SaveRecordIndex, NoCollectRecordIndex, SerialSendNoCollectNum,
              recordSt, bitHaveReCollectRecord>>
history == <<txns, accepted>>
vars == <<consume, terminal, qtQuery, server, reply, history, received, faults>>

Txn == 1..MaxTxn
NoTxn == 0

\* Values of recordTag: 0 not collected, 1 collected (possqlite3.c writes 1).
Tag == {0, 1}

Ids == DOMAIN consume
TxnsOf(ids) == {consume[id].txn : id \in ids \cap Ids}

------------------------------------------------------------------------------
\* Start-up: the pointers are derived from the table.

\* The row with the largest rowid is the one with the largest id.
LastId(table) == IF DOMAIN table = {} THEN 0 ELSE Max(DOMAIN table)

Uncollected(table) == {id \in DOMAIN table : table[id].tag = 0}

\* Mutants: the id of the last row itself; the end of the table.
QuerySaveIndexNoStep(table) == LastId(table)
QuerySaveIndex(table) == LastId(table) + 1

QueryNoCollectLast(table) == LastId(table) + 1
QueryNoCollectIndex(table) ==
  IF Uncollected(table) = {} THEN LastId(table) + 1 ELSE Min(Uncollected(table))

\* Everything the RAM holds is lost; `table` is what the flash holds.
PowerUp(table) ==
  /\ consume' = table
  /\ SaveRecordIndex' = QuerySaveIndex(table)
  /\ NoCollectRecordIndex' = QueryNoCollectIndex(table)
  /\ SerialSendNoCollectNum' = 0
  /\ recordSt' = NoTxn
  /\ bitHaveReCollectRecord' = FALSE
  /\ qtQuery' = FALSE

Fault == faults < MaxFaults /\ faults' = faults + 1

Init ==
  /\ consume = [id \in {} |-> [txn |-> NoTxn, tag |-> 0]]
  /\ SaveRecordIndex = 1
  /\ NoCollectRecordIndex = 1
  /\ SerialSendNoCollectNum = 0
  /\ recordSt = NoTxn
  /\ bitHaveReCollectRecord = FALSE
  /\ qtQuery = FALSE
  /\ server = "idle"
  /\ reply = {}
  /\ txns = 0
  /\ accepted = {}
  /\ received = {}
  /\ faults = 0

------------------------------------------------------------------------------
\* The QT thread's queries (a day's total, the uncollected total).

QtQueryBegin ==
  /\ ~qtQuery
  /\ Fault
  /\ qtQuery' = TRUE
  /\ UNCHANGED <<consume, terminal, server, reply, history, received>>

QtQueryEnd ==
  /\ qtQuery
  /\ qtQuery' = FALSE
  /\ UNCHANGED <<consume, terminal, server, reply, history, received, faults>>

\* A write fails only while the QT thread holds its read lock; it may also
\* succeed then, when it runs on the connection the QT thread opened.
WriteOutcome == IF qtQuery THEN BOOLEAN ELSE {TRUE}

------------------------------------------------------------------------------
\* app_ykt_save_record: take the next id, insert, ignore the result.  An id
\* that the table already holds violates its primary key and inserts nothing.

SaveRecord ==
  /\ txns < MaxTxn
  /\ txns' = txns + 1
  /\ SaveRecordIndex' = SaveRecordIndex + 1
  /\ \E ok \in WriteOutcome :
       IF ok /\ SaveRecordIndex \notin Ids
       THEN /\ consume' = [id \in Ids \cup {SaveRecordIndex} |->
                             IF id = SaveRecordIndex
                             THEN [txn |-> txns + 1, tag |-> 0]
                             ELSE consume[id]]
            /\ accepted' = accepted \cup {txns + 1}
       ELSE UNCHANGED <<consume, accepted>>
  /\ UNCHANGED <<NoCollectRecordIndex, SerialSendNoCollectNum, recordSt,
                 bitHaveReCollectRecord, qtQuery, server, reply, received, faults>>

------------------------------------------------------------------------------
\* Uploading.  The loop of RD_RECORD reads row NoCollectRecordIndex + 0, + 1,
\* ... while its cursor ii has not reached SaveRecordIndex, the reply holds
\* fewer than Nums records and fewer than RD_TRIES rows were read.

\* Turns of the loop until ii = SaveRecordIndex; ii runs modulo MAXRECORD_NUM.
Distance ==
  IF NoCollectRecordIndex = SaveRecordIndex THEN 0
  ELSE IF SaveRecordIndex < MAXRECORD_NUM
       THEN (SaveRecordIndex - NoCollectRecordIndex) % MAXRECORD_NUM
       ELSE RD_TRIES

\* Mutant: the cursor is compared one row too late.
LimitPastEnd == IF Distance + 1 < RD_TRIES THEN Distance + 1 ELSE RD_TRIES
Limit == IF Distance < RD_TRIES THEN Distance ELSE RD_TRIES

Window(from, k) == from .. (from + k - 1)

\* A missing row leaves recordSt as it was: the record read before it is taken
\* for it.  A read fails the checksum only when nothing was read since power-up.
ReadIsValid(from, d) ==
  recordSt # NoTxn \/ Window(from, d + 1) \cap Ids # {}

ValidReads(from, k) == Cardinality({d \in 0..(k-1) : ReadIsValid(from, d)})

Capped(nums) == IF nums > RD_BATCH THEN RD_BATCH ELSE nums

\* Rows read for a request of `nums` records.
ReadCount(nums) ==
  Cardinality({k \in 1..Limit :
                 ValidReads(NoCollectRecordIndex, k - 1) < Capped(nums)})

\* What recordSt holds after the rows of the window were read in order.
BufferAfter(from, k) ==
  LET found == Window(from, k) \cap Ids
  IN  IF found = {} THEN recordSt ELSE consume[Max(found)].txn

\* The transactions in the reply: the rows found, and the record left in
\* recordSt when the window begins with a missing row.
UploadOf(from, k) ==
  TxnsOf(Window(from, k))
    \cup (IF k > 0 /\ from \notin Ids /\ recordSt # NoTxn THEN {recordSt} ELSE {})

\* Mutant: the count of the upload before is not reset.
UploadNoReset(nums) ==
  LET k == ReadCount(nums)
  IN  /\ SerialSendNoCollectNum' = (SerialSendNoCollectNum + k) % UCHAR
      /\ reply' = UploadOf(NoCollectRecordIndex, k)
      /\ recordSt' = BufferAfter(NoCollectRecordIndex, k)

Upload(nums) ==
  LET k == ReadCount(nums)
  IN  /\ SerialSendNoCollectNum' = k
      /\ reply' = UploadOf(NoCollectRecordIndex, k)
      /\ recordSt' = BufferAfter(NoCollectRecordIndex, k)

\* A request that asks again abandons the reply of the one before it.
RdRecord(nums) ==
  /\ Upload(nums)
  /\ server' = "waiting"
  /\ UNCHANGED <<consume, SaveRecordIndex, NoCollectRecordIndex,
                 bitHaveReCollectRecord, qtQuery, history, received, faults>>

Allowed(comd) == server # "got" \/ comd \in Midway

\* RD_SORTPRINCE has no body left and falls through into RD_RECORD.  The server
\* asked for a price plan and keeps no record of the answer.
RdSortPrince(nums) ==
  /\ Allowed(SortPrinceComd)
  /\ SerialSendNoCollectNum' = ReadCount(nums)
  /\ recordSt' = BufferAfter(NoCollectRecordIndex, ReadCount(nums))
  /\ reply' = {}
  /\ server' = IF server = "got" THEN "got" ELSE "idle"
  /\ UNCHANGED <<consume, SaveRecordIndex, NoCollectRecordIndex,
                 bitHaveReCollectRecord, qtQuery, history, received, faults>>

\* The count after d more rows, an unsigned char.  Mutant: a wider counter.
CountAfterWide(d) == SerialSendNoCollectNum + d
CountAfter(d) == (SerialSendNoCollectNum + d) % UCHAR

\* RD_RERECORD: the start of the window is 0 (the day is never looked up), the
\* cursor ii is not initialised, so the loop makes any number of turns, and it
\* counts the rows it reads in SerialSendNoCollectNum.  The records of the day
\* asked for are sent, the one left in recordSt among them.
RdReRecord ==
  /\ Allowed(RecollectComd)
  /\ \E k \in 0..RD_TRIES :
       LET found == {d \in 0..(k-1) : CountAfter(d) \in Ids}
       IN  /\ SerialSendNoCollectNum' = CountAfter(k)
           /\ recordSt' = IF found = {} THEN recordSt
                          ELSE consume[CountAfter(Max(found))].txn
           /\ bitHaveReCollectRecord' = (k > 0)
           /\ \E kept \in SUBSET (TxnsOf({CountAfter(d) : d \in found})
                                    \cup ({recordSt} \ {NoTxn})) :
                /\ recordSt \in kept => k > 0
                /\ received' = received \cup kept
  /\ reply' = {}
  /\ server' = IF server = "got" THEN "got" ELSE "idle"
  /\ UNCHANGED <<consume, SaveRecordIndex, NoCollectRecordIndex, qtQuery,
                 history, faults>>

\* DEL_RERECORD: SerialSendReCollectNum is never counted up, so its loop makes
\* no turn.
DelReRecord ==
  /\ bitHaveReCollectRecord
  /\ bitHaveReCollectRecord' = FALSE
  /\ UNCHANGED <<consume, SaveRecordIndex, NoCollectRecordIndex,
                 SerialSendNoCollectNum, recordSt, qtQuery, server, reply,
                 history, received, faults>>

------------------------------------------------------------------------------
\* The network and the server: a reply is kept or lost.

ReceiveReply ==
  /\ server = "waiting"
  /\ received' = received \cup reply
  /\ server' = IF reply = {} THEN "idle" ELSE "got"
  /\ reply' = {}
  /\ UNCHANGED <<consume, terminal, qtQuery, history, faults>>

LoseReply ==
  /\ server = "waiting"
  /\ reply # {}
  /\ reply' = {}
  /\ server' = "idle"
  /\ UNCHANGED <<consume, terminal, qtQuery, history, received, faults>>

------------------------------------------------------------------------------
\* DEL_RECORD.  sqlite3_consume_move_db makes one UPDATE per row, each its own
\* transaction; one that fails is passed over.

Mark(table, ids) ==
  [id \in DOMAIN table |->
     IF id \in ids THEN [table[id] EXCEPT !.tag = 1] ELSE table[id]]

Pending == Window(NoCollectRecordIndex, SerialSendNoCollectNum)

Acknowledging ==
  /\ NoCollectRecordIndex # SaveRecordIndex
  /\ SerialSendNoCollectNum # 0

\* Mutant: the count survives the acknowledgement.
AdvanceKeepsCount ==
  /\ NoCollectRecordIndex' =
       (NoCollectRecordIndex + SerialSendNoCollectNum) % MAXRECORD_NUM
  /\ UNCHANGED SerialSendNoCollectNum

Advance ==
  /\ NoCollectRecordIndex' =
       (NoCollectRecordIndex + SerialSendNoCollectNum) % MAXRECORD_NUM
  /\ SerialSendNoCollectNum' = 0

\* The answer may be lost: then the server is still at "got" and asks again.
DelRecord ==
  /\ server = "got"
  /\ server' \in {"got", "idle"}
  /\ IF Acknowledging
     THEN /\ \E done \in SUBSET Pending :
               /\ qtQuery \/ done = Pending
               /\ consume' = Mark(consume, done)
          /\ Advance
     ELSE UNCHANGED <<consume, NoCollectRecordIndex, SerialSendNoCollectNum>>
  /\ UNCHANGED <<SaveRecordIndex, recordSt, bitHaveReCollectRecord, qtQuery,
                 reply, history, received, faults>>

\* The power fails after the first k of the updates.
DelRecordPowerCut ==
  /\ server = "got"
  /\ Acknowledging
  /\ Fault
  /\ \E k \in 0..SerialSendNoCollectNum :
       PowerUp(Mark(consume, Window(NoCollectRecordIndex, k)))
  /\ UNCHANGED <<server, reply, history, received>>

PowerCut ==
  /\ Fault
  /\ PowerUp(consume)
  /\ UNCHANGED <<server, reply, history, received>>

\* CLR_POSDATAS deletes every row; the pointers stay.
ClrPosDatas ==
  /\ Fault
  /\ \E ok \in WriteOutcome :
       consume' = IF ok THEN [id \in {} |-> [txn |-> NoTxn, tag |-> 0]] ELSE consume
  /\ UNCHANGED <<terminal, qtQuery, server, reply, history, received>>

------------------------------------------------------------------------------
Next ==
  \/ SaveRecord
  \/ \E nums \in 0..(RD_BATCH + 1) : RdRecord(nums) \/ RdSortPrince(nums)
  \/ RdReRecord
  \/ DelReRecord
  \/ ReceiveReply
  \/ LoseReply
  \/ DelRecord
  \/ DelRecordPowerCut
  \/ PowerCut
  \/ ClrPosDatas
  \/ QtQueryBegin
  \/ QtQueryEnd

Spec == Init /\ [][Next]_vars

\* The server keeps asking for whole batches, the network does not lose every
\* reply that carries records, and the server acknowledges what it has.
Fairness ==
  /\ WF_vars(RdRecord(RD_BATCH))
  /\ SF_vars(reply # {} /\ ReceiveReply)
  /\ SF_vars(DelRecord)

FairSpec == Spec /\ Fairness

------------------------------------------------------------------------------
\* Properties.

\* Types: the pointers are ids, the count fits its unsigned char, and every row
\* holds a transaction and one of the two tags possqlite3.c writes.
TypeOK ==
  /\ Ids \subseteq Nat
  /\ \A id \in Ids : consume[id] \in [txn : Txn, tag : Tag]
  /\ SaveRecordIndex \in Nat
  /\ NoCollectRecordIndex \in Nat
  /\ SerialSendNoCollectNum \in 0..(UCHAR - 1)
  /\ recordSt \in Txn \cup {NoTxn}
  /\ bitHaveReCollectRecord \in BOOLEAN
  /\ qtQuery \in BOOLEAN
  /\ server \in {"idle", "waiting", "got"}
  /\ reply \subseteq Txn
  /\ txns \in 0..MaxTxn
  /\ accepted \subseteq Txn
  /\ received \subseteq Txn
  /\ faults \in 0..MaxFaults

\* Only records the server has are marked as collected (sqlite3_consume_move_db
\* rewrites the tag of "the collected records"): whatever replies are lost,
\* retries repeated, rows missing or power cuts taken.
CollectedWasReceived ==
  \A id \in Ids : consume[id].tag = 1 => consume[id].txn \in received

\* A row the collection pointer has passed is not read again before the next
\* power-up, so the server has it.  A row whose UPDATE failed is such a row.
PassedWasReceived ==
  \A id \in Ids : id < NoCollectRecordIndex => consume[id].txn \in received

\* The id the next consumption takes is free, also after a power cut at any
\* point: the primary key would silently drop the row otherwise.
NextIdIsFree == SaveRecordIndex \notin Ids

\* What DEL_RECORD would mark now, the server has been sent: while the server is
\* about to acknowledge, the rows counted are rows it received.
CountedWasReceived ==
  server = "got" =>
    \A id \in Pending \cap Ids : consume[id].txn \in received

\* Every stored record reaches the server, unless CLR_POSDATAS deleted it.
StoredIsReceived ==
  \A t \in Txn : t \in TxnsOf(Ids) ~> t \in received \/ t \notin TxnsOf(Ids)

\* The journal keeps the promise of the ledger: a record is given up only when
\* the server has it or the server cleared the journal.
Held == {consume[id].txn : id \in Uncollected(consume)}

L == INSTANCE Ledger WITH held <- Held
LedgerSpec == L!Spec
=============================================================================
