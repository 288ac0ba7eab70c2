--------------------------- MODULE RecordStoreProofs ---------------------------
(***************************************************************************)
(* Proofs about the consume journal, for any number of transactions and    *)
(* faults, any batch sizes and any width of the count.  The types and the  *)
(* freshness of the next id (JInv) need nothing more; what the server has  *)
(* (IInv) needs two hypotheses: the ids stay below the modulus of the      *)
(* collection pointer, and the server puts no other record command between *)
(* a reply and its acknowledgement.  The run RecordStore_rerecord shows    *)
(* that the second cannot be dropped.                                      *)
(***************************************************************************)
EXTENDS RecordStore, NatLemmas

NoWrap == MaxTxn + 1 < MAXRECORD_NUM
Undisturbed == Midway = {}

\* The ids of the table lie behind the save pointer.
IdsAreBehind ==
  /\ Ids \subseteq 1..(SaveRecordIndex - 1)
  /\ SaveRecordIndex \in 1..(txns + 1)

\* What holds without the two hypotheses: nothing the server asks for and no
\* wrap of the collection pointer disturbs it.
JInv == TypeOK /\ IdsAreBehind

\* The collection pointer does not overtake the save pointer.
PointersInOrder == NoCollectRecordIndex \in 1..SaveRecordIndex

\* The rows counted by an upload were all stored when it was made.
WindowIsStored ==
  server # "idle" =>
    NoCollectRecordIndex + SerialSendNoCollectNum <= SaveRecordIndex

\* A reply in flight carries every row that was counted.
ReplyHasWindow ==
  server = "waiting" => \A id \in Pending \cap Ids : consume[id].txn \in reply

\* Nothing is sent or kept that was not accepted.
Provenance ==
  /\ accepted \subseteq 1..txns
  /\ \A id \in Ids : consume[id].txn \in accepted
  /\ recordSt \in accepted \cup {NoTxn}
  /\ reply \subseteq accepted

IInv ==
  /\ JInv
  /\ PointersInOrder
  /\ WindowIsStored
  /\ ReplyHasWindow
  /\ Provenance
  /\ CollectedWasReceived
  /\ PassedWasReceived
  /\ CountedWasReceived

------------------------------------------------------------------------------
\* The types and the ids.

\* The loop of RD_RECORD makes at most RD_TRIES turns, wherever the pointers
\* are, so the number of rows it counts fits the unsigned char.
LEMMA LimitBounds ==
  ASSUME TypeOK PROVE Limit \in Nat /\ Limit <= RD_TRIES
<1>1. Distance \in Nat
  <2>1. CASE SaveRecordIndex < MAXRECORD_NUM
    <3>1. /\ SaveRecordIndex \in Nat /\ NoCollectRecordIndex \in Nat
          /\ MAXRECORD_NUM \in Nat \ {0}
      BY ModulusAssumption DEF TypeOK
    <3>2. (SaveRecordIndex - NoCollectRecordIndex) % MAXRECORD_NUM \in Nat
      BY <3>1
    <3> QED
      BY <2>1, <3>2 DEF Distance
  <2>2. CASE ~ (SaveRecordIndex < MAXRECORD_NUM)
    BY <2>2, BatchAssumption DEF Distance
  <2> QED
    BY <2>1, <2>2
<1> QED
  BY <1>1, BatchAssumption DEF Limit

LEMMA ReadCountBounds ==
  ASSUME TypeOK, NEW nums
  PROVE  /\ ReadCount(nums) \in 0..(UCHAR - 1)
         /\ ReadCount(nums) <= Limit
<1>1. Limit \in Nat /\ Limit <= RD_TRIES
  BY LimitBounds
<1> DEFINE turns == {k \in 1..Limit :
                       ValidReads(NoCollectRecordIndex, k - 1) < Capped(nums)}
<1>2. IsFiniteSet(1..Limit) /\ Cardinality(1..Limit) = Limit
  <2>1. /\ IsFiniteSet(1..Limit)
        /\ Cardinality(1..Limit) = IF 1 > Limit THEN 0 ELSE Limit - 1 + 1
    BY <1>1, FS_Interval
  <2> QED
    BY <1>1, <2>1
<1>3. turns \in SUBSET (1..Limit)
  OBVIOUS
<1>4. ReadCount(nums) = Cardinality(turns)
  BY DEF ReadCount
<1> HIDE DEF turns
<1>5. IsFiniteSet(turns) /\ Cardinality(turns) <= Limit
  BY <1>2, <1>3, FS_Subset
<1>6. Cardinality(turns) \in Nat
  BY <1>5, FS_CardinalityType
<1> QED
  BY <1>1, <1>4, <1>5, <1>6, BatchAssumption, CharAssumption

\* What a reply carries and what is left in the row buffer was stored, or was in
\* the buffer before.
LEMMA UploadContents ==
  ASSUME JInv, NEW k \in Nat
  PROVE  /\ UploadOf(NoCollectRecordIndex, k)
              \subseteq TxnsOf(Ids) \cup ({recordSt} \ {NoTxn})
         /\ \A id \in Window(NoCollectRecordIndex, k) \cap Ids :
              consume[id].txn \in UploadOf(NoCollectRecordIndex, k)
         /\ BufferAfter(NoCollectRecordIndex, k) \in TxnsOf(Ids) \cup {recordSt}
<1>1. /\ UploadOf(NoCollectRecordIndex, k)
           \subseteq TxnsOf(Ids) \cup ({recordSt} \ {NoTxn})
      /\ \A id \in Window(NoCollectRecordIndex, k) \cap Ids :
           consume[id].txn \in UploadOf(NoCollectRecordIndex, k)
  BY DEF UploadOf, TxnsOf
<1>2. BufferAfter(NoCollectRecordIndex, k) \in TxnsOf(Ids) \cup {recordSt}
  <2> DEFINE found == Window(NoCollectRecordIndex, k) \cap Ids
  <2>1. CASE found = {}
    BY <2>1 DEF BufferAfter
  <2>2. CASE found # {}
    <3>1. Ids \in SUBSET (0..SaveRecordIndex) /\ SaveRecordIndex \in Nat
      BY DEF JInv, TypeOK, IdsAreBehind
    <3>2. found \in SUBSET (0..SaveRecordIndex)
      BY <3>1
    <3>3. Max(found) \in found
      <4> HIDE DEF found
      <4> QED
        BY <2>2, <3>1, <3>2, MaxIsGreatest
    <3> QED
      BY <2>2, <3>3 DEF BufferAfter, TxnsOf
  <2> QED
    BY <2>1, <2>2
<1> QED
  BY <1>1, <1>2

\* What RD_RERECORD counts, leaves in the row buffer and lets the server keep.
LEMMA RdReRecordEffect ==
  ASSUME JInv, RdReRecord
  PROVE  /\ SerialSendNoCollectNum' \in 0..(UCHAR - 1)
         /\ recordSt' \in TxnsOf(Ids) \cup {recordSt}
         /\ bitHaveReCollectRecord' \in BOOLEAN
         /\ \E kept \in SUBSET (TxnsOf(Ids) \cup ({recordSt} \ {NoTxn})) :
              received' = received \cup kept
<1> USE BatchAssumption, CharAssumption
<1>1. PICK k \in 0..RD_TRIES :
        LET found == {d \in 0..(k-1) : CountAfter(d) \in Ids}
        IN  /\ SerialSendNoCollectNum' = CountAfter(k)
            /\ recordSt' = IF found = {} THEN recordSt
                           ELSE consume[CountAfter(Max(found))].txn
            /\ bitHaveReCollectRecord' = (k > 0)
            /\ \E kept \in SUBSET (TxnsOf({CountAfter(d) : d \in found})
                                     \cup ({recordSt} \ {NoTxn})) :
                 received' = received \cup kept
  BY DEF RdReRecord
<1> DEFINE found == {d \in 0..(k-1) : CountAfter(d) \in Ids}
<1>2. SerialSendNoCollectNum' \in 0..(UCHAR - 1)
  <2>1. SerialSendNoCollectNum + k \in Nat /\ UCHAR \in Nat \ {0}
    BY DEF JInv, TypeOK
  <2>2. SerialSendNoCollectNum' = (SerialSendNoCollectNum + k) % UCHAR
    BY <1>1 DEF CountAfter
  <2> QED
    BY <2>1, <2>2, ModRange
<1>3. recordSt' \in TxnsOf(Ids) \cup {recordSt}
  <2>1. CASE found = {}
    BY <1>1, <2>1
  <2>2. CASE found # {}
    <3>1. k \in Nat /\ found \in SUBSET (0..k)
      OBVIOUS
    <3>2. Max(found) \in found
      <4> HIDE DEF found
      <4> QED
        BY <2>2, <3>1, MaxIsGreatest
    <3> QED
      BY <1>1, <2>2, <3>2 DEF TxnsOf
  <2> QED
    BY <2>1, <2>2
<1>4. TxnsOf({CountAfter(d) : d \in found}) \subseteq TxnsOf(Ids)
  BY DEF TxnsOf
<1>5. bitHaveReCollectRecord' \in BOOLEAN
  BY <1>1
<1>6. \E kept \in SUBSET (TxnsOf(Ids) \cup ({recordSt} \ {NoTxn})) :
        received' = received \cup kept
  <2>1. PICK kept \in SUBSET (TxnsOf({CountAfter(d) : d \in found})
                                 \cup ({recordSt} \ {NoTxn})) :
          received' = received \cup kept
    BY <1>1
  <2>2. kept \in SUBSET (TxnsOf(Ids) \cup ({recordSt} \ {NoTxn}))
    BY <1>4, <2>1
  <2> QED
    BY <2>1, <2>2
<1> QED
  BY <1>2, <1>3, <1>5, <1>6

------------------------------------------------------------------------------
\* What the start-up queries return.

\* After power-up the save pointer lies behind every row, and every row the
\* collection pointer skips is tagged as collected.
LEMMA QueriesAtPowerUp ==
  ASSUME NEW last \in Nat, NEW table,
         DOMAIN table \in SUBSET (1..last),
         \A id \in DOMAIN table : table[id].tag \in Tag
  PROVE  /\ QuerySaveIndex(table) \in 1..(last + 1)
         /\ DOMAIN table \subseteq 1..(QuerySaveIndex(table) - 1)
         /\ QueryNoCollectIndex(table) \in 1..QuerySaveIndex(table)
         /\ \A id \in DOMAIN table :
              id < QueryNoCollectIndex(table) => table[id].tag = 1
<1>1. /\ LastId(table) \in 0..last
      /\ \A id \in DOMAIN table : id \in 1..LastId(table)
  <2>1. CASE DOMAIN table = {}
    BY <2>1 DEF LastId
  <2>2. CASE DOMAIN table # {}
    <3>1. DOMAIN table \in SUBSET (0..last)
      OBVIOUS
    <3>2. /\ Max(DOMAIN table) \in DOMAIN table
          /\ \A id \in DOMAIN table : id <= Max(DOMAIN table)
      BY <2>2, <3>1, MaxIsGreatest
    <3> QED
      BY <2>2, <3>2 DEF LastId
  <2> QED
    BY <2>1, <2>2
<1>2. CASE Uncollected(table) = {}
  BY <1>1, <1>2 DEF QuerySaveIndex, QueryNoCollectIndex, Uncollected, Tag
<1>3. CASE Uncollected(table) # {}
  <2>1. Uncollected(table) \in SUBSET Nat /\ Uncollected(table) \subseteq DOMAIN table
    BY DEF Uncollected
  <2>2. /\ Min(Uncollected(table)) \in Uncollected(table)
        /\ \A id \in Uncollected(table) : Min(Uncollected(table)) <= id
    BY <1>3, <2>1, MinIsLeast
  <2>3. QueryNoCollectIndex(table) = Min(Uncollected(table))
    BY <1>3 DEF QueryNoCollectIndex
  <2>4. \A id \in DOMAIN table :
          id < Min(Uncollected(table)) => table[id].tag = 1
    BY <2>2 DEF Uncollected, Tag
  <2> QED
    BY <1>1, <2>1, <2>2, <2>3, <2>4 DEF QuerySaveIndex
<1> QED
  BY <1>2, <1>3

------------------------------------------------------------------------------
\* The types and the ids: one lemma per group of actions.

LEMMA InitJInv == Init => JInv
<1> SUFFICES ASSUME Init PROVE JInv
  OBVIOUS
<1>1. Ids = {}
  BY DEF Init, Ids
<1>2. 0 \in 0..(UCHAR - 1) /\ 0 \in 0..MaxTxn /\ 0 \in 0..MaxFaults
  BY BatchAssumption, CharAssumption, BoundAssumption
<1>3. \A id \in Ids : consume[id] \in [txn : Txn, tag : Tag]
  BY <1>1
<1>4. TypeOK
  BY <1>1, <1>2, <1>3, Zenon DEF Init, TypeOK
<1>5. IdsAreBehind
  BY <1>1 DEF Init, IdsAreBehind
<1> QED
  BY <1>4, <1>5 DEF JInv

\* A new row, or the gap a failed insert leaves, lies behind the next id.
LEMMA SaveRecordJInv == ASSUME JInv, SaveRecord PROVE JInv'
<1> USE BoundAssumption
<1>1. CASE UNCHANGED <<consume, accepted>>
  BY <1>1 DEF SaveRecord, JInv, TypeOK, IdsAreBehind, Ids, Txn
<1>2. CASE /\ SaveRecordIndex \notin Ids
           /\ consume' = [id \in Ids \cup {SaveRecordIndex} |->
                            IF id = SaveRecordIndex
                            THEN [txn |-> txns + 1, tag |-> 0] ELSE consume[id]]
           /\ accepted' = accepted \cup {txns + 1}
  <2>1. /\ Ids' = Ids \cup {SaveRecordIndex}
        /\ SaveRecordIndex' = SaveRecordIndex + 1
        /\ txns' = txns + 1 /\ txns + 1 \in Txn
    BY <1>2 DEF SaveRecord, JInv, TypeOK, Ids, Txn
  <2>2. /\ consume'[SaveRecordIndex] = [txn |-> txns + 1, tag |-> 0]
        /\ \A id \in Ids : consume'[id] = consume[id]
    BY <1>2, <2>1
  <2>3. TypeOK'
    BY <1>2, <2>1, <2>2 DEF SaveRecord, JInv, TypeOK, Txn, Tag
  <2>4. IdsAreBehind'
    BY <2>1 DEF JInv, TypeOK, IdsAreBehind
  <2> QED
    BY <2>3, <2>4 DEF JInv
<1> QED
  BY <1>1, <1>2 DEF SaveRecord

LEMMA UploadJInv ==
  ASSUME JInv, NEW nums, RdRecord(nums) \/ RdSortPrince(nums) PROVE JInv'
<1> DEFINE k == ReadCount(nums)
<1>1. k \in 0..(UCHAR - 1) /\ k \in Nat
  BY ReadCountBounds, CharAssumption, BatchAssumption DEF JInv
<1>2. /\ SerialSendNoCollectNum' = k
      /\ recordSt' = BufferAfter(NoCollectRecordIndex, k)
      /\ reply' \subseteq UploadOf(NoCollectRecordIndex, k)
      /\ server' \in {"idle", "waiting", "got"}
      /\ UNCHANGED <<consume, SaveRecordIndex, NoCollectRecordIndex,
                     bitHaveReCollectRecord, qtQuery, txns, accepted, received, faults>>
  BY DEF RdRecord, RdSortPrince, Upload, history
<1> HIDE DEF k
<1>3. TxnsOf(Ids) \subseteq Txn /\ recordSt \in Txn \cup {NoTxn}
  BY DEF JInv, TypeOK, TxnsOf
<1>4. reply' \subseteq Txn /\ recordSt' \in Txn \cup {NoTxn}
  BY <1>1, <1>2, <1>3, UploadContents
<1>5. Ids' = Ids
  BY <1>2 DEF Ids
<1> QED
  BY <1>1, <1>2, <1>4, <1>5 DEF JInv, TypeOK, IdsAreBehind

LEMMA RdReRecordJInv == ASSUME JInv, RdReRecord PROVE JInv'
<1>1. /\ SerialSendNoCollectNum' \in 0..(UCHAR - 1)
      /\ recordSt' \in TxnsOf(Ids) \cup {recordSt}
      /\ bitHaveReCollectRecord' \in BOOLEAN
      /\ \E kept \in SUBSET (TxnsOf(Ids) \cup ({recordSt} \ {NoTxn})) :
           received' = received \cup kept
  BY RdReRecordEffect
<1>2. /\ reply' = {} /\ server' \in {"idle", "got"}
      /\ UNCHANGED <<consume, SaveRecordIndex, NoCollectRecordIndex, qtQuery,
                     txns, accepted, faults>>
  BY DEF RdReRecord, history
<1>3. TxnsOf(Ids) \subseteq Txn /\ recordSt \in Txn \cup {NoTxn}
  BY DEF JInv, TypeOK, TxnsOf
<1>4. recordSt' \in Txn \cup {NoTxn} /\ received' \subseteq Txn
  BY <1>1, <1>3 DEF JInv, TypeOK
<1>5. Ids' = Ids
  BY <1>2 DEF Ids
<1> QED
  BY <1>1, <1>2, <1>4, <1>5 DEF JInv, TypeOK, IdsAreBehind

LEMMA PowerUpJInv ==
  ASSUME JInv, NEW table,
         DOMAIN table = Ids,
         \A id \in Ids : table[id] \in [txn : Txn, tag : Tag],
         Fault, PowerUp(table), UNCHANGED <<server, reply, history, received>>
  PROVE  JInv'
<1> USE BoundAssumption
<1> DEFINE last == SaveRecordIndex - 1
<1>1. last \in Nat /\ DOMAIN table \in SUBSET (1..last) /\ last + 1 = SaveRecordIndex
  BY DEF JInv, TypeOK, IdsAreBehind
<1>2. \A id \in DOMAIN table : table[id].tag \in Tag
  OBVIOUS
<1> HIDE DEF last
<1>3. /\ QuerySaveIndex(table) \in 1..SaveRecordIndex
      /\ Ids \subseteq 1..(QuerySaveIndex(table) - 1)
      /\ QueryNoCollectIndex(table) \in 1..QuerySaveIndex(table)
  BY <1>1, <1>2, QueriesAtPowerUp
<1>4. /\ consume' = table /\ Ids' = Ids
      /\ SaveRecordIndex' = QuerySaveIndex(table)
      /\ NoCollectRecordIndex' = QueryNoCollectIndex(table)
      /\ SerialSendNoCollectNum' = 0
      /\ recordSt' = NoTxn
      /\ bitHaveReCollectRecord' = FALSE /\ qtQuery' = FALSE
      /\ UNCHANGED <<server, reply, txns, accepted, received>>
      /\ faults' = faults + 1 /\ faults < MaxFaults
  BY DEF PowerUp, Fault, history, Ids
<1>5. TypeOK'
  <2>1. /\ SaveRecordIndex' \in Nat /\ NoCollectRecordIndex' \in Nat
        /\ faults' \in 0..MaxFaults /\ 0 \in 0..(UCHAR - 1)
    BY <1>3, <1>4, CharAssumption, BatchAssumption DEF JInv, TypeOK
  <2> QED
    BY <1>4, <2>1 DEF JInv, TypeOK
<1>6. IdsAreBehind'
  <2>1. QuerySaveIndex(table) \in 1..(txns + 1)
    BY <1>3 DEF JInv, TypeOK, IdsAreBehind
  <2> QED
    BY <1>3, <1>4, <2>1 DEF IdsAreBehind
<1> QED
  BY <1>5, <1>6 DEF JInv

\* Marking rows changes tags only.
LEMMA MarkKeepsRows ==
  ASSUME TypeOK, NEW ids
  PROVE  /\ DOMAIN Mark(consume, ids) = Ids
         /\ \A id \in Ids :
              /\ Mark(consume, ids)[id] \in [txn : Txn, tag : Tag]
              /\ Mark(consume, ids)[id].txn = consume[id].txn
              /\ Mark(consume, ids)[id].tag = IF id \in ids THEN 1 ELSE consume[id].tag
BY DEF Mark, TypeOK, Ids, Tag

LEMMA PowerCutsJInv == ASSUME JInv, PowerCut \/ DelRecordPowerCut PROVE JInv'
<1>1. CASE PowerCut
  <2>1. \A id \in Ids : consume[id] \in [txn : Txn, tag : Tag]
    BY DEF JInv, TypeOK
  <2> QED
    BY <1>1, <2>1, PowerUpJInv DEF PowerCut, Ids
<1>2. CASE DelRecordPowerCut
  <2>1. PICK k \in 0..SerialSendNoCollectNum :
          PowerUp(Mark(consume, Window(NoCollectRecordIndex, k)))
    BY <1>2 DEF DelRecordPowerCut
  <2> DEFINE table == Mark(consume, Window(NoCollectRecordIndex, k))
  <2>2. /\ DOMAIN table = Ids
        /\ \A id \in Ids : table[id] \in [txn : Txn, tag : Tag]
    BY MarkKeepsRows DEF JInv
  <2>3. Fault /\ PowerUp(table) /\ UNCHANGED <<server, reply, history, received>>
    BY <1>2, <2>1 DEF DelRecordPowerCut
  <2> HIDE DEF table
  <2> QED
    BY <2>2, <2>3, PowerUpJInv
<1> QED
  BY <1>1, <1>2

LEMMA DelRecordJInv == ASSUME JInv, DelRecord PROVE JInv'
<1>0. /\ server' \in {"got", "idle"}
      /\ UNCHANGED <<SaveRecordIndex, recordSt, bitHaveReCollectRecord, qtQuery,
                     reply, txns, accepted, received, faults>>
  BY DEF DelRecord, history
<1>1. CASE UNCHANGED <<consume, NoCollectRecordIndex, SerialSendNoCollectNum>>
  BY <1>0, <1>1 DEF JInv, TypeOK, IdsAreBehind, Ids
<1>2. ASSUME NEW done \in SUBSET Pending, consume' = Mark(consume, done), Advance
      PROVE  JInv'
  <2>1. Ids' = Ids /\ \A id \in Ids : consume'[id] \in [txn : Txn, tag : Tag]
    BY <1>2, MarkKeepsRows DEF JInv, Ids
  <2>2. NoCollectRecordIndex' \in Nat
    <3>1. NoCollectRecordIndex + SerialSendNoCollectNum \in Nat
      BY DEF JInv, TypeOK
    <3> QED
      BY <1>2, <3>1, ModulusAssumption DEF Advance
  <2>3. SerialSendNoCollectNum' \in 0..(UCHAR - 1)
    BY <1>2, CharAssumption, BatchAssumption DEF Advance
  <2> QED
    BY <1>0, <2>1, <2>2, <2>3 DEF JInv, TypeOK, IdsAreBehind
<1> QED
  BY <1>1, <1>2 DEF DelRecord

\* The network, the QT thread and the handlers that move no pointer.
Aside ==
  \/ DelReRecord \/ ReceiveReply \/ LoseReply
  \/ ClrPosDatas \/ QtQueryBegin \/ QtQueryEnd

LEMMA AsideJInv == ASSUME JInv, Aside PROVE JInv'
<1> USE BoundAssumption DEF JInv, TypeOK, IdsAreBehind, Ids, terminal, history
<1>1. CASE DelReRecord
  BY <1>1 DEF DelReRecord
<1>2. CASE ReceiveReply
  <2>1. received' \subseteq Txn
    BY <1>2 DEF ReceiveReply
  <2> QED
    BY <1>2, <2>1 DEF ReceiveReply
<1>3. CASE LoseReply
  BY <1>3 DEF LoseReply
<1>4. CASE ClrPosDatas
  <2>1. CASE consume' = consume
    BY <1>4, <2>1 DEF ClrPosDatas, Fault
  <2>2. CASE consume' = [id \in {} |-> [txn |-> NoTxn, tag |-> 0]]
    BY <1>4, <2>2 DEF ClrPosDatas, Fault
  <2> QED
    BY <1>4, <2>1, <2>2 DEF ClrPosDatas
<1>5. CASE QtQueryBegin
  BY <1>5 DEF QtQueryBegin, Fault
<1>6. CASE QtQueryEnd
  BY <1>6 DEF QtQueryEnd
<1> QED
  BY <1>1, <1>2, <1>3, <1>4, <1>5, <1>6 DEF Aside

LEMMA NextJInv == ASSUME JInv, [Next]_vars PROVE JInv'
<1>1. CASE SaveRecord
  BY <1>1, SaveRecordJInv
<1>2. CASE \E nums \in 0..(RD_BATCH + 1) : RdRecord(nums) \/ RdSortPrince(nums)
  BY <1>2, UploadJInv
<1>3. CASE RdReRecord
  BY <1>3, RdReRecordJInv
<1>4. CASE DelRecord
  BY <1>4, DelRecordJInv
<1>5. CASE PowerCut \/ DelRecordPowerCut
  BY <1>5, PowerCutsJInv
<1>6. CASE Aside
  BY <1>6, AsideJInv
<1>7. CASE UNCHANGED vars
  BY <1>7 DEF vars, terminal, history, JInv, TypeOK, IdsAreBehind, Ids
<1> QED
  BY <1>1, <1>2, <1>3, <1>4, <1>5, <1>6, <1>7 DEF Next, Aside

LEMMA TypesAndIds == Spec => []JInv
<1>1. Init => JInv
  BY InitJInv
<1>2. JInv /\ [Next]_vars => JInv'
  BY NextJInv
<1> QED
  BY <1>1, <1>2, PTL DEF Spec

------------------------------------------------------------------------------
\* The collection: one lemma per group of actions.  The types are those of the
\* lemmas above.

LEMMA InitIInv == Init => IInv
<1> SUFFICES ASSUME Init PROVE IInv
  OBVIOUS
<1>1. Ids = {}
  BY DEF Init, Ids
<1>2. JInv
  BY InitJInv
<1>3. PointersInOrder /\ WindowIsStored /\ ReplyHasWindow /\ Provenance
  BY <1>1 DEF Init, PointersInOrder, WindowIsStored, ReplyHasWindow, Provenance
<1>4. CollectedWasReceived /\ PassedWasReceived /\ CountedWasReceived
  BY <1>1 DEF CollectedWasReceived, PassedWasReceived, CountedWasReceived
<1> QED
  BY <1>2, <1>3, <1>4 DEF IInv

\* A new row lies behind the pointers and outside the rows counted for the
\* server.
LEMMA SaveRecordIInv == ASSUME IInv, JInv', SaveRecord PROVE IInv'
<1> USE BoundAssumption DEF JInv, IdsAreBehind
<1>1. CASE UNCHANGED <<consume, accepted>>
  BY <1>1 DEF SaveRecord, IInv, TypeOK, PointersInOrder, WindowIsStored,
     ReplyHasWindow, Provenance, CollectedWasReceived, PassedWasReceived,
     CountedWasReceived, Ids, Pending, Window, Txn
<1>2. CASE /\ consume' = [id \in Ids \cup {SaveRecordIndex} |->
                            IF id = SaveRecordIndex
                            THEN [txn |-> txns + 1, tag |-> 0] ELSE consume[id]]
           /\ accepted' = accepted \cup {txns + 1}
  <2>1. /\ Ids' = Ids \cup {SaveRecordIndex}
        /\ SaveRecordIndex \notin Ids
        /\ SaveRecordIndex' = SaveRecordIndex + 1
        /\ txns' = txns + 1 /\ txns + 1 \in Txn
        /\ NoCollectRecordIndex' = NoCollectRecordIndex
        /\ SerialSendNoCollectNum' = SerialSendNoCollectNum
        /\ recordSt' = recordSt /\ server' = server
        /\ reply' = reply /\ received' = received
    BY <1>2 DEF SaveRecord, IInv, TypeOK, Ids, Txn
  <2>2. /\ consume'[SaveRecordIndex] = [txn |-> txns + 1, tag |-> 0]
        /\ \A id \in Ids : consume'[id] = consume[id]
    BY <1>2, <2>1
  <2>3. PointersInOrder' /\ WindowIsStored'
    BY <2>1 DEF IInv, TypeOK, PointersInOrder, WindowIsStored
  <2>4. Provenance'
    <3>1. txns \in Nat /\ accepted' \subseteq 1..txns'
      BY <1>2, <2>1 DEF IInv, TypeOK, Provenance
    <3> QED
      BY <1>2, <2>1, <2>2, <3>1 DEF IInv, Provenance
  <2>5. CollectedWasReceived' /\ PassedWasReceived'
    <3>1. ~ (SaveRecordIndex < NoCollectRecordIndex)
      BY DEF IInv, TypeOK, PointersInOrder
    <3> QED
      BY <2>1, <2>2, <3>1 DEF IInv, CollectedWasReceived, PassedWasReceived
  <2>6. server # "idle" => SaveRecordIndex \notin Pending
    BY DEF IInv, TypeOK, WindowIsStored, Pending, Window
  <2>7. ReplyHasWindow' /\ CountedWasReceived'
    BY <2>1, <2>2, <2>6 DEF IInv, ReplyHasWindow, CountedWasReceived, Pending
  <2> QED
    BY <2>3, <2>4, <2>5, <2>7 DEF IInv
<1> QED
  BY <1>1, <1>2 DEF SaveRecord

\* Below the modulus the rows RD_RECORD counts were all stored.
LEMMA CountedAreStored ==
  ASSUME IInv, NoWrap, NEW nums
  PROVE  /\ ReadCount(nums) \in Nat
         /\ NoCollectRecordIndex + ReadCount(nums) <= SaveRecordIndex
<1> USE BatchAssumption, CharAssumption, BoundAssumption, ModulusAssumption
<1>1. /\ SaveRecordIndex \in Nat /\ NoCollectRecordIndex \in Nat
      /\ NoCollectRecordIndex <= SaveRecordIndex
      /\ SaveRecordIndex < MAXRECORD_NUM
  BY DEF IInv, JInv, TypeOK, IdsAreBehind, PointersInOrder, NoWrap
<1>2. Distance = SaveRecordIndex - NoCollectRecordIndex
  <2>1. /\ SaveRecordIndex - NoCollectRecordIndex \in Nat
        /\ SaveRecordIndex - NoCollectRecordIndex < MAXRECORD_NUM
    BY <1>1
  <2>2. (SaveRecordIndex - NoCollectRecordIndex) % MAXRECORD_NUM
          = SaveRecordIndex - NoCollectRecordIndex
    BY <2>1, ModSmall
  <2> QED
    BY <1>1, <2>2 DEF Distance
<1>3. Limit \in Nat /\ NoCollectRecordIndex + Limit <= SaveRecordIndex
  BY <1>1, <1>2 DEF Limit
<1>4. ReadCount(nums) \in 0..(UCHAR - 1) /\ ReadCount(nums) <= Limit
  BY ReadCountBounds DEF IInv, JInv
<1> QED
  BY <1>1, <1>3, <1>4

\* Below the modulus, what is sent and what is left in the row buffer was
\* accepted.
LEMMA ContentsWereAccepted ==
  ASSUME IInv, NEW k \in Nat
  PROVE  /\ TxnsOf(Ids) \cup ({recordSt} \ {NoTxn}) \subseteq accepted
         /\ UploadOf(NoCollectRecordIndex, k) \subseteq accepted
         /\ BufferAfter(NoCollectRecordIndex, k) \in accepted \cup {NoTxn}
<1>1. /\ TxnsOf(Ids) \subseteq accepted
      /\ recordSt \in accepted \cup {NoTxn}
  BY DEF IInv, Provenance, TxnsOf
<1> QED
  BY <1>1, UploadContents DEF IInv

LEMMA RdRecordIInv ==
  ASSUME IInv, JInv', NoWrap, NEW nums, RdRecord(nums) PROVE IInv'
<1> DEFINE k == ReadCount(nums)
<1>1. k \in Nat /\ NoCollectRecordIndex + k <= SaveRecordIndex
  BY CountedAreStored
<1>2. /\ SerialSendNoCollectNum' = k
      /\ reply' = UploadOf(NoCollectRecordIndex, k)
      /\ recordSt' = BufferAfter(NoCollectRecordIndex, k)
      /\ server' = "waiting"
      /\ UNCHANGED <<consume, SaveRecordIndex, NoCollectRecordIndex, txns, accepted,
                     received>>
  BY DEF RdRecord, Upload, history
<1> HIDE DEF k
<1>3. /\ reply' \subseteq accepted
      /\ \A id \in Window(NoCollectRecordIndex, k) \cap Ids : consume[id].txn \in reply'
      /\ recordSt' \in accepted \cup {NoTxn}
  BY <1>1, <1>2, UploadContents, ContentsWereAccepted DEF IInv
<1>4. Ids' = Ids /\ Pending' = Window(NoCollectRecordIndex, k)
  BY <1>2 DEF Ids, Pending
<1>5. PointersInOrder' /\ WindowIsStored' /\ Provenance'
  BY <1>1, <1>2, <1>3, <1>4 DEF IInv, PointersInOrder, WindowIsStored, Provenance
<1>6. ReplyHasWindow' /\ CollectedWasReceived' /\ PassedWasReceived' /\ CountedWasReceived'
  BY <1>2, <1>3, <1>4 DEF IInv, ReplyHasWindow, CollectedWasReceived,
     PassedWasReceived, CountedWasReceived
<1> QED
  BY <1>5, <1>6 DEF IInv

\* Only a server that is not about to acknowledge may ask for another reply, so
\* no count is left standing for rows that reply did not carry.
LEMMA RdSortPrinceIInv ==
  ASSUME IInv, JInv', Undisturbed, NEW nums, RdSortPrince(nums) PROVE IInv'
<1> DEFINE k == ReadCount(nums)
<1>1. k \in Nat
  BY ReadCountBounds, CharAssumption, BatchAssumption DEF IInv, JInv
<1>2. /\ recordSt' = BufferAfter(NoCollectRecordIndex, k)
      /\ reply' = {} /\ server' = "idle"
      /\ UNCHANGED <<consume, SaveRecordIndex, NoCollectRecordIndex, txns, accepted,
                     received>>
  BY DEF RdSortPrince, Allowed, Undisturbed, history
<1> HIDE DEF k
<1>3. recordSt' \in accepted \cup {NoTxn}
  BY <1>1, <1>2, ContentsWereAccepted
<1>4. Ids' = Ids
  BY <1>2 DEF Ids
<1>5. PointersInOrder' /\ WindowIsStored' /\ Provenance'
  BY <1>2, <1>3, <1>4 DEF IInv, PointersInOrder, WindowIsStored, Provenance
<1>6. ReplyHasWindow' /\ CollectedWasReceived' /\ PassedWasReceived' /\ CountedWasReceived'
  BY <1>2, <1>4 DEF IInv, ReplyHasWindow, CollectedWasReceived,
     PassedWasReceived, CountedWasReceived
<1> QED
  BY <1>5, <1>6 DEF IInv

LEMMA RdReRecordIInv ==
  ASSUME IInv, JInv', Undisturbed, RdReRecord PROVE IInv'
<1>1. /\ reply' = {} /\ server' = "idle"
      /\ UNCHANGED <<consume, SaveRecordIndex, NoCollectRecordIndex, txns, accepted>>
  BY DEF RdReRecord, Allowed, Undisturbed, history
<1>2. Ids' = Ids
  BY <1>1 DEF Ids
<1>3. recordSt' \in accepted \cup {NoTxn} /\ received \subseteq received'
  <2>1. recordSt' \in TxnsOf(Ids) \cup {recordSt} /\ received \subseteq received'
    BY RdReRecordEffect DEF IInv
  <2> QED
    BY <2>1 DEF IInv, Provenance, TxnsOf
<1>4. PointersInOrder' /\ WindowIsStored' /\ Provenance'
  BY <1>1, <1>2, <1>3 DEF IInv, PointersInOrder, WindowIsStored, Provenance
<1>5. ReplyHasWindow' /\ CollectedWasReceived' /\ PassedWasReceived' /\ CountedWasReceived'
  BY <1>1, <1>2, <1>3 DEF IInv, ReplyHasWindow, CollectedWasReceived,
     PassedWasReceived, CountedWasReceived
<1> QED
  BY <1>4, <1>5 DEF IInv

\* A restart forgets the count, so the old acknowledgement of the server marks
\* nothing, and the pointers derived from the table pass collected rows only.
LEMMA PowerUpIInv ==
  ASSUME IInv, JInv', NEW table,
         DOMAIN table = Ids,
         \A id \in Ids : /\ table[id] \in [txn : Txn, tag : Tag]
                         /\ table[id].txn = consume[id].txn
                         /\ table[id].tag = 1 => table[id].txn \in received,
         PowerUp(table), UNCHANGED <<server, reply, history, received>>
  PROVE  IInv'
<1> DEFINE last == SaveRecordIndex - 1
<1>1. last \in Nat /\ DOMAIN table \in SUBSET (1..last)
  BY DEF IInv, JInv, TypeOK, IdsAreBehind
<1>2. \A id \in DOMAIN table : table[id].tag \in Tag
  OBVIOUS
<1> HIDE DEF last
<1>3. /\ QuerySaveIndex(table) \in Nat
      /\ QueryNoCollectIndex(table) \in 1..QuerySaveIndex(table)
      /\ \A id \in Ids : id < QueryNoCollectIndex(table) => table[id].tag = 1
  <2>1. /\ QuerySaveIndex(table) \in 1..(last + 1)
        /\ QueryNoCollectIndex(table) \in 1..QuerySaveIndex(table)
        /\ \A id \in DOMAIN table :
             id < QueryNoCollectIndex(table) => table[id].tag = 1
    BY <1>1, <1>2, QueriesAtPowerUp
  <2> QED
    BY <1>1, <2>1
<1>4. /\ consume' = table /\ Ids' = Ids
      /\ SaveRecordIndex' = QuerySaveIndex(table)
      /\ NoCollectRecordIndex' = QueryNoCollectIndex(table)
      /\ SerialSendNoCollectNum' = 0
      /\ recordSt' = NoTxn
      /\ UNCHANGED <<server, reply, txns, accepted, received>>
  BY DEF PowerUp, history, Ids
<1>5. PointersInOrder' /\ WindowIsStored' /\ Provenance'
  BY <1>3, <1>4 DEF IInv, PointersInOrder, WindowIsStored, Provenance
<1>6. Pending' = {}
  <2>1. NoCollectRecordIndex' \in Nat
    BY <1>3, <1>4
  <2> QED
    BY <1>4, <2>1 DEF Pending, Window
<1>7. CollectedWasReceived' /\ PassedWasReceived'
  BY <1>3, <1>4 DEF CollectedWasReceived, PassedWasReceived
<1>8. ReplyHasWindow' /\ CountedWasReceived'
  BY <1>6 DEF ReplyHasWindow, CountedWasReceived
<1> QED
  BY <1>5, <1>7, <1>8 DEF IInv

LEMMA PowerCutIInv == ASSUME IInv, JInv', PowerCut PROVE IInv'
<1>1. \A id \in Ids : /\ consume[id] \in [txn : Txn, tag : Tag]
                      /\ consume[id].tag = 1 => consume[id].txn \in received
  BY DEF IInv, JInv, TypeOK, CollectedWasReceived
<1> QED
  BY <1>1, PowerUpIInv DEF PowerCut, Ids

LEMMA DelRecordPowerCutIInv == ASSUME IInv, JInv', DelRecordPowerCut PROVE IInv'
<1>1. PICK k \in 0..SerialSendNoCollectNum :
        PowerUp(Mark(consume, Window(NoCollectRecordIndex, k)))
  BY DEF DelRecordPowerCut
<1> DEFINE table == Mark(consume, Window(NoCollectRecordIndex, k))
<1>2. Window(NoCollectRecordIndex, k) \subseteq Pending
  BY DEF IInv, JInv, TypeOK, Window, Pending
<1>3. /\ DOMAIN table = Ids
      /\ \A id \in Ids :
           /\ table[id] \in [txn : Txn, tag : Tag]
           /\ table[id].txn = consume[id].txn
           /\ table[id].tag =
                IF id \in Window(NoCollectRecordIndex, k) THEN 1 ELSE consume[id].tag
  BY MarkKeepsRows DEF IInv, JInv
<1>4. \A id \in Ids : table[id].tag = 1 => table[id].txn \in received
  BY <1>2, <1>3 DEF IInv, CollectedWasReceived, CountedWasReceived, DelRecordPowerCut
<1>5. PowerUp(table) /\ UNCHANGED <<server, reply, history, received>>
  BY <1>1 DEF DelRecordPowerCut
<1> HIDE DEF table
<1> QED
  BY <1>3, <1>4, <1>5, PowerUpIInv

LEMMA DelRecordIInv == ASSUME IInv, JInv', NoWrap, DelRecord PROVE IInv'
<1> USE BatchAssumption, CharAssumption
<1>0. /\ server = "got" /\ server' \in {"got", "idle"}
      /\ UNCHANGED <<SaveRecordIndex, recordSt, reply, txns, accepted, received>>
  BY DEF DelRecord, history
<1>1. CASE UNCHANGED <<consume, NoCollectRecordIndex, SerialSendNoCollectNum>>
  BY <1>0, <1>1 DEF IInv, PointersInOrder, WindowIsStored, ReplyHasWindow,
     Provenance, CollectedWasReceived, PassedWasReceived, CountedWasReceived,
     Ids, Pending, Window
<1>2. ASSUME NEW done \in SUBSET Pending, consume' = Mark(consume, done), Advance
      PROVE  IInv'
  <2>1. /\ Ids' = Ids
        /\ \A id \in Ids :
             /\ consume'[id].txn = consume[id].txn
             /\ consume'[id].tag = IF id \in done THEN 1 ELSE consume[id].tag
    BY <1>2, MarkKeepsRows DEF IInv, JInv, Ids
  <2>2. /\ NoCollectRecordIndex' = NoCollectRecordIndex + SerialSendNoCollectNum
        /\ NoCollectRecordIndex' \in Nat
        /\ NoCollectRecordIndex' \in 1..SaveRecordIndex
        /\ SerialSendNoCollectNum' = 0
    <3>1. /\ NoCollectRecordIndex + SerialSendNoCollectNum \in Nat
          /\ NoCollectRecordIndex + SerialSendNoCollectNum \in 1..SaveRecordIndex
          /\ NoCollectRecordIndex + SerialSendNoCollectNum < MAXRECORD_NUM
      <4>1. /\ NoCollectRecordIndex \in Nat /\ SerialSendNoCollectNum \in Nat
            /\ NoCollectRecordIndex >= 1
        BY DEF IInv, JInv, TypeOK, PointersInOrder
      <4>2. NoCollectRecordIndex + SerialSendNoCollectNum <= SaveRecordIndex
        BY <1>0 DEF IInv, WindowIsStored
      <4>3. SaveRecordIndex \in Nat /\ SaveRecordIndex < MAXRECORD_NUM
        BY BoundAssumption, ModulusAssumption
           DEF IInv, JInv, TypeOK, IdsAreBehind, NoWrap
      <4> QED
        BY <4>1, <4>2, <4>3, ModulusAssumption
    <3>2. (NoCollectRecordIndex + SerialSendNoCollectNum) % MAXRECORD_NUM
            = NoCollectRecordIndex + SerialSendNoCollectNum
      BY <3>1, ModSmall, ModulusAssumption
    <3> QED
      BY <1>2, <3>1, <3>2 DEF Advance
  <2>3. Pending' = {}
    BY <2>2 DEF Pending, Window
  <2>4. PointersInOrder' /\ WindowIsStored' /\ Provenance'
    BY <1>0, <2>1, <2>2 DEF IInv, PointersInOrder, WindowIsStored, Provenance
  <2>5. CollectedWasReceived'
    BY <1>0, <2>1 DEF IInv, CollectedWasReceived, CountedWasReceived
  <2>6. PassedWasReceived'
    <3>1. \A id \in Ids : id < NoCollectRecordIndex' =>
            id < NoCollectRecordIndex \/ id \in Pending
      BY <2>2 DEF IInv, JInv, TypeOK, Pending, Window
    <3> QED
      BY <1>0, <2>1, <3>1 DEF IInv, PassedWasReceived, CountedWasReceived
  <2>7. ReplyHasWindow' /\ CountedWasReceived'
    BY <2>3 DEF ReplyHasWindow, CountedWasReceived
  <2> QED
    BY <2>4, <2>5, <2>6, <2>7 DEF IInv
<1> QED
  BY <1>1, <1>2 DEF DelRecord

LEMMA AsideIInv == ASSUME IInv, JInv', Aside PROVE IInv'
<1> USE DEF IInv, PointersInOrder, WindowIsStored,
        ReplyHasWindow, Provenance, CollectedWasReceived, PassedWasReceived,
        CountedWasReceived, Ids, Pending, terminal, history
<1>1. CASE DelReRecord
  BY <1>1 DEF DelReRecord
<1>2. CASE ReceiveReply
  <2>1. received \subseteq received' /\ reply \subseteq received'
    BY <1>2 DEF ReceiveReply
  <2> QED
    BY <1>2, <2>1 DEF ReceiveReply
<1>3. CASE LoseReply
  BY <1>3 DEF LoseReply
<1>4. CASE ClrPosDatas
  <2>1. CASE consume' = consume
    BY <1>4, <2>1 DEF ClrPosDatas
  <2>2. CASE consume' = [id \in {} |-> [txn |-> NoTxn, tag |-> 0]]
    BY <1>4, <2>2 DEF ClrPosDatas
  <2> QED
    BY <1>4, <2>1, <2>2 DEF ClrPosDatas
<1>5. CASE QtQueryBegin
  BY <1>5 DEF QtQueryBegin
<1>6. CASE QtQueryEnd
  BY <1>6 DEF QtQueryEnd
<1> QED
  BY <1>1, <1>2, <1>3, <1>4, <1>5, <1>6 DEF Aside

LEMMA NextIInv ==
  ASSUME IInv, NoWrap, Undisturbed, [Next]_vars PROVE IInv'
<1>0. JInv'
  BY NextJInv DEF IInv
<1>1. CASE SaveRecord
  BY <1>0, <1>1, SaveRecordIInv
<1>2. CASE \E nums \in 0..(RD_BATCH + 1) : RdRecord(nums) \/ RdSortPrince(nums)
  BY <1>0, <1>2, RdRecordIInv, RdSortPrinceIInv
<1>3. CASE RdReRecord
  BY <1>0, <1>3, RdReRecordIInv
<1>4. CASE DelRecord
  BY <1>0, <1>4, DelRecordIInv
<1>5. CASE DelRecordPowerCut
  BY <1>0, <1>5, DelRecordPowerCutIInv
<1>6. CASE PowerCut
  BY <1>0, <1>6, PowerCutIInv
<1>7. CASE Aside
  BY <1>0, <1>7, AsideIInv
<1>8. CASE UNCHANGED vars
  BY <1>0, <1>8 DEF vars, terminal, history, IInv, PointersInOrder,
     WindowIsStored, ReplyHasWindow, Provenance, CollectedWasReceived,
     PassedWasReceived, CountedWasReceived, Ids, Pending
<1> QED
  BY <1>1, <1>2, <1>3, <1>4, <1>5, <1>6, <1>7, <1>8 DEF Next, Aside

LEMMA Invariance == ASSUME NoWrap, Undisturbed PROVE Spec => []IInv
<1>1. Init => IInv
  BY InitIInv
<1>2. IInv /\ [Next]_vars => IInv'
  BY NextIInv
<1> QED
  BY <1>1, <1>2, PTL DEF Spec

------------------------------------------------------------------------------
\* The theorems.

\* Every value the journal's variables take has its type, whatever the server
\* asks for and wherever the pointers wrap: the count of the upload fits its
\* unsigned char, the row buffer holds a record or nothing.
THEOREM TypeCorrect == Spec => []TypeOK
<1>1. JInv => TypeOK
  BY DEF JInv
<1> QED
  BY <1>1, TypesAndIds, PTL

\* No consumption is dropped by the primary key of the table: neither the
\* commands of the server nor the wrap of the collection pointer nor a power cut
\* ever makes app_ykt_save_record take an id twice.
THEOREM NextIdFree == Spec => []NextIdIsFree
<1>1. JInv => NextIdIsFree
  BY DEF JInv, TypeOK, IdsAreBehind, NextIdIsFree
<1> QED
  BY <1>1, TypesAndIds, PTL

\* Every row with tag 1 is a record the server has, for any loss of replies,
\* any failed updates and a power cut after any of them.
THEOREM CollectedIsReceived ==
  ASSUME NoWrap, Undisturbed PROVE Spec => []CollectedWasReceived
<1>1. IInv => CollectedWasReceived
  BY DEF IInv
<1> QED
  BY <1>1, Invariance, PTL

\* The collection pointer passes only records the server has, so no record is
\* skipped.
THEOREM PassedIsReceived ==
  ASSUME NoWrap, Undisturbed PROVE Spec => []PassedWasReceived
<1>1. IInv => PassedWasReceived
  BY DEF IInv
<1> QED
  BY <1>1, Invariance, PTL

\* The rows DEL_RECORD would mark are rows the acknowledging server has.
THEOREM CountedIsReceived ==
  ASSUME NoWrap, Undisturbed PROVE Spec => []CountedWasReceived
<1>1. IInv => CountedWasReceived
  BY DEF IInv
<1> QED
  BY <1>1, Invariance, PTL

------------------------------------------------------------------------------
\* The journal implements the ledger.

\* A step that only marks rows of records the server has is a Release.
LEMMA MarkingReleases ==
  ASSUME IInv, IInv', UNCHANGED <<accepted, received>>,
         Ids' = Ids,
         \A id \in Ids : /\ consume'[id].txn = consume[id].txn
                         /\ consume[id].tag = 1 => consume'[id].tag = 1
  PROVE  L!Next \/ UNCHANGED L!vars
<1> DEFINE S == Held \ Held'
<1>1. Held' \subseteq Held
  <2> SUFFICES ASSUME NEW id \in Ids, consume'[id].tag = 0
               PROVE  consume[id].tag = 0
    BY DEF Held, Uncollected, Ids
  <2>1. consume[id].tag \in Tag
    BY DEF IInv, JInv, TypeOK
  <2> QED
    BY <2>1 DEF Tag
<1>2. S \subseteq received
  <2> SUFFICES ASSUME NEW id \in Ids, consume[id].txn \notin Held'
               PROVE  consume[id].txn \in received
    BY DEF Held, Uncollected, Ids
  <2>1. consume'[id].tag # 0
    BY DEF Held, Uncollected, Ids
  <2>2. consume'[id].tag = 1
    BY <2>1 DEF IInv, JInv, TypeOK, Tag
  <2> QED
    BY <2>2 DEF IInv, CollectedWasReceived
<1>3. Held' = Held \ S
  BY <1>1
<1>4. L!Release(S)
  BY <1>2, <1>3 DEF L!Release
<1>5. S \in SUBSET Held
  OBVIOUS
<1> HIDE DEF S
<1> QED
  BY <1>4, <1>5 DEF L!Next

\* A step that adds accepted records to those the server has is a Receive.
LEMMA SendingReceives ==
  ASSUME NEW S \in SUBSET accepted, received' = received \cup S,
         UNCHANGED <<consume, accepted>>
  PROVE  L!Next
<1>1. Held' = Held
  BY DEF Held, Uncollected
<1> QED
  BY <1>1 DEF L!Next, L!Receive

LEMMA InitRefines == Init => L!Init
<1> SUFFICES ASSUME Init PROVE L!Init
  OBVIOUS
<1>1. DOMAIN consume = {}
  BY DEF Init
<1>2. Held = {}
  BY <1>1 DEF Held, Uncollected
<1> QED
  BY <1>2 DEF Init, L!Init

LEMMA SaveRecordRefines ==
  ASSUME IInv, SaveRecord PROVE L!Next \/ UNCHANGED L!vars
<1>1. CASE UNCHANGED <<consume, accepted>>
  BY <1>1 DEF SaveRecord, Held, Uncollected, L!vars
<1>2. CASE /\ SaveRecordIndex \notin Ids
           /\ consume' = [id \in Ids \cup {SaveRecordIndex} |->
                            IF id = SaveRecordIndex
                            THEN [txn |-> txns + 1, tag |-> 0] ELSE consume[id]]
           /\ accepted' = accepted \cup {txns + 1}
  <2>1. txns + 1 \in Txn /\ txns + 1 \notin accepted /\ received' = received
    BY BoundAssumption DEF SaveRecord, IInv, JInv, TypeOK, Provenance, Txn
  <2>2. /\ DOMAIN consume' = Ids \cup {SaveRecordIndex}
        /\ consume'[SaveRecordIndex] = [txn |-> txns + 1, tag |-> 0]
        /\ \A id \in Ids : consume'[id] = consume[id]
    BY <1>2
  <2>3. Held' = Held \cup {txns + 1}
    BY <2>2 DEF Held, Uncollected, Ids
  <2>4. L!Accept(txns + 1)
    BY <1>2, <2>1, <2>3 DEF L!Accept
  <2> QED
    BY <2>1, <2>4 DEF L!Next
<1> QED
  BY <1>1, <1>2 DEF SaveRecord

LEMMA RdReRecordRefines ==
  ASSUME IInv, RdReRecord PROVE L!Next
<1>1. \A ids : TxnsOf(ids) \cup ({recordSt} \ {NoTxn}) \subseteq accepted
  BY DEF TxnsOf, IInv, Provenance
<1>2. PICK k \in 0..RD_TRIES :
        LET found == {d \in 0..(k-1) : CountAfter(d) \in Ids}
        IN  \E kept \in SUBSET (TxnsOf({CountAfter(d) : d \in found})
                                  \cup ({recordSt} \ {NoTxn})) :
              received' = received \cup kept
  BY DEF RdReRecord
<1>3. \E kept \in SUBSET accepted : received' = received \cup kept
  BY <1>1, <1>2
<1>4. UNCHANGED <<consume, accepted>>
  BY DEF RdReRecord, history
<1> QED
  BY <1>3, <1>4, SendingReceives

LEMMA ClrPosDatasRefines ==
  ASSUME ClrPosDatas PROVE L!Next \/ UNCHANGED L!vars
<1>1. UNCHANGED <<accepted, received>>
  BY DEF ClrPosDatas, history
<1>2. CASE consume' = consume
  BY <1>1, <1>2 DEF Held, Uncollected, L!vars
<1>3. CASE consume' = [id \in {} |-> [txn |-> NoTxn, tag |-> 0]]
  <2>1. DOMAIN consume' = {}
    BY <1>3
  <2>2. Held' = {}
    BY <2>1 DEF Held, Uncollected
  <2> QED
    BY <1>1, <2>2 DEF L!Next, L!Clear
<1> QED
  BY <1>2, <1>3 DEF ClrPosDatas

LEMMA DelRecordRefines ==
  ASSUME IInv, IInv', DelRecord PROVE L!Next \/ UNCHANGED L!vars
<1>1. UNCHANGED <<accepted, received>>
  BY DEF DelRecord, history
<1>2. CASE consume' = consume
  BY <1>1, <1>2 DEF Held, Uncollected, L!vars
<1>3. ASSUME NEW done, consume' = Mark(consume, done)
      PROVE  L!Next \/ UNCHANGED L!vars
  <2>1. /\ Ids' = Ids
        /\ \A id \in Ids :
             /\ consume'[id].txn = consume[id].txn
             /\ consume[id].tag = 1 => consume'[id].tag = 1
    BY <1>3, MarkKeepsRows DEF IInv, JInv, Ids
  <2> QED
    BY <1>1, <2>1, MarkingReleases
<1> QED
  BY <1>2, <1>3 DEF DelRecord

LEMMA DelRecordPowerCutRefines ==
  ASSUME IInv, IInv', DelRecordPowerCut PROVE L!Next \/ UNCHANGED L!vars
<1>1. PICK k : consume' = Mark(consume, Window(NoCollectRecordIndex, k))
  BY DEF DelRecordPowerCut, PowerUp
<1>2. /\ Ids' = Ids
      /\ \A id \in Ids :
           /\ consume'[id].txn = consume[id].txn
           /\ consume[id].tag = 1 => consume'[id].tag = 1
  BY <1>1, MarkKeepsRows DEF IInv, JInv, Ids
<1>3. UNCHANGED <<accepted, received>>
  BY DEF DelRecordPowerCut, history
<1> QED
  BY <1>2, <1>3, MarkingReleases

\* Every step of the journal is a step of the ledger or changes nothing of it.
LEMMA NextRefines ==
  ASSUME IInv, IInv', [Next]_vars PROVE [L!Next]_(L!vars)
<1>1. CASE SaveRecord
  BY <1>1, SaveRecordRefines
<1>2. CASE RdReRecord
  BY <1>2, RdReRecordRefines
<1>3. CASE ReceiveReply
  <2>1. reply \in SUBSET accepted
    BY DEF IInv, Provenance
  <2>2. received' = received \cup reply /\ UNCHANGED <<consume, accepted>>
    BY <1>3 DEF ReceiveReply, history
  <2> QED
    BY <2>1, <2>2, SendingReceives
<1>4. CASE DelRecord
  BY <1>4, DelRecordRefines
<1>5. CASE DelRecordPowerCut
  BY <1>5, DelRecordPowerCutRefines
<1>6. CASE ClrPosDatas
  BY <1>6, ClrPosDatasRefines
<1>7. CASE UNCHANGED <<consume, accepted, received>>
  BY <1>7 DEF Held, Uncollected, L!vars
<1>8. CASE \/ \E nums \in 0..(RD_BATCH + 1) : RdRecord(nums) \/ RdSortPrince(nums)
           \/ DelReRecord \/ LoseReply \/ PowerCut
           \/ QtQueryBegin \/ QtQueryEnd \/ UNCHANGED vars
  <2>1. UNCHANGED <<consume, accepted, received>>
    BY <1>8 DEF RdRecord, RdSortPrince, DelReRecord, LoseReply, PowerCut, PowerUp,
       QtQueryBegin, QtQueryEnd, vars, history
  <2> QED
    BY <1>7, <2>1
<1> QED
  BY <1>1, <1>2, <1>3, <1>4, <1>5, <1>6, <1>8 DEF Next

\* The journal, with its ids, tags, counts, lost replies and power cuts, gives a
\* record up only when the server has it or has the journal cleared.
THEOREM JournalIsLedger ==
  ASSUME NoWrap, Undisturbed PROVE Spec => LedgerSpec
<1>1. Init => L!Init
  BY InitRefines
<1>2. IInv /\ IInv' /\ [Next]_vars => [L!Next]_(L!vars)
  BY NextRefines
<1> QED
  BY <1>1, <1>2, Invariance, PTL DEF Spec, LedgerSpec, L!Spec
=============================================================================
